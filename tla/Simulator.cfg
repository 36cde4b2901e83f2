CONSTANTS
    Stations = {s1, s2}
    Requests = {r1, r2}
    NumberOfStations = 1
    Modes = {TRUE, FALSE}
    MaxAdded = 2
    MaxMishaps = 1
SYMMETRY Symmetry
SPECIFICATION Spec
INVARIANTS
    TypeOK
    Quiet
    Counted
    UniqueIndexes
    Visible
    StopCommitted
CHECK_DEADLOCK FALSE
