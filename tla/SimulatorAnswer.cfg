CONSTANTS
    Stations = {s1, s2}
    Requests = {r1}
    NumberOfStations = 1
    Modes = {TRUE}
    MaxAdded = 1
    MaxMishaps = 0
SPECIFICATION Spec
INVARIANTS
    ClientAnswered
CHECK_DEADLOCK FALSE
