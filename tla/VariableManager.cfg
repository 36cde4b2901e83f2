SPECIFICATION Spec
CONSTANTS
    s1 = s1
    Stations = {s1}
    CachedStations = {s1}
    Registry <- MCRegistry
    Raws <- MCRaws
    SetRequests <- MCSetRequests
    GetRequests <- MCGetRequests
    TemplateKeys <- MCTemplateKeys
    RebootKeys = {}
    BootInterval = "60"
    ItemBytes = 8
    ResultBytes = 9
INVARIANTS
    TypeOK
    FileOrHashIsCurrent
    StoppedIsSaved
    TimersFollowKeys
    AcceptedReadsBack
CHECK_DEADLOCK FALSE
