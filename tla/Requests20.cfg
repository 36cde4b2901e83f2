SPECIFICATION Spec
CONSTANTS
    Stations = {cs1}
    Station = cs1
    RequestIds = {r1}
    Bases = {"FullInventory", "SummaryInventory"}
    Parts <- MCParts
    MaxVersion = 1
    MaxReports = 2
    MaxRequests = 3
    Evses <- MCEvse
    Tokens = {"known", "unknown"}
    LocalTokens = {"known", "unknown"}
    LocalAuthListEnabled = TRUE
    RemoteAuthorization = FALSE
    Profiles <- MCProfiles
    Now = 0
    StopTransactionsOnStopped = TRUE
    Immediates <- MCImmediates
    OnIdles <- MCOnIdles
    MaxGeneration = 1
    cs1 = cs1
    r1 = r1
INVARIANTS TypeOK ReportIsCurrent SettledConnector
PROPERTIES ClearedAfterEnded
CHECK_DEADLOCK FALSE
