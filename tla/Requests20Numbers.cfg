SPECIFICATION Spec
CONSTANTS
    Stations = {cs1}
    Station = cs1
    RequestIds = {r1}
    Bases = {"FullInventory"}
    Parts <- MCParts
    MaxVersion = 1
    MaxReports = 2
    MaxRequests = 4
    Evses <- MCEvses
    Tokens = {"known"}
    LocalTokens = {"known"}
    LocalAuthListEnabled = TRUE
    RemoteAuthorization = FALSE
    Profiles <- MCProfiles
    Now = 0
    StopTransactionsOnStopped = TRUE
    Immediates <- MCImmediates
    OnIdles <- MCOnIdles
    MaxGeneration = 1
    cs1 = cs1
    r1 = r1
INVARIANTS ConnectorsKeepNumbers
CHECK_DEADLOCK FALSE
