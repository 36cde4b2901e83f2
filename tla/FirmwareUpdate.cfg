SPECIFICATION FairSpec
CONSTANTS
  MaxConnectors = 2
  t1 = t1
  t2 = t2
  Tags <- MCTags
  NoTag = NoTag
  MaxIds = 2
  Requests <- MCRequests
  StartRequests <- MCStartRequests
  ReserveConnectorZeroSupported = TRUE
  MaxRequests = 4
  MaxAsks = 3
  MaxCancels = 1
  MaxStarts = 2
  MaxEvents = 2
  FailureStatuses <- MCFailureStatuses
  FirmwareReset = TRUE
  MaxUpdates = 1
INVARIANTS
  TypeOK
  NothingReservedTwice
  ReservationsAgree
PROPERTIES
  UpdateSettles
CHECK_DEADLOCK FALSE
