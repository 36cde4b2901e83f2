SPECIFICATION Spec
CONSTANTS
  tagA = tagA
  tagB = tagB
  NoTag = NoTag
  Tags <- MCTags
  LocalTags <- MCLocalTags
  AuthorizeRemoteTxRequests = TRUE
  RequireAuthorize = TRUE
  OutOfOrderEnd = TRUE
  MaxConnectors = 1
  MaxStarts = 2
  MaxStops = 2
  MaxLoops = 2
  MaxChanges = 1
  MaxEvents = 2
CHECK_DEADLOCK FALSE
INVARIANTS
  TypeOK
  MeteringOnlyDuringTransaction
  DividerCountsTransactions
  ServerAndStationAgree
  StartedConnectorHasLoop
