SPECIFICATION FairSpec
CONSTANTS
  r1 = r1
  r2 = r2
  r3 = r3
  Requests <- MCRequests
  ElementsPerWorker = 1
  MaxWorkers = 3
  MaxErrors = 1
CHECK_DEADLOCK FALSE
INVARIANTS
  TypeOK
  StopLeavesNoWorker
  OnlyCreatorsAreStranded
  CountCoversStations
PROPERTIES
  CallsOfLiveWorkersSettle
  StopEnds
