SPECIFICATION FairSpec
CONSTANTS
  Pids = {1, 2}
  Mortal = {1}
  MaxCalls = 2
  MaxEvents = 1
CHECK_DEADLOCK FALSE
INVARIANTS
  TypeOK
  ClearedAlone
  ClosedStaysClean
  ConsumerOutlivesThreads
  StreamingMeansEnabled
  StoppedAtEnd
PROPERTIES
  WaitsEnd
