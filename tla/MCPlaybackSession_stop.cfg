SPECIFICATION FairSpec
CONSTANTS
  Clients = {1}
  Pids = {1, 2}
  Trace <- TwoProcesses
  RingSize = 1
  DeferralTimeLimit = 1
  Capacity = 2
  ReadBufferSize = 1
  MainStops = FALSE
  StopRaces = FALSE
  MaxCalls = 2
CHECK_DEADLOCK FALSE
PROPERTIES
  StopEnds
