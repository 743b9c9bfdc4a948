SPECIFICATION FairSpec
CONSTANTS
  Clients = {1}
  Pids = {1}
  Trace <- StuckHead
  RingSize = 2
  DeferralTimeLimit = 1
  Capacity = 2
  ReadBufferSize = 1
  MainStops = TRUE
  StopRaces = FALSE
  MaxCalls = 2
CHECK_DEADLOCK FALSE
PROPERTIES
  PlaybackCompletes
  StopEndsOrStuck
