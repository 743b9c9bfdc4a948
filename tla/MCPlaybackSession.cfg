SPECIFICATION Spec
CONSTANTS
  Clients = {1}
  Pids = {1, 2}
  Trace <- Deferrals
  RingSize = 2
  DeferralTimeLimit = 1
  Capacity = 2
  ReadBufferSize = 1
  MainStops = TRUE
  StopRaces = FALSE
  MaxCalls = 2
CHECK_DEADLOCK FALSE
INVARIANTS
  TypeOK
  ThreadsEndFirst
  TargetsTracked
  NoGaps
