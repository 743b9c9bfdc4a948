SPECIFICATION FairSpec
CONSTANTS
  Calls = {c1, c2, c3, e1}
  Events = {e1}
CHECK_DEADLOCK FALSE
INVARIANTS
  TypeOK
  OneAtATime
  OwnResponse
PROPERTIES
  LocksAreFifo
  CallsEnd
