SPECIFICATION Spec
CONSTANTS
  Pids = {1}
  Mortal = {1}
  MaxCalls = 2
  MaxEvents = 1
CHECK_DEADLOCK FALSE
INVARIANTS
  NoTransition
