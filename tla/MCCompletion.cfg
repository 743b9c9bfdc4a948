SPECIFICATION Spec
CONSTANTS
  RingSize = 2
  ProcessOf <- AppAndDwm
  DwmProcess = 2
  SwapChains = {1}
  Backpressure = FALSE
  Starts <- TwoThenOne
  Composed = {2}
  Surfaces = {}
  MaxDependents = 1
INVARIANTS
  TypeOK
  InOnePlace
  DisplayedInOrder
  RecursionSafe
  WaitsForDwm
  ThreadsLead
PROPERTIES
  FirstCompletionDiscards
  CompletionAdvances
