SPECIFICATION Spec
CONSTANTS
  RingSize = 2
  ProcessOf <- AppAndDwm
  ProcessOrder <- AppFirst
  DwmProcess = 2
  SwapChains = {1}
  Windows = {1}
  Contexts = {1}
  SubmitSequences = {1}
  Tokens = {1}
  TokenData = {1}
  Win32KTokens = {1, 2}
  Layers = {1}
  DeferralTimeLimit = 1
  Scripts <- All
INVARIANTS
  TypeOK
  CompletionKept
