SPECIFICATION FairSpec
CONSTANTS
  RingSize = 2
  Backpressure = TRUE
  Processes = {1}
  Deferrals = {"stop", "flip"}
  Times = {0, 2}
  DeferralTimeLimit = 1
  MaxPresents = 4
INVARIANTS
  TypeOK
  ReadySettled
  HandedInOrder
  Accounted
PROPERTIES
  OfflineKeepsSettled
  NoStaleHead
  BlockedResumes
