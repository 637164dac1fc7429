SPECIFICATION FairSpec
CONSTANTS
  Clients = {c1, c2}
  c1 = c1
  c2 = c2
  Probers = {c2}
  SlowStart = TRUE
  MaxInc = 2
  MaxReq = 2
INVARIANTS
  AnswerIsOwn
  BlockingMarkerIsCurrent
PROPERTIES
  SlotSpec
  IdsNeverReused
  SubmitLockReleased
CHECK_DEADLOCK FALSE
