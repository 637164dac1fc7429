SPECIFICATION Spec
CONSTANTS
  Clients = {c1, c2, c3}
  c1 = c1
  c2 = c2
  c3 = c3
  Probers = {}
  SlowStart = FALSE
  MaxInc = 3
  MaxReq = 3
INVARIANTS
  TypeOK
  AdmittedOnlyWhenFree
PROPERTY FeedSpec
CHECK_DEADLOCK FALSE
SYMMETRY Alike
