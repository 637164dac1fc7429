SPECIFICATION Spec
CONSTANTS
  Clients = {c1, c2}
  c1 = c1
  c2 = c2
  Probers = {c2}
  SlowStart = FALSE
  MaxInc = 2
  MaxReq = 3
INVARIANT
  AdmittedOnlyWhenFree
CHECK_DEADLOCK FALSE
