CONSTANTS
  c1 = c1
  c2 = c2
  Callers = {c1, c2}
  Cap = 1
  CrashLimit = 1
  MaxGen = 3
SPECIFICATION Spec
INVARIANTS TypeOK SlotsConserved WithinCap
PROPERTY CallsSpec
SYMMETRY Alike
CHECK_DEADLOCK FALSE
