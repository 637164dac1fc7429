SPECIFICATION Spec
CONSTANTS
  Callers = {p1, p2}
  p1 = p1
  p2 = p2
  Nobody = Nobody
  MaxKernel = 2
  MaxCell = 0
INVARIANT
  RestartKeepsConfig
