SPECIFICATION Spec
CONSTANTS
  Lockers = {l1, l2}
  Collectors = {g1}
  l1 = l1
  l2 = l2
  g1 = g1
  MaxInode = 3
  MaxKernel = 2
INVARIANT
  LiveKernelIsOwned
CHECK_DEADLOCK FALSE
