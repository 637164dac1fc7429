SPECIFICATION FairSpec
CONSTANTS
  Lockers = {l1, l2}
  Collectors = {g1}
  l1 = l1
  l2 = l2
  g1 = g1
  MaxInode = 3
  MaxKernel = 2
INVARIANT
  TypeOK
PROPERTIES
  NobodyStranded
  MutexSpec
CHECK_DEADLOCK FALSE
