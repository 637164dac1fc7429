SPECIFICATION FairSpec
CONSTANTS
  Callers = {p1, p2}
  p1 = p1
  p2 = p2
  Nobody = Nobody
  MaxKernel = 2
  MaxCell = 1
INVARIANTS
  TypeOK
  RunningIsNamed
PROPERTIES
  ToldIsBooted
  NoticeDelivered
  KeyFreed
  TenancySpec
