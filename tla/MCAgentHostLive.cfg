CONSTANTS
  c1 = c1
  c2 = c2
  Callers = {c1, c2}
  Cap = 2
  CrashLimit = 1
  MaxGen = 2
SPECIFICATION FairSpec
INVARIANT RoomToWork
PROPERTIES NeverStranded SlotsReturn
CHECK_DEADLOCK FALSE
