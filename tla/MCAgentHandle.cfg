SPECIFICATION Spec
CONSTANTS
  h1 = h1
  h2 = h2
  t1 = t1
  t2 = t2
  CliHandles = {h1}
  HostHandles = {h2}
  Tasks = {t1, t2}
  None = None
  Cap = 1
  MaxTurns = 2
INVARIANTS
  TypeOK
  NothingLeftBehind
  BilledWhileRunning
  NoPhantoms
  SettlerAtHand
PROPERTIES
  OneTurnAtATime
  AgentSpec
SYMMETRY Alike
