SPECIFICATION Spec
CONSTANTS
  p1 = p1
  b1 = b1
  f1 = f1
  g1 = g1
  g2 = g2
  Pids = {p1}
  Background = {b1}
  Foreground = {f1}
  Tools = {g1, g2}
  Stranger = Stranger
  None = None
INVARIANTS
  TypeOK
  NoneAstray
PROPERTY NoStrangerKilled
CONSTRAINT Few
SYMMETRY Sym
