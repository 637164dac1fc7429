SPECIFICATION Spec
CONSTANTS
  w1 = w1
  Callers = {w1}
  MaxCell = 2
  Chunk = 1
  MaxOut = 2
  Verbose = {2}
  MaxInc = 2
INVARIANT TypeOK
PROPERTIES
  AnswersTrue
  NothingTwice
  StruckAsMeant
  FeedSpec
  WaitEnds
