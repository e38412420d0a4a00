CONSTANT MaxChunks = 3
SPECIFICATION FairSpec
INVARIANTS
  FinIsLast
  HalfCloseIsIndependent
PROPERTIES
  SessionEnds
\* The session ends, and is idle when nobody sends.
CHECK_DEADLOCK FALSE
