CONSTANTS
  Task = {t1, t2, t3}
  PoolThread = {w1, w2}
  ContextThread = {c1, c2}
  Main = c1
  None = None
  Session = {s1, s2, s3}
SPECIFICATION ScopesSpec
INVARIANTS
  RunReturnsLast
  NoDataRace
  SocketsAreLive
PROPERTIES
  RunReturns
  ShutSessionsEnd
  ImplementsScope
\* The programs end; RunReturns and ShutSessionsEnd say that they do not stop before.
CHECK_DEADLOCK FALSE
