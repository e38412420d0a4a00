CONSTANTS
  s1 = s1
  s2 = s2
  s3 = s3
  Session = {s1, s2, s3}
SPECIFICATION FairSpec
INVARIANTS
  NoUseAfterFree
  MapOwnsTasks
PROPERTIES
  SignalEndsAll
\* The programs end, and are idle without clients.
CHECK_DEADLOCK FALSE
