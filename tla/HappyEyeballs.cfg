CONSTANT MaxEndpoints = 3
SPECIFICATION FairSpec
INVARIANTS
  FailureIsReal
  FallbackIsImmediate
PROPERTIES
  PrefersIPv6
  SuccessIsKept
  Ends
\* The program ends.
CHECK_DEADLOCK FALSE
