CONSTANTS
  s1 = s1
  s2 = s2
  Session = {s1, s2}
SPECIFICATION FairSpec
INVARIANTS
  NoCancellationOverwritten
PROPERTIES
  TerminalEndsServer
  PartialEndsServer
  ImplementsFairScope
CHECK_DEADLOCK FALSE
