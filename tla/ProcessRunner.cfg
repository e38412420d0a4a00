SPECIFICATION Spec
CONSTANTS
  MaxOut = 2
  MaxErr = 0
  MaxSignals = 2
  MaxIgnore = 1
INVARIANTS
  LogIsExact
  NoUseAfterFree
PROPERTIES
  ExitEndsExecute
  TermEndsExecute
