\* log() with a read that has completed when it is cancelled.
SPECIFICATION Spec
CONSTANTS
  MaxOut = 2
  MaxErr = 0
  MaxSignals = 1
  MaxIgnore = 0
INVARIANT RemainingIsPrinted
