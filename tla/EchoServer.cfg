CONSTANTS
  s1 = s1
  s2 = s2
  s3 = s3
  Session = {s1, s2, s3}
SYMMETRY Symmetry
SPECIFICATION Spec
INVARIANTS
  NoLostWakeup
  NoSessionEscapes
  NoStaleCancellation
PROPERTIES
  TerminalIsFinal
  ImplementsScope
\* The server may stop: it returns after a cancellation, and it is idle when
\* every client has been served and no signal arrives.
CHECK_DEADLOCK FALSE
