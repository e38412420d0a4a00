CONSTANTS
  Connection = {c1, c2}
  MaxWorkers = 1
  MaxBytes = 2
SPECIFICATION Spec
INVARIANT EchoIsExact
PROPERTIES
  SessionsAreIndependent
  TimeoutEndsSession
  EverybodyIsServed
\* Clients need not connect or send, and the server may have ended.
CHECK_DEADLOCK FALSE
