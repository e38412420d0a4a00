CONSTANTS
  s1 = s1
  Session = {s1}
SPECIFICATION FifoSpec
PROPERTIES
  ShutdownHearsTerminalOnly
CHECK_DEADLOCK FALSE
