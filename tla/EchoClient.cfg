\* 4 bit integers, buffers of 2 bytes.  The client has a limit, a deadline, or both.
CONSTANTS
  Width = 4
  Limit = 9
  BufferSize = 2
  Capacity = 2
  MaxTotal = 11
  MaxAddrs = 2
SPECIFICATION FairSpec
INVARIANTS
  Conservation
  NothingLost
  LimitReached
PROPERTIES
  Finishes
\* The client ends.
CHECK_DEADLOCK FALSE
