SPECIFICATION Spec
CONSTANTS
  Descriptors = 3
  Rows = 4
  Period = 2
  Day = 4
  Word = 8
  Starts = {0, 3}
  Span = 3
  MaxJumps = 1
  MaxPackets = 4
  MaxSetups = 1
INVARIANT HostReached
CHECK_DEADLOCK FALSE
