SPECIFICATION Spec
CONSTANTS
  MaxFrames = 2
  SaveFrames = 2
  CommandLines <- MCCommandLines
  Packets = 4
INVARIANT FileModeReadsFile
CHECK_DEADLOCK FALSE
