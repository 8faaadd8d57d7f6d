SPECIFICATION Spec
CONSTANTS
  MaxFrames = 2
  SaveFrames = 2
  CommandLines <- MCCommandLines
  Packets = 4
INVARIANT NoUseAfterRelease
CHECK_DEADLOCK FALSE
