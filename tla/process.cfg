SPECIFICATION FairSpec
CONSTANTS
  MaxFrames = 2
  SaveFrames = 2
  CommandLines <- MCCommandLines
  Packets = 4
INVARIANTS TypeOK HeldWhileStreaming AtMostOneLateFrame WaitsForSomebody CrashNeedsFile
PROPERTY InterruptEnds
CHECK_DEADLOCK FALSE
