SPECIFICATION Spec
CONSTANTS
  MinFlush = 3
  MaxFlush = 5
  Sizes = {1, 3, 6, 9, 12}
  SaveVideo = TRUE
  MaxFrames = 4
  MaxLost = 2
INVARIANT SavedVideoComplete
CHECK_DEADLOCK FALSE
