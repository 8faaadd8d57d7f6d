SPECIFICATION Spec
CONSTANTS
  MinFlush = 3
  MaxFlush = 5
  Sizes = {1, 3, 6, 9, 12}
  SaveVideo = FALSE
  MaxFrames = 4
  MaxLost = 2
INVARIANTS TypeOK NoByteLostOrRepeated OnlyForward LossIsContained PayloadBounded
PROPERTIES KeepsStreamPromise
CHECK_DEADLOCK FALSE
