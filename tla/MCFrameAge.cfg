\* integers of four bits; pictures and canvases of up to eight pixels a side
SPECIFICATION Spec
CONSTANTS
  MaxInt = 7
  MaxAge = 2
  MaxStep = 1
  MaxFrames = 3
  MetadataSize = 2
  MaxFrameSide = 8
  MaxCanvasSide = 8
INVARIANTS
  VerdictIsFair
  DriftIsNotDelay
  PicturesFillCanvas
CHECK_DEADLOCK FALSE
