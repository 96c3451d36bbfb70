\* callbacks, ticks and renders overlap freely
SPECIFICATION Spec
CONSTANTS
  None = None
  Callers = {c1, c2}
  Images = {i1, i2}
  Settings <- MCNativeAndLegacy
  Every = 1
  InferenceFaults = {}
  SessionFaults = {}
  GraphicsOverlaps = TRUE
  MaxFrames = 2
  MaxGeneration = 4
SYMMETRY MCSymmetry
INVARIANTS
  IndInv
  NoStaleMatte
  DisabledHasNoMatte
PROPERTY ImplementsLatestMatte
