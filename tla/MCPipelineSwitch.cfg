\* one callback at a time, every device and mode, sessions and inferences that fail
SPECIFICATION FairSpec
CONSTANTS
  None = None
  Callers = {c1}
  Images = {i1}
  Settings <- MCDevices
  Every = 2
  InferenceFaults = {"ort", "std"}
  SessionFaults = {"gpu", "cpu"}
  GraphicsOverlaps = FALSE
  MaxFrames = 2
  MaxGeneration = 4
INVARIANTS
  MatteFromSelectedModel
  RecurrentStateIsCurrent
  NoMixedMatte
PROPERTIES
  CallbacksReturn
  PendingFrameLeaves
