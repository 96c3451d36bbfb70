SPECIFICATION FairSpec
CONSTANTS
  Settings = {tbefn, uretinex}
  SessionFaults = {"startup", "shapes"}
  InferenceFails = TRUE
  MaxSwaps = 2
  None = None
INVARIANTS
  EnhanceInvariant
PROPERTIES
  NewModelShows
  CallbacksEnd
CHECK_DEADLOCK FALSE
