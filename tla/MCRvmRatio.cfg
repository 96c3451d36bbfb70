\* two callers, one of which applies settings; a picture that is turned
SPECIFICATION Spec
CONSTANTS
  Callers = {c1, c2}
  Editors = {c1}
  Sizes <- MCSizes
  Settings <- MCSettings
  None = None
INVARIANTS
  RatioFollowsMode
