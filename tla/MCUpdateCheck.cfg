\* every pair of this build's version and a release's tag; two property pages
SPECIFICATION FairUpdateSpec
CONSTANTS
  None = None
  Pages = {p1, p2}
  Releases <- MCReleases
  Malformed <- MCMalformed
INVARIANTS
  CheckEndsBeforeUnload
  OnlyNewerIsOffered
PROPERTY UnloadReturns
\* the module is unloaded or was refused
CHECK_DEADLOCK FALSE
