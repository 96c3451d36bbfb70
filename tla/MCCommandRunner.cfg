\* `start-server' of one source, at whose expense reads and waits fail; the removal of
\* a forward of another, which prints nothing
SPECIFICATION FairSpec
CONSTANTS
  Runners = {r1, r2}
  Starters = {r1}
  Stoppable = {r1}
  Unlucky = {r1}
  Writers = {r1}
  MaxOutput = 1
INVARIANTS
  NothingLeftBehind
  ResultIsTrue
  ReapedIsNotKilled
PROPERTY RunsReturn
\* both commands have returned
CHECK_DEADLOCK FALSE
