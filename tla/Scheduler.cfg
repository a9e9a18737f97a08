SPECIFICATION FairSpec
CONSTANTS
  CommitHook = TRUE
  MaxRuns = 3
  MaxUpsets = 1
  MaxFollows = 1
INVARIANTS
  OneAtATime
  TurnIsNotCut
PROPERTIES
  JobIsReleased
  OneShotEnds
CHECK_DEADLOCK FALSE
