SPECIFICATION Spec
CONSTANTS
  CommitHook = TRUE
  MaxRuns = 3
  MaxUpsets = 0
  MaxFollows = 1
INVARIANT
  RunsDoNotOverlap
CHECK_DEADLOCK FALSE
