SPECIFICATION Spec
CONSTANTS
  CommitHook = TRUE
  MaxRuns = 2
  MaxUpsets = 0
  MaxFollows = 1
INVARIANT
  FollowUpIsSent
CHECK_DEADLOCK FALSE
