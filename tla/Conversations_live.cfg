SPECIFICATION FairSpec
CONSTANTS
  MaxRestarts = 0
  MaxPrompts = 1
  MaxUpdates = 1
  MaxCloses = 2
PROPERTIES
  DeadIsFinalized
  ClosedIsCleaned
  WaitReturns
CHECK_DEADLOCK FALSE
