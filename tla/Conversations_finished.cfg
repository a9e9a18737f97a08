SPECIFICATION Spec
CONSTANTS
  MaxRestarts = 0
  MaxPrompts = 1
  MaxUpdates = 0
  MaxCloses = 1
INVARIANT FinishedStays
CHECK_DEADLOCK FALSE
