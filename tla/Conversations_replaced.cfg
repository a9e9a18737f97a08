SPECIFICATION Spec
CONSTANTS
  MaxRestarts = 1
  MaxPrompts = 1
  MaxUpdates = 0
  MaxCloses = 1
INVARIANT ReplacedIsReady
CHECK_DEADLOCK FALSE
