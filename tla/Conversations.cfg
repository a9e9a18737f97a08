SPECIFICATION Spec
CONSTANTS
  MaxRestarts = 1
  MaxPrompts = 1
  MaxUpdates = 0
  MaxCloses = 1
INVARIANTS
  LiveIsUnfinished
  StoreKeepsUp
PROPERTIES
  EachLivesOnce
CHECK_DEADLOCK FALSE
