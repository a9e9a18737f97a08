SPECIFICATION Spec
CONSTANTS
  Limit = 3
  MaxChunk = 2
  MaxRead = 2
  MaxBytes = 3
  MaxDrops = 1
  MaxRestarts = 1
PROPERTY
  AdoptionSkipsNothing
CHECK_DEADLOCK FALSE
