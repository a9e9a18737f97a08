SPECIFICATION FairSpec
CONSTANTS
  Limit = 3
  MaxChunk = 1
  MaxLine = 2
  MaxBytes = 2
  MaxDrops = 1
  MaxRestarts = 1
INVARIANTS
  MessagesInOrder
  NoGluedLine
  ReconnectIsClean
PROPERTY
  EveryMessageGiven
CHECK_DEADLOCK FALSE
