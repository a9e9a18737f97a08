SPECIFICATION FairSpec
CONSTANTS
  Limit = 2
  MaxChunk = 2
  MaxRead = 2
  MaxBytes = 3
  MaxDrops = 1
  MaxRestarts = 1
INVARIANTS
  TypeOK
  ReconnectIsClean
  EOFIsComplete
PROPERTIES
  ReaderGetsStream
  AcksFollowReader
  EveryByteRead
  ExitIsSettled
CHECK_DEADLOCK FALSE
