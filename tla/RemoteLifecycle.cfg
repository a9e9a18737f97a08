SPECIFICATION FairSpec
CONSTANTS
  Ids = {s1}
  MaxDrops = 2
  MaxServers = 1
  MaxAgents = 1
INVARIANTS
  HandleHasProcess
  AwayIsTimed
PROPERTIES
  StopsUnwanted
  GivenUpIsNotAdopted
  ExitIsReported
  CallsReturn
CHECK_DEADLOCK FALSE
