SPECIFICATION Spec
CONSTANTS
  Ids = {s1}
  MaxDrops = 2
  MaxServers = 0
  MaxAgents = 0
INVARIANT GivenUpIsStopped
CHECK_DEADLOCK FALSE
