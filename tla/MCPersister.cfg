CONSTANTS
  MaxConvs = 2
  Opts <- MCOpts
  Past <- MCPast
  Updates <- MCUpdates
  Responses <- MCResponses
  ProjectNames = {"p", "x"}
  Names <- MCNames
  MaxEvents = 3
SPECIFICATION Spec
INVARIANTS SameAnswers SameTables TurnsCounted OpenIsLive
CHECK_DEADLOCK FALSE
