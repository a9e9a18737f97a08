SPECIFICATION Spec
CONSTANTS
  MaxConvs = 3
  Goroutines = {g1, g2}
  DotLimit = 2
  Cap = 1
  MaxFlights = 1
  MaxEvents = 4
INVARIANT ViewedHasEnded
CHECK_DEADLOCK FALSE
