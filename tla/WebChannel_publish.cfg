SPECIFICATION Spec
CONSTANTS
  MaxConvs = 2
  Goroutines = {g1, g2}
  DotLimit = 1
  Cap = 1
  MaxFlights = 1
  MaxEvents = 3
INVARIANT NoPanic
CHECK_DEADLOCK FALSE
