SPECIFICATION Spec
CONSTANTS
  MaxConvs = 3
  Goroutines = {g1, g2}
  DotLimit = 2
  Cap = 1
  MaxFlights = 2
  MaxEvents = 4
INVARIANTS
  TaskbarIsFresh
  PillIsTrue
  StaysReachable
SYMMETRY Symmetry
CHECK_DEADLOCK FALSE
