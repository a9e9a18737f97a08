SPECIFICATION Spec
CONSTANTS
  Goroutines = {g1, g2}
  Fragments <- MCFragments
  Scopes <- MCScopes
SYMMETRY Symmetry
INVARIANTS TextIsKept TurnsApart TypingStops
CHECK_DEADLOCK FALSE
