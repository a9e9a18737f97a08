SPECIFICATION Spec
CONSTANTS
  Sessions = {s1, s2, s3}
  MaxRestarts = 1
SYMMETRY Symmetry
INVARIANTS WorkIsKept Isolated WorktreesGo
CHECK_DEADLOCK FALSE
