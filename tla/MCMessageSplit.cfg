SPECIFICATION Spec
CONSTANTS
  Limit = 12
  Texts <- MCTexts
INVARIANT EveryChunkTakes
CHECK_DEADLOCK FALSE
