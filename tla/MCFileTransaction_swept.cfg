SPECIFICATION Spec
CONSTANTS
  N = 1
  MaxMoves = 0
  MaxFaults = 2
  PowerFails = FALSE
  LateFaults = FALSE
  Escapes = TRUE
  Racy = FALSE
INVARIANTS OriginalSafe
