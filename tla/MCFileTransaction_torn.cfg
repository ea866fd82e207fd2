SPECIFICATION Spec
CONSTANTS
  N = 2
  MaxMoves = 0
  MaxFaults = 3
  PowerFails = TRUE
  LateFaults = FALSE
  Escapes = FALSE
  Racy = FALSE
INVARIANTS AllOrNothing
