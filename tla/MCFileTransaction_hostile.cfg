SPECIFICATION Spec
CONSTANTS
  N = 2
  MaxMoves = 2
  MaxFaults = 1
  PowerFails = TRUE
  LateFaults = TRUE
  Escapes = TRUE
  Racy = FALSE
INVARIANTS TypeOK AllOrNothing CommitIsDurable
PROPERTIES UserDataKept
