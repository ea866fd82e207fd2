SPECIFICATION FairSpec
CONSTANTS
  N = 2
  MaxMoves = 0
  MaxFaults = 3
  PowerFails = FALSE
  LateFaults = FALSE
  Escapes = FALSE
  Racy = FALSE
INVARIANTS OriginalSafe RecoveryAccepts NothingLeftBehind
PROPERTIES CommitIsFinal ImplementsAtomicUpdate Recovers
