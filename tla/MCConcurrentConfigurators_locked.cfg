SPECIFICATION Spec
CONSTANTS
  p = p
  q = q
  r = r
  Proc = {p, q, r}
  Unlocked = {}
  N = 2
  MaxFaults = 2
SYMMETRY Symmetry
INVARIANTS TypeOK FilesAgree OwnJournal NoLostUpdate
PROPERTIES ImplementsAtomicUpdate
CHECK_DEADLOCK FALSE
