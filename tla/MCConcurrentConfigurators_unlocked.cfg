SPECIFICATION Spec
CONSTANTS
  p = p
  q = q
  r = r
  Proc = {p, q}
  Unlocked = {q}
  N = 2
  MaxFaults = 0
INVARIANTS FilesAgree
CHECK_DEADLOCK FALSE
