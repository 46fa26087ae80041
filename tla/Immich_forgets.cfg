CONSTANTS
  Dir = {d1, d2}
  Capacity = 3
  MaxChanges = 2
  MaxLosses = 0
  MaxRestarts = 0
  d1 = d1
  d2 = d2
  None = None

SPECIFICATION Spec
INVARIANTS InSync
SYMMETRY DirSymmetry
CHECK_DEADLOCK FALSE
