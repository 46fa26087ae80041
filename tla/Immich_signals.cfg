CONSTANTS
  Dir = {d1, d2}
  Capacity = 3
  MaxChanges = 4
  MaxLosses = 2
  MaxRestarts = 1
  d1 = d1
  d2 = d2
  None = None

SPECIFICATION FairSpec
INVARIANTS TypeOK LibsOnServer ScanOwed LibrariesMatch
PROPERTIES EventuallyScanned
CHECK_DEADLOCK FALSE
