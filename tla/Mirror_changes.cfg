CONSTANTS
  Raw = {a}
  Jpg = {}
  Odd = {}
  MaxEdits = 1
  Capacity = 2
  KernelCap = 2
  Daemon = TRUE
  Env = {"rewrite", "moveTo", "deleted", "movedFrom", "other", "crash", "immich"}
  MaxOps = 3
  MaxRestarts = 1
  a = a
  None = None
  Absent = Absent
  Partial = Partial
  Unread = Unread

SPECIFICATION FairSpec
INVARIANTS TypeOK SkipIsRight LastWord NoLostChange UpToDate
PROPERTIES EventuallyMirrored
CHECK_DEADLOCK FALSE
