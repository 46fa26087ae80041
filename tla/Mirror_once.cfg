CONSTANTS
  Raw = {a}
  Jpg = {}
  Odd = {c}
  MaxEdits = 1
  Capacity = 0
  KernelCap = 0
  Daemon = FALSE
  Env = {"rewrite", "moveTo", "deleted", "crash", "exportFails", "survive"}
  MaxOps = 2
  MaxRestarts = 2
  a = a
  c = c
  None = None
  Absent = Absent
  Partial = Partial
  Unread = Unread

SPECIFICATION Spec
PROPERTIES ScanIsExact ScanMirrors
CHECK_DEADLOCK FALSE
