CONSTANTS
  Raw = {}
  Jpg = {b}
  Odd = {}
  MaxEdits = 1
  Capacity = 1
  KernelCap = 1
  Daemon = TRUE
  Env = {"moveTo", "crash"}
  MaxOps = 2
  MaxRestarts = 1
  b = b
  None = None
  Absent = Absent
  Partial = Partial
  Unread = Unread

SPECIFICATION Spec
INVARIANTS AllUpToDate
CHECK_DEADLOCK FALSE
