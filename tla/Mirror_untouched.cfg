CONSTANTS
  Raw = {a}
  Jpg = {}
  Odd = {}
  MaxEdits = 1
  Capacity = 1
  KernelCap = 1
  Daemon = FALSE
  Env = {}
  MaxOps = 0
  MaxRestarts = 0
  a = a
  None = None
  Absent = Absent
  Partial = Partial
  Unread = Unread

SPECIFICATION Spec
INVARIANTS NeverFails
CHECK_DEADLOCK FALSE
