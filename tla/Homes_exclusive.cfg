CONSTANTS
  Task = {t1, t2, t3}
  Slots = 2
  MaxHomes = 3
  Trouble = {"dropped", "restart"}
  t1 = t1
  t2 = t2
  t3 = t3
  None = None

SPECIFICATION Spec
INVARIANTS TypeOK HomesDistinct
PROPERTIES HomesExclusive
CHECK_DEADLOCK FALSE
