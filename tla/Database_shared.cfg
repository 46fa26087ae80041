CONSTANTS
  Process = {p1, p2, p3}
  Entry = {e1, e2}
  Trouble = {"crash", "diskFull"}
  p1 = p1
  p2 = p2
  p3 = p3
  e1 = e1
  e2 = e2
  Missing = Missing
  New = {new}
  Torn = {torn}
  new = new
  torn = torn

SPECIFICATION Spec
INVARIANTS TypeOK LocksInv
PROPERTIES FailsOnlyDamaged ReadersUndisturbed
CHECK_DEADLOCK FALSE
