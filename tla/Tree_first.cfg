CONSTANTS
  top = top
  event = event
  day = day
  more = more
  raw = raw
  jpg = jpg
  Dirs <- Chain
  Base = top
  Parent <- ChainParent
  Under <- ChainUnder
  Raw = {raw}
  Jpg = {jpg}
  Odd = {}
  In <- InEventDay
  Permits = 1
  Handles = 7
  Env = {"rate"}
  MaxOps = 1
  MaxScans = 1
  None = None

SPECIFICATION Spec
INVARIANTS HandlerFindsTarget
CHECK_DEADLOCK FALSE
