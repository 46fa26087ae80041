CONSTANTS
  top = top
  event = event
  day = day
  more = more
  raw = raw
  jpg = jpg
  Dirs <- Chain
  Base = top
  Parent <- ChainParent
  Under <- ChainUnder
  Raw = {raw}
  Jpg = {jpg}
  Odd = {}
  In <- InEventDay
  Permits = 2
  Handles = 7
  Env = {"rate", "replace", "removeTree", "makeDir", "exportFails", "overflow", "crash"}
  MaxOps = 1
  MaxScans = 1
  None = None

SPECIFICATION FairSpec
INVARIANTS TypeOK NobodyLeft TargetsStay CountIsRight TreeMirrored
PROPERTIES ScanEnds
CHECK_DEADLOCK FALSE
