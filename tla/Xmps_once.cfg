CONSTANTS
  User = {u1, u2, u3}
  Content = {rated, unrated, absent}
  u1 = u1
  u2 = u2
  u3 = u3
  rated = rated
  unrated = unrated
  absent = absent
  None = None
  Vacant = Vacant
  Loading = Loading

SPECIFICATION FairSpec
INVARIANTS TypeOK OneReader
PROPERTIES ReadsOnce AllAnswered
CHECK_DEADLOCK FALSE
