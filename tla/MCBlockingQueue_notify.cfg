CONSTANTS
  p1 = p1  p2 = p2  c1 = c1  c2 = c2  k = k
  Threads = {p1, p2, c1, c2}
  Items = {x, y}
  Roles <- PlainRoles
  None = None
SPECIFICATION FairSpec

INVARIANT NoLostNotification
PROPERTY SleepersAreServed
CHECK_DEADLOCK FALSE
