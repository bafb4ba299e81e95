CONSTANTS
  p1 = p1  p2 = p2  c1 = c1  c2 = c2  k = k
  Threads = {p1, c1, k}
  Items = {x, y}
  Roles <- StopRoles
  None = None
SPECIFICATION FairSpec

PROPERTY PendingPopsReturn
CHECK_DEADLOCK FALSE
