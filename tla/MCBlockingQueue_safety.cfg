CONSTANTS
  p1 = p1  p2 = p2  c1 = c1  c2 = c2  k = k
  Threads = {p1, p2, c1, c2, k}
  Items = {x, y}
  Roles <- AllRoles
  None = None
SPECIFICATION Spec

INVARIANTS QueueInv ExactlyOnceInOrder
PROPERTY ImplementsFifo
CHECK_DEADLOCK FALSE
