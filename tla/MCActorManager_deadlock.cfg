CONSTANTS
  Workers = {w1, w2}
  Posters = {u}
  Actors = {a, b}
  HandlerCalls <- AddingHandlers
  MaxPosts = 3
  None = None
SPECIFICATION Spec
INVARIANT NoLockCycle
CHECK_DEADLOCK FALSE
