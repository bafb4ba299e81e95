CONSTANTS
  Workers = {w1, w2}
  Posters = {u}
  Actors = {a, b}
  HandlerCalls <- PlainHandlers
  MaxPosts = 3
  None = None
SPECIFICATION FairSpec
INVARIANTS ManagerInv OneHandlerPerActor NoUseAfterFree NoLockCycle
PROPERTY KilledIsDeleted
CHECK_DEADLOCK FALSE
