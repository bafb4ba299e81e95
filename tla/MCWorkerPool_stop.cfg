CONSTANTS
  Users = {p, r, k}
  Posters = {p}
  Resizers = {r}
  Stoppers = {k}
  Sizes = {1, 3}
  NumWorkers = 2
  LateCalls = FALSE
  MaxIds = 4
  MaxPosts = 2
  MaxResizes = 2
  None = None
SPECIFICATION FairSpec
INVARIANTS StoppingInv CountIsExact JoinedOnce StoppedMeansGone
PROPERTY StopReturns
CHECK_DEADLOCK FALSE
