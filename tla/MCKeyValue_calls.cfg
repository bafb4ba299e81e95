CONSTANTS
  Nodes = {n1, n2}
  Sets = {s}
  Gets = {g}
  Rounds = {r}
  Values = {v}
  Redundancy = 2
  ErrorThreshold = 2
  None = None
SPECIFICATION FairSpec
INVARIANTS CallsInv SetIsQuorate GetFindsSet OneChain
PROPERTY AskingEnds
CHECK_DEADLOCK FALSE
