CONSTANTS
  Peers = {1, 2, 3, 4}
  Count = 3
  Parallel = 2
  MaxAnswer = 1
  LENGTH = 3
  Self <- Me
  NODES_PER_BUCKET = 2
  MAX_INACTIVE_PERIOD = 1
  N2NPIds = {"x"}
  Others <- FourPeers
  Address <- OneAddress
  Targets <- TwoTargets
  MaxFinds = 2
  MaxTime = 2
  MaxWaiting = 1
  MSEC = 3
  Epsilon = 1
  Delays = {1, 2, 7}
  MaxClock = 27
  Writers = {t1, t2}
  MaxLines = 1
  MaxRequests = 3
  Nobody = Nobody
  Streams <- TwoPackets
  LengthOf <- OneOrTwo
SPECIFICATION AllSpec
INVARIANTS SearchInv OneResult FoundIsClosest NoStaleConnection TableInv NearestAreNearest AnswersAreReadable NeverASecondLate DoneMeansFlushed CutsDoNotMatter
PROPERTIES ActiveStays SearchEnds
CHECK_DEADLOCK FALSE
