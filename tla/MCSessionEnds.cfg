SPECIFICATION OrderedFairSpec
CONSTANTS
  Conn = {c1, c2, c3, c4, c5}
  Holder <- TwoSessions
  PoolSize = 2
  NoConn = NoConn
  Sessions = 2
  Account = {"p1"}
  AccountOf <- SamePlayer
  StartLeft = {0}
  MaxVal = 1
  MaxFailures = 1
INVARIANTS Exclusive Conserved
PROPERTIES CommitEnds BorrowGetsOn
CHECK_DEADLOCK FALSE
