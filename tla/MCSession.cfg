SPECIFICATION OrderedSpec
CONSTANTS
  Conn = {c1, c2, c3, c4}
  Holder <- TwoSessions
  PoolSize = 4
  NoConn = NoConn
  Sessions = 2
  Account = {"p1"}
  AccountOf <- SamePlayer
  StartLeft = {0, 4, 5}
  MaxVal = 1
  MaxFailures = 2
INVARIANTS PoolClean OneOwner SavedIsDurable
PROPERTIES NoLostUpdate DitchMoves
CHECK_DEADLOCK FALSE
