SPECIFICATION Spec
CONSTANTS
  Sessions = 2
  Players = {p1, p2}
  MaxMissions = 2
  MaxPublish = 0
  NoOne = NoOne
INVARIANTS OutputReachesOwner
CHECK_DEADLOCK FALSE
