SPECIFICATION Spec
CONSTANTS
  Player = {p1, p2}
  MaxSessions = 3
  MaxKills = 3
  Initial = 1
  MaxInbox = 1
  None = None
PROPERTY AccountKept
CHECK_DEADLOCK FALSE
