SPECIFICATION FairSpec
CONSTANTS
  Player = {p1, p2}
  MaxSessions = 2
  Initial = 0
  MaxKills = 2
  MaxInbox = 1
  None = None
INVARIANTS ListsAgree SessionsReleased
PROPERTIES FinalIsWritten Served
CHECK_DEADLOCK FALSE
