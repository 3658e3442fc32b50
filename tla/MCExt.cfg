SPECIFICATION FairSpec
CONSTANTS
  Sessions = 2
  Players = {p1, p2}
  MaxMissions = 2
  MaxPublish = 1
  NoOne = NoOne
CONSTRAINT FirstPlayer
INVARIANTS GameHivesLive DeletedOnce CommitDataLive CommitLast OutputInMission CrashReported
PROPERTIES CommitCleans CrashEnds
CHECK_DEADLOCK FALSE
