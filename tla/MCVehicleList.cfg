SPECIFICATION FairSpec
CONSTANTS
  Clients = 3
  Count = 2
  BlockSize = 1
  MaxRespawns = 1
INVARIANTS EntriesCurrent
PROPERTIES Joins
CHECK_DEADLOCK FALSE
