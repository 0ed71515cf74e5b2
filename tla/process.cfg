SPECIFICATION ProcessFairSpec
CONSTANTS
  Request = {r1}
  RestartLimit = 2
  Window = 0
  MaxSpawns = 4
  MaxClock = 1
  MaxOutput = 2
  MaxRecords = 2
INVARIANTS NoOrphan
 
CHECK_DEADLOCK FALSE
