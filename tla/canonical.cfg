CONSTANTS
  Event = {e1, e2, e3, e4}
  Batch = 2
  PendingLimit = 1
  CacheReadLimit = 5
  MaxDisconnects = 2
  MaxAppRestarts = 1
  MaxReselects = 1
  MaxRefusals = 1
SPECIFICATION FairSpec
INVARIANTS TranscriptIsPrefix QuietMeansCurrent
PROPERTIES ReplicaSafe CatchesUp
CHECK_DEADLOCK FALSE
