SPECIFICATION PushSpec
CONSTANTS
  e1 = e1
  e2 = e2
  settled = settled
  failed = failed
  Passcode = {c1}
  Event = {e1, e2}
  Kind = {settled, failed}
  KindOf <- Kinds
  Nil = Nil
  Interval = 1
  PerMinute = 2
  Ceiling = 3
  StaleAfter = 0
  Retention = 0
  DedupFor = 1
  MaxTokens = 2
  MaxPairings = 2
  MaxClock = 3
  MaxFaults = 1
INVARIANTS NotifiedOnce LockedOutOnlyByLostAnswer 
CHECK_DEADLOCK FALSE
