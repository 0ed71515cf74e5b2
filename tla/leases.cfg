SPECIFICATION BooksFairSpec
CONSTANTS
  phoneA = phoneA
  phoneB = phoneB
  a1 = a1
  a2 = a2
  b1 = b1
  s1 = s1
  Scope = {s1}
  Installation = {phoneA, phoneB}
  Connection = {a1, a2, b1}
  OwnerOf <- MCOwnerOf
  LeaseTTL = 2
  ReclaimWindow = 3
  MaxLeases = 2
  MaxQueued = 1
INVARIANTS WritesAreAuthorised BookNamesLease
PROPERTIES ControlMovesForward SeizedOnlyByTakeover HolderLearnsLease DeadControllerExpires
CHECK_DEADLOCK FALSE
