SPECIFICATION TurnsFairSpec
CONSTANTS
  p1 = p1
  p2 = p2
  f1 = f1
  f2 = f2
  Prompt = {p1, p2, f1, f2}
  FollowUp = {f1, f2}
  None = None
  QueueLimit = 2
  MaxDialogs = 1
  MaxFaults = 1
INVARIANTS PromptShownOnce DispatchingHasOwner
PROPERTIES  QueueDrains
CHECK_DEADLOCK FALSE
