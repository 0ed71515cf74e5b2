CONSTANTS
  CommandId = {c1, c2}
  prompt = prompt
  acquire = acquire
  session = session
  host = host
  Body = {prompt, acquire}
  NoBody = NoBody
  Scope = {session, host}
  ScopeOf <- MCScopeOf
  LocalBody = {acquire}
  MaxCrashes = 2
  MaxFaults = 1
SPECIFICATION FairSpec
INVARIANTS AtMostOnceDispatch CompletedMeansDone NothingForgotten RepliesAgree
PROPERTIES TerminalIsFinal EveryCommandSettles
CHECK_DEADLOCK FALSE
