SPECIFICATION FairSpec
CONSTANTS
  StreamOrder <- HostAndChat
  HostStream = "host"
  SummaryStream = {"chat"}
  Peer = {"peer"}
  MaxEvents = 2
  MaxDisconnects = 2
  MaxAppRestarts = 1
  MaxReselects = 1
INVARIANTS ReadyMeansCurrent NoGapInFullDetail
 
CHECK_DEADLOCK FALSE
