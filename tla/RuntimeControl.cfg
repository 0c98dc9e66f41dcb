CONSTANTS
  Clients = {"operator", "other"}
  Players = {"alice"}
  Requests <- MCRequests
  MaxBacklog = 1
  None = None
SPECIFICATION FairSpec
INVARIANTS
  TypeOK
  OneOutstanding
  FlagMatchesPause
  NoPauseWhileRecalibrating
  OkInOrder
PROPERTIES
  ServerReturns
CHECK_DEADLOCK FALSE
