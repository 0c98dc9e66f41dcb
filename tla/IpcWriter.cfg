CONSTANTS
  GcrUnits = 2
  Capacity = 3
  MaxQueue = 4
  MaxConnections = 3
SPECIFICATION FairSpec
CHECK_DEADLOCK FALSE
INVARIANTS
  TypeOK
  OwnConnection
  AttachAccepted
  WholeBatches
PROPERTIES
  CloseReturns
