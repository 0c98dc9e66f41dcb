CONSTANTS
  Players = {"alice"}
  ReadyFiles = {"alice"}
  ReadyPath <- OwnPath
  MaxEvents = 5
SPECIFICATION FairSpec
INVARIANTS
  TypeOK
  ResetOnlyWhileNodeIdle
  NoFalseReady
PROPERTIES
  AckStands
  RecalibrationCompletes
  ImplementsHandshake
