CONSTANTS
  Modulus = 4
  MaxCount = 2
  Sides = {one, other}
  MaxBatches = 3
  BATCH = 4
  LowWeight = 8
  Pulses <- ConstPulses
  Offsets <- ConstOffsets
  Contents <- ConstContents
  MaxEvents = 22
  Fifos <- BobFifos
  MaxFaults = 4
  Clients = {c1, c2}
  Courteous = {c1, c2}
  MaxLines = 3
  None = None
SPECIFICATION PartsSpec
CHECK_DEADLOCK FALSE
INVARIANTS
  NothingUnaccounted
  SameBatches
  CountersRise
  DecodesAsSent
  OpensFresh
  AnswersPaired
PROPERTIES
  ImplementsAtomic
  CallsReturn
  Reconnects
  EachAnswered
