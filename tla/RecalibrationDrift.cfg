CONSTANTS
  Modulus = 7
  MaxWire = 1
  MaxBatches = 3
  Clients = {first}
SPECIFICATION PairSpec
CHECK_DEADLOCK FALSE
INVARIANT StreamsRealigned
