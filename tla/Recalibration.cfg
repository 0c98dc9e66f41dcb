CONSTANTS
  Modulus = 5
  MaxWire = 1
  MaxBatches = 1
  Clients = {first, second}
SPECIFICATION SteadySpec
CHECK_DEADLOCK FALSE
SYMMETRY ClientSymmetry
INVARIANTS
  PairTypeOK
  CountersRealigned
  OneDriver
  RightCommand
PROPERTIES
  ImplementsPairPause
