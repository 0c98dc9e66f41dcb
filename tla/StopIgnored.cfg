CONSTANTS
  Modulus = 2
  MaxWire = 1
  MaxCrashes = 0
SPECIFICATION FairSpec
PROPERTY StopStops
