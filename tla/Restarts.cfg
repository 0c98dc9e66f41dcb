CONSTANTS
  Modulus = 2
  MaxWire = 1
  MaxCrashes = 1
SPECIFICATION CalmSpec
INVARIANTS
  SameNumber
  GeneratesInLoop
  EchoesMatch
PROPERTIES
  DisconnectNoticed
