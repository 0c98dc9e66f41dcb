CONSTANTS
  Modulus = 3
  MaxWire = 1
SPECIFICATION Spec
INVARIANT Correlated
