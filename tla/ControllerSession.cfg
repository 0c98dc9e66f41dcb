CONSTANTS
  Batches = 2
  MaxRuns = 3
SPECIFICATION FairSpec
CHECK_DEADLOCK FALSE
INVARIANTS
  OwnAngles
  NeverTruncated
PROPERTIES
  RunsEnd
  SessionsEnd
