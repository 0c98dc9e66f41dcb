CONSTANTS
  Players = {"alice", "bob"}
  ReadyFiles = {"/tmp/qkd_ready"}
  ReadyPath <- DefaultPath
  MaxEvents = 3
SPECIFICATION Spec
INVARIANT NoFalseReady
