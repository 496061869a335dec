\* Two peers resolving inbound connections concurrently against a directory
\* of two mesh IPs that may fail, and may deregister and re-register peers
\* twice; the retry budget is the code's five attempts.
CONSTANTS
  Peers = {p1, p2}
  IPs = {i1, i2}
  NoIP = NoIP
  NoPeer = NoPeer
  MaxRetries = 5
  HasClient = TRUE
  DirectoryMayFail = TRUE
  MaxDirChanges = 2
SPECIFICATION Spec
INVARIANTS
  TypeOK
  FallbackOnlyAfterBudget
PROPERTIES
  CallsTerminate
