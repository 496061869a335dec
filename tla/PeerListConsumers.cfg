\* The benchmarker b and three other peers, a coordinator answering in
\* either shape, two directory changes, one failure and one SD generator
\* crash.  Three peers besides b let a round choose among more than two.
\* The deployment sets LOCAL_PEER to the host peer's name.
CONSTANTS
  Peers = {b, p1, p2, p3}
  Self = b
  LocalPeerEnv = b
  NoEnv = NoEnv
  DefaultLocalPeer = benchmarker
  Shapes = {"array", "object"}
  MaxDirChanges = 2
  MaxFaults = 1
  MaxCrashes = 1
  NoFile = NoFile
  Partial = Partial
SPECIFICATION Spec
INVARIANT TypeOK
PROPERTY TargetsFileRefinement
PROPERTY TargetsCatchUp
