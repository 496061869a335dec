\* Freshness of latency samples on a valid upload of three chunks, no chaos.
CONSTANTS
  ChunkSize = 2
  PingInterval = 2
  Sizes = {5}
  Directions = {"upload"}
  LossOptions = {FALSE}
SPECIFICATION Spec
INVARIANT LatencySampleFresh
