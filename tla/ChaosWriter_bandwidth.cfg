\* The configured bandwidth as a hard limit: one burst plus BandwidthBps per
\* second.  No loss, no latency, so the writer sends as fast as pacing lets it.
CONSTANTS
  BandwidthBps = 2
  LossPct = 0
  Latency = 0
  Jitter = 0
  WriteSizes = {1, 2, 3}
  MaxWrites = 5
  MaxTime = 8
SPECIFICATION Spec
INVARIANT BandwidthBound
