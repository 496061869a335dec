\* Pacing of a lossy, delayed, bandwidth-limited chaos writer.
\* Bucket of 2 bytes (one tick = 1/2 s), writes of 1..3 bytes so that both
\* the immediate and the deficit branch of Take occur, 50% loss, latency 1
\* tick with 1 tick of jitter.
CONSTANTS
  BandwidthBps = 2
  LossPct = 50
  Latency = 1
  Jitter = 1
  WriteSizes = {1, 2, 3}
  MaxWrites = 4
  MaxTime = 8
SPECIFICATION Spec
INVARIANTS
  TypeOK
  BandwidthWithinDouble
