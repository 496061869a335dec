\* One benchmark session, every configuration the caller may pass: both
\* directions and the empty (defaulted) one, an invalid direction and an
\* invalid size, with and without chaos loss.  A size of 5 with chunks of 2
\* takes three chunks, the last one short, and with a ping every 2 chunks
\* the upload probes latency at the start, in the loop and at the end.
CONSTANTS
  ChunkSize = 2
  PingInterval = 2
  Sizes = {0, 5}
  Directions = {"", "upload", "download", "bogus"}
  LossOptions = {FALSE, TRUE}
SPECIFICATION Spec
INVARIANTS
  TypeOK
  UploadAccounting
  WireRoundTrip
PROPERTIES
  UploadSucceeds
  CancelStopsTransfer
