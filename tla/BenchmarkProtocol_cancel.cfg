\* Cancellation against a peer that may never answer: one valid upload of
\* three chunks without chaos; the server side has no fairness.
CONSTANTS
  ChunkSize = 2
  PingInterval = 2
  Sizes = {5}
  Directions = {"upload"}
  LossOptions = {FALSE}
SPECIFICATION SpecUnresponsivePeer
PROPERTY CancelReturns
