\* Two request goroutines at once, as net/http serves them.
CONSTANTS
  Handlers = {h1, h2}
  Names = {n1}
  Ids = {d1, d2}
  IPs = {i1, i2}
  NoIP = NoIP
  NoId = NoId
  UniqueNames = TRUE
  MaxRequests = 4
SPECIFICATION Spec
INVARIANT DNSMatchesStore
