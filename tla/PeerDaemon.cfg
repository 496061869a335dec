\* Three daemons against a directory of two mesh IPs (so the pool runs out
\* and freed IPs are reassigned), one failed HTTP call, one coordinator
\* restart and one `tunnelmesh leave`.  p1's config file leaves the dns
\* section out (DNS on by default), p2's enables DNS on another address and
\* p3's sets another address without enabling it (no resolver).
CONSTANTS
  Peers = {p1, p2, p3}
  IPs = {i1, i2}
  NoIP = NoIP
  EnabledSet = {p2}
  ListenSet = {p2, p3}
  MaxFaults = 1
  MaxRestarts = 1
  MaxLeaves = 1
SPECIFICATION Spec
INVARIANT TypeOK
PROPERTY ResolverConverges
