\* Two secrets and one peer; config files that pass Validate with either
\* secret, and ones that fail it for each reason (no listen, no auth_token,
\* a bad mesh_cidr, unreadable, not YAML).  Two ticks to a second and a
\* lifetime of one second let the two clock reads of GenerateToken fall on
\* either side of a second boundary and validation happen before, at and
\* after expiry.
CONSTANTS
  Secrets = {"s1", "s2"}
  Peers = {p1}
  ConfigFiles <- MCConfigFiles
  TPS = 2
  Expiry = 1
  MaxTime = 5
  MaxTokens = 2
  MaxStarts = 2
  MaxEdits = 1
  Missing = Missing
  Malformed = Malformed
  NoTime = NoTime
SPECIFICATION Spec
INVARIANT TypeOK
INVARIANT AcceptsOnlyIssued
INVARIANT NoAcceptBeyondLifetime
\* A coordinator whose configuration fails Validate exits for good, and
\* the clock is bounded: behaviours end.
CHECK_DEADLOCK FALSE
