\* Two daemons, no failures, one coordinator restart: does a daemon the
\* directory has lost register again?
CONSTANTS
  Peers = {p1, p2}
  IPs = {i1, i2}
  NoIP = NoIP
  EnabledSet = {}
  ListenSet = {}
  MaxFaults = 0
  MaxRestarts = 1
  MaxLeaves = 0
SPECIFICATION Spec
PROPERTY Rejoined
