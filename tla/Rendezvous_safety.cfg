SPECIFICATION Spec
CONSTANTS
  Proxies = {x1, x2}
  Kept = {x2}
  Clients = {c1, c2}
  Ports <- MCPorts
SYMMETRY Perms
INVARIANTS
  TunnelsMatch
  NoLostWakeup
  ShutdownIsComplete
CHECK_DEADLOCK FALSE
