SPECIFICATION FairSpec
CONSTANTS
  Proxies = {x1}
  Kept = {}
  Clients = {c1, c2}
  Ports <- MCPorts
PROPERTIES
  ShutdownReturns
  ClientIsServed
CHECK_DEADLOCK FALSE
