SPECIFICATION Spec
CONSTANTS
  a = a
  b = b
  sock = sock
  None = None
  Procs <- MCProcs
  Ports <- MCPorts
  Paths <- MCPaths
  ClientPortMin = 1
  ClientPortMax = 2
  MaxConns = 2
  MaxWork = 5
INVARIANTS ServersAgree PeerOrFarewell
PROPERTIES ClientPortsDiffer ImplementsStream
SYMMETRY Sym
CHECK_DEADLOCK FALSE
