SPECIFICATION Spec
CONSTANTS
  a = a
  b = b
  None = None
  Procs <- MCProcs
  Ports <- MCPorts
  MaxConns = 2
  MaxWork = 3
INVARIANTS TablesAgree StreamsAgree BindingsSettle
CHECK_DEADLOCK FALSE
PROPERTIES ForwardingResumes
