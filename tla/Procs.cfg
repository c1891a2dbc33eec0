SPECIFICATION Spec
CONSTANTS
  MaxPid = 3
  MaxTop = 1
  MaxQueue = 1
  Outputs = {FALSE}
INVARIANTS NoOrphans EveryEndIsTold
CHECK_DEADLOCK FALSE
