SPECIFICATION Spec
CONSTANTS
  Tab = {t1}
  Path <- MCPath
  Dir <- MCDir
  Low <- MCLow
  Saved <- MCSaved
  Inode = {i1, i2}
  Value = {v1, v2}
  Absent = Absent
  Folder = Folder
  Torn = Torn
  MaxEvents = 2
  MaxFaults = 1
  MaxFlushes = 0
CHECK_DEADLOCK FALSE
INVARIANTS IndexStaysReadable
