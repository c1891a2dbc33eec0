SPECIFICATION Spec
CONSTANTS
  Tab = {t1, t2}
  Path <- MCPath
  Dir <- MCDir
  Low <- MCLow
  Saved <- MCSaved
  Inode = {i1, i2}
  Value = {v1, v2}
  Absent = Absent
  Folder = Folder
  Torn = Torn
  MaxEvents = 3
  MaxFaults = 1
  MaxFlushes = 1
INVARIANTS MirrorExact NothingForgotten
PROPERTIES IndexIsSafe FlushIsDurable
SYMMETRY Symmetry
CHECK_DEADLOCK FALSE
