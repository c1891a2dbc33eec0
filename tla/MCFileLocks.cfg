SPECIFICATION Spec
CONSTANTS
  Client = {c1, c2}
  Conn = {n1, n2}
  Path = {p1, p2}
INVARIANTS WritersExclude NothingLeaks
PROPERTIES PendingDrainsReaders ImplementsAccess
SYMMETRY Symmetry
CHECK_DEADLOCK FALSE
