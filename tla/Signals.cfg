SPECIFICATION SpecGuestFair
CONSTANTS
  Sig = {SIGINT, SIGTERM}
  KILL = SIGKILL
  None = None
  MaxPosts = 2
  MaxQueue = 1
INVARIANTS SignalNotLost WindowOpenUntilStoodDown
PROPERTIES SignalReachesHandler
CHECK_DEADLOCK FALSE
