SPECIFICATION SpecServed
CONSTANTS
  Proc = {p1, p2}
  Port = {t1}
  small = small
  large = large
  Req = {small, large}
  Large = {large}
  Total <- MCTotal
  None = None
INVARIANTS PortTableAgrees InlineRequestSettledAtExit NoLostNudge RequestsAccounted
PROPERTY RequestAnswered
CHECK_DEADLOCK FALSE
