SPECIFICATION Spec
CONSTANTS
  None = None
  run = run
  resume = resume
  Oversized <- MCOversized
  MaxCmds = 2
  MaxClicks = 2
  MaxPauses = 2
  MaxChunks = 2
INVARIANTS InputKept CommandsKept
PROPERTIES ParkedGoesOn
CHECK_DEADLOCK FALSE
