SPECIFICATION Spec
CONSTANTS
  CREDIT = 2
  RELAY_WINDOW = 2
  ACK_EVERY = 1
  MaxChunks = 3
INVARIANTS InboundBounded
PROPERTIES ImplementsStream EverythingArrives
CHECK_DEADLOCK FALSE
