CONSTANTS
  Accounts = {ann, bob}
  MaxTyped = 3
  QueueCap = 2
  MaxTroubles = 2
  None = None
SPECIFICATION MCSpec
PROPERTIES DrainKeepsToItsSession
CHECK_DEADLOCK FALSE
