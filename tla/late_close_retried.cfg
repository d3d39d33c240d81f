SPECIFICATION Spec
CONSTANTS
  Legs <- OneLeg
  Side <- Single
  Qty <- OneLot
  Concurrent = TRUE
  Durable = TRUE
  TickEntries = FALSE
  Cooldown = TRUE
  Faults = {"slow"}
  MaxClock = 2
  MaxAttempts = 3
  MaxCrashes = 0
CHECK_DEADLOCK FALSE
INVARIANT NoDoubleClose
