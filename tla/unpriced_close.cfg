SPECIFICATION Spec
CONSTANTS
  Legs <- OneLeg
  Side <- Single
  Qty <- OneLot
  Concurrent = TRUE
  Durable = TRUE
  TickEntries = FALSE
  Cooldown = TRUE
  Faults = {"noprice"}
  MaxClock = 1
  MaxAttempts = 2
  MaxCrashes = 0
CHECK_DEADLOCK FALSE
INVARIANT NothingHeldWhenClosed
