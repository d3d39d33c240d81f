SPECIFICATION Spec
CONSTANTS
  Legs <- OneLeg
  Side <- Single
  Qty <- OneLot
  Concurrent = TRUE
  Durable = TRUE
  TickEntries = TRUE
  Cooldown = FALSE
  Faults = {}
  MaxClock = 1
  MaxAttempts = 3
  MaxCrashes = 0
CHECK_DEADLOCK FALSE
INVARIANT BookMatchesVenue
