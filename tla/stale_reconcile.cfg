SPECIFICATION Spec
CONSTANTS
  Legs <- OneLeg
  Side <- Single
  Qty <- OneLot
  Concurrent = FALSE
  Durable = TRUE
  TickEntries = FALSE
  Cooldown = TRUE
  Faults = {"lost"}
  MaxClock = 2
  MaxAttempts = 2
  MaxCrashes = 0
CHECK_DEADLOCK FALSE
PROPERTIES
  UnansweredPauses
