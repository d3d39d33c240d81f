SPECIFICATION Spec
CONSTANTS
  Legs <- TwoLegs
  Side <- Spread
  Qty <- Twos
  Concurrent = TRUE
  Durable = TRUE
  TickEntries = FALSE
  Cooldown = TRUE
  Faults = {"partial"}
  MaxClock = 1
  MaxAttempts = 1
  MaxCrashes = 0
CHECK_DEADLOCK FALSE
INVARIANT RollbackOnZeroFills
