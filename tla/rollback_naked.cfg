SPECIFICATION Spec
CONSTANTS
  Legs <- FourLegs
  Side <- Condor
  Qty <- FourOnes
  Concurrent = TRUE
  Durable = TRUE
  TickEntries = FALSE
  Cooldown = TRUE
  Faults = {}
  MaxClock = 1
  MaxAttempts = 1
  MaxCrashes = 0
CHECK_DEADLOCK FALSE
INVARIANTS
  NeverNakedShort
