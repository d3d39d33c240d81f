SPECIFICATION Spec
CONSTANTS
  Legs <- TwoLegs
  Side <- Spread
  Qty <- Ones
  Concurrent = TRUE
  Durable = FALSE
  TickEntries = FALSE
  Cooldown = TRUE
  Faults = {}
  MaxClock = 3
  MaxAttempts = 4
  MaxCrashes = 0
INVARIANTS
  NoReversal
  NeverNakedShort
  BookMatchesVenue
CHECK_DEADLOCK FALSE
