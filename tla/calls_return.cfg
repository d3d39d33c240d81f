SPECIFICATION FairSpec
CONSTANTS
  Legs <- TwoLegs
  Side <- Straddle
  Qty <- Ones
  Concurrent = TRUE
  Durable = TRUE
  TickEntries = FALSE
  Cooldown = TRUE
  Faults = {"lost", "slow", "drop", "noprice", "noflat"}
  MaxClock = 1
  MaxAttempts = 2
  MaxCrashes = 0
CHECK_DEADLOCK FALSE
PROPERTIES
  ReturnedUnknownPauses
  CallsReturn
