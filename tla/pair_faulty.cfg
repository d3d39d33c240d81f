SPECIFICATION Spec
CONSTANTS
  Legs <- TwoLegs
  Side <- Straddle
  Qty <- Ones
  Concurrent = TRUE
  Durable = TRUE
  TickEntries = FALSE
  Cooldown = TRUE
  Faults = {"lost", "slow", "drop", "noprice"}
  MaxClock = 1
  MaxAttempts = 2
  MaxCrashes = 1
CHECK_DEADLOCK FALSE
INVARIANTS
  TypeOK
  TicketsAreReal
  PlacedAgainOnlyIfLost
  NoRollbackUnderUncertainty
  NoInvisibleOrder
PROPERTIES
  ImplementsSeam
