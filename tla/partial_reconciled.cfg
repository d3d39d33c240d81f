SPECIFICATION FairSpec
CONSTANTS
  Legs <- OneLeg
  Side <- Single
  Qty <- TwoLots
  Concurrent = TRUE
  Durable = TRUE
  TickEntries = FALSE
  Cooldown = TRUE
  Faults = {"lost"}
  MaxClock = 1
  MaxAttempts = 1
  MaxCrashes = 0
CHECK_DEADLOCK FALSE
PROPERTY BooksExactFills
