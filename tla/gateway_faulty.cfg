SPECIFICATION Spec
CONSTANTS
    MaxOrders = 1
    Size = 2
    Amends <- Amended
    Prices <- TwoPrices
    Faults = {"partial", "lost", "drop", "remove", "reconcile"}
    MaxCrashes = 2
INVARIANT TypeOK
INVARIANT NeverOverBooked
CHECK_DEADLOCK FALSE
