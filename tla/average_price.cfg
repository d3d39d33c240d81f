SPECIFICATION Spec
CONSTANTS
    MaxOrders = 1
    Size = 2
    Amends <- NoAmends
    Prices <- TwoPrices
    Faults = {"partial"}
    MaxCrashes = 0
INVARIANT BookedAtCost
CHECK_DEADLOCK FALSE
