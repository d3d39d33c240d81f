SPECIFICATION Spec
CONSTANTS
    MaxOrders = 2
    Size = 2
    Amends <- NoAmends
    Prices <- OnePrice
    Faults = {"save"}
    MaxCrashes = 1
INVARIANT NeverOverBooked
CHECK_DEADLOCK FALSE
