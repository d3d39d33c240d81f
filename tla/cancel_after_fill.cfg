SPECIFICATION Spec
CONSTANTS
    MaxOrders = 1
    Size = 2
    Amends <- NoAmends
    Prices <- OnePrice
    Faults = {"partial"}
    MaxCrashes = 0
INVARIANT FillsReachBook
CHECK_DEADLOCK FALSE
