SPECIFICATION FairSpec
CONSTANTS
    MaxOrders = 2
    Size = 2
    Amends <- Enlarged
    Prices <- OnePrice
    Faults = {"drop", "remove"}
    MaxCrashes = 1
INVARIANT FillsReachBook
PROPERTY WorkingDrains
CHECK_DEADLOCK FALSE
