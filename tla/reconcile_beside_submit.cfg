SPECIFICATION Spec
CONSTANTS
    MaxOrders = 1
    Size = 2
    Amends <- NoAmends
    Prices <- OnePrice
    Faults = {"reconcile"}
    MaxCrashes = 0
INVARIANT CancelledIsDead
CHECK_DEADLOCK FALSE
