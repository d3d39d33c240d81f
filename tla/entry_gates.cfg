SPECIFICATION Spec
CONSTANTS
    DayLen = 4
    Bucket = 2
    Open = 0
    Close = 3
    Cut = 1
    LastEntry = 2
    SweepFrom = 1
    Configs <- Four
    Faults = {}
    LastDay = 2
    Structures = 2
    MaxRestarts = 1
INVARIANT TypeOK
INVARIANT DayBudget
INVARIANT ClosedOnce
PROPERTY TicksEnterOncePerBucket
PROPERTY FlatOvernight
CHECK_DEADLOCK FALSE
