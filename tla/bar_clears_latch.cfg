SPECIFICATION Spec
CONSTANTS
    DayLen = 6
    Bucket = 2
    Open = 0
    Close = 5
    Cut = 3
    LastEntry = 4
    SweepFrom = 3
    Configs <- Cooling
    Faults = {}
    LastDay = 1
    Structures = 2
    MaxRestarts = 1
PROPERTY OneEntryPerBucket
CHECK_DEADLOCK FALSE
