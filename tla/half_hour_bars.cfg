SPECIFICATION Spec
CONSTANTS
    DayLen = 6
    Bucket = 3
    Open = 0
    Close = 3
    Cut = 1
    LastEntry = 2
    SweepFrom = 1
    Configs <- Intraday
    Faults = {}
    LastDay = 2
    Structures = 2
    MaxRestarts = 1
PROPERTY FlatOvernight
CHECK_DEADLOCK FALSE
