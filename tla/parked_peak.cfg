SPECIFICATION Spec
CONSTANTS
    Capital = 3
    Sizes = {1}
    Reach = 1
    MaxDay = 1
    MaxSpawns = 2
    MaxCrashes = 1
INVARIANT
    PeakOutlivesParking
CHECK_DEADLOCK FALSE
