SPECIFICATION Spec
CONSTANTS
    Capital = 3
    Sizes = {1}
    Reach = 1
    MaxDay = 2
    MaxSpawns = 2
    MaxCrashes = 1
INVARIANTS
    TypeOK
    NoLossForgotten
PROPERTIES
    RestartIsExact
CHECK_DEADLOCK FALSE
