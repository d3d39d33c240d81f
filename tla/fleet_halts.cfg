SPECIFICATION Spec
CONSTANTS
    PaperRunners = {p1}
    LiveRunners = {l1}
    InSegment = {p1, l1}
    Limited = {"segment"}
    Addressed = {"live", "portfolio"}
    Wakes = TRUE
    MaxDay = 1
    MaxCrashes = 1
    MaxRequests = 2
    MaxDrafts = 1
INVARIANTS
    TypeOK
    HaltedScopesRest
    ParkedOnFile
PROPERTY
    LatchesHold
CHECK_DEADLOCK FALSE
