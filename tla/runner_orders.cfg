SPECIFICATION FairSpec
CONSTANTS
    Lot = 2
    Budgets <- OffAndTwo
    Cooldowns <- ZeroOrOne
    RearmAfter = 2
    Modes = {"paper", "live"}
    Slots = {s1}
    MaxPos = 4
INVARIANT TypeOK
INVARIANT SendBudget
INVARIANT OneIntentOnePosition
PROPERTY SettlesOut
PROPERTY ComesIn
CHECK_DEADLOCK FALSE
