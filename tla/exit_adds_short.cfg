SPECIFICATION Spec
CONSTANTS
    Lot = 2
    Budgets <- One
    Cooldowns <- One
    RearmAfter = 2
    Modes = {"live"}
    Slots = {s1, s2}
    MaxPos = 4
PROPERTY ExitsDeRisk
CHECK_DEADLOCK FALSE
