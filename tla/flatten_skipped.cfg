SPECIFICATION Spec
CONSTANTS
    Lot = 2
    Budgets <- One
    Cooldowns <- One
    RearmAfter = 2
    Modes = {"paper"}
    Slots = {s1, s2}
    MaxPos = 4
PROPERTY FlattenSends
CHECK_DEADLOCK FALSE
