SPECIFICATION GuardSpec
CONSTANTS
    MaxDayTrades = 2
    MaxLen = 2
    LastDay = 16
    MaxTrades = 6
INVARIANTS
    GuardInv
    PdtRule
    DecisionExact
    WindowExact
CHECK_DEADLOCK FALSE
