SPECIFICATION Spec
CONSTANTS
    Symbols = {AAPL}
    MaxPositions = 1
    Cadence = 2
    MaxHold <- FewBars
    FadeBars = 2
    EarlyBars <- EarlyForL3
    SessionBars = 3
    MinBars <- TwoBarsForL1
    MaxBars = 2
    MaxDay = 2
    MaxCount = 4
INVARIANTS
    SessionInv
    OneOrbEntry
    GivesUp
    CooldownHolds
