SPECIFICATION Spec
CONSTANTS
    Symbols = {AAPL, MSFT, NVDA}
    Layers = {L1, L2}
    TimeGated = {L1}
    MaxPositions = 2
    MaxDayTrades = 1
    Window = 1
    SharedGuard = TRUE
    DryRun = FALSE
    MaxAttempts = 1
    Inherited <- NoShares
    MaxTrades = 3
    MaxDay = 2
    Limit <- Calm
INVARIANTS
    BookInv
    DayTradesBounded
PROPERTY
    BookSpec
