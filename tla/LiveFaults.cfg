SPECIFICATION Spec
CONSTANTS
    Symbols = {AAPL, MSFT}
    Layers = {L1, L2}
    TimeGated = {L1}
    MaxPositions = 1
    MaxDayTrades = 1
    Window = 1
    SharedGuard = FALSE
    DryRun = FALSE
    MaxAttempts = 2
    Inherited <- NoShares
    MaxTrades = 2
    MaxDay = 2
    Limit <- Faulty
INVARIANTS
    IInv
    ShortsExplained
    EodCoversGated
    LotsExplained
