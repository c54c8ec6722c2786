SPECIFICATION FairSpec
CONSTANTS
    Symbols = {AAPL}
    Layers = {L1, L2}
    TimeGated = {L1}
    MaxPositions = 1
    MaxDayTrades = 1
    Window = 1
    SharedGuard = FALSE
    DryRun = FALSE
    MaxAttempts = 1
    Inherited <- NoShares
    MaxTrades = 2
    MaxDay = 1
    Limit <- Crashing
INVARIANTS
    HaltedMeansNoEntry
    OpenTradesTracked
PROPERTY
    TasksFinish
CHECK_DEADLOCK FALSE
