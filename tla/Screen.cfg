SPECIFICATION FairSpec
CONSTANTS
    Symbols = {AAPL, MSFT}
    Bars <- GoodOrBad
    Permits = 1
    TTL = 2
    MaxRetries = 1
    MinSize = 2
    Latency = 1
    MaxTime = 4
INVARIANTS
    ScreenerInv
    ServedFresh
    FallbackHolds
PROPERTY
    ScreeningEnds
CHECK_DEADLOCK FALSE
