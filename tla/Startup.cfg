SPECIFICATION Spec
CONSTANTS
    Symbols = {AAPL, MSFT}
    Lots <- SmallLots
    Attempts = 2
    Limit <- OneOfEach
INVARIANTS
    StartupInv
    StartedCovered
