SPECIFICATION Spec
CONSTANTS
    Symbols = {AAPL, MSFT}
    Layers <- TwoLayers
    OrbLayer = "L2"
    MaxPositions = 1
    Equity0 = 20
    Unit = 4
    DollarRisk = 4
    MaxPct = 50
    MaxValue = 8
    SizerMax = 2
    BearScalar = 50
    Prices = {1, 2}
    Minutes <- DayMinutes
    MaxDay = 2
SYMMETRY Symmetry
INVARIANTS
    ReplayInv
    ClosedDaily
PROPERTY
    LossNeedsSharing
CHECK_DEADLOCK FALSE
