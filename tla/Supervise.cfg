SPECIFICATION FairSpec
CONSTANTS
    Values = {90, 97, 100}
    DefaultPeak = 95
    DailyPct = 2
    WeeklyPct = 5
    DrawdownPct = 5
    LossDays = 2
    Lookback = 1
    MaxDay = 3
    Limit <- OneOfEach
INVARIANTS
    SupervisionInv
    LateBounded
PROPERTIES
    Resumes
    Trips
CHECK_DEADLOCK FALSE
