SPECIFICATION FairSpec
CONSTANTS
    Channels = {trades, signals}
    Configured = {trades}
    SignalChannel = signals
    Keys = {buyA}
    MaxSize = 2
    Throttle = 2
    MaxAttempts = 2
    MaxCalls = 4
    MaxTime = 2
INVARIANTS
    NotifyInv
    StatsExact
    OncePerWindow
PROPERTIES
    BoxSpec
    AcceptedSettled
    ShutdownEnds
CHECK_DEADLOCK FALSE
