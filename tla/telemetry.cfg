SPECIFICATION Spec
INVARIANT WindowConsistent
INVARIANT RingShowsNewest
INVARIANT DeepCallsScale
INVARIANT SingleFlight
PROPERTY LatestAdvances
CONSTANTS
    w1 = w1
    w2 = w2
    Configs <- OneRate
    Workers = {w1, w2}
    SpikeGap = 1
    MaxClock = 3
    MaxFrames = 3
    MaxCalls = 2
    MaxDepth = 2
    MaxResets = 1
    MaxDumps = 1
    NoSpike = NoSpike
CHECK_DEADLOCK FALSE
