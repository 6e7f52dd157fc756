\* Every schedule of the turn of the week, at every instant.
CONSTANTS
    c1 = c1
    c2 = c2
    ma = ma
    mb = mb
    m1 = m1
    SeedCamera = c2
    NoMarket = NoMarket
    Camera = {c1, c2}
    Market = {ma, mb}
    Mode = {m1}
    MarketOf <- MCMarketOf
    ModeOf <- MCModeOf
    Offset <- MCOffset
    TicksPerDay = 3
    ActiveTTL = 3
    Schedule <- MCSchedule
    MaxSchedules = 2
    Run = {x1}
    RunBound = 1
SPECIFICATION Spec
INVARIANTS
    SchedulerTypeOK
    ActiveWasScheduled
PROPERTIES
    RunActivates
