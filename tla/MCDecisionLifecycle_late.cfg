\* Two deliveries of one evidence, a late one and one of another region.
CONSTANTS
    t1 = t1
    t2 = t2
    t3 = t3
    t4 = t4
    e1 = e1
    e2 = e2
    e3 = e3
    e4 = e4
    r1 = r1
    r2 = r2
    q1 = q1
    None = None
    Absent = Absent
    Task = {t1, t2, t3, t4}
    Request = {q1}
    Evidence = {e1, e3, e4}
    Region = {r1, r2}
    EvidenceOf <- MCRepeated
    RegionOf <- MCTwoRegions
    CapturedAt <- MCCapturedAt
    Severity <- MCSeverity
    Result <- MCResult
    Rules <- MCRules
    Dispositions <- MCDispositions
    Window = 2
    WeirdThreshold = 2
    WarningThreshold = 5
    AggregatorConcurrency = 2
SPECIFICATION FairSpec
INVARIANTS
    SuspicionWeighs
    LinksInWindow
    ExactUnlessOverlapped
PROPERTIES
    EveryTransactionEnds
