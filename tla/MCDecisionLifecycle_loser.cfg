\* Two watchers resolve the same decision at the same time.
CONSTANTS
    t1 = t1
    t2 = t2
    t3 = t3
    t4 = t4
    e1 = e1
    e2 = e2
    e3 = e3
    e4 = e4
    r1 = r1
    r2 = r2
    q1 = q1
    None = None
    Absent = Absent
    Task = {t1, t2, t3}
    Request = {q1, q2}
    Evidence = {e1, e2, e3}
    Region = {r1, r2}
    EvidenceOf <- MCEvidenceOf
    RegionOf <- MCOneRegion
    CapturedAt <- MCTogether
    Severity <- MCSeverity
    Result <- MCResult
    Rules <- MCRules
    Dispositions <- MCDispositions
    Window = 2
    WeirdThreshold = 2
    WarningThreshold = 5
    AggregatorConcurrency = 2
SPECIFICATION Spec
INVARIANTS
    LoserGetsConflict
