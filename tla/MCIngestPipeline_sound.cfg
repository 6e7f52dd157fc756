\* Analyses fail, the infrastructure does not: what is accepted is accounted for.
CONSTANTS
    a1 = a1
    a2 = a2
    b = b
    i1 = i1
    i2 = i2
    NoCall = NoCall
    Call = {a1, a2, b}
    Ingestion = {i1, i2}
    Poll = {p1, p2}
    IngestionOf <- MCIngestionOf
    Faults = {"analysis"}
    BatchSize = 2
    MaxRetries = 3
SPECIFICATION FairSpec
INVARIANTS
    KeyMeansAccepted
    EnqueuedOnce
PROPERTIES
    EventuallyAccounted
