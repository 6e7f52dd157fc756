\* Everything that can fail does.
CONSTANTS
    a1 = a1
    a2 = a2
    b = b
    i1 = i1
    i2 = i2
    NoCall = NoCall
    Call = {a1, a2}
    Ingestion = {i1}
    Poll = {p1, p2}
    IngestionOf <- MCIngestionOf
    Faults = {"analysis", "redis", "crash", "expiry"}
    BatchSize = 2
    MaxRetries = 3
SPECIFICATION Spec
INVARIANTS
    TypeOK
    AckedIsAccounted
    AggregatedAtMostOnce
    AggregatedIsStored
SYMMETRY MCSymmetry
