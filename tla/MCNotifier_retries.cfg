\* Two notices in parallel, with every failure the worker can meet; they end.
CONSTANTS
    n1 = n1
    n2 = n2
    d1 = d1
    c1 = c1
    c2 = c2
    Decision = {d1}
    Config = {c1, c2}
    DecisionOf <- MCDecisionOf
    Notice = {n1, n2}
    MaxRetries = 3
SPECIFICATION FairSpec
INVARIANTS
    NotifierTypeOK
    RowsMatchProvider
    ResendsBounded
PROPERTIES
    NoticesEnd
