SPECIFICATION TenancySpec
CONSTANTS
    None = None
    MalformedUuid = MalformedUuid
    Demo = Demo
    t1 = t1
    t2 = t2
    a = a
    b = b
    j = j
    c1 = c1
    c2 = c2
    name = name
    Session = {a, b, j}
    Conn = {c1, c2}
    PoolOf <- MCPoolOf
    Scenarios <- MCScenarios
    InitialRows <- MCInitialRows
INVARIANTS
    TenancyTypeOK
    ContextIsOwn
    ReadsConfined
    WritesAuthorised
    RefsWithinTenant
    RulesListedWhole
    LookupsResolve
    SeedIsWhole
    NobodyStuck
CHECK_DEADLOCK FALSE
