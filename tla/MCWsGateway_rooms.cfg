\* Handlers and broadcasts disconnect the same sockets.
CONSTANTS
    s1 = s1
    s2 = s2
    s3 = s3
    s4 = s4
    s5 = s5
    u1 = u1
    u2 = u2
    u3 = u3
    ta = ta
    tb = tb
    Socket = {s1, s2, s3, s4, s5}
    Sub = {u1, u2, u3}
    Tenant = {ta, tb}
    SubOf <- MCSubOf
    TenantOf <- MCTenantOf
    MAX_CONNECTIONS_PER_SUB = 2
SPECIFICATION FairSpec
INVARIANTS
    GatewayTypeOK
    NoLockout
    NoGhosts
    OpenIsReachable
PROPERTIES
    BroadcastEnds
