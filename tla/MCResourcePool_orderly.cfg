CONSTANTS
    w1 = w1  w2 = w2
    c1 = c1  c2 = c2  c3 = c3  c4 = c4
    f1 = f1  f2 = f2  f3 = f3
    j1 = j1  j2 = j2
    Workers = {w1, w2}
    NTypes = 2
    Capacity <- MCCapacity
    Fds = {f1, f2, f3}
    Conns = {c1, c2, c4}
    Jobs = {j1, j2}
    JobOf <- MCJobOf
    TypeOf <- MCTypeOf
    AmountOf <- MCAmountOf
    Abandon = FALSE
    Garbage = {0, 1}
    NoFd = NoFd
    NoConn = NoConn
    Unknown = Unknown
SPECIFICATION MCFairSpec
INVARIANTS TypeOK Conservation GrantIsBacked ReclaimedOnDisconnect
PROPERTY EveryRequestGranted
