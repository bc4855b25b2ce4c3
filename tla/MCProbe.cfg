CONSTANTS
    c1 = c1
    c2 = c2
    c3 = c3
    k1 = k1
    k2 = k2
    s1 = s1
    s2 = s2
    Conns = {c1, c2, c3}
    Callers = {k1, k2}
    Workers = {w1, w2}
    NoConn = NoConn
    Writes = {s1, s2}
    MaxStreams = 2
    MaxTurns = 4
    MaxFaults = 2
    NoTransaction = NoTransaction
SPECIFICATION MCSpec
CHECK_DEADLOCK FALSE
INVARIANTS
    RefreshedOnErrorPaths
