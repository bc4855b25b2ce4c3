CONSTANTS
    p1 = p1
    p2 = p2
    a = a
    t1 = t1
    t2 = t2
    None = None
    Procs = {p1}
    MessageIDs = {1}
    Versions <- TwoThreads
    ChunkSize = 1
    MaxHistory = 2
    MaxVersion = 1
    MaxFaults = 0
SPECIFICATION FreeFairSpec
CHECK_DEADLOCK FALSE
PROPERTIES
    ReconciliationResolves
