CONSTANTS
    p1 = p1
    p2 = p2
    a = a
    t1 = t1
    t2 = t2
    None = None
    Procs = {p1, p2}
    MessageIDs = {1, 2}
    Versions <- TwoThreads
    ChunkSize = 1
    MaxHistory = 2
    MaxVersion = 2
    MaxFaults = 2
SPECIFICATION MCSpec
SYMMETRY Symmetry
CHECK_DEADLOCK FALSE
INVARIANTS
    NoMessageSkipped
    StagingIsSound
    AdvancedIsDurable
PROPERTIES
    OnlyActiveAdvances
    ImplementsAtomic
