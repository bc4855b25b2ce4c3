CONSTANTS
    p1 = p1
    p2 = p2
    a = a
    t1 = t1
    t2 = t2
    None = None
    Procs = {p1, p2}
    MessageIDs = {1, 2}
    Versions <- OneVersion
    ChunkSize = 2
    MaxHistory = 2
    MaxVersion = 1
    MaxFaults = 1
SPECIFICATION MailFairSpec
CHECK_DEADLOCK FALSE
PROPERTIES
    ReconciliationResolves
