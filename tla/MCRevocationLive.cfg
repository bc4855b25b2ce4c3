CONSTANTS
    h1 = h1
    p1 = p1
    p2 = p2
    r1 = r1
    None = None
    Procs = {p1, p2}
    HistoryIDs = {h1}
    Reasons = {r1}
    MaxVersion = 6
    MaxEnvelopes = 1
    MaxFaults = 1
SPECIFICATION RevokeFairSpec
PROPERTIES
    RevocationFinishes
