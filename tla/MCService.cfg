CONSTANTS
    Requests = {r1, r2, r3}
    Limit = 2
    Conns = {c1, c2, c3}
    MaxConnections = 2
    McpRequests <- AllRequests
    Outcomes <- AllOutcomes
    Configs <- AllConfigs
    Keys = {1, 2, 3}
    Recent = {2, 3}
    Policies = {1, 2}
    Kinds <- MCKinds
    ScanRows = 2
    Queries <- MCQueries
    MaxStarts = 1
    MaxChanges = 1
SPECIFICATION MCSpec
CHECK_DEADLOCK FALSE
INVARIANTS
    AdmissionCounted
    ServeIsSound
    PermitsCounted
    AnswerIsTrue
    SeenOnce
    PagesBelongTogether
PROPERTIES
    ServeEnds
    CloseEndsAccept
    WalkEnds
