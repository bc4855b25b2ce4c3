CONSTANTS
    b1 = b1
    b2 = b2
    r1 = r1
    r2 = r2
    None = None
    Runs = {r1, r2}
    Browsers = {b1, b2}
    MessageIDs = {1, 2, 3}
    PageSize = 2
    MaximumPages = 2
    MaximumMessages = 2
    MaximumAttempts = 2
    MaxLog = 5
    MaxOdd = 1
SPECIFICATION MCSpec
CHECK_DEADLOCK FALSE
INVARIANTS
    CallbackWins
    ExchangesOwn
    CommitIsSound
    RequestsCapped
PROPERTIES
    RunReturns
    DiscoverEnds
