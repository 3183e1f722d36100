SPECIFICATION FairSpec
CONSTANTS
    i1 = i1
    i2 = i2
    w1 = w1
    w2 = w2
    w3 = w3
    c1 = c1
    c2 = c2
    None = None
    Items = {i1, i2}
    Workers = {w1, w2}
    Clients = {}
    Owner <- MCOwner
    Rank <- MCRank
    MaxAttempts <- SomeAttempts
    Concurrency = 2
    LeaseTicks = 1
    AgentItems = {i1}
    WebWorkers = {w1}
    Commands = {}
    MaxCalls = 0
    MaxCrashes = 1
    MaxRestarts = 0
INVARIANTS AttemptsWithinMax
PROPERTIES RowsAreServed
