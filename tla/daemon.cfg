SPECIFICATION MCDaemonSpec
CONSTANTS
    i1 = i1
    i2 = i2
    w1 = w1
    w2 = w2
    c1 = c1
    None = None
    Items = {i1, i2}
    Workers = {w1, w2}
    Daemons = {w1, w2}
    SoakItem <- MCSoakItem
    IdleLimits = {{}, {0}, {2}}
    LimitsLoops = TRUE
    Clients = {}
    Owner <- MCOwner
    Rank <- MCRank
    MaxAttempts <- TwoAttempts
    Concurrency = 1
    LeaseTicks = 1
    AgentItems = {i1, i2}
    WebWorkers = {}
    Commands = {}
    MaxCalls = 0
    MaxCrashes = 1
    MaxRestarts = 0
INVARIANTS DaemonInvariant
PROPERTIES DaemonEnds
CHECK_DEADLOCK FALSE
