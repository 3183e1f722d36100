SPECIFICATION FairWebSpec
CONSTANTS
    i1 = i1
    s1 = s1
    m1 = m1
    t1 = t1
    t2 = t2
    x1 = x1
    c1 = c1
    owner = owner
    None = None
    Items = {i1}
    Servers = {s1}
    Workers = {m1, t1, t2, x1}
    WebWorkers = {m1}
    Clients = {c1}
    Main <- MCMain
    Threads <- MCThreads
    Owner <- MCOwner
    WebOwner <- MCWebOwner
    Rank <- MCRank
    MaxAttempts <- TwoAttempts
    Concurrency = 1
    LeaseTicks = 1
    AgentItems = {i1}
    Commands = {"pause", "cancel"}
    MaxCalls = 1
    MaxCrashes = 1
    MaxRestarts = 3
    Requests = {"start", "bounded_start", "stop", "run_once"}
INVARIANTS WebInvariant
PROPERTIES StopIsObeyed
