SPECIFICATION Spec
CONSTANTS
    i1 = i1
    i2 = i2
    w1 = w1
    w2 = w2
    w3 = w3
    c1 = c1
    c2 = c2
    None = None
    Items = {i1}
    Workers = {w1, w2}
    Clients = {c1}
    Owner <- MCOwner
    Rank <- MCRank
    MaxAttempts <- TwoAttempts
    Concurrency = 1
    LeaseTicks = 1
    AgentItems = {i1}
    WebWorkers = {w1}
    Commands = {"pause", "resume", "cancel", "approve", "reject", "renew", "recover"}
    MaxCalls = 2
    MaxCrashes = 1
    MaxRestarts = 1
INVARIANTS TypeOK LeaseDiscipline OneHolderPerTicket RunningUnderHolder
PROPERTIES TerminalSticks
