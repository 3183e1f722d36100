SPECIFICATION ToolsSpec
CONSTANTS
    Subjects = {"sweep", "diode", "task", "process", "study", "search", "device", "sentaurus"}
    Axes <- TwoAxes
    Step <- TwoSteps
    MinStep <- TwoMins
    MaxAttempts = 3
    QualityDecides = TRUE
    MaxCalls = 3
    Timeouts = {0, 2}
    Grace = 2
    Grandchildren = TRUE
    Studies = {"mesh", "tool"}
    Axis <- Mixed
    Metrics = {0, 1, 3}
    Tolerance = 1
    Registered = {TRUE, FALSE}
    ReusesRuns = TRUE
    Asks <- AllAsks
    MaxStudies = 3
    MaxStudyCrashes = 1
    Points <- FourPoints
    Initial <- TwoInitial
    MaxNew = 2
    Searches = {"adaptive", "multidim"}
    Overwritten = {"multidim"}
    MaxRounds = 3
    MaxCases = 3
    Modes = {TRUE, FALSE}
    MaxSearches = 2
    MaxSearchCrashes = 1
    Devices = {"schottky_diode", "power_mosfet_bv_ron", "bjt_gummel_output"}
    Workflows = {"tool", "calibration", "signoff"}
    References = {TRUE, FALSE}
    MaxRuns = 3
    MaxRunCrashes = 1
    FlowSteps = 2
    RunModes = {"local", "ssh", "slurm"}
    Transport = {"prepare", "push", "pull", "submit", "squeue", "scancel"}
INVARIANTS SweepInvariant WrapperInvariant ProcessInvariant CampaignInvariant DeviceInvariant SentaurusInvariant
PROPERTIES RunIsRecord ResultsAreKept CallsSettle
CHECK_DEADLOCK FALSE
