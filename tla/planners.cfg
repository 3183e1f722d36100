SPECIFICATION PlannersSpec
CONSTANTS
    Subjects = {"index", "supervisor", "repair", "mission"}
    Paths <- SomePaths
    Key <- SomeKeys
    Indexers = {sup, web}
    Nobody = nobody
    MaxVersion = 2
    MaxKills = 1
    SomeVersion = 1
    SupervisorGoals <- ManyGoals
    RecordKind <- KindOf
    ResultFile = "result"
    Me = sup
    Models = {TRUE, FALSE}
    Answered = {"run_pn_iv", "rebuild_index", "ask_user", "noop"}
    MaxActions = 2
    MaxSupervisions = 2
    MaxSupervisorCrashes = 1
    Plans <- SomePlans
    Answers <- SomeAnswers
    UsesAgent = TRUE
    MaxRounds = 2
    RepairModes = {TRUE, FALSE}
    Allows = {TRUE, FALSE}
    MaxRepairs = 2
    MaxRepairCrashes = 1
    Goals <- SomeGoals
    ModelPlans <- HardOnly
    Patches <- SomePatches
    MayFailPlan = TRUE
    Outcomes <- AllOutcomes
    MayRaise <- SomeRaise
    NeedsConvergence = TRUE
    NeedsSignoff = TRUE
    MaxCycles = 8
    MaxReplans = 2
    MaxIndex = 9
    Modes = {TRUE, FALSE}
    MaxCalls = 2
    MaxCrashes = 1
INVARIANTS SupervisorInvariant RepairInvariant MissionInvariant
PROPERTIES RecordsAreKept PlannersReturn
CHECK_DEADLOCK FALSE
