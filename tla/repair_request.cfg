SPECIFICATION EvidenceSpec
CONSTANTS
    Subjects = {"patch"}
    Results <- AllResults
    Reruns <- SomeReruns
    Metrics_ <- TwoMetrics
    Values <- SomeValues
    Goals <- SomeGoals
    Limits <- SomeLimits
    MaxCandidates = 3
    Patches = {"unit_bias", "moscap_window"}
    Sweeps <- SomeSweeps
    Decks <- SomeDecks
    GoalTags <- SomeTags
    Target = 1200
    Baselines <- SomeBaselines
    Outcomes_ <- SomeOutcomes
    MaxRounds = 4
    IdParts = 3
    MaxPatches = 3
INVARIANT PatchedRequestValid
CHECK_DEADLOCK FALSE
