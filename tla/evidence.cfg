SPECIFICATION EvidenceSpec
CONSTANTS
    Subjects = {"chain", "objectives", "patch", "loop"}
    Results <- AllResults
    Reruns <- SomeReruns
    Metrics_ <- TwoMetrics
    Values <- SomeValues
    Goals <- SomeGoals
    Limits <- SomeLimits
    MaxCandidates = 3
    Patches = {"halve", "continuation", "mesh_relax", "mesh_refine", "densify", "reverse_range", "geometry"}
    Sweeps <- SomeSweeps
    MaxPatches = 3
    Decks <- SomeDecks
    GoalTags <- SomeTags
    Target = 1200
    Baselines <- SomeBaselines
    Outcomes_ <- SomeOutcomes
    MaxRounds = 4
    IdParts = 3
INVARIANTS BenchmarkInvariant ConclusionInvariant RepairPlanInvariant RankingInvariant PatchInvariant PatchLoopInvariant
CHECK_DEADLOCK FALSE
