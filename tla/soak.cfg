SPECIFICATION FairSpec
CONSTANTS
    Requests <- MCRequests
    MaxSteps = 3
    Slice = 2
    MaxAttempts = 1
    MaxGuided = 1
    Reasons = {"llm_schema", "unknown"}
    MaxLaunches = 2
INVARIANTS TypeOK RetriesBounded EndMatchesAgent RecordedOnce
PROPERTIES SoakIsFinite
CHECK_DEADLOCK FALSE
