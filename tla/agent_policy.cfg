SPECIFICATION Spec
CONSTANTS
    Requests <- MCRequests
    Evidence <- MCEvidence
    MaxSteps <- MCMaxSteps
    MaxRefinements = 1
    MaxDesigns = 1
    MaxExtensions = 1
    MaxFiles = 3
    MaxLaunches = 2
INVARIANTS LimitsHold SignoffHolds
PROPERTIES NeverRepeats
CHECK_DEADLOCK FALSE
