SPECIFICATION Spec
CONSTANTS
    r1 = r1
    r2 = r2
    r3 = r3
    Runs <- ThreeRuns
    TokenEstimates = {1}
    EventWindow = 1
    BurstLimit = 2
    MaxConcurrent = 2
    TokenWindow = 1
    TokenBudget = 3
    FailureThreshold = 2
    OpenFor = 1
    Horizon = 2
PROPERTIES
    FailureIsolated
CHECK_DEADLOCK FALSE
