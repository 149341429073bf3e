SPECIFICATION FairSpec
CONSTANTS
    r1 = r1
    r2 = r2
    r3 = r3
    Runs <- ThreeRuns
    TokenEstimates = {1, 3}
    EventWindow = 2
    BurstLimit = 2
    MaxConcurrent = 2
    TokenWindow = 3
    TokenBudget = 4
    FailureThreshold = 2
    OpenFor = 2
    Horizon = 4
INVARIANTS
    TokenBound
    QuietWhileOpen
PROPERTIES
    ImplementsPolicy
    SlotReturned
CHECK_DEADLOCK FALSE
