CONSTANTS
    NodeCount = 2
    Graphs <- Fallback
    MaxCalls = 2
SPECIFICATION Spec
INVARIANTS FailureBranchRuns
CHECK_DEADLOCK FALSE
