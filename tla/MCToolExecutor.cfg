CONSTANTS
    one = one
    two = two
    Steps = {one, two}
    Commands <- AllCommands
    RetryBudget = 1
    StepTimeout = TRUE
    ToolLimit = 2
    SideLimit = 1
SPECIFICATION MCSpec
INVARIANTS SettledByItsAttempt HandlerCallBound EffectsApproved
PROPERTIES StepSettles
CHECK_DEADLOCK FALSE
