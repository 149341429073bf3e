CONSTANTS
    one = one
    two = two
    Steps = {one, two}
    Commands <- AllCommands
    RetryBudget = 0
    StepTimeout = FALSE
    ToolLimit = 1
    SideLimit = 1
SPECIFICATION MCSpec
INVARIANTS CallLimit
CHECK_DEADLOCK FALSE
