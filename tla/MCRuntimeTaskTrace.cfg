CONSTANTS
    rest = rest
    first = first
    second = second
    ownTask = ownTask
    sharedTask = sharedTask
    Runs = {rest}
    Rest = {rest}
    Tasks = {ownTask}
    taskOf <- Submission
    Steps = {s1}
    TraceMayFail = TRUE
SPECIFICATION Spec
INVARIANT SettledIsShownEnded
CHECK_DEADLOCK FALSE
