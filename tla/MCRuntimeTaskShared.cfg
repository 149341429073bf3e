CONSTANTS
    rest = rest
    first = first
    second = second
    ownTask = ownTask
    sharedTask = sharedTask
    Runs = {first, second, rest}
    Rest = {rest}
    Tasks = {ownTask, sharedTask}
    taskOf <- Redelivery
    Steps = {s1, s2}
    TraceMayFail = TRUE
SPECIFICATION SharedSpec
SYMMETRY RunSymmetry
INVARIANTS NoOrphanStep ViewsAgree
CHECK_DEADLOCK FALSE
