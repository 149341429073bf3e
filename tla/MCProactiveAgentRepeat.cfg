SPECIFICATION Spec
CONSTANTS
    down = down
    slow = slow
    fine = fine
    Subjects <- CriticalAndFine
    SeverityOf <- Rated
    Roles = {"watcher"}
    Window = 5
    MaxAge = 5
    MaxBatch = 1
    MaxBeliefs = 3
INVARIANTS
    SignalDeliveredOnce
