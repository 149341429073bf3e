SPECIFICATION FairSpec
CONSTANTS
    down = down
    slow = slow
    fine = fine
    Subjects <- AllSubjects
    SeverityOf <- Rated
    Roles = {"watcher", "engineer", "analyst"}
    Window = 2
    MaxAge = 1
    MaxBatch = 3
    MaxBeliefs = 4
INVARIANTS
    OneAlertPerBelief
    UnheardWereCrowded
PROPERTIES
    AlertsSettle
