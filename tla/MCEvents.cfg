SPECIFICATION EventsSpec
CONSTANTS
    rest = rest
    ownTask = ownTask
    Runs = {rest}
    Rest = {rest}
    Tasks = {ownTask}
    taskOf <- Submission
    Steps = {s1, s2, s3}
    TraceMayFail = TRUE
    e1 = e1
    e2 = e2
    c1 = c1
    c2 = c2
    Calls <- MCCalls
    EventIds <- MCEventIds
    EventType <- MCEventType
    EventLinks <- MCEventLinks
    Conflicts <- MCConflicts
    Awaited <- MCAwaited
    AgentOrder <- MCAgentOrder
    CandidateSets <- MCCandidateSets
    NoCall = NoCall
    NoEvent = NoEvent
    NoAgent = NoAgent
    CronTasks = {t1, t2}
    Loops = {l1, l2}
    Descriptions <- MCDescriptions
    Expressions <- MCExpressions
    Hour = 1
    Day = 2
    Week = 2
    MaxConcurrentCrons = 1
    CronHorizon = 2
    NotYet = NotYet
    NoLoop = NoLoop
    Askers = {a1}
    MaxSteps = 3
    Messages = {m1, m2}
    Receivers = {r1}
    Callbacks = {k1, k2}
    Everyone = Everyone
    NoMessage = NoMessage
CHECK_DEADLOCK FALSE
INVARIANTS FailureStays SettledTruly HistoryHolds QuestionsSettle EveryoneHears
PROPERTIES EverySubmissionSettles LoopKeepsTime DueIsTriggered
