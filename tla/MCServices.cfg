SPECIFICATION ServicesSpec
CONSTANTS
    s1 = s1
    s2 = s2
    Skills = {s1, s2}
    SkillRuns = {q1, q2}
    Seeded = {s1}
    ArchiveBelow = 1
    DeprecateBelow = 2
    Proposable = 3
    Top = 3
    SkillBounds <- MCSkillBounds
    MemoryRuns = {run1, run2}
    EventOf <- MCEventOf
    Days = 1
    MaxListLen = 2
    HitLimit = 2
    PageLimit = 2
    MemoryBounds <- MCMemoryBounds
    Asks = {a1, a2}
    Prompts = {p1, p2}
    MaxAttempts = 2
    MaxTries = 2
    CacheSize = 2
    FixedIp = TRUE
    Levels <- MCLevels
    WindowOf <- MCWindowOf
    LimitOf <- MCLimitOf
    Window = 2
    DailyWindow = 4
    HourlyAlert = 2
    DailyAlert = 3
    Cooldown = 2
    Priorities = {"default"}
    Capacity = 2
    Refill = 1
    MaxUsage = 2
    MaxRecords = 3
    CostHorizon = 5
    MaxStepsPerSegment = 3
    MaxSummarySteps = 2
    StepBound = 8
SYMMETRY ServicesSymmetry
CHECK_DEADLOCK FALSE
INVARIANTS UsesCountedOnce ContextsFound ReadersAreServed DnsRestoredUnlessLeft LimitsHold EventTellsTheWorst SegmentsTellTheRun
PROPERTIES SkillsStaySound CleanupSparesTheLive
