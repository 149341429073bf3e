SPECIFICATION WorkflowSpec
CONSTANTS
    NodeCount = 3
    Graphs <- AllGraphs
    MaxCalls = 3
    PlanAnswers <- MCPlanAnswers
    RevisedAnswers <- MCRevisedAnswers
    StepNames <- MCStepNames
    ReplanNames <- MCReplanNames
    RunPlans <- MCRunPlans
    ReportBounds <- MCReportBounds
INVARIANTS RoutesHonoured GateHolds HonestCompletion StallsOnlyOnBadGraph
           PlansCanFinish AnswersAreHonest TraceTellsTheRun
PROPERTIES ResumeKeepsSuccess ImplementsOrder CallReturns
CHECK_DEADLOCK FALSE
