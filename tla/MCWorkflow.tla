------------------------------ MODULE MCWorkflow ------------------------------
(* The way of a run for TLC: the plan on its way to a graph, the graph in the     *)
(* executor, and what the run answers, saves and is remembered by.  A behaviour    *)
(* is about one of them, and the others stay in one initial state.                *)
EXTENDS MCTaskGraphExecutor, TaskGraphContract, RunTrace

VARIABLE about

workflowVars == <<about, vars, contractVars, reportVars, traceVars>>

(* Plans of two and three steps in every shape, names like those of a replan,   *)
(* entries that are no steps, and graphs of the orchestrator's own.             *)
Step(id, parent, kind) == [id |-> id, parent |-> parent, kind |-> kind]
StepsOf(ids, kinds) == [id : ids, parent : {<<>>, <<"s1">>, <<"s2">>, <<"s3">>}, kind : kinds]
PlanOf(steps) == [steps |-> steps, graph |-> NoGraph]
OwnGraphs ==
    {[nodes |-> <<Step(<<"s1">>, <<>>, "work"), Step(<<"s2">>, parent, "work")>>, edges |-> edges] :
        parent \in {<<>>, <<"s1">>},
        edges \in {{}, {[from |-> <<"s1">>, to |-> <<"s2">>, condition |-> "always"]},
                        {[from |-> <<"s2">>, to |-> <<"s1">>, condition |-> "always"]}}}
MCPlanAnswers ==
    LET ends == {"work", "finalize", "stop"} IN
    {PlanOf(<<>>)}
    \cup {PlanOf(<<a, b>>) :
            a, b \in StepsOf({<<>>, <<"s1">>, <<"s2">>, <<"rp1">>, <<"rp1", "s1">>}, ends)}
    \cup {PlanOf(<<a, b>>) :
            a, b \in StepsOf({<<>>, <<"s1">>}, {"work", "junk", "missing", "unknown"})}
    \cup {PlanOf(<<a, b, c>>) : a \in StepsOf({<<"s1">>}, ends), b \in StepsOf({<<"s2">>}, ends),
                                c \in StepsOf({<<"s3">>}, ends)}
    \cup {[steps |-> <<a, b>>, graph |-> own] :
            a \in StepsOf({<<"s1">>}, {"work", "unknown"}),
            b \in StepsOf({<<"s2">>}, {"work", "finalize"}), own \in OwnGraphs}
MCRevisedAnswers ==
    {PlanOf(<<Step(<<>>, <<>>, "work")>>),
     PlanOf(<<Step(<<"s1">>, <<>>, "work"), Step(<<"s2">>, <<>>, "finalize")>>),
     PlanOf(<<Step(<<"s1">>, <<"s2">>, "work"), Step(<<"s2">>, <<>>, "stop")>>),
     PlanOf(<<Step(<<"s1">>, <<"s2">>, "work"), Step(<<"s2">>, <<"s1">>, "work")>>),
     [steps |-> <<Step(<<"s1">>, <<"s3">>, "work")>>,
      graph |-> [nodes |-> <<Step(<<"s1">>, <<>>, "work")>>, edges |-> {}]]}
MCStepNames == <<"s1", "s2", "s3">>
MCReplanNames == <<"rp1", "rp2", "rp3">>

(* Runs with approvals of steps, of commands and of both, in a row and beside    *)
(* one another.                                                                 *)
PlannedStep(kind, gated, after) == [kind |-> kind, gated |-> gated, after |-> after]
MCRunPlans ==
    {<<PlannedStep("tool", FALSE, {}), PlannedStep("work", FALSE, {1})>>,
     <<PlannedStep("tool", FALSE, {}), PlannedStep("tool", FALSE, {})>>,
     <<PlannedStep("work", TRUE, {}), PlannedStep("tool", FALSE, {1})>>,
     <<PlannedStep("work", TRUE, {}), PlannedStep("tool", TRUE, {})>>,
     <<PlannedStep("reasoned", FALSE, {}), PlannedStep("work", FALSE, {})>>,
     <<PlannedStep("work", FALSE, {}), PlannedStep("denied", FALSE, {})>>,
     <<PlannedStep("ask", FALSE, {}), PlannedStep("tool", FALSE, {})>>,
     <<PlannedStep("tool", FALSE, {}), PlannedStep("work", TRUE, {1}), PlannedStep("tool", FALSE, {2})>>,
     <<PlannedStep("work", FALSE, {})>>}

(* Three runs in a row, or two with what may go wrong.                          *)
MCReportBounds == {[runs |-> 3, faults |-> 0], [runs |-> 2, faults |-> 2]}

WorkflowInit ==
    /\ about \in {"plan", "graph", "report"}
    /\ Init /\ ContractInit /\ TraceInit
    /\ about # "graph" => graph = CHOOSE g \in AllGraphs : TRUE
    /\ about # "report" => /\ ~autoApprove /\ ~remembering
                          /\ reportBound = CHOOSE bound \in MCReportBounds : TRUE

WorkflowNext ==
    /\ UNCHANGED about
    /\ \/ about = "plan" /\ ContractNext /\ UNCHANGED <<vars, reportVars, traceVars>>
       \/ about = "graph" /\ Next /\ UNCHANGED <<contractVars, reportVars, traceVars>>
       \/ about = "report" /\ TraceNext /\ UNCHANGED <<vars, contractVars>>

(* The fairness of TaskGraphExecutor.FairSpec. *)
WorkflowSpec ==
    /\ WorkflowInit /\ [][WorkflowNext]_workflowVars
    /\ WF_vars(about = "graph" /\ InCall)
===============================================================================
