------------------------------ MODULE RuntimeTask ------------------------------
(***************************************************************************)
(* The task record a client polls while a workflow run works on it: the    *)
(* RuntimeTaskStore, the run's stages that write to it, and the two ways a *)
(* run is started, by the REST BFF or directly (a system event, a message  *)
(* from the gateway, an intention of an agent).                            *)
(*                                                                         *)
(* Every store operation takes the store's lock and never waits in it, so  *)
(* each is one step.  What happens between two operations (the agents'     *)
(* answers, memory, skills) is abstracted to the run going on or raising.  *)
(* TaskGraphExecutor models a call of execute; here it is only the order   *)
(* in which its callbacks reach the store.                                 *)
(***************************************************************************)
EXTENDS FiniteSets

CONSTANTS
    Runs,           \* the workflow runs
    Rest,           \* those submitted through POST /api/tasks
    Tasks,          \* the task ids
    taskOf,         \* the task each run works on
    Steps,          \* the ids a plan's steps may have
    TraceMayFail    \* whether writing the run trace to disk may raise

\* submit_task makes up a new id; a redelivered gateway message or a cron
\* task that fires again starts a second run on the id of the first.
ASSUME RunAssumption ==
    /\ Rest \subseteq Runs
    /\ taskOf \in [Runs -> Tasks]
    /\ \A r \in Rest, q \in Runs : taskOf[q] = taskOf[r] => q = r
    /\ TraceMayFail \in BOOLEAN

StepResults  == {"completed", "skipped", "failed", "blocked", "stopped"}
TaskStatuses == {"absent", "pending", "running", "completed", "failed", "cancelled"}
NodeStatuses == {"absent", "pending", "running", "completed", "failed", "blocked", "skipped"}
Agents       == {"none", "intent", "orchestrator", "critic", "worker"}
Outcomes     == {"completed", "failed", "blocked", "stopped", "stalled", "raised", "lost"}
Stages       == {"idle", "queued", "starting", "planning", "reviewing", "revising", "armed",
                 "executing", "replanning", "reporting", "closing", "returned", "finalized",
                 "settled"}

VARIABLES
    record,      \* RuntimeTaskStore._tasks
    stage,       \* how far each run is
    plan,        \* the steps of the run's active task graph
    got,         \* in the current call of execute: "todo", "started", "skipping"
                 \* (conditions do not hold) or the result reported for the step
    outcome,     \* the status the run is going to return
    resumed,     \* state.is_resume
    replanned    \* whether a runtime replan was made

vars == <<record, stage, plan, got, outcome, resumed, replanned>>

NoSteps == [s \in Steps |-> "absent"]
Todo    == [s \in Steps |-> "todo"]

\* The record create_task makes.
Created == [status |-> "pending", graphStatus |-> "pending", steps |-> NoSteps,
            nodes |-> NoSteps, agent |-> "none", attached |-> FALSE]

Init ==
    /\ record = [t \in Tasks |-> [Created EXCEPT !.status = "absent"]]
    /\ stage = [r \in Runs |-> "idle"]
    /\ plan = [r \in Runs |-> {}]
    /\ got = [r \in Runs |-> Todo]
    /\ outcome = [r \in Runs |-> "completed"]
    /\ resumed = [r \in Runs |-> FALSE]
    /\ replanned = [r \in Runs |-> FALSE]

--------------------------------------------------------------------------------
(* The three vocabularies of a status *)

\* normalize_task_status of what a run returns.
TaskStatus(result) ==
    CASE result = "completed" -> "completed"
      [] result = "stopped"   -> "cancelled"
      [] result = "lost"      -> "pending"     \* there is no "status" to normalize
      [] OTHER                -> "failed"

\* normalize_step_status
StepStatus(status) ==
    CASE status \in {"stopped", "skipped"} -> "cancelled"
      [] status = "blocked"                -> "failed"
      [] OTHER                             -> status

\* _normalize_graph_status
GraphStatus(status) == IF status = "stopped" THEN "blocked" ELSE status

--------------------------------------------------------------------------------
(* The store's operations, as functions of the record *)

Running(rec) == [rec EXCEPT !.status = "running", !.graphStatus = "running"]

Failed(rec) == [rec EXCEPT !.status = "failed", !.graphStatus = "failed", !.agent = "none"]

\* The nodes of a graph's snapshot: its steps with the statuses of a trace.
Snapshot(steps, trace) ==
    [s \in Steps |-> CASE s \notin steps            -> "absent"
                       [] trace[s] \in StepResults -> GraphStatus(trace[s])
                       [] OTHER                     -> "pending"]

\* _replace_steps_from_graph
StepsOfNodes(nodes) == [s \in Steps |-> StepStatus(nodes[s])]

\* sync_task_graph
Synced(rec, steps, trace) ==
    LET nodes == Snapshot(steps, trace)
    IN  [rec EXCEPT !.graphStatus = rec.status, !.nodes = nodes, !.steps = StepsOfNodes(nodes)]

\* mark_step_started for each executable step of a wave; a delegate's agent
\* becomes the current one.
Started(rec, wave, agent) ==
    [Running(rec) EXCEPT
        !.steps = [s \in Steps |-> IF s \in wave THEN "running" ELSE rec.steps[s]],
        !.nodes = [s \in Steps |-> IF s \in wave /\ rec.nodes[s] # "absent"
                                   THEN "running" ELSE rec.nodes[s]],
        !.agent = agent]

\* The record's status once a step is reported. Mutant: a sibling that ends
\* well after a failure sets it to running again.
ReportedAnyhow(rec, result) == IF StepStatus(result) = "failed" THEN "failed" ELSE "running"
Reported(rec, result) ==
    IF StepStatus(result) = "failed" \/ rec.status = "failed" THEN "failed" ELSE "running"

\* Mutants: a failed record is not touched any more; only the graph is told.
EndedUnlessFailed(rec, s, result) ==
    IF rec.status = "failed" THEN rec
    ELSE [rec EXCEPT !.status = Reported(rec, result), !.graphStatus = Reported(rec, result),
                     !.steps[s] = StepStatus(result), !.agent = "none"]
EndedInGraph(rec, s, result) ==
    [rec EXCEPT !.status = Reported(rec, result), !.graphStatus = Reported(rec, result),
                !.nodes[s] = IF @ = "absent" THEN @ ELSE GraphStatus(result)]

\* mark_step_completed
Ended(rec, s, result) ==
    [rec EXCEPT !.status = Reported(rec, result), !.graphStatus = Reported(rec, result),
                !.agent = "none",
                !.steps[s] = StepStatus(result),
                !.nodes[s] = IF @ = "absent" THEN @ ELSE GraphStatus(result)]

\* The nodes of the returned graph, which a stalled call leaves blocked, and
\* the steps of the returned trace, or of the graph when the trace is empty.
ReturnedNodes(r) ==
    [s \in Steps |-> IF outcome[r] = "stalled" /\ s \in plan[r] /\ got[r][s] \notin StepResults
                     THEN "blocked" ELSE Snapshot(plan[r], got[r])[s]]
ReturnedSteps(r) ==
    IF \A s \in plan[r] : got[r][s] \notin StepResults
    THEN StepsOfNodes(ReturnedNodes(r))
    ELSE [s \in Steps |-> IF got[r][s] \in StepResults THEN StepStatus(got[r][s]) ELSE "absent"]

\* Mutant: the status is taken over and the step list is left as it was.
FinalizedStatus(rec, r) == [rec EXCEPT !.status = TaskStatus(outcome[r])]

\* finalize_task; a result without a task graph leaves graph and steps alone.
Finalized(rec, r) ==
    LET done == [rec EXCEPT !.status = TaskStatus(outcome[r]), !.agent = "none"]
    IN  IF outcome[r] \in {"raised", "lost"} THEN done
        ELSE [done EXCEPT !.graphStatus = TaskStatus(outcome[r]),
                          !.nodes = ReturnedNodes(r), !.steps = ReturnedSteps(r)]

Store(r, rec) == record' = [record EXCEPT ![taskOf[r]] = rec]
Current(r)    == record[taskOf[r]]

Goto(r, from, to) ==
    /\ stage[r] = from
    /\ stage' = [stage EXCEPT ![r] = to]

--------------------------------------------------------------------------------
(* A run *)

\* RestBffService.submit_task: the task is registered and its asyncio.Task,
\* which has not run yet, attached.
Submit(r) ==
    /\ r \in Rest
    /\ Goto(r, "idle", "queued")
    /\ Store(r, [Created EXCEPT !.attached = TRUE])
    /\ UNCHANGED <<plan, got, outcome, resumed, replanned>>

\* _execute_task, or the caller of start_from_event, up to start_agents: the
\* record is made if there is none, and shown running.
Begin(r) ==
    /\ Goto(r, IF r \in Rest THEN "queued" ELSE "idle", "starting")
    /\ LET rec == IF Current(r).status = "absent" THEN Created ELSE Current(r)
       IN  Store(r, [Running(rec) EXCEPT !.agent = "intent"])
    /\ UNCHANGED <<plan, got, outcome, resumed, replanned>>

\* The resume request lacks fields: an early result, and no store operation.
\* submit_task never asks for a resume.
ResumeIncomplete(r) ==
    /\ r \notin Rest
    /\ Goto(r, "starting", "returned")
    /\ outcome' = [outcome EXCEPT ![r] = "failed"]
    /\ UNCHANGED <<record, plan, got, resumed, replanned>>

\* The intent agent has answered.
Intent(r) ==
    /\ Goto(r, "starting", "planning")
    /\ Store(r, [Current(r) EXCEPT !.agent = "orchestrator"])
    /\ UNCHANGED <<plan, got, outcome, resumed, replanned>>

\* The same for a resume, which takes the plan, and the results of the run
\* before, from its request and skips planning.
Resume(r) ==
    /\ r \notin Rest
    /\ Goto(r, "starting", "armed")
    /\ Store(r, [Current(r) EXCEPT !.agent = "orchestrator"])
    /\ resumed' = [resumed EXCEPT ![r] = TRUE]
    /\ \E steps \in (SUBSET Steps) \ {{}} :
          /\ plan' = [plan EXCEPT ![r] = steps]
          /\ \E prior \in [Steps -> {"todo"} \cup StepResults] :
                /\ \A s \in Steps \ steps : prior[s] = "todo"
                /\ got' = [got EXCEPT ![r] = prior]
    /\ UNCHANGED <<outcome, replanned>>

\* The orchestrator's plan, written and read back.
Plan(r) ==
    /\ Goto(r, "planning", "reviewing")
    /\ \E steps \in (SUBSET Steps) \ {{}} :
          /\ plan' = [plan EXCEPT ![r] = steps]
          /\ Store(r, Synced(Current(r), steps, got[r]))
    /\ UNCHANGED <<got, outcome, resumed, replanned>>

\* The critic's answer: the plan is accepted or has to be extended.
Review(r) ==
    /\ \E next \in {"armed", "revising"} : Goto(r, "reviewing", next)
    /\ Store(r, [Current(r) EXCEPT !.agent = "critic"])
    /\ UNCHANGED <<plan, got, outcome, resumed, replanned>>

\* append_replan_subgraph
Revise(r) ==
    /\ Goto(r, "revising", "armed")
    /\ \E steps \in SUBSET Steps :
          /\ plan[r] \subseteq steps
          /\ plan' = [plan EXCEPT ![r] = steps]
          /\ Store(r, Synced(Current(r), steps, got[r]))
    /\ UNCHANGED <<got, outcome, resumed, replanned>>

\* run_execution_stage up to the first wave. A resume runs again what had no
\* success and what depends on it.
Execute(r) ==
    /\ Goto(r, "armed", "executing")
    /\ Store(r, [Synced(Current(r), plan[r], got[r]) EXCEPT !.agent = "none"])
    /\ \E again \in SUBSET plan[r] :
          /\ \A s \in plan[r] : got[r][s] \notin {"completed", "skipped"} => s \in again
          /\ got' = [got EXCEPT ![r] = [s \in Steps |-> IF s \in again THEN "todo" ELSE @[s]]]
    /\ UNCHANGED <<plan, outcome, resumed, replanned>>

Left(r)   == {s \in plan[r] : got[r][s] = "todo"}
InWave(r) == {s \in plan[r] : got[r][s] \in {"started", "skipping"}}

\* A wave: _on_node_started for the executable steps, none for the skipped.
Launch(r) ==
    /\ stage[r] = "executing"
    /\ InWave(r) = {}
    /\ outcome[r] = "completed"
    /\ \E wave, skipping \in SUBSET Left(r) :
          /\ wave \cap skipping = {}
          /\ wave \cup skipping # {}
          /\ got' = [got EXCEPT ![r] = [s \in Steps |->
                        CASE s \in wave     -> "started"
                          [] s \in skipping -> "skipping"
                          [] OTHER          -> @[s]]]
          /\ \E agent \in {Current(r).agent, "worker"} :
                Store(r, IF wave = {} THEN Current(r) ELSE Started(Current(r), wave, agent))
    /\ UNCHANGED <<stage, plan, outcome, resumed, replanned>>

\* A step of the wave is processed: _on_node_completed, then the call's status.
Report(r) ==
    /\ stage[r] = "executing"
    /\ \E s \in InWave(r), result \in StepResults :
          /\ (got[r][s] = "skipping") = (result = "skipped")
          /\ got' = [got EXCEPT ![r][s] = result]
          /\ Store(r, Ended(Current(r), s, result))
          /\ outcome' = [outcome EXCEPT ![r] = IF result \in {"completed", "skipped"}
                                               THEN @ ELSE result]
    /\ UNCHANGED <<stage, plan, resumed, replanned>>

\* No step left is ready.
Stall(r) ==
    /\ stage[r] = "executing"
    /\ InWave(r) = {}
    /\ Left(r) # {}
    /\ outcome[r] = "completed"
    /\ outcome' = [outcome EXCEPT ![r] = "stalled"]
    /\ UNCHANGED <<record, stage, plan, got, resumed, replanned>>

CallOver(r) == InWave(r) = {} /\ (Left(r) = {} \/ outcome[r] # "completed")

\* Mutant: the runtime replan is itself replanned.
MayReplanAgain(r) == ~resumed[r] /\ outcome[r] = "failed"

\* _maybe_runtime_replan's conditions, but for the failure's classification.
MayReplan(r) == ~resumed[r] /\ ~replanned[r] /\ outcome[r] = "failed"

\* execute returns; what a replan ran is synced with its trace.
ExecutionEnds(r) ==
    /\ CallOver(r)
    /\ Goto(r, "executing", "reporting")
    /\ IF replanned[r] THEN Store(r, Synced(Current(r), plan[r], got[r])) ELSE UNCHANGED record
    /\ UNCHANGED <<plan, got, outcome, resumed, replanned>>

ReplanStarts(r) ==
    /\ CallOver(r)
    /\ MayReplan(r)
    /\ Goto(r, "executing", "replanning")
    /\ UNCHANGED <<record, plan, got, outcome, resumed, replanned>>

\* The new plan, shown with what the old one left behind under the same ids,
\* and executed from scratch.
Replan(r) ==
    /\ Goto(r, "replanning", "executing")
    /\ \E steps \in (SUBSET Steps) \ {{}} :
          /\ plan' = [plan EXCEPT ![r] = steps]
          /\ Store(r, Synced(Current(r), steps, got[r]))
    /\ got' = [got EXCEPT ![r] = Todo]
    /\ outcome' = [outcome EXCEPT ![r] = "completed"]
    /\ replanned' = [replanned EXCEPT ![r] = TRUE]
    /\ UNCHANGED resumed

\* The final review, and the result after it.
FinalReview(r) ==
    /\ Goto(r, "reporting", "closing")
    /\ Store(r, [Current(r) EXCEPT !.agent = "critic"])
    /\ UNCHANGED <<plan, got, outcome, resumed, replanned>>

Return(r) ==
    /\ Goto(r, "closing", "returned")
    /\ Store(r, [Current(r) EXCEPT !.agent = "none"])
    /\ UNCHANGED <<plan, got, outcome, resumed, replanned>>

\* An agent's answer cannot be used, or a stage raises: fail_task.
Raise(r) ==
    /\ \E from \in {"starting", "planning", "reviewing", "revising", "replanning", "closing"} :
          Goto(r, from, "returned")
    /\ Store(r, Failed(Current(r)))
    /\ outcome' = [outcome EXCEPT ![r] = "raised"]
    /\ UNCHANGED <<plan, got, resumed, replanned>>

\* _record_run_trace_snapshot raises after the run: run_proactive_workflow
\* answers with a result that has no status at its top level.
LoseResult(r) ==
    /\ TraceMayFail
    /\ r \in Rest
    /\ stage[r] = "returned"
    /\ outcome[r] # "lost"
    /\ outcome' = [outcome EXCEPT ![r] = "lost"]
    /\ UNCHANGED <<record, stage, plan, got, resumed, replanned>>

\* Only _execute_task finalizes the record, and then lets go of the task.
Finalize(r) ==
    /\ r \in Rest
    /\ Goto(r, "returned", "finalized")
    /\ Store(r, Finalized(Current(r), r))
    /\ UNCHANGED <<plan, got, outcome, resumed, replanned>>

Clear(r) ==
    /\ Goto(r, "finalized", "settled")
    /\ Store(r, [Current(r) EXCEPT !.attached = FALSE])
    /\ UNCHANGED <<plan, got, outcome, resumed, replanned>>

Prepare(r) ==
    \/ Submit(r)
    \/ Begin(r)
    \/ ResumeIncomplete(r)
    \/ Intent(r)
    \/ Resume(r)
    \/ Plan(r)
    \/ Review(r)
    \/ Revise(r)

Perform(r) ==
    \/ Execute(r)
    \/ Launch(r)
    \/ Report(r)
    \/ Stall(r)
    \/ ExecutionEnds(r)
    \/ ReplanStarts(r)
    \/ Replan(r)

Conclude(r) ==
    \/ FinalReview(r)
    \/ Return(r)
    \/ Raise(r)
    \/ LoseResult(r)
    \/ Finalize(r)
    \/ Clear(r)

Next == \E r \in Runs : Prepare(r) \/ Perform(r) \/ Conclude(r)

\* The event loop runs a submitted task on; every agent call and every step
\* of it comes to an end.
Fairness == \A r \in Rest : WF_vars(Prepare(r) \/ Perform(r) \/ Conclude(r))

Spec     == Init /\ [][Next]_vars
FairSpec == Spec /\ Fairness

--------------------------------------------------------------------------------
(* Properties *)

RecordType == [status: TaskStatuses, graphStatus: TaskStatuses \ {"absent"},
               steps: [Steps -> {"absent"} \cup TaskStatuses],
               nodes: [Steps -> NodeStatuses], agent: Agents, attached: BOOLEAN]

\* The records, the runs' stages and their results have the values the code
\* gives them; in particular no status escapes the three vocabularies.
TypeOK ==
    /\ record \in [Tasks -> RecordType]
    /\ stage \in [Runs -> Stages]
    /\ plan \in [Runs -> SUBSET Steps]
    /\ got \in [Runs -> [Steps -> {"todo", "started", "skipping"} \cup StepResults]]
    /\ outcome \in [Runs -> Outcomes]
    /\ resumed \in [Runs -> BOOLEAN]
    /\ replanned \in [Runs -> BOOLEAN]

\* A step shown running is being run: whatever way a run ends, replans, or is
\* disturbed by another run on the same task, it leaves no step running.
NoOrphanStep ==
    \A t \in Tasks, s \in Steps :
        record[t].steps[s] = "running" \/ record[t].nodes[s] = "running" =>
            \E r \in Runs : taskOf[r] = t /\ stage[r] = "executing" /\ got[r][s] = "started"

Agrees(rec) ==
    \A s \in Steps :
        rec.steps[s] # "absent" /\ rec.nodes[s] # "absent" =>
            \/ rec.steps[s] = StepStatus(rec.nodes[s])
            \/ rec.steps[s] = "cancelled" /\ rec.nodes[s] = "blocked"

\* What the step list says of a step is what the graph says of it, up to the
\* two words for a stop: GET /api/tasks/{id} and its /graph tell one story.
ViewsAgree == \A t \in Tasks : Agrees(record[t])

\* Once a step of a submitted task has failed or is blocked, the task shows
\* failed until the run ends or replans, whatever its siblings report later.
FailureStays ==
    \A r \in Rest :
        /\ stage[r] \in {"executing", "replanning", "reporting", "closing", "returned"}
        /\ \E s \in plan[r] : got[r][s] \in {"failed", "blocked"}
        => Current(r).status = "failed"

\* A submitted task that is over shows the outcome of its run, the same in
\* the record and in the graph, and completed only if every step of the plan
\* that was executed last was completed or skipped.
SettledTruly ==
    \A r \in Rest : stage[r] \in {"finalized", "settled"} /\ outcome[r] # "lost" =>
        LET rec == Current(r) IN
        /\ rec.status = TaskStatus(outcome[r])
        /\ rec.graphStatus = rec.status
        /\ rec.agent = "none"
        /\ rec.status = "completed" =>
              \A s \in plan[r] : /\ rec.steps[s] \in {"completed", "cancelled"}
                                 /\ rec.nodes[s] \in {"completed", "skipped"}

\* Every submitted task is settled in the end: a run replans at most once.
EverySubmissionSettles == \A r \in Rest : stage[r] = "queued" ~> stage[r] = "settled"

\* docs/ARCHITECTURE.md 9.2: once a task completes its status is completed. A
\* task whose run trace could not be written is shown pending for ever.
SettledIsShownEnded ==
    \A r \in Rest : stage[r] = "settled" => Current(r).status \notin {"pending", "running"}

================================================================================
