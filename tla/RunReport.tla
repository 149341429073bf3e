------------------------------- MODULE RunReport -------------------------------
(***************************************************************************)
(* What a run that needs approvals answers, what it leaves behind and how    *)
(* another run resumes it: the approval a step and a command ask for, the    *)
(* records and receipts of an execution, the answer made of them, the        *)
(* context that is saved, and the decision written into it on a resume.      *)
(*                                                                         *)
(* A run executes its steps wave by wave.  Conditions, skips, retries and     *)
(* graphs that stall are TaskGraphExecutor's and ToolExecutor's; a step here   *)
(* completes, fails or is blocked.  The kinds are "tool", whose command has a  *)
(* side effect that has to be approved, "reasoned" where the approval needs a  *)
(* note as well, "denied" where a rule refuses the command first, "ask" for    *)
(* ask_human and "work" for all others.  The plans bring no approvals of their *)
(* own.                                                                    *)
(***************************************************************************)
EXTENDS Integers, SequencesExt

CONSTANTS
    RunPlans,       \* the sequences of steps a run may have
    ReportBounds    \* model bounds: the runs there may be (the first, and those that
                    \* resume one) and the faults (nothing saved or written, restarts)

StepKinds == {"tool", "reasoned", "denied", "ask", "work"}

(* A step waits for steps of its plan, and of any steps one waits for none of   *)
(* them, so that the graph does not stall (StallsOnlyOnBadGraph, PlansCanFinish). *)
ASSUME PlanAssumption ==
    /\ RunPlans \subseteq Seq([kind : StepKinds, gated : BOOLEAN, after : SUBSET Nat])
    /\ \A plan \in RunPlans : \A ids \in (SUBSET DOMAIN plan) \ {{}} :
          \E i \in ids : plan[i].after \subseteq DOMAIN plan \ ids

VARIABLES
    reportBound,    \* one of ReportBounds, with the faults that are left
    reportStage,    \* "idle", "executing", "executed", "answered"
    autoApprove,    \* HITL_AUTO_APPROVE
    remembering,    \* the memory is enabled
    current,        \* the run being executed, its request and its results
    answer,         \* what the last run returned
    savedRuns       \* what each run saved under its run_id

reportVars == <<reportBound, reportStage, autoApprove, remembering, current, answer, savedRuns>>

NoAnswer == [status |-> "none", required |-> FALSE, approved |-> FALSE, summarized |-> FALSE]
NoContext == [steps |-> <<>>]

ToolKinds == {"tool", "reasoned", "denied"}

(* A planned step: gate is node["approval"]["state"] where an approval of the    *)
(* step is required and "none" elsewhere, approval that of params["approval"].   *)
Planned(step) == [kind |-> step.kind, after |-> step.after,
                  gate |-> IF step.gated THEN "pending" ELSE "none", approval |-> "none"]

Fresh(plan) ==
    [steps |-> [i \in DOMAIN plan |-> Planned(plan[i])],
     remaining |-> DOMAIN plan, done |-> {}, records |-> {}, receipts |-> {},
     trace |-> <<>>, status |-> "completed", blocked |-> 0, failed |-> 0, class |-> "none",
     resumed |-> FALSE, replanned |-> FALSE, critical |-> FALSE,
     granted |-> {}, effects |-> {}]

ReportInit ==
    /\ reportStage = "idle" /\ answer = NoAnswer /\ savedRuns = <<>>
    /\ autoApprove \in BOOLEAN /\ remembering \in BOOLEAN
    /\ reportBound \in ReportBounds
    /\ current = Fresh(<<>>)

-----------------------------------------------------------------------------
(* A step *)

GateShut(step) == step.gate \notin {"none", "approved"}

(* _is_approved, with what HITL_AUTO_APPROVE puts where nothing is. *)
IsApproved(step) ==
    step.approval \in {"approved", "noted"} \/ (autoApprove /\ step.approval = "none")
LacksReason(step) == step.kind = "reasoned" /\ IsApproved(step) /\ step.approval # "noted"

(* _resolve_approval_state *)
ApprovalState(step, ok) ==
    CASE step.approval \in {"rejected", "expired"} -> step.approval
      [] IsApproved(step) -> IF ok THEN "resumed" ELSE "approved_but_failed"
      [] OTHER -> "pending"

(* The results a step may have: its status, the state of the approval record it  *)
(* adds, if any, and the class of its failure: "none" where an agent says that it *)
(* failed, "permission", or "runtime" for any other.  _check_step_approval comes  *)
(* before the step's own work, which may time out or raise; a command goes through *)
(* the gates of execute_agent_command in their order, and leaves no receipt when   *)
(* its step times out.                                                           *)
ResultsOf(step) ==
    LET result(status, state, class) == [status |-> status, state |-> state, class |-> class]
        done(state)    == result("completed", state, "none")
        blocked(state) == result("blocked", state, "permission")
        timedOut       == result("failed", "none", "runtime") IN
    CASE GateShut(step) ->
            {blocked(IF step.gate \in {"rejected", "expired"} THEN step.gate ELSE "pending")}
      [] ~GateShut(step) /\ step.kind = "work" ->
            {done("none"), result("failed", "none", "none"), timedOut}
      [] ~GateShut(step) /\ step.kind = "ask" -> {blocked("pending")}
      [] ~GateShut(step) /\ (step.kind = "denied" \/ LacksReason(step)) ->
            {result("failed", ApprovalState(step, FALSE), "permission"), timedOut}
      [] OTHER ->
            IF step.approval \in {"rejected", "expired"} \/ ~IsApproved(step)
            THEN {blocked(ApprovalState(step, FALSE)), timedOut}
            ELSE {done(ApprovalState(step, TRUE)),
                  result("failed", ApprovalState(step, FALSE), "runtime"), timedOut}

RunsCommand(step) == ~GateShut(step) /\ step.kind \in ToolKinds
PassesGates(step) ==
    RunsCommand(step) /\ step.kind # "denied" /\ ~LacksReason(step) /\ IsApproved(step)

(* The record of an approval, by the level it is asked for at.  A command keeps   *)
(* the id that its node has been given, so that the step names it as well.        *)
RecordOf(run, i, state) ==
    [id |-> <<CASE GateShut(run.steps[i])                              -> "step"
                [] ~GateShut(run.steps[i]) /\ run.steps[i].kind = "ask" -> "human"
                [] OTHER                                               -> "command", i>>,
     step |-> i, state |-> state]

(* The step that is told of last, which is the last of those that are. *)
Latest(ids, otherwise) == IF ids = {} THEN otherwise ELSE Max(ids)

(* The steps of a wave in the order of the plan, with what became of them. *)
Place(ids, i) == Cardinality({j \in ids : j <= i})
Items(results) ==
    LET nth(k) == CHOOSE i \in DOMAIN results : Place(DOMAIN results, i) = k IN
    [k \in 1 .. Cardinality(DOMAIN results) |->
        [step |-> nth(k), status |-> results[nth(k)].status]]

(* The steps of a wave whose result has a status, those that stop the run, those   *)
(* with the receipt of a command, and those whose command may have had its effect: *)
(* it succeeded, or its step timed out and its thread went on.                     *)
Told(results, status) == {i \in DOMAIN results : results[i].status = status}
Stopped(results) == Told(results, "blocked") \cup Told(results, "failed")
RanIn(run, results) ==
    {i \in DOMAIN results : RunsCommand(run.steps[i]) /\ results[i].state # "none"}
Acted(run, results) ==
    {i \in DOMAIN results :
        /\ PassesGates(run.steps[i])
        /\ results[i].status = "completed" \/ results[i].state = "none"}

NewRecords(run, results) ==
    {RecordOf(run, i, results[i].state) :
        i \in {j \in DOMAIN results : results[j].state # "none"}}
NewReceipts(run, results) ==
    {[step |-> i, state |-> results[i].state, ok |-> results[i].status = "completed"] :
        i \in RanIn(run, results)}

(* The results of a wave are folded into the run in the order of its steps: a     *)
(* record takes the place of the one with its id, a receipt that of its command.  *)
Fold(run, results) ==
    [run EXCEPT
        !.remaining = @ \ DOMAIN results,
        !.trace     = @ \o Items(results),
        !.done      = @ \cup Told(results, "completed"),
        !.status    = IF Stopped(results) = {} THEN @ ELSE results[Max(Stopped(results))].status,
        !.blocked   = Latest(Told(results, "blocked"), @),
        !.failed    = Latest(Told(results, "failed"), @),
        !.class     = IF Told(results, "failed") = {} THEN @
                      ELSE results[Max(Told(results, "failed"))].class,
        !.records   = {r \in @ : \A new \in NewRecords(run, results) : r.id # new.id}
                      \cup NewRecords(run, results),
        !.receipts  = {r \in @ : r.step \notin RanIn(run, results)} \cup NewReceipts(run, results),
        !.effects   = @ \cup Acted(run, results)]

(* One turn of the loop of TaskGraphExecutor.execute *)
Wave ==
    LET ready == {i \in current.remaining : current.steps[i].after \subseteq current.done} IN
    /\ reportStage = "executing"
    /\ \E results \in [ready -> UNION {ResultsOf(current.steps[i]) : i \in ready}] :
          /\ \A i \in ready : results[i] \in ResultsOf(current.steps[i])
          /\ current' = Fold(current, results)
    /\ reportStage' = IF current'.status # "completed" \/ current'.remaining = {}
                      THEN "executed" ELSE "executing"
    /\ UNCHANGED <<reportBound, autoApprove, remembering, answer, savedRuns>>

-----------------------------------------------------------------------------
(* The run *)

(* A run that resumes no other; the critic may ask for an approval as such. *)
StartRun(plan) ==
    /\ reportStage = "idle"
    /\ \E critical \in BOOLEAN : current' = [Fresh(plan) EXCEPT !.critical = critical]
    /\ reportStage' = IF plan = <<>> THEN "executed" ELSE "executing"
    /\ UNCHANGED <<reportBound, autoApprove, remembering, answer, savedRuns>>

(* _maybe_runtime_replan: when the failure told of last has a class and it is not  *)
(* that of a permission, another plan is executed, once, and its results take the  *)
(* place of those there were (should_runtime_replan).                             *)
MayReplan(run) ==
    /\ run.status = "failed" /\ ~run.resumed /\ ~run.replanned
    /\ run.class = "runtime"

RuntimeReplanned(plan) ==
    /\ reportStage = "executed" /\ MayReplan(current)
    /\ current' = [Fresh(plan) EXCEPT !.replanned = TRUE, !.critical = current.critical]
    /\ reportStage' = IF plan = <<>> THEN "executed" ELSE "executing"
    /\ UNCHANGED <<reportBound, autoApprove, remembering, answer, savedRuns>>

OpenStates == {"pending", "rejected", "expired"}
Open(run) == {r \in run.records : r.state \in OpenStates}

(* build_workflow_output: what the trace of approvals says, or, where there is    *)
(* none, the policy. Receipts alone tell nothing more of an approval.             *)
IsAnsweredApproved(run) ==
    IF run.records # {} THEN Open(run) = {} ELSE run.critical => autoApprove

NeedsApproval(run) == run.records # {} \/ run.critical

(* requires_manual_approval *)
RequiresManualApproval(run) == Open(run) # {} \/ (run.critical /\ ~autoApprove /\ run.records = {})

AnswerTo(run) ==
    [status |-> IF run.status = "blocked" /\ NeedsApproval(run) THEN "pending_approval"
                ELSE run.status,
     required |-> NeedsApproval(run), approved |-> IsAnsweredApproved(run),
     summarized |-> remembering /\ ~RequiresManualApproval(run)]

ContextOf(run) ==
    [status |-> run.status, trace |-> run.trace,
     steps |-> run.steps, done |-> run.done, records |-> run.records, receipts |-> run.receipts,
     blocked |-> run.blocked, failed |-> run.failed,
     granted |-> run.granted, effects |-> run.effects]

(* run_finalization_stage and build_workflow_output; the context is saved unless  *)
(* that fails, which changes nothing else.                                        *)
FinishRun ==
    /\ reportStage = "executed" /\ ~MayReplan(current)
    /\ reportStage' = "answered"
    /\ answer' = AnswerTo(current)
    /\ \E saved \in {remembering, FALSE} :
          /\ savedRuns' = Append(savedRuns, IF saved THEN ContextOf(current) ELSE NoContext)
          /\ saved = remembering \/ reportBound.faults > 0
          /\ reportBound' = IF saved = remembering THEN reportBound
                            ELSE [reportBound EXCEPT !.faults = @ - 1]
    /\ UNCHANGED <<autoApprove, remembering, current>>

-----------------------------------------------------------------------------
(* Resuming *)

(* A decision on a step, which its request names or leaves to the context.        *)
NoDecision == [state |-> "none", noted |-> FALSE]
ApprovalDecisions == {[state |-> "approved", noted |-> TRUE], [state |-> "approved", noted |-> FALSE],
              [state |-> "rejected", noted |-> FALSE], [state |-> "expired", noted |-> FALSE],
              NoDecision}

(* build_resume_payload, and the target of the decision. *)
TargetIn(context, step) ==
    CASE step # 0             -> step
      [] step = 0 /\ context.blocked # 0 -> context.blocked
      [] OTHER                -> context.failed

(* Mutant: the decision is written into every step that waits for one. *)
DecidedEverywhere(context, target, decision) ==
    [i \in DOMAIN context.steps |->
        [context.steps[i] EXCEPT
            !.gate = IF @ = "none" THEN @ ELSE decision.state,
            !.approval = IF context.steps[i].kind \in ToolKinds THEN decision.state ELSE @]]

(* apply_approval_decision_to_resume_request: into the params of a command, and   *)
(* into the step where its own approval is required.                              *)
Decided(context, target, decision) ==
    IF decision.state = "none" \/ target = 0 THEN context.steps
    ELSE [context.steps EXCEPT
             ![target].gate = IF @ = "none" THEN @ ELSE decision.state,
             ![target].approval =
                 IF context.steps[target].kind \notin ToolKinds THEN @
                 ELSE IF decision.state = "approved" /\ decision.noted THEN "noted"
                 ELSE decision.state]

(* Whatever waits for a step of such a set is in it. *)
WithDependents(steps, ids) ==
    \A i \in DOMAIN steps : steps[i].after \cap ids # {} => i \in ids

(* _should_resume_node: the target and all that comes after it. *)
Dependents(steps, target) ==
    {i \in DOMAIN steps :
        /\ target \in DOMAIN steps
        /\ \A ids \in SUBSET DOMAIN steps :
              target \in ids /\ WithDependents(steps, ids) => i \in ids}

Resumed(context, step, decision) ==
    LET target == TargetIn(context, step)
        again == Dependents(context.steps, target) IN
    [steps |-> Decided(context, target, decision),
     remaining |-> DOMAIN context.steps \ (context.done \ again),
     trace |-> context.trace, done |-> context.done \ again, records |-> context.records,
     receipts |-> context.receipts, status |-> "completed", blocked |-> 0, failed |-> 0,
     class |-> "none",
     resumed |-> TRUE, replanned |-> FALSE, critical |-> FALSE, effects |-> context.effects,
     granted |-> IF decision.state = "approved" /\ target # 0
                 THEN context.granted \cup {target} ELSE context.granted]

(* setup_run_and_load_resume with the context of an earlier run, which may have   *)
(* been resumed already.                                                          *)
ResumeRun(k, step, decision) ==
    /\ reportStage = "answered" /\ Len(savedRuns) < reportBound.runs
    /\ savedRuns[k] # NoContext
    /\ current' = Resumed(savedRuns[k], step, decision)
    /\ reportStage' = IF current'.remaining = {} THEN "executed" ELSE "executing"
    /\ UNCHANGED <<reportBound, autoApprove, remembering, answer, savedRuns>>

(* resume_context_incomplete: there is no context, so nothing is executed or saved. *)
ResumeFails(k) ==
    /\ reportStage = "answered" /\ Len(savedRuns) < reportBound.runs
    /\ savedRuns[k] = NoContext
    /\ answer' = [NoAnswer EXCEPT !.status = "failed", !.approved = TRUE]
    /\ savedRuns' = Append(savedRuns, NoContext)
    /\ current' = [Fresh(<<>>) EXCEPT !.resumed = TRUE, !.status = "failed"]
    /\ UNCHANGED <<reportBound, reportStage, autoApprove, remembering>>

Resuming ==
    \/ \E k \in DOMAIN savedRuns : ResumeFails(k)
    \/ \E k \in DOMAIN savedRuns, decision \in ApprovalDecisions :
          \E step \in {0} \cup DOMAIN savedRuns[k].steps : ResumeRun(k, step, decision)

ReportNext ==
    \/ \E plan \in RunPlans : StartRun(plan) \/ RuntimeReplanned(plan)
    \/ Wave \/ FinishRun \/ Resuming

ReportSpec == ReportInit /\ [][ReportNext]_reportVars

-----------------------------------------------------------------------------
(* Properties *)

IsAnswered == reportStage = "answered" /\ savedRuns # <<>>

(* An answer that waits for an approval is not an approved one, shows the open    *)
(* record of the step the run stopped at, and leaves a context that resumes there *)
(* when no step is named (build_workflow_output, build_resume_payload).           *)
PendingIsHonest ==
    IsAnswered /\ answer.status = "pending_approval" =>
        /\ answer.required /\ ~answer.approved /\ ~answer.summarized
        /\ \E record \in Open(current) : record.step = current.blocked
        /\ LET context == Last(savedRuns) IN
           context # NoContext => TargetIn(context, 0) = current.blocked

(* Over any chain of resumes a step that needs an approval is only completed when *)
(* a decision that approves that very step was brought, or HITL_AUTO_APPROVE      *)
(* stands in for the approval of a command, never for that of a step              *)
(* (apply_approval_decision_to_resume_request, _check_step_approval).             *)
DecisionUnlocksItsStep ==
    \A i \in current.done :
        \/ current.steps[i].gate = "none" /\ (current.steps[i].kind \in ToolKinds => autoApprove)
        \/ i \in current.granted
        \/ current.steps[i].gate = "none" /\ current.steps[i].kind \notin ToolKinds

(* A completed answer has a successful receipt of every effect since the last plan *)
(* was made, and an approval it shows open is the one of a step that has been      *)
(* approved since: the record of a step is not written again, that of a command    *)
(* is (task_graph_executor.py 214-241).                                          *)
AnswerMatchesRun ==
    IsAnswered /\ answer.status = "completed" =>
        /\ DOMAIN current.steps = current.done
        /\ \A i \in current.effects : \E r \in current.receipts : r.step = i /\ r.ok
        /\ \A r \in Open(current) : r.id[1] = "step" /\ r.step \in current.granted

(* An answer says what the run did and was allowed to do. *)
AnswersAreHonest == PendingIsHonest /\ DecisionUnlocksItsStep /\ AnswerMatchesRun
=============================================================================
