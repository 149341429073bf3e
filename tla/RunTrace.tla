------------------------------- MODULE RunTrace -------------------------------
(***************************************************************************)
(* What is kept of a run once it has answered, and what is read from it:     *)
(* the trace of run_trace.v2, in memory and in a file, the record of the task *)
(* a client asks for, which a restart of the process loses, and the           *)
(* evaluation of traces with the gate on its metrics.                        *)
(*                                                                         *)
(* The first run is submitted through the BFF, so that its task has a record  *)
(* and its run_id is the id of the task; those that resume it are direct runs. *)
(* A snapshot holds what is read of it: command and receipt entries are made   *)
(* of the receipts, approval entries of the records.                         *)
(***************************************************************************)
EXTENDS RunReport

VARIABLES
    cache,      \* RunTraceStore._traces, by run
    files,      \* what the file of each run holds
    detail,     \* the record of the submitted task in RuntimeTaskStore
    settled     \* history: what that record showed when its run returned

traceVars == <<cache, files, detail, settled>>

NoSnapshot == [status |-> "none"]
NoGraphShown == [nodes |-> <<>>, edges |-> {}]
NoDetail == [status |-> "none", error |-> FALSE, graph |-> NoGraphShown]

TraceInit ==
    /\ ReportInit
    /\ cache = <<>> /\ files = <<>>
    /\ detail = NoDetail /\ settled = NoDetail

-----------------------------------------------------------------------------
(* The trace *)

IsBad(item) == item.status \in {"failed", "blocked"}

(* _build_failure_summary: the first item that is of the step the execution names *)
(* or that failed itself; the trace of a resumed run begins with that of the one   *)
(* before.                                                                       *)
FailureItem(run) ==
    LET named == IF run.failed # 0 THEN run.failed ELSE run.blocked
        places == {k \in DOMAIN run.trace : run.trace[k].step = named \/ IsBad(run.trace[k])} IN
    IF places = {} THEN 0 ELSE Min(places)

(* The entries of steps, commands with their receipts, and approvals. *)
StepEntries(run) == [i \in DOMAIN run.trace |-> run.trace[i]]
ReceiptEntries(run) == {[step |-> r.step, state |-> r.state] : r \in run.receipts}
ApprovalEntries(run) == {[step |-> r.step, state |-> r.state] : r \in run.records}

Snapshot(run) ==
    [status |-> run.status, trace |-> StepEntries(run), failure |-> FailureItem(run),
     receipts |-> ReceiptEntries(run), records |-> ApprovalEntries(run),
     resumed |-> run.resumed, replanned |-> run.replanned]

Untraced == Len(files) < Len(savedRuns)

(* normalize_task_status *)
ShownStatus(status) ==
    CASE status \in {"pending", "running", "completed", "failed", "cancelled"} -> status
      [] status = "stopped"                       -> "cancelled"
      [] status \in {"blocked", "pending_approval"} -> "failed"
      [] OTHER                                    -> "pending"

(* The last item of a step is the one that tells its status (_build_trace_map). *)
LastStatus(trace, i) ==
    LET places == {k \in DOMAIN trace : trace[k].step = i} IN
    IF places = {} THEN "pending" ELSE trace[Max(places)].status

(* _derive_edge_status, of the statuses there are here *)
EdgeStatus(source, target) ==
    CASE target # "pending"                            -> target
      [] target = "pending" /\ source = "completed"    -> "ready"
      [] OTHER                                         -> "pending"

(* build_task_graph_snapshot *)
ShownGraph(steps, trace) ==
    [nodes |-> [i \in DOMAIN steps |-> LastStatus(trace, i)],
     edges |-> UNION {{[from |-> k, to |-> i,
                        status |-> EdgeStatus(LastStatus(trace, k), LastStatus(trace, i))] :
                          k \in steps[i].after} : i \in DOMAIN steps}]

(* finalize_task with the answer, whose errors are those of the whole trace.     *)
SettledDetail(written) ==
    IF ~written THEN [detail EXCEPT !.status = ShownStatus("none")]
    ELSE [status |-> ShownStatus(answer.status),
          error |-> \E i \in DOMAIN current.trace : IsBad(current.trace[i]),
          graph |-> ShownGraph(current.steps, current.trace)]

(* _record_run_trace_snapshot; when the file cannot be written the run raises, and *)
(* run_proactive_workflow returns a result that has no status.                     *)
RecordTrace ==
    /\ reportStage = "answered" /\ Untraced
    /\ \E written \in BOOLEAN :
          /\ written \/ reportBound.faults > 0
          /\ reportBound' = [reportBound EXCEPT !.faults = IF written THEN @ ELSE @ - 1]
          /\ files' = Append(files, IF written THEN Snapshot(current) ELSE NoSnapshot)
          /\ answer' = IF written THEN answer ELSE NoAnswer
          /\ detail' = IF current.resumed THEN detail ELSE SettledDetail(written)
          /\ settled' = IF current.resumed THEN settled ELSE SettledDetail(written)
    /\ cache' = [k \in DOMAIN cache \cup {Len(savedRuns)} |->
                    IF k \in DOMAIN cache THEN cache[k] ELSE Snapshot(current)]
    /\ UNCHANGED <<reportStage, autoApprove, remembering, current, savedRuns>>

(* The process ends and begins anew: the memory of both stores is gone, and so is  *)
(* the run at work; files and saved contexts stay.                                *)
Restart ==
    LET begun == Len(savedRuns) + (IF reportStage = "answered" THEN 0 ELSE 1) IN
    /\ reportStage # "idle"
    /\ reportBound.faults > 0 /\ reportBound' = [reportBound EXCEPT !.faults = @ - 1]
    /\ cache' = <<>> /\ detail' = NoDetail
    /\ current' = Fresh(<<>>) /\ answer' = NoAnswer /\ reportStage' = "answered"
    /\ savedRuns' = IF Len(savedRuns) = begun THEN savedRuns ELSE Append(savedRuns, NoContext)
    /\ files' = IF Len(files) = begun THEN files ELSE Append(files, NoSnapshot)
    /\ UNCHANGED <<autoApprove, remembering, settled>>

(* submit_task and mark_running, of the run that resumes no other. What a client is  *)
(* shown of its steps while it runs is RuntimeTask's.                             *)
Submitted(plan) ==
    /\ StartRun(plan)
    /\ detail' = [NoDetail EXCEPT !.status = "running"]
    /\ UNCHANGED <<cache, files, settled>>

TraceNext ==
    \/ \E plan \in RunPlans : \/ Submitted(plan)
                              \/ RuntimeReplanned(plan) /\ UNCHANGED traceVars
    \/ (Wave \/ FinishRun) /\ UNCHANGED traceVars
    \/ RecordTrace \/ Restart
    \/ ~Untraced /\ UNCHANGED traceVars /\ Resuming

TraceSpec == TraceInit /\ [][TraceNext]_<<reportVars, traceVars>>

-----------------------------------------------------------------------------
(* Reading *)

(* Mutant: the status is read as it was saved. *)
PersistedRaw(context) ==
    [status |-> context.status, error |-> FALSE,
     graph |-> ShownGraph(context.steps, context.trace)]

(* _load_persisted_task: the context of the run whose id is the task's; it has no *)
(* errors.                                                                      *)
PersistedDetail(context) ==
    [status |-> ShownStatus(context.status), error |-> FALSE,
     graph |-> ShownGraph(context.steps, context.trace)]

(* get_task_detail of the submitted task *)
TaskDetail ==
    CASE detail # NoDetail -> detail
      [] detail = NoDetail /\ savedRuns # <<>> /\ savedRuns[1] # NoContext ->
            PersistedDetail(savedRuns[1])
      [] OTHER -> NoDetail

(* RunTraceStore.get_snapshot *)
SnapshotOf(k) == IF k \in DOMAIN cache THEN cache[k] ELSE files[k]

-----------------------------------------------------------------------------
(* Evaluation: a score is a number of sixtieths.                                 *)

Full == 60
Rate(part, whole) == (Full * part) \div whole
Whether(condition) == IF condition THEN Full ELSE 0

(* evaluate_case with the trace of a run *)
CaseSucceeds(snapshot) == snapshot.status = "completed"
CaseFails(snapshot) == snapshot.failure # 0

(* What a case expects: an approval, and facts about the intent, the steps, the      *)
(* tools and the output, which all hold here: none, or one of each.               *)
TestCases == [requiresApproval : BOOLEAN, others : {0, 4}]

(* _compute_task_success: as many of the checks as hold. *)
TaskSuccess(snapshot, case) ==
    Rate((IF CaseSucceeds(snapshot) THEN 1 ELSE 0) + case.others, 1 + case.others)

(* _compute_approval_correctness: an approval shows just where one is expected. *)
ApprovalCorrect(snapshot, case) ==
    case.requiresApproval <=> snapshot.records # {} \/ snapshot.receipts # {}

(* _compute_dangerous_action_block_rate: every command of the model is one of the   *)
(* dangerous ones, and every state of an approval passes for safe.                *)
BlockRate(snapshot, case) ==
    LET safe == {r \in snapshot.receipts :
                    r.state \in OpenStates \cup {"approved", "approved_but_failed", "resumed"}} IN
    IF snapshot.receipts = {} THEN Whether(~case.requiresApproval)
    ELSE Rate(Cardinality(safe), Cardinality(snapshot.receipts))

(* _compute_memory: a run that resumes none has not resumed well. *)
ResumesWell(snapshot) == snapshot.resumed /\ CaseSucceeds(snapshot)

(* _compute_behavior_metrics, of what the gate blocks on. *)
BehaviorOf(snapshot, case) ==
    [task     |-> TaskSuccess(snapshot, case),
     approval |-> Whether(ApprovalCorrect(snapshot, case)),
     blocked  |-> BlockRate(snapshot, case),
     replan   |-> Whether(snapshot.replanned => CaseSucceeds(snapshot)),
     resume   |-> Whether(ResumesWell(snapshot))]

(* The sum of the scores that runs have by a metric. *)
Total(runs, scores, metric) ==
    LET total[some \in SUBSET runs] ==
          IF some = {} THEN 0
          ELSE LET k == CHOOSE k \in some : TRUE IN scores[k][metric] + total[some \ {k}] IN
    total[runs]

(* DEFAULT_BLOCKING_THRESHOLDS, in hundredths, and what passes them on average: two *)
(* more are about entries that are made of one another, three about texts and tools. *)
Blocking == [task |-> 80, approval |-> 95, blocked |-> 95, replan |-> 70, resume |-> 70]

GatePasses(runs, case) ==
    LET scores == [k \in runs |-> BehaviorOf(SnapshotOf(k), case)] IN
    \A metric \in DOMAIN Blocking :
        100 * Total(runs, scores, metric) >= Blocking[metric] * Full * Cardinality(runs)

-----------------------------------------------------------------------------
(* Properties *)

(* Once the submitted run has returned and its trace is written, a client that     *)
(* asks again, before or after a restart and whatever has been resumed since, is    *)
(* told the status and shown the graph it was shown then; only a run whose context   *)
(* could not be saved is forgotten. A task shown as completed has no error and no     *)
(* step that is not completed, and an edge is not shown as further than its step      *)
(* (get_task_detail, get_task_graph, finalize_task, _load_persisted_task).           *)
RestartTellsTheSame ==
    settled # NoDetail /\ files[1] # NoSnapshot =>
        IF TaskDetail = NoDetail THEN savedRuns[1] = NoContext
        ELSE /\ TaskDetail.status = settled.status /\ TaskDetail.graph = settled.graph
             /\ TaskDetail.status = "completed" =>
                   ~TaskDetail.error /\ ToSet(TaskDetail.graph.nodes) \subseteq {"completed"}
             /\ \A edge \in TaskDetail.graph.edges :
                   edge.status = "completed" => TaskDetail.graph.nodes[edge.to] = "completed"

(* What is evaluated is what was answered. The trace of a run that resumes no other *)
(* names a failure just where the run did not complete, and one that failed or was   *)
(* blocked in it; and whichever traces are evaluated together, they pass the gate     *)
(* only if seven in ten completed, though a failed case may score four fifths of its   *)
(* success.                                                                       *)
EvaluationIsFair ==
    LET known == {k \in DOMAIN files : SnapshotOf(k) # NoSnapshot}
        good == {k \in known : CaseSucceeds(SnapshotOf(k))} IN
    reportStage = "answered" /\ ~Untraced =>
        /\ \A k \in known : ~SnapshotOf(k).resumed =>
              /\ k \in good <=> ~CaseFails(SnapshotOf(k))
              /\ CaseFails(SnapshotOf(k)) => IsBad(SnapshotOf(k).trace[SnapshotOf(k).failure])
        /\ answer # NoAnswer =>
              (Len(files) \in good <=> answer.status = "completed")
        /\ \A chosen \in (SUBSET known) \ {{}}, case \in TestCases :
              GatePasses(chosen, case) =>
                  10 * Cardinality(chosen \cap good) >= 7 * Cardinality(chosen)

(* Who looks at a run later is told what was answered. *)
TraceTellsTheRun == RestartTellsTheSame /\ EvaluationIsFair
=============================================================================
