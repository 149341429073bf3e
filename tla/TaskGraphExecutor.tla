--------------------------- MODULE TaskGraphExecutor ---------------------------
(***************************************************************************)
(* TaskGraphExecutor.execute over the life of one run: the first call, and *)
(* the calls that resume it from the state the call before returned.  A    *)
(* call proceeds in waves: the ready steps are told apart by their         *)
(* conditions, the executable ones run concurrently under asyncio.gather,  *)
(* and when all have ended their results are folded into the run's state.  *)
(*                                                                         *)
(* A step's own work (retries, timeouts, the tool or the agent behind it)  *)
(* is its last result here; a data condition (truthy:, equals: ...) is a   *)
(* verdict chosen when it is evaluated.  Steps are numbered in the order   *)
(* of the nodes list, which is the order results are processed in.         *)
(***************************************************************************)
EXTENDS Integers, FiniteSets

CONSTANTS
    NodeCount,   \* len(graph["nodes"])
    Graphs,      \* the task graphs execute may be given
    MaxCalls     \* model bound: calls of execute, the first one included

Nodes  == 1..NodeCount
NoStep == 0                  \* None, and an id that no node of the graph has
Ids    == Nodes \cup {NoStep}

Conditions == {"always", "on_success", "on_skipped", "on_failure", "data"}
Kinds      == {"delegate", "tool_call", "ask_human", "finalize", "stop"}
Results    == {"completed", "failed", "blocked", "stopped"}
Decisions  == {"pending", "approved", "rejected", "expired"}

\* edges maps <<from, to>> to its condition and parent_id is an edge "always";
\* guarded steps carry a condition of their own, gated ones an approval that
\* is required. Graphs may be cyclic or name unknown steps: execute normalizes
\* its input and does not validate it.
ASSUME GraphAssumption ==
    /\ NodeCount \in Nat \ {0}
    /\ MaxCalls \in Nat
    /\ \A g \in Graphs :
          /\ DOMAIN g.edges \subseteq Ids \X Nodes
          /\ \A e \in DOMAIN g.edges : g.edges[e] \in Conditions
          /\ g.guarded \subseteq Nodes
          /\ g.gated \subseteq Nodes
          /\ g.kind \in [Nodes -> Kinds]

VARIABLES
    graph,       \* the task graph of the run
    approval,    \* node["approval"]["state"] of each step
    call,        \* how many calls of execute were made
    phase,       \* "idle" before the first, "running" in one, "returned" after
    resumeFrom,  \* resume_from_step_id
    completed, skipped, remaining,
    outputs,     \* the steps that have an entry in node_outputs
    nodeStatus,  \* node["status"], which seeds node_statuses in the next call
    wave,        \* what each executable step of the current wave has come to
    skipping,    \* the ready steps of the wave whose conditions do not hold
    status, failedStep, blockedStep

request == <<graph, approval, call, resumeFrom>>
vars == <<graph, approval, call, phase, resumeFrom, completed, skipped, remaining,
          outputs, nodeStatus, wave, skipping, status, failedStep, blockedStep>>

Terminal == completed \cup skipped
NoWave   == [n \in {} |-> "running"]

Init ==
    /\ graph \in Graphs
    /\ approval = [n \in Nodes |-> "pending"]
    /\ call = 0
    /\ phase = "idle"
    /\ resumeFrom = NoStep
    /\ completed = {}
    /\ skipped = {}
    /\ remaining = Nodes
    /\ outputs = {}
    /\ nodeStatus = [n \in Nodes |-> "pending"]
    /\ wave = NoWave
    /\ skipping = {}
    /\ status = "completed"
    /\ failedStep = NoStep
    /\ blockedStep = NoStep

--------------------------------------------------------------------------------
(* The graph *)

\* dependency_map
Deps(n) == {p \in Ids : <<p, n>> \in DOMAIN graph.edges}

\* A set of steps that contains every step depending on one of its members.
ClosedUnderDependents(S) == \A n \in Nodes : Deps(n) \cap S # {} => n \in S

\* Mutants: only the direct dependents; the steps listed from the target on.
AffectedDirectly(target) == {n \in Nodes : n = target \/ target \in Deps(n) \ {NoStep}}
AffectedByPosition(target) == {n \in Nodes : target # NoStep /\ n >= target}

\* _should_resume_node: the target and every step whose chain of dependencies
\* leads back to it, the least closed set around the target.
Affected(target) ==
    {n \in Nodes : /\ target \in Nodes
                   /\ \A S \in SUBSET Nodes :
                         target \in S /\ ClosedUnderDependents(S) => n \in S}

\* Mutant: a skipped parent does not count.
ReadyIfCompleted == {n \in remaining : Deps(n) \subseteq completed}

\* A parent counts as reached when it is terminal, completed or skipped.
Ready == {n \in remaining : Deps(n) \subseteq Terminal}

\* _evaluate_condition on the edge from p, truths being the steps whose data
\* conditions turn out true.
EdgeHolds(p, n, truths) ==
    CASE graph.edges[<<p, n>>] = "always"     -> TRUE
      [] graph.edges[<<p, n>>] = "on_success" -> nodeStatus[p] = "completed"
      [] graph.edges[<<p, n>>] = "on_skipped" -> nodeStatus[p] = "skipped"
      [] graph.edges[<<p, n>>] = "on_failure" -> nodeStatus[p] = "failed"
      [] graph.edges[<<p, n>>] = "data"       -> n \in truths

\* Mutant: an edge lets a step through as soon as one of its conditions holds.
PassesOnAny(n, truths) ==
    /\ n \in graph.guarded => n \in truths
    /\ Deps(n) # {} => \E p \in Deps(n) : EdgeHolds(p, n, truths)

\* _evaluate_node_readiness of a ready step
Passes(n, truths) ==
    /\ n \in graph.guarded => n \in truths
    /\ \A p \in Deps(n) : EdgeHolds(p, n, truths)

\* The results a kind of step can come to (a tool_call blocks on the approval
\* of its command, ask_human on the answer it lacks).
KindResults(kind) ==
    CASE kind = "delegate"  -> {"completed", "failed"}
      [] kind = "tool_call" -> {"completed", "failed", "blocked"}
      [] kind = "ask_human" -> {"completed", "blocked"}
      [] kind = "finalize"  -> {"completed"}
      [] kind = "stop"      -> {"stopped"}

\* Mutant: only a rejection keeps the gate shut.
GateRejected(n) == n \in graph.gated /\ approval[n] = "rejected"

\* _check_step_approval comes before the step's own work.
GateClosed(n) == n \in graph.gated /\ approval[n] # "approved"
StepResults(n) == IF GateClosed(n) THEN {"blocked"} ELSE KindResults(graph.kind[n])

--------------------------------------------------------------------------------
(* A call of execute *)

\* What a call does before its first wave: restore the state the last call
\* returned, and reset the steps to resume from.
Start(target) ==
    LET reset == Affected(target) IN
    /\ call < MaxCalls
    /\ call' = call + 1
    /\ resumeFrom' = target
    /\ completed' = completed \ reset
    /\ skipped' = skipped \ reset
    /\ outputs' = outputs \ reset
    /\ remaining' = Nodes \ (completed' \cup skipped')
    /\ nodeStatus' = [n \in Nodes |-> IF n \in completed' THEN "completed"
                                      ELSE IF n \in skipped' THEN "skipped"
                                      ELSE IF n \in reset THEN "pending"
                                      ELSE nodeStatus[n]]
    /\ phase' = IF remaining' = {} THEN "returned" ELSE "running"
    /\ status' = "completed"
    /\ failedStep' = NoStep
    /\ blockedStep' = NoStep
    /\ UNCHANGED <<graph, wave, skipping>>

Execute == phase = "idle" /\ Start(NoStep) /\ UNCHANGED approval

\* build_resume_payload: the step to resume from when the request names none.
DefaultTarget == IF blockedStep # NoStep THEN blockedStep ELSE failedStep

\* apply_approval_decision_to_resume_request, on the step resumed from.
Decide(target, decision) ==
    approval' = IF target \in graph.gated
                THEN [approval EXCEPT ![target] = decision] ELSE approval

\* The run is resumed from its default step or from one the request names,
\* with or without a decision on that step's approval. A request without a
\* step falls back on the failed one.
Resume(target) ==
    /\ phase = "returned"
    /\ target = NoStep => failedStep = NoStep
    /\ Start(target)
    /\ \/ UNCHANGED approval
       \/ \E decision \in Decisions : Decide(target, decision)

\* The ready steps are split by their conditions and the executable started.
Launch ==
    /\ phase = "running" /\ wave = NoWave /\ skipping = {}
    /\ Ready # {}
    /\ \E truths \in SUBSET Ready :
          /\ wave' = [n \in {m \in Ready : Passes(m, truths)} |-> "running"]
          /\ skipping' = {m \in Ready : ~Passes(m, truths)}
    /\ UNCHANGED <<request, phase, completed, skipped, remaining, outputs,
                   nodeStatus, status, failedStep, blockedStep>>

Never == FALSE                                         \* mutant: the check is missing

\* task_graph_stalled: no remaining step is ready.
Stall ==
    /\ phase = "running" /\ wave = NoWave /\ skipping = {}
    /\ Ready = {}
    /\ phase' = "returned"
    /\ status' = "failed"
    /\ nodeStatus' = [n \in Nodes |-> IF n \in remaining THEN "blocked" ELSE nodeStatus[n]]
    /\ UNCHANGED <<request, completed, skipped, remaining, outputs, wave,
                   skipping, failedStep, blockedStep>>

\* A step of the wave ends; gather waits for the others.
StepEnds(n) ==
    /\ n \in DOMAIN wave
    /\ wave[n] = "running"
    /\ \E result \in StepResults(n) : wave' = [wave EXCEPT ![n] = result]
    /\ UNCHANGED <<request, phase, completed, skipped, remaining, outputs,
                   nodeStatus, skipping, status, failedStep, blockedStep>>

Ended(results) == {n \in DOMAIN wave : wave[n] \in results}
IsLast(n, S)   == n \in S /\ \A m \in S : m <= n

\* The last of S to be processed overwrites the mark the call keeps.
MarkLast(S, old, new) == IF S = {} THEN new = old ELSE IsLast(new, S)

\* Mutant: the results are recorded and none of them ends the call.
CollectGoesOn ==
    /\ phase = "running" /\ (wave # NoWave \/ skipping # {})
    /\ Ended({"running"}) = {}
    /\ completed' = completed \cup Ended({"completed", "stopped"})
    /\ skipped' = skipped \cup skipping
    /\ outputs' = outputs \cup Ended({"completed", "blocked"})
    /\ remaining' = remaining \ (DOMAIN wave \cup skipping)
    /\ nodeStatus' = [n \in Nodes |-> IF n \in DOMAIN wave THEN wave[n]
                                      ELSE IF n \in skipping THEN "skipped"
                                      ELSE nodeStatus[n]]
    /\ UNCHANGED <<status, failedStep, blockedStep>>
    /\ phase' = IF remaining' = {} THEN "returned" ELSE "running"
    /\ wave' = NoWave
    /\ skipping' = {}
    /\ UNCHANGED request

\* All steps of the wave have ended: their results are processed in list order,
\* the skipped steps after them, and any result but "completed" ends the call
\* when all have been processed.
Collect ==
    /\ phase = "running" /\ (wave # NoWave \/ skipping # {})
    /\ Ended({"running"}) = {}
    /\ completed' = completed \cup Ended({"completed", "stopped"})
    /\ skipped' = skipped \cup skipping
    /\ outputs' = outputs \cup Ended({"completed", "blocked"})
    /\ remaining' = remaining \ (DOMAIN wave \cup skipping)
    /\ nodeStatus' = [n \in Nodes |-> IF n \in DOMAIN wave THEN wave[n]
                                      ELSE IF n \in skipping THEN "skipped"
                                      ELSE nodeStatus[n]]
    /\ \E last, failed, blocked \in Ids :
          /\ MarkLast(Ended(Results \ {"completed"}), NoStep, last)
          /\ MarkLast(Ended({"failed"}), failedStep, failed)
          /\ MarkLast(Ended({"blocked"}), blockedStep, blocked)
          /\ status' = IF last = NoStep THEN status ELSE wave[last]
          /\ failedStep' = failed
          /\ blockedStep' = blocked
          /\ phase' = IF last # NoStep \/ remaining' = {} THEN "returned" ELSE "running"
    /\ wave' = NoWave
    /\ skipping' = {}
    /\ UNCHANGED request

InCall == Launch \/ Stall \/ Collect \/ \E n \in Nodes : StepEnds(n)

Next == Execute \/ InCall \/ \E target \in Ids : Resume(target)

Spec == Init /\ [][Next]_vars

\* The event loop keeps a call going and every step's work ends sooner or later.
FairSpec == Spec /\ WF_vars(InCall)

--------------------------------------------------------------------------------
(* Properties *)

\* Every variable keeps the type execute gives it.
TypeOK ==
    /\ graph \in Graphs
    /\ approval \in [Nodes -> Decisions]
    /\ call \in Nat
    /\ phase \in {"idle", "running", "returned"}
    /\ resumeFrom \in Ids
    /\ completed \subseteq Nodes
    /\ skipped \subseteq Nodes
    /\ remaining \subseteq Nodes
    /\ outputs \subseteq Nodes
    /\ nodeStatus \in [Nodes -> Results \cup {"pending", "skipped"}]
    /\ DOMAIN wave \subseteq Nodes
    /\ \A n \in DOMAIN wave : wave[n] \in Results \cup {"running"}
    /\ skipping \subseteq Nodes
    /\ status \in Results
    /\ failedStep \in Ids
    /\ blockedStep \in Ids

\* Through waves, breaks and resumes, a step under way or in a terminal state
\* has all its dependencies in a terminal state, and none of it is under way
\* and terminal at once: no resume pulls a result from under a later step.
NothingRunsEarly ==
    /\ \A n \in Terminal \cup DOMAIN wave : Deps(n) \subseteq Terminal
    /\ DOMAIN wave \cap Terminal = {}

\* What node_outputs offers to running steps was produced on top of results
\* that still stand: an output does not outlive the steps it was computed from.
OutputsGrounded == \A n \in outputs : Deps(n) \subseteq Terminal

\* Conditional routing survives resumes: a step that completed behind an
\* on_success edge has a completed parent, behind on_skipped a skipped one.
RoutesHonoured ==
    \A n \in completed : \A p \in Deps(n) :
        /\ graph.edges[<<p, n>>] = "on_success" => p \in completed
        /\ graph.edges[<<p, n>>] = "on_skipped" => p \in skipped

\* A step whose approval is required counts as completed only while the
\* decision on record approves it: rejecting it later withdraws its result.
GateHolds == \A n \in completed \cap graph.gated : approval[n] = "approved"

\* execute returns "completed" only with every step completed or skipped, none
\* of them last seen failed, blocked or stopped.
HonestCompletion ==
    phase = "returned" /\ status = "completed" =>
        Nodes = {n \in Nodes : nodeStatus[n] \in {"completed", "skipped"}}

\* Every nonempty set of steps has one that waits for no other of the set, and
\* no dependency is unknown: what validate_task_graph accepts.
WellFounded ==
    \A S \in SUBSET Nodes :
        S # {} => \E n \in S : Deps(n) \subseteq Nodes \ S

Stalled == phase = "returned" /\ status = "failed" /\ failedStep = NoStep

\* No call stalls on an acyclic graph, whatever was skipped, has failed or was
\* reset on the way.
StallsOnlyOnBadGraph == Stalled => ~WellFounded

\* "Only the failed step and its downstream are run again": resumed at the
\* step that blocked or failed, a run forgets nothing that completed.
ResumeKeepsSuccess ==
    [][call' # call /\ resumeFrom' = DefaultTarget => completed \subseteq completed']_vars

Order == INSTANCE DependencyOrder
    WITH deps <- [n \in Nodes |-> Deps(n)], done <- Terminal

\* Every wave and every resume is a step of the abstract order of dependencies.
ImplementsOrder == Order!Spec

\* A call of execute returns, whatever the graph and the results of its steps.
CallReturns == phase = "running" ~> phase = "returned"

\* "Conditions supported: ... on_failure": when the call has returned, a step
\* behind on_failure edges only, all of whose parents failed, has been run.
FailureBranchRuns ==
    phase = "returned" =>
        \A n \in Nodes :
            /\ Deps(n) # {} /\ n \notin graph.guarded
            /\ \A p \in Deps(n) : /\ p \in Nodes /\ nodeStatus[p] = "failed"
                                  /\ graph.edges[<<p, n>>] = "on_failure"
            => nodeStatus[n] # "pending"

================================================================================
