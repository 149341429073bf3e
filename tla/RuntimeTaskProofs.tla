--------------------------- MODULE RuntimeTaskProofs ---------------------------
(***************************************************************************)
(* What RuntimeTask keeps for any number of runs, tasks and steps: the     *)
(* types, that no step is shown running unless a run is running it, that   *)
(* the two views of a task agree, and that a failure stays visible.        *)
(*                                                                         *)
(* Two facts about a run carry the induction: a step is in a wave only     *)
(* while its run executes it (WaveWhileExecuting), and a call of execute   *)
(* whose status is still completed has no failed step (OutcomeTells).      *)
(***************************************************************************)
EXTENDS RuntimeTask, TLAPS

WaveWhileExecuting ==
    \A r \in Runs, s \in Steps :
        got[r][s] \in {"started", "skipping"} => stage[r] = "executing" /\ s \in plan[r]

OutcomeTells ==
    \A r \in Runs :
        stage[r] = "executing" /\ outcome[r] = "completed" =>
            \A s \in plan[r] : got[r][s] \notin {"failed", "blocked", "stopped"}

\* A run that was started has a record.
Registered == \A r \in Runs : stage[r] # "idle" => record[taskOf[r]].status # "absent"

IInv ==
    /\ TypeOK
    /\ Registered
    /\ WaveWhileExecuting
    /\ OutcomeTells
    /\ NoOrphanStep
    /\ ViewsAgree
    /\ FailureStays

--------------------------------------------------------------------------------
(* The store's operations keep the type of a record and the agreement of its *)
(* two views. *)

\* A trace shown as nodes, and nodes shown as steps, are well typed, agree,
\* and show nothing running.
LEMMA SnapshotFacts ==
    ASSUME NEW steps \in SUBSET Steps, NEW trace
    PROVE  /\ Snapshot(steps, trace) \in [Steps -> NodeStatuses]
           /\ \A s \in Steps : Snapshot(steps, trace)[s] # "running"
BY DEF Snapshot, NodeStatuses, GraphStatus, StepResults

LEMMA NodesAsSteps ==
    ASSUME NEW nodes \in [Steps -> NodeStatuses]
    PROVE  /\ StepsOfNodes(nodes) \in [Steps -> TaskStatuses]
           /\ \A s \in Steps : /\ StepsOfNodes(nodes)[s] = StepStatus(nodes[s])
                               /\ nodes[s] # "running" => StepsOfNodes(nodes)[s] # "running"
BY DEF StepsOfNodes, StepStatus, NodeStatuses, TaskStatuses

Quiet(rec) == \A s \in Steps : rec.steps[s] # "running" /\ rec.nodes[s] # "running"

\* create_task
LEMMA CreatedFacts == Created \in RecordType /\ Agrees(Created) /\ Quiet(Created)
BY DEF Created, RecordType, NoSteps, TaskStatuses, NodeStatuses, Agents, Agrees, Quiet

\* sync_task_graph: whatever the record was, nothing of it is shown running.
LEMMA SyncedFacts ==
    ASSUME NEW rec \in RecordType, rec.status # "absent",
           NEW steps \in SUBSET Steps, NEW trace
    PROVE  /\ Synced(rec, steps, trace) \in RecordType
           /\ Agrees(Synced(rec, steps, trace))
           /\ Quiet(Synced(rec, steps, trace))
           /\ Synced(rec, steps, trace).status = rec.status
<1> DEFINE nodes == Snapshot(steps, trace)
<1>1. nodes \in [Steps -> NodeStatuses] /\ \A s \in Steps : nodes[s] # "running"
  BY SnapshotFacts
<1>2. /\ StepsOfNodes(nodes) \in [Steps -> TaskStatuses]
      /\ \A s \in Steps : StepsOfNodes(nodes)[s] = StepStatus(nodes[s])
      /\ \A s \in Steps : StepsOfNodes(nodes)[s] # "running"
  BY <1>1, NodesAsSteps
<1>3. Synced(rec, steps, trace) = [rec EXCEPT !.graphStatus = rec.status, !.nodes = nodes,
                                              !.steps = StepsOfNodes(nodes)]
  BY DEF Synced
<1> HIDE DEF nodes
<1>4. /\ Synced(rec, steps, trace).nodes = nodes
      /\ Synced(rec, steps, trace).steps = StepsOfNodes(nodes)
      /\ Synced(rec, steps, trace).status = rec.status
  BY <1>3 DEF RecordType
<1>5. Synced(rec, steps, trace) \in RecordType
  <2> DEFINE shown == StepsOfNodes(nodes)
  <2>1. /\ shown \in [Steps -> {"absent"} \cup TaskStatuses]
        /\ rec.status \in TaskStatuses \ {"absent"}
    BY <1>2 DEF RecordType, TaskStatuses
  <2> HIDE DEF shown
  <2>2. [rec EXCEPT !.graphStatus = rec.status, !.nodes = nodes, !.steps = shown] \in RecordType
    BY <1>1, <2>1 DEF RecordType
  <2> QED BY <2>2, <1>3 DEF shown
<1> QED BY <1>1, <1>2, <1>4, <1>5 DEF Agrees, Quiet

\* mark_step_started
LEMMA StartedFacts ==
    ASSUME NEW rec \in RecordType, NEW wave \in SUBSET Steps, NEW agent \in Agents
    PROVE  /\ Started(rec, wave, agent) \in RecordType
           /\ Agrees(rec) => Agrees(Started(rec, wave, agent))
           /\ \A s \in Steps : \/ Started(rec, wave, agent).steps[s] = "running"
                               \/ Started(rec, wave, agent).nodes[s] = "running"
                => s \in wave \/ rec.steps[s] = "running" \/ rec.nodes[s] = "running"
BY DEF Started, Running, RecordType, TaskStatuses, NodeStatuses, Agrees, StepStatus

\* mark_step_completed
LEMMA EndedFacts ==
    ASSUME NEW rec \in RecordType, NEW s \in Steps, NEW result \in StepResults
    PROVE  /\ Ended(rec, s, result) \in RecordType
           /\ Agrees(rec) => Agrees(Ended(rec, s, result))
           /\ \A q \in Steps : \/ Ended(rec, s, result).steps[q] = "running"
                               \/ Ended(rec, s, result).nodes[q] = "running"
                => q # s /\ (rec.steps[q] = "running" \/ rec.nodes[q] = "running")
           /\ Ended(rec, s, result).status = Reported(rec, result)
<1>1. StepStatus(result) \in TaskStatuses \ {"running"}
  BY DEF StepStatus, StepResults, TaskStatuses
<1>2. GraphStatus(result) \in NodeStatuses \ {"running"}
  BY DEF GraphStatus, StepResults, NodeStatuses
<1>3. \/ StepStatus(result) = StepStatus(GraphStatus(result))
      \/ StepStatus(result) = "cancelled" /\ GraphStatus(result) = "blocked"
  BY DEF StepStatus, GraphStatus, StepResults
<1>4. Reported(rec, result) \in TaskStatuses \ {"absent"}
  BY DEF Reported, TaskStatuses
<1> DEFINE node == IF rec.nodes[s] = "absent" THEN "absent" ELSE GraphStatus(result)
           step == StepStatus(result)
           verdict == Reported(rec, result)
           after == Ended(rec, s, result)
<1>5. /\ rec.steps \in [Steps -> {"absent"} \cup TaskStatuses]
      /\ rec.nodes \in [Steps -> NodeStatuses]
      /\ rec.attached \in BOOLEAN
  BY DEF RecordType
<1>6. node \in NodeStatuses \ {"running"}
  BY <1>2 DEF NodeStatuses
<1>7. /\ after = [rec EXCEPT !.status = verdict, !.graphStatus = verdict, !.agent = "none",
                             !.steps = [rec.steps EXCEPT ![s] = step],
                             !.nodes = [rec.nodes EXCEPT ![s] = node]]
      /\ after.steps = [rec.steps EXCEPT ![s] = step]
      /\ after.nodes = [rec.nodes EXCEPT ![s] = node]
      /\ after.status = verdict
  BY DEF Ended, RecordType
<1>8. node = "absent" \/ node = GraphStatus(result)
  OBVIOUS
<1> HIDE DEF node, step, verdict, after
<1>9. step \in TaskStatuses \ {"running"} /\ verdict \in TaskStatuses \ {"absent"}
  BY <1>1, <1>4 DEF step, verdict
<1>10. after \in RecordType
  BY <1>5, <1>6, <1>7, <1>9 DEF RecordType, Agents
<1>11. Agrees(rec) => Agrees(after)
  <2> SUFFICES ASSUME Agrees(rec), NEW q \in Steps,
                      after.steps[q] # "absent", after.nodes[q] # "absent"
               PROVE  \/ after.steps[q] = StepStatus(after.nodes[q])
                      \/ after.steps[q] = "cancelled" /\ after.nodes[q] = "blocked"
    BY DEF Agrees
  <2>1. CASE q = s
    <3>1. after.steps[q] = step /\ after.nodes[q] = node
      BY <1>5, <1>7, <2>1
    <3>2. node = GraphStatus(result)
      BY <1>8, <3>1
    <3> QED BY <1>3, <3>1, <3>2 DEF step
  <2>2. CASE q # s
    <3>1. after.steps[q] = rec.steps[q] /\ after.nodes[q] = rec.nodes[q]
      BY <1>5, <1>7, <2>2
    <3> QED BY <3>1 DEF Agrees
  <2> QED BY <2>1, <2>2
<1>12. \A q \in Steps : after.steps[q] = "running" \/ after.nodes[q] = "running"
          => q # s /\ (rec.steps[q] = "running" \/ rec.nodes[q] = "running")
  BY <1>5, <1>6, <1>7, <1>9
<1>13. after.status = verdict
  BY <1>7
<1> QED BY <1>10, <1>11, <1>12, <1>13 DEF after, verdict

\* finalize_task
LEMMA FinalizedFacts ==
    ASSUME NEW rec \in RecordType, rec.status # "absent", NEW r \in Runs, TypeOK
    PROVE  /\ Finalized(rec, r) \in RecordType
           /\ Agrees(rec) => Agrees(Finalized(rec, r))
           /\ \A s \in Steps : \/ Finalized(rec, r).steps[s] = "running"
                               \/ Finalized(rec, r).nodes[s] = "running"
                => rec.steps[s] = "running" \/ rec.nodes[s] = "running"
<1> DEFINE nodes == ReturnedNodes(r)
           steps == ReturnedSteps(r)
           verdict == TaskStatus(outcome[r])
<1>1. plan[r] \in SUBSET Steps /\ got[r] \in [Steps -> {"todo", "started", "skipping"} \cup StepResults]
  BY DEF TypeOK
<1>2. verdict \in TaskStatuses \ {"absent"}
  BY DEF TaskStatus, TaskStatuses
<1>3. nodes \in [Steps -> NodeStatuses] /\ \A s \in Steps : nodes[s] # "running"
  BY <1>1, SnapshotFacts DEF ReturnedNodes, NodeStatuses
<1>4. /\ StepsOfNodes(nodes) \in [Steps -> TaskStatuses]
      /\ \A s \in Steps : StepsOfNodes(nodes)[s] = StepStatus(nodes[s])
      /\ \A s \in Steps : StepsOfNodes(nodes)[s] # "running"
  BY <1>3, NodesAsSteps
<1>5. ASSUME NEW s \in Steps, got[r][s] \in StepResults
      PROVE  /\ StepStatus(got[r][s]) \in TaskStatuses \ {"running"}
             /\ nodes[s] \in {"absent", GraphStatus(got[r][s])}
             /\ \/ StepStatus(got[r][s]) = StepStatus(GraphStatus(got[r][s]))
                \/ StepStatus(got[r][s]) = "cancelled" /\ GraphStatus(got[r][s]) = "blocked"
  <2>1. Snapshot(plan[r], got[r])[s] \in {"absent", GraphStatus(got[r][s])}
    BY <1>5 DEF Snapshot
  <2>2. nodes[s] = Snapshot(plan[r], got[r])[s]
    BY <1>5 DEF ReturnedNodes
  <2>3. /\ StepStatus(got[r][s]) \in TaskStatuses \ {"running"}
        /\ \/ StepStatus(got[r][s]) = StepStatus(GraphStatus(got[r][s]))
           \/ StepStatus(got[r][s]) = "cancelled" /\ GraphStatus(got[r][s]) = "blocked"
    BY <1>5 DEF StepResults, StepStatus, GraphStatus, TaskStatuses
  <2> QED BY <2>1, <2>2, <2>3
<1>6. /\ steps \in [Steps -> {"absent"} \cup TaskStatuses]
      /\ \A s \in Steps : steps[s] # "running"
      /\ \A s \in Steps : steps[s] # "absent" /\ nodes[s] # "absent" =>
            steps[s] = StepStatus(nodes[s]) \/ (steps[s] = "cancelled" /\ nodes[s] = "blocked")
  <2>1. CASE \A s \in plan[r] : got[r][s] \notin StepResults
    <3>1. steps = StepsOfNodes(nodes)
      BY <2>1 DEF ReturnedSteps
    <3> QED BY <1>4, <3>1
  <2>2. CASE ~ \A s \in plan[r] : got[r][s] \notin StepResults
    <3>1. steps = [s \in Steps |-> IF got[r][s] \in StepResults
                                   THEN StepStatus(got[r][s]) ELSE "absent"]
      BY <2>2 DEF ReturnedSteps
    <3> HIDE DEF nodes, steps
    <3>2. ASSUME NEW s \in Steps
          PROVE  /\ steps[s] \in ({"absent"} \cup TaskStatuses) \ {"running"}
                 /\ steps[s] # "absent" /\ nodes[s] # "absent" =>
                       steps[s] = StepStatus(nodes[s]) \/ (steps[s] = "cancelled" /\ nodes[s] = "blocked")
      <4>1. CASE got[r][s] \in StepResults
        BY <1>5, <3>1, <4>1
      <4>2. CASE got[r][s] \notin StepResults
        BY <3>1, <4>2
      <4> QED BY <4>1, <4>2
    <3> QED BY <3>1, <3>2
  <2> QED BY <2>1, <2>2
<1> HIDE DEF nodes, steps, verdict
<1>7. CASE outcome[r] \in {"raised", "lost"}
  <2>1. Finalized(rec, r) = [rec EXCEPT !.status = verdict, !.agent = "none"]
    BY <1>7 DEF Finalized, verdict
  <2> QED BY <1>2, <2>1 DEF RecordType, Agents, Agrees
<1>8. CASE outcome[r] \notin {"raised", "lost"}
  <2>1. Finalized(rec, r) = [rec EXCEPT !.status = verdict, !.agent = "none",
                               !.graphStatus = verdict, !.nodes = nodes, !.steps = steps]
    BY <1>8 DEF Finalized, verdict, nodes, steps, RecordType
  <2>2. Finalized(rec, r) \in RecordType
    BY <1>2, <1>3, <1>6, <2>1 DEF RecordType, Agents
  <2>3. Finalized(rec, r).steps = steps /\ Finalized(rec, r).nodes = nodes
    BY <2>1 DEF RecordType
  <2> QED BY <1>3, <1>6, <2>2, <2>3 DEF Agrees
<1> QED BY <1>7, <1>8

--------------------------------------------------------------------------------
(* One step *)

Step(r) == Prepare(r) \/ Perform(r) \/ Conclude(r)

\* A step of a run writes one record, its own, which stays registered, well
\* typed and with two views that agree.
LEMMA OneRecord ==
    ASSUME TypeOK, Registered, ViewsAgree, NEW r \in Runs, Step(r)
    PROVE  \E rec \in RecordType :
              /\ record' = [record EXCEPT ![taskOf[r]] = rec]
              /\ rec.status # "absent"
              /\ Agrees(rec)
<1> DEFINE old == Current(r)
           Good(rec) == rec \in RecordType /\ rec.status # "absent" /\ Agrees(rec)
<1>1. old \in RecordType /\ Agrees(old) /\ plan[r] \in SUBSET Steps
  BY RunAssumption DEF TypeOK, ViewsAgree, Current
<1>2. stage[r] # "idle" => Good(old)
  BY <1>1 DEF Registered, Current
<1>3. SUFFICES \E rec : Store(r, rec) /\ Good(rec)
  BY DEF Store
<1>4. ASSUME NEW rec \in RecordType, Agrees(rec), rec.status # "absent", NEW agent \in Agents
      PROVE  Good([rec EXCEPT !.agent = agent])
  BY <1>4 DEF RecordType, Agrees
<1>5. {"none", "intent", "orchestrator", "critic", "worker"} = Agents
  BY DEF Agents
<1>6. ASSUME UNCHANGED record, stage[r] # "idle"
      PROVE  Store(r, old)
  BY <1>6, RunAssumption DEF Store, Current, TypeOK
<1>7. CASE Submit(r)
  <2>1. Good([Created EXCEPT !.attached = TRUE])
    BY CreatedFacts DEF RecordType, Agrees, Created
  <2> QED BY <1>7, <2>1 DEF Submit
<1>8. CASE Begin(r)
  <2> DEFINE rec == IF old.status = "absent" THEN Created ELSE old
  <2>1. rec \in RecordType /\ Agrees(rec)
    BY <1>1, CreatedFacts
  <2> HIDE DEF rec
  <2>2. Good(Running(rec))
    BY <2>1 DEF Running, RecordType, Agrees, TaskStatuses
  <2>3. Good([Running(rec) EXCEPT !.agent = "intent"])
    BY <1>4, <1>5, <2>2
  <2>4. Store(r, [Running(rec) EXCEPT !.agent = "intent"])
    BY <1>8 DEF Begin, rec
  <2> QED BY <2>3, <2>4
<1>9. CASE stage[r] # "idle" /\ \E agent \in Agents : Store(r, [old EXCEPT !.agent = agent])
  BY <1>2, <1>4, <1>9
<1>10. CASE Intent(r)
  BY <1>5, <1>9, <1>10 DEF Intent, Goto
<1>11. CASE Resume(r)
  BY <1>5, <1>9, <1>11 DEF Resume, Goto
<1>12. CASE Review(r)
  BY <1>5, <1>9, <1>12 DEF Review, Goto
<1>13. CASE FinalReview(r)
  BY <1>5, <1>9, <1>13 DEF FinalReview, Goto
<1>14. CASE Return(r)
  BY <1>5, <1>9, <1>14 DEF Return, Goto
<1>15. CASE stage[r] # "idle" /\ UNCHANGED record
  BY <1>2, <1>6, <1>15
<1>16. CASE ResumeIncomplete(r)
  BY <1>15, <1>16 DEF ResumeIncomplete, Goto
<1>17. CASE Stall(r)
  BY <1>15, <1>17 DEF Stall
<1>18. CASE ReplanStarts(r)
  BY <1>15, <1>18 DEF ReplanStarts, Goto
<1>19. CASE LoseResult(r)
  BY <1>15, <1>19 DEF LoseResult
<1>20. ASSUME stage[r] # "idle", NEW steps \in SUBSET Steps, NEW trace
       PROVE  Good(Synced(old, steps, trace))
  BY <1>2, <1>20, SyncedFacts
<1>21. CASE Plan(r)
  BY <1>20, <1>21 DEF Plan, Goto
<1>22. CASE Revise(r)
  BY <1>20, <1>22 DEF Revise, Goto
<1>23. CASE Replan(r)
  BY <1>20, <1>23 DEF Replan, Goto
<1>24. CASE ExecutionEnds(r)
  <2>1. stage[r] # "idle"
    BY <1>24 DEF ExecutionEnds, Goto
  <2>2. CASE replanned[r]
    BY <1>1, <1>20, <1>24, <2>1, <2>2 DEF ExecutionEnds
  <2>3. CASE ~replanned[r]
    BY <1>15, <1>24, <2>1, <2>3 DEF ExecutionEnds
  <2> QED BY <2>2, <2>3
<1>25. CASE Execute(r)
  <2>1. stage[r] # "idle"
    BY <1>25 DEF Execute, Goto
  <2>2. Good(Synced(old, plan[r], got[r]))
    BY <1>1, <1>20, <2>1
  <2>3. Good([Synced(old, plan[r], got[r]) EXCEPT !.agent = "none"])
    BY <1>4, <1>5, <2>2
  <2> QED BY <1>25, <2>3 DEF Execute
<1>26. CASE Launch(r)
  <2>1. stage[r] # "idle" /\ old.agent \in Agents
    BY <1>1, <1>26 DEF Launch, RecordType
  <2>2. PICK wave \in SUBSET Left(r), agent \in {old.agent, "worker"} :
           Store(r, IF wave = {} THEN old ELSE Started(old, wave, agent))
    BY <1>26 DEF Launch
  <2>3. wave \in SUBSET Steps /\ agent \in Agents
    BY <1>1, <1>5, <2>1, <2>2 DEF Left
  <2>4. Started(old, wave, agent).status = "running"
    BY <1>1 DEF Started, Running, RecordType
  <2>5. Good(Started(old, wave, agent))
    BY <1>1, <2>3, <2>4, StartedFacts
  <2> QED BY <1>2, <2>1, <2>2, <2>5
<1>27. CASE Report(r)
  <2>1. PICK s \in InWave(r), result \in StepResults : Store(r, Ended(old, s, result))
    BY <1>27 DEF Report
  <2>2. s \in Steps
    BY <1>1, <2>1 DEF InWave
  <2>3. Ended(old, s, result).status # "absent"
    BY <1>1, <2>2, EndedFacts DEF Reported
  <2> QED BY <1>1, <2>1, <2>2, <2>3, EndedFacts
<1>28. CASE Raise(r)
  <2>1. Good(Failed(old))
    BY <1>1 DEF Failed, RecordType, Agrees, TaskStatuses, Agents
  <2> QED BY <1>28, <2>1 DEF Raise
<1>29. CASE Finalize(r)
  <2>1. stage[r] # "idle"
    BY <1>29 DEF Finalize, Goto
  <2>2. Finalized(old, r).status = TaskStatus(outcome[r])
    BY <1>1 DEF Finalized, RecordType
  <2>3. TaskStatus(outcome[r]) # "absent"
    BY DEF TaskStatus
  <2>4. Good(Finalized(old, r))
    BY <1>1, <1>2, <2>1, <2>2, <2>3, FinalizedFacts
  <2> QED BY <1>29, <2>4 DEF Finalize
<1>30. CASE Clear(r)
  <2>1. Good([old EXCEPT !.attached = FALSE])
    BY <1>2, <1>30 DEF Clear, Goto, RecordType, Agrees
  <2> QED BY <1>30, <2>1 DEF Clear
<1> QED BY <1>7, <1>8, <1>10, <1>11, <1>12, <1>13, <1>14, <1>16, <1>17, <1>18, <1>19, <1>21,
           <1>22, <1>23, <1>24, <1>25, <1>26, <1>27, <1>28, <1>29, <1>30
        DEF Step, Prepare, Perform, Conclude

GotType == [Steps -> {"todo", "started", "skipping"} \cup StepResults]

\* A step of a run moves that run only, and keeps the types.
LEMMA OneRun ==
    ASSUME TypeOK, NEW r \in Runs, Step(r)
    PROVE  /\ stage' \in [Runs -> Stages] /\ plan' \in [Runs -> SUBSET Steps]
           /\ got' \in [Runs -> GotType] /\ outcome' \in [Runs -> Outcomes]
           /\ resumed' \in [Runs -> BOOLEAN] /\ replanned' \in [Runs -> BOOLEAN]
           /\ \A q \in Runs \ {r} : /\ stage'[q] = stage[q] /\ plan'[q] = plan[q]
                                    /\ got'[q] = got[q] /\ outcome'[q] = outcome[q]
<1> USE DEF GotType
<1> DEFINE Staged == /\ stage' \in [Runs -> Stages]
                     /\ \A q \in Runs \ {r} : stage'[q] = stage[q]
           Fixed  == UNCHANGED <<plan, got, outcome, resumed, replanned>>
<1>1. ASSUME NEW from, NEW to \in Stages, Goto(r, from, to)
      PROVE  Staged
  BY <1>1 DEF TypeOK, Goto
<1>2. ASSUME UNCHANGED stage PROVE Staged
  BY <1>2 DEF TypeOK
<1>3. {"idle", "queued", "starting", "planning", "reviewing", "revising", "armed", "executing",
       "replanning", "reporting", "closing", "returned", "finalized", "settled"} = Stages
  BY DEF Stages
<1> HIDE DEF Staged
<1>4. CASE Staged /\ Fixed
  BY <1>4 DEF Staged, TypeOK
<1>5. CASE Submit(r) \/ Begin(r) \/ Intent(r) \/ FinalReview(r) \/ Return(r) \/ Finalize(r) \/ Clear(r)
  BY <1>1, <1>3, <1>4, <1>5 DEF Submit, Begin, Intent, FinalReview, Return, Finalize, Clear
<1>6. CASE Review(r) \/ ExecutionEnds(r) \/ ReplanStarts(r)
  BY <1>1, <1>3, <1>4, <1>6 DEF Review, ExecutionEnds, ReplanStarts
<1>7. CASE ResumeIncomplete(r) \/ Raise(r)
  <2>1. Staged
    BY <1>1, <1>3, <1>7 DEF ResumeIncomplete, Raise
  <2> QED BY <1>7, <2>1 DEF Staged, ResumeIncomplete, Raise, TypeOK, Outcomes
<1>8. CASE Stall(r) \/ LoseResult(r)
  <2>1. Staged
    BY <1>2, <1>8 DEF Stall, LoseResult
  <2> QED BY <1>8, <2>1 DEF Staged, Stall, LoseResult, TypeOK, Outcomes
<1>9. CASE Plan(r) \/ Revise(r)
  <2>1. Staged
    BY <1>1, <1>3, <1>9 DEF Plan, Revise
  <2> QED BY <1>9, <2>1 DEF Staged, Plan, Revise, TypeOK
<1>10. CASE Resume(r)
  <2>1. Staged
    BY <1>1, <1>3, <1>10 DEF Resume
  <2>2. PICK steps \in SUBSET Steps, prior \in [Steps -> {"todo"} \cup StepResults] :
           plan' = [plan EXCEPT ![r] = steps] /\ got' = [got EXCEPT ![r] = prior]
    BY <1>10 DEF Resume
  <2>3. prior \in GotType
    OBVIOUS
  <2> QED BY <1>10, <2>1, <2>2, <2>3 DEF Staged, Resume, TypeOK
<1>11. CASE Execute(r)
  <2>1. Staged
    BY <1>1, <1>3, <1>11 DEF Execute
  <2>2. PICK again \in SUBSET plan[r] :
           got' = [got EXCEPT ![r] = [s \in Steps |-> IF s \in again THEN "todo" ELSE @[s]]]
    BY <1>11 DEF Execute
  <2>3. [s \in Steps |-> IF s \in again THEN "todo" ELSE got[r][s]] \in GotType
    BY DEF TypeOK
  <2>4. got' \in [Runs -> GotType] /\ \A q \in Runs \ {r} : got'[q] = got[q]
    BY <2>2, <2>3 DEF TypeOK
  <2> QED BY <1>11, <2>1, <2>4 DEF Staged, Execute, TypeOK
<1>12. CASE Launch(r)
  <2>1. Staged
    BY <1>2, <1>12 DEF Launch
  <2>2. PICK wave, skipping \in SUBSET Left(r) :
           got' = [got EXCEPT ![r] = [s \in Steps |-> CASE s \in wave     -> "started"
                                                       [] s \in skipping -> "skipping"
                                                       [] OTHER          -> @[s]]]
    BY <1>12 DEF Launch
  <2>3. [s \in Steps |-> CASE s \in wave     -> "started"
                           [] s \in skipping -> "skipping"
                           [] OTHER          -> got[r][s]] \in GotType
    BY DEF TypeOK
  <2>4. got' \in [Runs -> GotType] /\ \A q \in Runs \ {r} : got'[q] = got[q]
    BY <2>2, <2>3 DEF TypeOK
  <2> QED BY <1>12, <2>1, <2>4 DEF Staged, Launch, TypeOK
<1>13. CASE Report(r)
  <2>1. Staged
    BY <1>2, <1>13 DEF Report
  <2>2. PICK s \in InWave(r), result \in StepResults :
           /\ got' = [got EXCEPT ![r] = [got[r] EXCEPT ![s] = result]]
           /\ outcome' = [outcome EXCEPT ![r] = IF result \in {"completed", "skipped"}
                                                THEN @ ELSE result]
    BY <1>13 DEF Report
  <2>3. [got[r] EXCEPT ![s] = result] \in GotType
    BY DEF TypeOK
  <2>4. StepResults \subseteq Outcomes \cup {"skipped"}
    BY DEF StepResults, Outcomes
  <2>5. outcome' \in [Runs -> Outcomes] /\ \A q \in Runs \ {r} : outcome'[q] = outcome[q]
    BY <2>2, <2>4 DEF TypeOK
  <2>6. got' \in [Runs -> GotType] /\ \A q \in Runs \ {r} : got'[q] = got[q]
    BY <2>2, <2>3 DEF TypeOK
  <2> QED BY <1>13, <2>1, <2>5, <2>6 DEF Staged, Report, TypeOK
<1>14. CASE Replan(r)
  <2>1. Staged
    BY <1>1, <1>3, <1>14 DEF Replan
  <2>2. Todo \in GotType
    BY DEF Todo
  <2>3. got' \in [Runs -> GotType] /\ \A q \in Runs \ {r} : got'[q] = got[q]
    BY <1>14, <2>2 DEF Replan, TypeOK
  <2> QED BY <1>14, <2>1, <2>3 DEF Staged, Replan, TypeOK, Outcomes
<1> QED BY <1>5, <1>6, <1>7, <1>8, <1>9, <1>10, <1>11, <1>12, <1>13, <1>14
        DEF Step, Prepare, Perform, Conclude

\* What a step does to the run that takes it: a wave stays inside a call of
\* execute, and a call whose status is completed has no failed step.
LEMMA OwnRun ==
    ASSUME TypeOK, WaveWhileExecuting, OutcomeTells, NEW r \in Runs, Step(r)
    PROVE  /\ \A s \in Steps : got'[r][s] \in {"started", "skipping"} =>
                 stage'[r] = "executing" /\ s \in plan'[r]
           /\ stage'[r] = "executing" /\ outcome'[r] = "completed" =>
                 \A s \in plan'[r] : got'[r][s] \notin {"failed", "blocked", "stopped"}
<1> DEFINE Bad == {"failed", "blocked", "stopped"}
           Wave == {"started", "skipping"}
<1>1. /\ stage[r] \in Stages /\ plan[r] \in SUBSET Steps /\ got[r] \in GotType
      /\ stage \in [Runs -> Stages] /\ plan \in [Runs -> SUBSET Steps]
      /\ got \in [Runs -> GotType] /\ outcome \in [Runs -> Outcomes]
  BY DEF TypeOK, GotType
<1>2. \A s \in Steps : got[r][s] \in Wave => stage[r] = "executing" /\ s \in InWave(r)
  BY DEF WaveWhileExecuting, InWave
<1>3. CASE stage[r] # "executing" /\ stage'[r] # "executing" /\ UNCHANGED got
  BY <1>2, <1>3
<1>4. CASE InWave(r) = {} /\ stage'[r] # "executing" /\ UNCHANGED got
  BY <1>2, <1>4
<1>5. CASE Submit(r) \/ Begin(r) \/ Intent(r) \/ Plan(r) \/ Review(r) \/ Revise(r)
  BY <1>1, <1>3, <1>5 DEF Submit, Begin, Intent, Plan, Review, Revise, Goto
<1>6. CASE FinalReview(r) \/ Return(r) \/ Finalize(r) \/ Clear(r)
  BY <1>1, <1>3, <1>6 DEF FinalReview, Return, Finalize, Clear, Goto
<1>7. CASE ResumeIncomplete(r) \/ Raise(r) \/ LoseResult(r)
  BY <1>1, <1>3, <1>7 DEF ResumeIncomplete, Raise, LoseResult, Goto
<1>8. CASE ExecutionEnds(r) \/ ReplanStarts(r)
  BY <1>1, <1>4, <1>8 DEF ExecutionEnds, ReplanStarts, Goto, CallOver
<1>9. CASE Resume(r)
  <2>1. PICK prior \in [Steps -> {"todo"} \cup StepResults] : got' = [got EXCEPT ![r] = prior]
    BY <1>9 DEF Resume
  <2>2. got'[r] = prior /\ stage'[r] = "armed"
    BY <1>1, <1>9, <2>1 DEF Resume, Goto
  <2>3. \A s \in Steps : prior[s] \notin Wave
    BY DEF StepResults
  <2> QED BY <2>2, <2>3
<1>10. CASE Execute(r)
  <2>1. PICK again \in SUBSET plan[r] :
           /\ \A s \in plan[r] : got[r][s] \notin {"completed", "skipped"} => s \in again
           /\ got' = [got EXCEPT ![r] = [s \in Steps |-> IF s \in again THEN "todo" ELSE @[s]]]
    BY <1>10 DEF Execute
  <2>2. \A s \in Steps : got'[r][s] = IF s \in again THEN "todo" ELSE got[r][s]
    BY <1>1, <2>1
  <2>3. stage[r] # "executing" /\ stage'[r] = "executing" /\ plan'[r] = plan[r]
    BY <1>1, <1>10 DEF Execute, Goto
  <2> QED BY <1>1, <1>2, <2>1, <2>2, <2>3
<1>11. CASE Launch(r)
  <2>1. PICK wave, skipping \in SUBSET Left(r) :
           got' = [got EXCEPT ![r] = [s \in Steps |-> CASE s \in wave     -> "started"
                                                       [] s \in skipping -> "skipping"
                                                       [] OTHER          -> @[s]]]
    BY <1>11 DEF Launch
  <2>2. \A s \in Steps : got'[r][s] = CASE s \in wave     -> "started"
                                       [] s \in skipping -> "skipping"
                                       [] OTHER          -> got[r][s]
    BY <1>1, <2>1
  <2>3. /\ stage[r] = "executing" /\ stage'[r] = "executing" /\ plan'[r] = plan[r]
        /\ outcome[r] = "completed" /\ InWave(r) = {}
    BY <1>11 DEF Launch
  <2>4. wave \subseteq plan[r] /\ skipping \subseteq plan[r]
    BY <2>1 DEF Left
  <2>5. \A s \in Steps : got'[r][s] \in Wave => s \in plan[r]
    BY <1>2, <2>2, <2>3, <2>4
  <2>6. \A s \in plan[r] : got[r][s] \notin Bad
    BY <2>3 DEF OutcomeTells
  <2>7. \A s \in plan[r] : got'[r][s] \notin Bad
    BY <1>1, <2>2, <2>6
  <2> QED BY <2>3, <2>5, <2>7
<1>12. CASE Report(r)
  <2>1. PICK s \in InWave(r), result \in StepResults :
           /\ got' = [got EXCEPT ![r] = [got[r] EXCEPT ![s] = result]]
           /\ outcome' = [outcome EXCEPT ![r] = IF result \in {"completed", "skipped"}
                                                THEN @ ELSE result]
    BY <1>12 DEF Report
  <2>2. stage[r] = "executing" /\ stage'[r] = "executing" /\ plan'[r] = plan[r]
    BY <1>12 DEF Report
  <2>3. s \in Steps /\ result \notin Wave
    BY <1>1 DEF InWave, StepResults
  <2>4. \A q \in Steps : got'[r][q] = IF q = s THEN result ELSE got[r][q]
    BY <1>1, <2>1 DEF GotType
  <2>5. \A q \in Steps : got'[r][q] \in Wave => q \in plan[r]
    BY <1>2, <2>3, <2>4 DEF InWave
  <2>6. ASSUME outcome'[r] = "completed", NEW q \in plan[r], got'[r][q] \in Bad
        PROVE  FALSE
    <3>1. outcome'[r] = IF result \in {"completed", "skipped"} THEN outcome[r] ELSE result
      BY <1>1, <2>1
    <3>2. result \in {"completed", "skipped"} /\ outcome[r] = "completed"
      BY <2>6, <3>1
    <3>3. q # s /\ got[r][q] \in Bad
      BY <1>1, <2>4, <2>6, <3>2
    <3> QED BY <2>2, <3>2, <3>3 DEF OutcomeTells
  <2> QED BY <2>2, <2>5, <2>6
<1>13. CASE Stall(r)
  <2>1. outcome'[r] # "completed" /\ InWave(r) = {} /\ UNCHANGED got
    BY <1>1, <1>13 DEF Stall
  <2> QED BY <1>2, <2>1
<1>14. CASE Replan(r)
  <2>1. got'[r] = Todo
    BY <1>1, <1>14 DEF Replan
  <2>2. plan'[r] \in SUBSET Steps
    BY <1>1, <1>14 DEF Replan
  <2> QED BY <2>1, <2>2 DEF Todo
<1> QED BY <1>5, <1>6, <1>7, <1>8, <1>9, <1>10, <1>11, <1>12, <1>13, <1>14
        DEF Step, Prepare, Perform, Conclude

Busy(rec, s) == rec.steps[s] = "running" \/ rec.nodes[s] = "running"

\* A step of a run shows a plan step running only if it starts it, or if it
\* was shown running before and is not one this run has stopped executing.
LEMMA BusySteps ==
    ASSUME TypeOK, Registered, WaveWhileExecuting, NEW r \in Runs, Step(r),
           NEW s \in Steps, Busy(record'[taskOf[r]], s)
    PROVE  \/ stage'[r] = "executing" /\ got'[r][s] = "started"
           \/ /\ Busy(record[taskOf[r]], s)
              /\ stage[r] = "executing" /\ got[r][s] = "started" =>
                     stage'[r] = "executing" /\ got'[r][s] = "started"
<1> DEFINE old == Current(r)
           new == record'[taskOf[r]]
<1>1. /\ old \in RecordType /\ old = record[taskOf[r]]
      /\ plan[r] \in SUBSET Steps /\ got[r] \in GotType
      /\ record \in [Tasks -> RecordType] /\ taskOf[r] \in Tasks
      /\ stage \in [Runs -> Stages] /\ got \in [Runs -> GotType]
  BY RunAssumption DEF TypeOK, Current, GotType
<1>2. ASSUME NEW rec, Store(r, rec) PROVE new = rec
  BY <1>1, <1>2 DEF Store
<1>3. got[r][s] = "started" => s \in InWave(r)
  BY DEF WaveWhileExecuting, InWave
<1>4. stage[r] # "idle" => old.status # "absent"
  BY <1>1 DEF Registered
<1> HIDE DEF old, new
<1>5. CASE stage[r] # "executing" /\ Busy(old, s)
  BY <1>1, <1>5
<1>6. CASE InWave(r) = {} /\ Busy(old, s)
  BY <1>1, <1>3, <1>6
<1>7. ASSUME NEW agent, new = [old EXCEPT !.agent = agent]
      PROVE  Busy(old, s)
  BY <1>1, <1>7 DEF RecordType, Busy, new
<1>8. ASSUME stage[r] # "idle", NEW steps \in SUBSET Steps, NEW trace,
             new = Synced(old, steps, trace)
      PROVE  FALSE
  BY <1>1, <1>4, <1>8, SyncedFacts DEF Quiet, Busy, new
<1>9. CASE Submit(r)
  <2>1. new = [Created EXCEPT !.attached = TRUE]
    BY <1>2, <1>9 DEF Submit
  <2> QED BY <2>1 DEF Created, NoSteps, Busy, new
<1>10. CASE Begin(r)
  <2> DEFINE rec == IF old.status = "absent" THEN Created ELSE old
  <2>1. new = [Running(rec) EXCEPT !.agent = "intent"]
    BY <1>2, <1>10 DEF Begin, old
  <2>2. stage[r] # "executing"
    BY <1>10 DEF Begin, Goto
  <2>3. CASE old.status = "absent"
    <3>1. Running(Created) \in RecordType /\ Quiet(Running(Created))
      BY CreatedFacts DEF Running, RecordType, Quiet, TaskStatuses
    <3>2. new = [Running(Created) EXCEPT !.agent = "intent"]
      BY <2>1, <2>3
    <3>3. new.steps = Running(Created).steps /\ new.nodes = Running(Created).nodes
      BY <3>1, <3>2 DEF RecordType
    <3> QED BY <3>1, <3>3 DEF Quiet, Busy, new
  <2>4. CASE old.status # "absent"
    <3>1. new.steps = old.steps /\ new.nodes = old.nodes
      BY <1>1, <2>1, <2>4 DEF Running, RecordType
    <3> QED BY <1>5, <2>2, <3>1 DEF Busy, new
  <2> QED BY <2>3, <2>4
<1>11. CASE Intent(r) \/ Resume(r) \/ Review(r) \/ FinalReview(r) \/ Return(r)
  <2>1. stage[r] # "executing"
    BY <1>11 DEF Intent, Resume, Review, FinalReview, Return, Goto
  <2>2. \E agent : new = [old EXCEPT !.agent = agent]
    BY <1>2, <1>11 DEF Intent, Resume, Review, FinalReview, Return, old
  <2> QED BY <1>5, <1>7, <2>1, <2>2
<1>12. CASE UNCHANGED record /\ (stage[r] # "executing" \/ InWave(r) = {})
  BY <1>1, <1>5, <1>6, <1>12 DEF new
<1>13. CASE ResumeIncomplete(r) \/ LoseResult(r) \/ Stall(r)
  BY <1>12, <1>13 DEF ResumeIncomplete, LoseResult, Stall, Goto
<1>14. CASE ReplanStarts(r)
  BY <1>12, <1>14 DEF ReplanStarts, CallOver
<1>15. CASE Plan(r) \/ Revise(r) \/ Replan(r)
  <2>1. stage[r] # "idle"
    BY <1>15 DEF Plan, Revise, Replan, Goto
  <2>2. \E steps \in SUBSET Steps : new = Synced(old, steps, got[r])
    BY <1>2, <1>15 DEF Plan, Revise, Replan, old
  <2> QED BY <1>8, <2>1, <2>2
<1>16. CASE ExecutionEnds(r)
  <2>1. InWave(r) = {} /\ stage[r] # "idle"
    BY <1>16 DEF ExecutionEnds, CallOver, Goto
  <2>2. CASE replanned[r]
    <3>1. new = Synced(old, plan[r], got[r])
      BY <1>2, <1>16, <2>2 DEF ExecutionEnds, old
    <3> QED BY <1>1, <1>8, <2>1, <3>1
  <2>3. CASE ~replanned[r]
    BY <1>12, <1>16, <2>1, <2>3 DEF ExecutionEnds
  <2> QED BY <2>2, <2>3
<1>17. CASE Execute(r)
  <2>1. stage[r] # "idle"
    BY <1>17 DEF Execute, Goto
  <2>2. new = [Synced(old, plan[r], got[r]) EXCEPT !.agent = "none"]
    BY <1>2, <1>17 DEF Execute, old
  <2>3. /\ Quiet(Synced(old, plan[r], got[r]))
        /\ Synced(old, plan[r], got[r]) \in RecordType
    BY <1>1, <1>4, <2>1, SyncedFacts
  <2>4. /\ new.steps = Synced(old, plan[r], got[r]).steps
        /\ new.nodes = Synced(old, plan[r], got[r]).nodes
    BY <2>2, <2>3 DEF RecordType
  <2> QED BY <2>3, <2>4 DEF Quiet, Busy, new
<1>18. CASE Launch(r)
  <2>1. PICK wave, skipping \in SUBSET Left(r) :
           /\ wave \cap skipping = {}
           /\ got' = [got EXCEPT ![r] = [q \in Steps |-> CASE q \in wave     -> "started"
                                                          [] q \in skipping -> "skipping"
                                                          [] OTHER          -> @[q]]]
           /\ \E agent \in {old.agent, "worker"} :
                 Store(r, IF wave = {} THEN old ELSE Started(old, wave, agent))
    BY <1>18 DEF Launch, old
  <2>2. InWave(r) = {} /\ stage'[r] = "executing"
    BY <1>18 DEF Launch
  <2>3. got'[r][s] = CASE s \in wave     -> "started"
                       [] s \in skipping -> "skipping"
                       [] OTHER          -> got[r][s]
    BY <1>1, <2>1
  <2>4. CASE s \in wave
    BY <2>1, <2>2, <2>3, <2>4
  <2>5. CASE s \notin wave
    <3>1. PICK agent \in {old.agent, "worker"} :
             new = IF wave = {} THEN old ELSE Started(old, wave, agent)
      BY <1>2, <2>1
    <3>2. agent \in Agents /\ wave \in SUBSET Steps
      BY <1>1, <2>1 DEF RecordType, Agents, Left
    <3>3. Busy(old, s)
      BY <1>1, <2>5, <3>1, <3>2, StartedFacts DEF Busy, new
    <3> QED BY <1>6, <2>2, <3>3
  <2> QED BY <2>4, <2>5
<1>19. CASE Report(r)
  <2>1. PICK q \in InWave(r), result \in StepResults :
           /\ got' = [got EXCEPT ![r] = [got[r] EXCEPT ![q] = result]]
           /\ Store(r, Ended(old, q, result))
    BY <1>19 DEF Report, old
  <2>2. q \in Steps /\ new = Ended(old, q, result)
    BY <1>1, <1>2, <2>1 DEF InWave
  <2>3. s # q /\ Busy(old, s)
    BY <1>1, <2>2, EndedFacts DEF Busy, new
  <2>4. got'[r][s] = got[r][s] /\ stage'[r] = stage[r]
    BY <1>1, <1>19, <2>1, <2>2, <2>3 DEF Report, GotType
  <2> QED BY <1>1, <2>3, <2>4
<1>20. CASE Raise(r)
  <2>1. stage[r] # "executing" /\ new = Failed(old)
    BY <1>2, <1>20 DEF Raise, Goto, old
  <2>2. Busy(old, s)
    BY <1>1, <2>1 DEF Failed, RecordType, Busy, new
  <2> QED BY <1>5, <2>1, <2>2
<1>21. CASE Finalize(r)
  <2>1. stage[r] = "returned" /\ new = Finalized(old, r)
    BY <1>2, <1>21 DEF Finalize, Goto, old
  <2>2. Busy(old, s)
    BY <1>1, <1>4, <2>1, FinalizedFacts DEF Busy, new
  <2> QED BY <1>5, <2>1, <2>2
<1>22. CASE Clear(r)
  <2>1. stage[r] # "executing" /\ new = [old EXCEPT !.attached = FALSE]
    BY <1>2, <1>22 DEF Clear, Goto, old
  <2>2. Busy(old, s)
    BY <1>1, <2>1 DEF RecordType, Busy, new
  <2> QED BY <1>5, <2>1, <2>2
<1> QED BY <1>9, <1>10, <1>11, <1>13, <1>14, <1>15, <1>16, <1>17, <1>18, <1>19, <1>20, <1>21, <1>22
        DEF Step, Prepare, Perform, Conclude

\* A submitted run that keeps a failed step after a step of its own shows it.
LEMMA FailureShown ==
    ASSUME TypeOK, OutcomeTells, FailureStays, NEW r \in Rest, Step(r),
           stage'[r] \in {"executing", "replanning", "reporting", "closing", "returned"},
           NEW s \in plan'[r], got'[r][s] \in {"failed", "blocked"}
    PROVE  record'[taskOf[r]].status = "failed"
<1> DEFINE old == Current(r)
           new == record'[taskOf[r]]
           Shows == {"executing", "replanning", "reporting", "closing", "returned"}
<1>1. /\ old \in RecordType /\ old = record[taskOf[r]]
      /\ r \in Runs /\ plan[r] \in SUBSET Steps /\ got[r] \in GotType
      /\ record \in [Tasks -> RecordType] /\ taskOf[r] \in Tasks
      /\ stage \in [Runs -> Stages] /\ got \in [Runs -> GotType]
      /\ plan \in [Runs -> SUBSET Steps] /\ outcome \in [Runs -> Outcomes]
  BY RunAssumption DEF TypeOK, Current, GotType
<1>2. ASSUME NEW rec, Store(r, rec) PROVE new = rec
  BY <1>1, <1>2 DEF Store
<1>3. ASSUME stage[r] \in Shows, NEW q \in plan[r], got[r][q] \in {"failed", "blocked"}
      PROVE  old.status = "failed"
  BY <1>3 DEF FailureStays, Current
<1> HIDE DEF old, new
<1>4. CASE /\ stage[r] \in Shows /\ new.status = old.status
           /\ plan'[r] = plan[r] /\ got'[r] = got[r]
  BY <1>3, <1>4 DEF new
<1>5. CASE stage'[r] \notin Shows
  BY <1>5
<1>6. CASE Submit(r) \/ Begin(r) \/ Intent(r) \/ Plan(r) \/ Revise(r) \/ Finalize(r) \/ Clear(r)
  <2>1. stage'[r] \in {"queued", "starting", "planning", "reviewing", "armed", "finalized", "settled"}
    BY <1>1, <1>6 DEF Submit, Begin, Intent, Plan, Revise, Finalize, Clear, Goto
  <2> QED BY <1>5, <2>1
<1>7. CASE Review(r)
  <2>1. stage'[r] \in {"armed", "revising"}
    BY <1>1, <1>7 DEF Review, Goto
  <2> QED BY <1>5, <2>1
<1>8. CASE ResumeIncomplete(r) \/ Resume(r)
  BY <1>8 DEF ResumeIncomplete, Resume
<1>9. CASE Execute(r)
  <2>1. PICK again \in SUBSET plan[r] :
           /\ \A q \in plan[r] : got[r][q] \notin {"completed", "skipped"} => q \in again
           /\ got' = [got EXCEPT ![r] = [q \in Steps |-> IF q \in again THEN "todo" ELSE @[q]]]
    BY <1>9 DEF Execute
  <2>2. plan'[r] = plan[r] /\ s \in Steps
    BY <1>1, <1>9 DEF Execute
  <2>3. got'[r][s] = IF s \in again THEN "todo" ELSE got[r][s]
    BY <1>1, <2>1, <2>2
  <2> QED BY <2>1, <2>2, <2>3
<1>10. CASE Launch(r)
  <2>1. PICK wave, skipping \in SUBSET Left(r) :
           got' = [got EXCEPT ![r] = [q \in Steps |-> CASE q \in wave     -> "started"
                                                       [] q \in skipping -> "skipping"
                                                       [] OTHER          -> @[q]]]
    BY <1>10 DEF Launch
  <2>2. plan'[r] = plan[r] /\ s \in Steps /\ stage[r] = "executing" /\ outcome[r] = "completed"
    BY <1>1, <1>10 DEF Launch
  <2>3. got'[r][s] = CASE s \in wave     -> "started"
                       [] s \in skipping -> "skipping"
                       [] OTHER          -> got[r][s]
    BY <1>1, <2>1, <2>2
  <2>4. got[r][s] \notin {"failed", "blocked"}
    BY <1>1, <2>2 DEF OutcomeTells
  <2> QED BY <2>3, <2>4
<1>11. CASE Report(r)
  <2>1. PICK q \in InWave(r), result \in StepResults :
           /\ got' = [got EXCEPT ![r] = [got[r] EXCEPT ![q] = result]]
           /\ Store(r, Ended(old, q, result))
    BY <1>11 DEF Report, old
  <2>2. q \in Steps /\ plan'[r] = plan[r] /\ s \in Steps /\ stage[r] \in Shows
    BY <1>1, <1>11, <2>1 DEF Report, InWave
  <2>3. new.status = Reported(old, result)
    BY <1>1, <1>2, <2>1, <2>2, EndedFacts
  <2>4. got'[r][s] = IF s = q THEN result ELSE got[r][s]
    BY <1>1, <2>1, <2>2 DEF GotType
  <2>5. CASE s = q
    <3>1. StepStatus(result) = "failed"
      BY <2>4, <2>5 DEF StepStatus
    <3> QED BY <2>3, <3>1 DEF Reported, new
  <2>6. CASE s # q
    <3>1. old.status = "failed"
      BY <1>3, <2>2, <2>4, <2>6
    <3> QED BY <2>3, <3>1 DEF Reported, new
  <2> QED BY <2>5, <2>6
<1>12. CASE Stall(r) \/ LoseResult(r)
  BY <1>1, <1>4, <1>12 DEF Stall, LoseResult, new
<1>13. CASE ReplanStarts(r)
  BY <1>1, <1>4, <1>13 DEF ReplanStarts, Goto, new
<1>14. CASE ExecutionEnds(r)
  <2>1. stage[r] \in Shows /\ plan'[r] = plan[r] /\ got'[r] = got[r]
    BY <1>14 DEF ExecutionEnds, Goto
  <2>2. CASE replanned[r]
    <3>1. new = Synced(old, plan[r], got[r])
      BY <1>2, <1>14, <2>2 DEF ExecutionEnds, old
    <3>2. new.status = old.status
      BY <1>1, <3>1 DEF Synced, RecordType
    <3> QED BY <1>4, <2>1, <3>2
  <2>3. CASE ~replanned[r]
    BY <1>1, <1>4, <1>14, <2>1, <2>3 DEF ExecutionEnds, new
  <2> QED BY <2>2, <2>3
<1>15. CASE Replan(r)
  <2>1. got'[r] = Todo /\ plan'[r] \in SUBSET Steps
    BY <1>1, <1>15 DEF Replan
  <2> QED BY <2>1 DEF Todo
<1>16. CASE FinalReview(r) \/ Return(r)
  <2>1. stage[r] \in Shows /\ plan'[r] = plan[r] /\ got'[r] = got[r]
    BY <1>16 DEF FinalReview, Return, Goto
  <2>2. \E agent : new = [old EXCEPT !.agent = agent]
    BY <1>2, <1>16 DEF FinalReview, Return, old
  <2>3. new.status = old.status
    BY <1>1, <2>2 DEF RecordType
  <2> QED BY <1>4, <2>1, <2>3
<1>17. CASE Raise(r)
  <2>1. new = Failed(old)
    BY <1>2, <1>17 DEF Raise, old
  <2> QED BY <1>1, <2>1 DEF Failed, RecordType, new
<1> QED BY <1>6, <1>7, <1>8, <1>9, <1>10, <1>11, <1>12, <1>13, <1>14, <1>15, <1>16, <1>17
        DEF Step, Prepare, Perform, Conclude

--------------------------------------------------------------------------------
(* The invariant *)

LEMMA InitInv == ASSUME Init PROVE IInv
<1>1. [Created EXCEPT !.status = "absent"] \in RecordType
  BY CreatedFacts DEF RecordType, TaskStatuses
<1>2. Todo \in GotType
  BY DEF Todo, GotType
<1>3. TypeOK
  BY <1>1, <1>2 DEF Init, TypeOK, GotType, Stages, Outcomes
<1>4. \A t \in Tasks : record[t].steps = NoSteps /\ record[t].nodes = NoSteps
  BY DEF Init, Created
<1>5. Registered
  BY DEF Init, Registered
<1>6. WaveWhileExecuting
  BY DEF Init, WaveWhileExecuting, Todo
<1>7. OutcomeTells /\ FailureStays
  BY RunAssumption DEF Init, OutcomeTells, FailureStays
<1>8. NoOrphanStep /\ ViewsAgree
  BY <1>4 DEF NoOrphanStep, ViewsAgree, Agrees, NoSteps
<1> QED BY <1>3, <1>5, <1>6, <1>7, <1>8 DEF IInv

LEMMA StepInv == ASSUME IInv, NEW r \in Runs, Step(r) PROVE IInv'
<1> USE DEF IInv
<1> DEFINE own == taskOf[r]
<1>1. PICK rec \in RecordType : /\ record' = [record EXCEPT ![own] = rec]
                                /\ rec.status # "absent" /\ Agrees(rec)
  BY OneRecord
<1>2. own \in Tasks /\ taskOf \in [Runs -> Tasks]
      /\ \A q \in Rest : q \in Runs /\ (q # r => taskOf[q] # own)
  BY RunAssumption
<1>3. /\ record'[own] = rec
      /\ \A t \in Tasks : t # own => record'[t] = record[t]
      /\ record' \in [Tasks -> RecordType]
  BY <1>1, <1>2 DEF TypeOK
<1>4. TypeOK'
  BY <1>3, OneRun DEF TypeOK, GotType
<1>5. \A q \in Runs : q # r => /\ stage'[q] = stage[q] /\ plan'[q] = plan[q]
                               /\ got'[q] = got[q] /\ outcome'[q] = outcome[q]
  BY OneRun
<1> HIDE DEF own
<1>6. Registered'
  BY <1>1, <1>2, <1>3, <1>5 DEF Registered, own
<1>7. WaveWhileExecuting'
  BY <1>5, OwnRun DEF WaveWhileExecuting
<1>8. OutcomeTells'
  BY <1>5, OwnRun DEF OutcomeTells
<1>9. ViewsAgree'
  <2> SUFFICES ASSUME NEW t \in Tasks PROVE Agrees(record'[t])
    BY DEF ViewsAgree, Agrees
  <2> QED BY <1>1, <1>3 DEF ViewsAgree
<1>10. NoOrphanStep'
  <2> SUFFICES ASSUME NEW t \in Tasks, NEW s \in Steps, Busy(record'[t], s)
               PROVE  \E q \in Runs : taskOf[q] = t /\ stage'[q] = "executing" /\ got'[q][s] = "started"
    BY DEF NoOrphanStep, Busy
  <2>1. CASE t # own
    <3>1. PICK q \in Runs : taskOf[q] = t /\ stage[q] = "executing" /\ got[q][s] = "started"
      BY <1>3, <2>1 DEF NoOrphanStep, Busy
    <3> QED BY <1>5, <2>1, <3>1 DEF own
  <2>2. CASE t = own
    <3>1. \/ stage'[r] = "executing" /\ got'[r][s] = "started"
          \/ /\ Busy(record[own], s)
             /\ stage[r] = "executing" /\ got[r][s] = "started" =>
                    stage'[r] = "executing" /\ got'[r][s] = "started"
      BY <2>2, BusySteps DEF own
    <3>2. CASE stage'[r] = "executing" /\ got'[r][s] = "started"
      BY <2>2, <3>2 DEF own
    <3>3. CASE /\ Busy(record[own], s)
               /\ stage[r] = "executing" /\ got[r][s] = "started" =>
                      stage'[r] = "executing" /\ got'[r][s] = "started"
      <4>1. PICK q \in Runs : taskOf[q] = own /\ stage[q] = "executing" /\ got[q][s] = "started"
        BY <1>2, <3>3 DEF NoOrphanStep, Busy
      <4> QED BY <1>5, <2>2, <3>3, <4>1
    <3> QED BY <3>1, <3>2, <3>3
  <2> QED BY <2>1, <2>2
<1>11. FailureStays'
  <2> SUFFICES ASSUME NEW q \in Rest,
                      stage'[q] \in {"executing", "replanning", "reporting", "closing", "returned"},
                      NEW s \in plan'[q], got'[q][s] \in {"failed", "blocked"}
               PROVE  record'[taskOf[q]].status = "failed"
    BY DEF FailureStays, Current
  <2>1. CASE q = r
    BY <2>1, FailureShown
  <2>2. CASE q # r
    <3>1. record'[taskOf[q]] = record[taskOf[q]]
      BY <1>2, <1>3, <2>2
    <3> QED BY <1>2, <1>5, <2>2, <3>1 DEF FailureStays, Current
  <2> QED BY <2>1, <2>2
<1> QED BY <1>4, <1>6, <1>7, <1>8, <1>9, <1>10, <1>11

\* IInv is an invariant of the specification.
THEOREM Inductive == Spec => []IInv
<1>1. IInv /\ [Next]_vars => IInv'
  <2> SUFFICES ASSUME IInv, [Next]_vars PROVE IInv'
    OBVIOUS
  <2>1. CASE Next
    BY <2>1, StepInv DEF Next, Step
  <2>2. CASE UNCHANGED vars
    BY <2>2 DEF vars, IInv, TypeOK, Registered, WaveWhileExecuting, OutcomeTells, NoOrphanStep,
       ViewsAgree, Agrees, FailureStays, Current
  <2> QED BY <2>1, <2>2
<1> QED BY <1>1, InitInv, PTL DEF Spec

\* No status ever leaves the vocabularies of the record, its graph and steps.
THEOREM TypeCorrect == Spec => []TypeOK
BY Inductive, PTL DEF IInv

\* Whatever way runs end, replan or share a task, no step is left running.
THEOREM OrphanFree == Spec => []NoOrphanStep
BY Inductive, PTL DEF IInv

\* The step list and the graph of a task tell one story.
THEOREM ViewsCorrect == Spec => []ViewsAgree
BY Inductive, PTL DEF IInv

\* A failed step of a submitted task keeps it shown failed until the run is
\* finalized or replans.
THEOREM FailureVisible == Spec => []FailureStays
BY Inductive, PTL DEF IInv

--------------------------------------------------------------------------------
(* What a settled task shows *)

\* A run that is over and says it completed has completed or skipped each step.
CompletedAll ==
    \A r \in Runs :
        stage[r] \in {"reporting", "closing", "returned", "finalized", "settled"}
          /\ outcome[r] = "completed"
        => \A s \in plan[r] : got[r][s] \in {"completed", "skipped"}

\* A run that raised does nothing more but to be finalized.
RaisedIsOver == \A r \in Runs : outcome[r] = "raised" => stage[r] \in {"returned", "finalized", "settled"}

\* A run that raised has left its graph failed.
RaisedIsShown ==
    \A r \in Rest : stage[r] = "returned" /\ outcome[r] = "raised" => Current(r).graphStatus = "failed"

Verdicts == CompletedAll /\ RaisedIsOver /\ RaisedIsShown /\ SettledTruly

\* A call that ends with its status still completed has nothing left and
\* nothing that failed.
LEMMA CallCompletes ==
    ASSUME TypeOK, OutcomeTells, NEW r \in Runs, CallOver(r), stage[r] = "executing",
           outcome[r] = "completed", NEW s \in plan[r]
    PROVE  got[r][s] \in {"completed", "skipped"}
<1>1. s \in Steps /\ got[r][s] \in {"todo", "started", "skipping"} \cup StepResults
  BY DEF TypeOK
<1>2. got[r][s] \notin {"todo", "started", "skipping"}
  BY DEF CallOver, InWave, Left
<1>3. got[r][s] \notin {"failed", "blocked", "stopped"}
  BY DEF OutcomeTells
<1> QED BY <1>1, <1>2, <1>3 DEF StepResults

LEMMA CompletesAll ==
    ASSUME TypeOK, OutcomeTells, CompletedAll, NEW r \in Runs, Step(r),
           stage'[r] \in {"reporting", "closing", "returned", "finalized", "settled"},
           outcome'[r] = "completed", NEW s \in plan'[r]
    PROVE  got'[r][s] \in {"completed", "skipped"}
<1> DEFINE Over == {"reporting", "closing", "returned", "finalized", "settled"}
<1>1. /\ stage \in [Runs -> Stages] /\ outcome \in [Runs -> Outcomes]
      /\ stage[r] \in Stages
  BY DEF TypeOK
<1>2. CASE stage[r] \in Over /\ UNCHANGED <<plan, got, outcome>>
  BY <1>2 DEF CompletedAll
<1>3. CASE stage'[r] \notin Over \/ outcome'[r] # "completed"
  BY <1>3
<1>4. CASE Submit(r) \/ Begin(r) \/ Intent(r) \/ Resume(r) \/ Plan(r) \/ Revise(r)
  BY <1>1, <1>3, <1>4 DEF Submit, Begin, Intent, Resume, Plan, Revise, Goto
<1>5. CASE Review(r) \/ Execute(r) \/ ReplanStarts(r) \/ Replan(r)
  BY <1>1, <1>3, <1>5 DEF Review, Execute, ReplanStarts, Replan, Goto
<1>6. CASE Launch(r) \/ Report(r) \/ Stall(r)
  BY <1>1, <1>3, <1>6 DEF Launch, Report, Stall
<1>7. CASE ResumeIncomplete(r) \/ Raise(r) \/ LoseResult(r)
  BY <1>1, <1>3, <1>7 DEF ResumeIncomplete, Raise, LoseResult
<1>8. CASE ExecutionEnds(r)
  BY <1>8, CallCompletes DEF ExecutionEnds, Goto
<1>9. CASE FinalReview(r) \/ Return(r) \/ Finalize(r) \/ Clear(r)
  BY <1>2, <1>9 DEF FinalReview, Return, Finalize, Clear, Goto
<1> QED BY <1>4, <1>5, <1>6, <1>7, <1>8, <1>9 DEF Step, Prepare, Perform, Conclude

LEMMA RaisedEnds ==
    ASSUME TypeOK, RaisedIsOver, NEW r \in Runs, Step(r), outcome'[r] = "raised"
    PROVE  stage'[r] \in {"returned", "finalized", "settled"}
<1>1. stage \in [Runs -> Stages] /\ outcome \in [Runs -> Outcomes]
  BY DEF TypeOK
<1>2. CASE Submit(r) \/ Begin(r) \/ Intent(r) \/ Resume(r) \/ ResumeIncomplete(r) \/ Plan(r) \/ Revise(r)
  BY <1>1, <1>2 DEF RaisedIsOver, Submit, Begin, Intent, Resume, ResumeIncomplete, Plan, Revise, Goto
<1>3. CASE Review(r) \/ Execute(r) \/ ReplanStarts(r) \/ Replan(r) \/ ExecutionEnds(r) \/ FinalReview(r)
  BY <1>1, <1>3 DEF RaisedIsOver, Review, Execute, ReplanStarts, Replan, ExecutionEnds, FinalReview, Goto
<1>4. CASE Launch(r) \/ Stall(r)
  BY <1>1, <1>4 DEF RaisedIsOver, Launch, Stall
<1>5. CASE Report(r)
  <2>1. stage[r] = "executing" /\ outcome'[r] \in StepResults \cup {outcome[r]}
    BY <1>1, <1>5 DEF Report
  <2> QED BY <2>1 DEF RaisedIsOver, StepResults
<1>6. CASE Return(r) \/ Raise(r) \/ LoseResult(r) \/ Finalize(r) \/ Clear(r)
  BY <1>1, <1>6 DEF RaisedIsOver, Return, Raise, LoseResult, Finalize, Clear, Goto
<1> QED BY <1>2, <1>3, <1>4, <1>6, <1>5 DEF Step, Prepare, Perform, Conclude

\* What finalize_task makes of the record.
LEMMA FinalizedShows ==
    ASSUME TypeOK, NEW r \in Runs, NEW rec \in RecordType, outcome[r] # "lost",
           outcome[r] = "raised" => rec.graphStatus = "failed",
           outcome[r] = "completed" => \A s \in plan[r] : got[r][s] \in {"completed", "skipped"}
    PROVE  LET done == Finalized(rec, r) IN
           /\ done.status = TaskStatus(outcome[r])
           /\ done.graphStatus = done.status
           /\ done.agent = "none"
           /\ done.status = "completed" =>
                 \A s \in plan[r] : /\ done.steps[s] \in {"completed", "cancelled"}
                                    /\ done.nodes[s] \in {"completed", "skipped"}
<1> DEFINE done == Finalized(rec, r)
<1>1. plan[r] \in SUBSET Steps /\ outcome[r] \in Outcomes
  BY DEF TypeOK
<1>2. TaskStatus(outcome[r]) = "completed" => outcome[r] = "completed"
  BY DEF TaskStatus
<1>3. CASE outcome[r] = "raised"
  <2>1. done = [rec EXCEPT !.status = TaskStatus(outcome[r]), !.agent = "none"]
    BY <1>3 DEF Finalized
  <2>2. TaskStatus(outcome[r]) = "failed"
    BY <1>3 DEF TaskStatus
  <2> QED BY <1>3, <2>1, <2>2 DEF RecordType
<1>4. CASE outcome[r] # "raised"
  <2>1. /\ done.status = TaskStatus(outcome[r]) /\ done.graphStatus = TaskStatus(outcome[r])
        /\ done.agent = "none"
        /\ done.steps = ReturnedSteps(r) /\ done.nodes = ReturnedNodes(r)
    BY <1>4 DEF Finalized, RecordType
  <2>2. ASSUME outcome[r] = "completed", NEW s \in plan[r]
        PROVE  /\ ReturnedSteps(r)[s] \in {"completed", "cancelled"}
               /\ ReturnedNodes(r)[s] \in {"completed", "skipped"}
    <3>1. s \in Steps /\ got[r][s] \in {"completed", "skipped"} /\ got[r][s] \in StepResults
      BY <1>1, <2>2 DEF StepResults
    <3>2. ReturnedSteps(r)[s] = StepStatus(got[r][s])
      BY <3>1 DEF ReturnedSteps
    <3>3. ReturnedNodes(r)[s] = GraphStatus(got[r][s])
      BY <2>2, <3>1 DEF ReturnedNodes, Snapshot
    <3> QED BY <3>1, <3>2, <3>3 DEF StepStatus, GraphStatus
  <2> QED BY <1>2, <2>1, <2>2
<1> QED BY <1>3, <1>4

\* A run that is over, as its own step leaves it.
LEMMA OwnVerdict ==
    ASSUME TypeOK, Verdicts, NEW r \in Rest, r \in Runs, Step(r)
    PROVE  /\ stage'[r] = "returned" /\ outcome'[r] = "raised" =>
                 record'[taskOf[r]].graphStatus = "failed"
           /\ stage'[r] \in {"finalized", "settled"} /\ outcome'[r] # "lost" =>
                 LET rec == record'[taskOf[r]] IN
                 /\ rec.status = TaskStatus(outcome'[r])
                 /\ rec.graphStatus = rec.status
                 /\ rec.agent = "none"
                 /\ rec.status = "completed" =>
                       \A s \in plan'[r] : /\ rec.steps[s] \in {"completed", "cancelled"}
                                           /\ rec.nodes[s] \in {"completed", "skipped"}
<1> DEFINE old == Current(r)
           new == record'[taskOf[r]]
<1>1. /\ old \in RecordType /\ old = record[taskOf[r]]
      /\ record \in [Tasks -> RecordType] /\ taskOf[r] \in Tasks
      /\ stage \in [Runs -> Stages] /\ outcome \in [Runs -> Outcomes]
      /\ stage[r] \in Stages
  BY RunAssumption DEF TypeOK, Current
<1>2. ASSUME NEW rec, Store(r, rec) PROVE new = rec
  BY <1>1, <1>2 DEF Store
<1> HIDE DEF old, new
<1>3. CASE stage'[r] \notin {"returned", "finalized", "settled"}
  BY <1>3
<1>4. CASE Submit(r) \/ Begin(r) \/ Intent(r) \/ Resume(r) \/ Plan(r) \/ Revise(r)
  BY <1>1, <1>3, <1>4 DEF Submit, Begin, Intent, Resume, Plan, Revise, Goto
<1>5. CASE Review(r) \/ Execute(r) \/ ReplanStarts(r) \/ Replan(r) \/ ExecutionEnds(r) \/ FinalReview(r)
  BY <1>1, <1>3, <1>5 DEF Review, Execute, ReplanStarts, Replan, ExecutionEnds, FinalReview, Goto
<1>6. CASE Launch(r) \/ Report(r) \/ Stall(r)
  BY <1>1, <1>3, <1>6 DEF Launch, Report, Stall
<1>7. CASE ResumeIncomplete(r)
  BY <1>7 DEF ResumeIncomplete
<1>8. CASE LoseResult(r)
  BY <1>1, <1>8 DEF LoseResult
<1>9. CASE Return(r)
  <2>1. stage[r] = "closing" /\ stage'[r] = "returned" /\ outcome'[r] = outcome[r]
    BY <1>1, <1>9 DEF Return, Goto
  <2> QED BY <2>1 DEF Verdicts, RaisedIsOver
<1>10. CASE Raise(r)
  <2>1. new = Failed(old) /\ stage'[r] = "returned"
    BY <1>1, <1>2, <1>10 DEF Raise, Goto, old
  <2> QED BY <1>1, <2>1 DEF Failed, RecordType, new
<1>11. CASE Finalize(r)
  <2>1. /\ new = Finalized(old, r) /\ stage[r] = "returned" /\ stage'[r] = "finalized"
        /\ outcome' = outcome /\ plan' = plan
    BY <1>1, <1>2, <1>11 DEF Finalize, Goto, old
  <2>2. outcome[r] = "raised" => old.graphStatus = "failed"
    BY <2>1 DEF Verdicts, RaisedIsShown, old
  <2>3. outcome[r] = "completed" => \A s \in plan[r] : got[r][s] \in {"completed", "skipped"}
    BY <2>1 DEF Verdicts, CompletedAll
  <2> QED BY <1>1, <2>1, <2>2, <2>3, FinalizedShows DEF new
<1>12. CASE Clear(r)
  <2>1. /\ new = [old EXCEPT !.attached = FALSE] /\ stage[r] = "finalized" /\ stage'[r] = "settled"
        /\ outcome' = outcome /\ plan' = plan
    BY <1>1, <1>2, <1>12 DEF Clear, Goto, old
  <2>2. /\ new.status = old.status /\ new.graphStatus = old.graphStatus
        /\ new.agent = old.agent /\ new.steps = old.steps /\ new.nodes = old.nodes
    BY <1>1, <2>1 DEF RecordType
  <2> QED BY <2>1, <2>2 DEF Verdicts, SettledTruly, old, new
<1> QED BY <1>4, <1>5, <1>6, <1>7, <1>8, <1>9, <1>10, <1>11, <1>12
        DEF Step, Prepare, Perform, Conclude

LEMMA VerdictsKept == ASSUME IInv, Verdicts, NEW r \in Runs, Step(r) PROVE Verdicts'
<1> USE DEF IInv
<1>1. PICK rec \in RecordType : record' = [record EXCEPT ![taskOf[r]] = rec]
  BY OneRecord
<1>2. /\ Rest \subseteq Runs /\ taskOf \in [Runs -> Tasks]
      /\ \A q \in Rest : q # r => taskOf[q] # taskOf[r]
  BY RunAssumption
<1>3. \A q \in Runs : q # r => /\ stage'[q] = stage[q] /\ plan'[q] = plan[q]
                               /\ got'[q] = got[q] /\ outcome'[q] = outcome[q]
  BY OneRun
<1>4. \A q \in Rest : q # r => record'[taskOf[q]] = record[taskOf[q]]
  BY <1>1, <1>2 DEF TypeOK
<1>5. CompletedAll'
  <2> SUFFICES ASSUME NEW q \in Runs, outcome'[q] = "completed", NEW s \in plan'[q],
                      stage'[q] \in {"reporting", "closing", "returned", "finalized", "settled"}
               PROVE  got'[q][s] \in {"completed", "skipped"}
    BY DEF CompletedAll
  <2>1. CASE q = r
    BY <2>1, CompletesAll DEF Verdicts
  <2>2. CASE q # r
    BY <1>3, <2>2 DEF Verdicts, CompletedAll
  <2> QED BY <2>1, <2>2
<1>6. RaisedIsShown'
  <2> SUFFICES ASSUME NEW q \in Rest, stage'[q] = "returned", outcome'[q] = "raised"
               PROVE  record'[taskOf[q]].graphStatus = "failed"
    BY DEF RaisedIsShown, Current
  <2>1. CASE q = r
    BY <2>1, OwnVerdict
  <2>2. CASE q # r
    BY <1>2, <1>3, <1>4, <2>2 DEF Verdicts, RaisedIsShown, Current
  <2> QED BY <2>1, <2>2
<1>7. SettledTruly'
  <2> SUFFICES ASSUME NEW q \in Rest, stage'[q] \in {"finalized", "settled"}, outcome'[q] # "lost"
               PROVE  LET rec1 == record'[taskOf[q]] IN
                      /\ rec1.status = TaskStatus(outcome'[q])
                      /\ rec1.graphStatus = rec1.status
                      /\ rec1.agent = "none"
                      /\ rec1.status = "completed" =>
                            \A s \in plan'[q] : /\ rec1.steps[s] \in {"completed", "cancelled"}
                                                /\ rec1.nodes[s] \in {"completed", "skipped"}
    BY DEF SettledTruly, Current, TaskStatus
  <2>1. CASE q = r
    BY <2>1, OwnVerdict
  <2>2. CASE q # r
    BY <1>2, <1>3, <1>4, <2>2 DEF Verdicts, SettledTruly, Current
  <2> QED BY <2>1, <2>2
<1>8. RaisedIsOver'
  <2> SUFFICES ASSUME NEW q \in Runs, outcome'[q] = "raised"
               PROVE  stage'[q] \in {"returned", "finalized", "settled"}
    BY DEF RaisedIsOver
  <2>1. CASE q = r
    BY <2>1, RaisedEnds DEF Verdicts
  <2>2. CASE q # r
    BY <1>3, <2>2 DEF Verdicts, RaisedIsOver
  <2> QED BY <2>1, <2>2
<1> QED BY <1>5, <1>6, <1>7, <1>8 DEF Verdicts

\* A submitted task that is over shows what became of its run, in both views
\* (_execute_task, finalize_task, fail_task).
THEOREM SettledCorrect == Spec => []SettledTruly
<1>1. Init => Verdicts
  BY RunAssumption DEF Init, Verdicts, CompletedAll, RaisedIsOver, RaisedIsShown, SettledTruly
<1>2. IInv /\ Verdicts /\ [Next]_vars => Verdicts'
  <2> SUFFICES ASSUME IInv, Verdicts, [Next]_vars PROVE Verdicts'
    OBVIOUS
  <2>1. CASE Next
    BY <2>1, VerdictsKept DEF Next, Step
  <2>2. CASE UNCHANGED vars
    BY <2>2 DEF vars, Verdicts, CompletedAll, RaisedIsOver, RaisedIsShown, SettledTruly, Current
  <2> QED BY <2>1, <2>2
<1>3. Verdicts => SettledTruly
  BY DEF Verdicts
<1> QED BY <1>1, <1>2, <1>3, Inductive, PTL DEF Spec

================================================================================
