------------------------ MODULE TaskGraphExecutorProofs ------------------------
(***************************************************************************)
(* Proofs about TaskGraphExecutor, for every set of graphs, acyclic or     *)
(* not, and any number of calls.  The inductive invariant adds to the      *)
(* checked ones what ties a call's local variables together: what is left  *)
(* to do is what is not terminal, and a wave is a part of it.              *)
(***************************************************************************)
EXTENDS TaskGraphExecutor, TaskGraphContract, FiniteSetTheorems, SequenceTheorems,
        WellFoundedInduction, TLAPS

\* How remaining, the wave and the marks of a call hang together.
CallShape ==
    /\ phase # "running" => wave = NoWave /\ skipping = {}
    /\ phase = "running" =>
          /\ remaining = Nodes \ Terminal
          /\ remaining # {}
          /\ DOMAIN wave \cap skipping = {}
          /\ DOMAIN wave \cup skipping \subseteq remaining
          /\ \A n \in skipping : Deps(n) \subseteq Terminal
          /\ status = "completed"
          /\ failedStep = NoStep
          /\ blockedStep = NoStep

\* node_statuses and the two terminal sets agree.
Statuses ==
    /\ \A n \in Nodes : nodeStatus[n] = "completed" => n \in completed
    /\ \A n \in Nodes : nodeStatus[n] = "skipped" => n \in skipped
    /\ phase = "running" => \A n \in Terminal : nodeStatus[n] \in {"completed", "skipped"}

\* RoutesHonoured and GateHolds, already for the steps of the wave.
WaveRoutes ==
    \A n \in DOMAIN wave : \A p \in Deps(n) :
        /\ graph.edges[<<p, n>>] = "on_success" => p \in completed
        /\ graph.edges[<<p, n>>] = "on_skipped" => p \in skipped
WaveGates ==
    \A n \in DOMAIN wave \cap graph.gated :
        wave[n] \in {"completed", "failed", "stopped"} => approval[n] = "approved"

\* The step a run is resumed from by default has not completed.
Marks == failedStep \notin Terminal /\ blockedStep \notin Terminal

IInv ==
    /\ TypeOK /\ CallShape /\ Statuses /\ WaveRoutes /\ WaveGates /\ Marks
    /\ NothingRunsEarly /\ OutputsGrounded /\ RoutesHonoured /\ GateHolds
    /\ HonestCompletion /\ StallsOnlyOnBadGraph

--------------------------------------------------------------------------------
(* The set of steps a resume resets *)

\* Affected(target) holds the target, is closed under dependents, and is part
\* of every such set.
LEMMA AffectedFacts ==
    ASSUME NEW target \in Ids
    PROVE  /\ Affected(target) \subseteq Nodes
           /\ target = NoStep => Affected(target) = {}
           /\ target \in Nodes => target \in Affected(target)
           /\ ClosedUnderDependents(Affected(target))
           /\ \A S \in SUBSET Nodes :
                 ClosedUnderDependents(S) /\ target \in S => Affected(target) \subseteq S
  <1>1. NoStep \notin Nodes
    BY DEF NoStep, Nodes
  <1>2. ClosedUnderDependents(Affected(target))
    <2> SUFFICES ASSUME NEW n \in Nodes, NEW p \in Deps(n), p \in Affected(target),
                        NEW S \in SUBSET Nodes, target \in S, ClosedUnderDependents(S)
                 PROVE  n \in S
      BY DEF ClosedUnderDependents, Affected
    <2>1. p \in S
      BY DEF Affected
    <2> QED
      BY <2>1 DEF ClosedUnderDependents
  <1> QED
    BY <1>1, <1>2 DEF Affected

\* Nothing that completed depends on a step that did not: resetting from such
\* a step touches no terminal one.
LEMMA AffectedPending ==
    ASSUME TypeOK, NothingRunsEarly,
           NEW target \in Ids, target \notin Terminal
    PROVE  Affected(target) \cap Terminal = {}
  <1>1. CASE target = NoStep
    BY <1>1, AffectedFacts
  <1>2. CASE target \in Nodes
    <2> DEFINE Pending == Nodes \ Terminal
    <2>1. ClosedUnderDependents(Pending)
      BY DEF ClosedUnderDependents, NothingRunsEarly
    <2>2. Pending \in SUBSET Nodes /\ target \in Pending
      BY <1>2
    <2>3. Affected(target) \subseteq Pending
      BY <2>1, <2>2, AffectedFacts
    <2> QED
      BY <2>3
  <1> QED
    BY <1>1, <1>2 DEF Ids

\* The results of a step are results.
LEMMA ResultsOfSteps ==
    ASSUME TypeOK, NEW n \in Nodes
    PROVE  StepResults(n) \subseteq Results
  <1>1. graph.kind[n] \in Kinds
    BY GraphAssumption DEF TypeOK
  <1> QED
    BY <1>1 DEF StepResults, KindResults, Kinds, Results

--------------------------------------------------------------------------------
(* The invariant *)

LEMMA InitHolds == Init => IInv
  <1> SUFFICES ASSUME Init PROVE IInv
    OBVIOUS
  <1>1. DOMAIN wave = {}
    BY DEF Init, NoWave
  <1>2. NoStep \notin Nodes
    BY DEF NoStep, Nodes
  <1>3. TypeOK
    BY <1>1 DEF Init, TypeOK, Decisions, Ids, Results
  <1> QED
    BY <1>1, <1>2, <1>3
    DEF IInv, Init, CallShape, Statuses, WaveRoutes, WaveGates, Marks, NothingRunsEarly,
        OutputsGrounded, RoutesHonoured, GateHolds, HonestCompletion, StallsOnlyOnBadGraph,
        Terminal, Stalled

\* A call starts, from nothing or from a returned state.
LEMMA StartKeeps ==
    ASSUME IInv, NEW target \in Ids, phase # "running", Start(target),
           UNCHANGED approval \/ \E decision \in Decisions : Decide(target, decision)
    PROVE  IInv'
  <1> DEFINE Reset == Affected(target)
  <1>0. /\ completed' = completed \ Reset
        /\ skipped' = skipped \ Reset
        /\ outputs' = outputs \ Reset
        /\ remaining' = Nodes \ (completed' \cup skipped')
        /\ nodeStatus' = [n \in Nodes |-> IF n \in completed' THEN "completed"
                                          ELSE IF n \in skipped' THEN "skipped"
                                          ELSE IF n \in Reset THEN "pending"
                                          ELSE nodeStatus[n]]
        /\ phase' = IF remaining' = {} THEN "returned" ELSE "running"
        /\ status' = "completed" /\ failedStep' = NoStep /\ blockedStep' = NoStep
        /\ graph' = graph /\ wave' = wave /\ skipping' = skipping
        /\ call' = call + 1 /\ resumeFrom' = target
    BY DEF Start
  <1>1. wave = NoWave /\ skipping = {} /\ DOMAIN wave = {}
    BY DEF IInv, CallShape, NoWave
  <1>2. Terminal' = Terminal \ Reset
    BY <1>0 DEF Terminal
  <1>3. \A n : Deps(n)' = Deps(n)
    BY <1>0 DEF Deps
  <1>4. Reset \subseteq Nodes /\ ClosedUnderDependents(Reset)
    BY AffectedFacts
  <1>5. Terminal \subseteq Nodes /\ NoStep \notin Nodes
    BY DEF IInv, TypeOK, Terminal, NoStep, Nodes
  <1>6. ASSUME NEW n \in Nodes \ Reset PROVE Deps(n) \cap Reset = {}
    BY <1>4, <1>6 DEF ClosedUnderDependents
  <1>7. approval' \in [Nodes -> Decisions]
        /\ \A n \in Nodes \ Reset : approval'[n] = approval[n]
    <2>1. CASE UNCHANGED approval
      BY <2>1 DEF IInv, TypeOK
    <2>2. ASSUME NEW decision \in Decisions, Decide(target, decision)
          PROVE  /\ approval' \in [Nodes -> Decisions]
                 /\ \A n \in Nodes \ Reset : approval'[n] = approval[n]
      <3>1. target \in Nodes => target \in Reset
        BY AffectedFacts
      <3>2. approval \in [Nodes -> Decisions]
        BY DEF IInv, TypeOK
      <3> QED
        BY <2>2, <3>1, <3>2 DEF Decide
    <2> QED
      BY <2>1, <2>2
  <1>8. nodeStatus \in [Nodes -> Results \cup {"pending", "skipped"}]
    BY DEF IInv, TypeOK
  <1>9. nodeStatus' \in [Nodes -> Results \cup {"pending", "skipped"}]
    BY <1>0, <1>8 DEF Results
  <1>10. TypeOK'
    BY <1>0, <1>1, <1>7, <1>9 DEF IInv, TypeOK, Ids, Results
  <1>11. CallShape'
    BY <1>0, <1>1 DEF CallShape, Terminal
  <1>12. Statuses'
    <2>1. ASSUME NEW n \in Nodes
          PROVE  /\ nodeStatus'[n] = "completed" => n \in completed'
                 /\ nodeStatus'[n] = "skipped" => n \in skipped'
                 /\ n \in completed' \cup skipped' => nodeStatus'[n] \in {"completed", "skipped"}
      <3>1. nodeStatus'[n] = IF n \in completed' THEN "completed"
                             ELSE IF n \in skipped' THEN "skipped"
                             ELSE IF n \in Reset THEN "pending" ELSE nodeStatus[n]
        BY <1>0
      <3>2. /\ nodeStatus[n] = "completed" => n \in completed
            /\ nodeStatus[n] = "skipped" => n \in skipped
        BY DEF IInv, Statuses
      <3> QED
        BY <1>0, <3>1, <3>2
    <2>2. Terminal' = completed' \cup skipped' /\ Terminal' \subseteq Nodes
      BY <1>2, <1>5 DEF Terminal
    <2> HIDE DEF Reset
    <2> QED
      BY <2>1, <2>2 DEF Statuses
  <1>13. WaveRoutes' /\ WaveGates'
    BY <1>0, <1>1 DEF WaveRoutes, WaveGates
  <1>14. Marks'
    BY <1>0, <1>2, <1>5 DEF Marks
  <1>15. NothingRunsEarly'
    BY <1>0, <1>1, <1>2, <1>3, <1>5, <1>6 DEF IInv, NothingRunsEarly
  <1>16. OutputsGrounded'
    BY <1>0, <1>2, <1>3, <1>6 DEF IInv, TypeOK, OutputsGrounded
  <1>17. RoutesHonoured'
    BY <1>0, <1>3, <1>6 DEF IInv, TypeOK, RoutesHonoured
  <1>18. GateHolds'
    BY <1>0, <1>7 DEF IInv, TypeOK, GateHolds
  <1>19. HonestCompletion'
    BY <1>0, <1>9 DEF HonestCompletion
  <1>20. StallsOnlyOnBadGraph'
    BY <1>0 DEF StallsOnlyOnBadGraph, Stalled
  <1> QED
    BY <1>10, <1>11, <1>12, <1>13, <1>14, <1>15, <1>16, <1>17, <1>18, <1>19, <1>20 DEF IInv

\* A wave is launched.
LEMMA LaunchKeeps == IInv /\ Launch => IInv'
  <1> SUFFICES ASSUME IInv, Launch PROVE IInv'
    OBVIOUS
  <1>0. /\ phase = "running" /\ phase' = "running"
        /\ UNCHANGED <<graph, approval, call, resumeFrom, completed, skipped, remaining,
                       outputs, nodeStatus, status, failedStep, blockedStep>>
    BY DEF Launch, request
  <1>1. PICK truths \in SUBSET Ready :
          /\ wave' = [n \in {m \in Ready : Passes(m, truths)} |-> "running"]
          /\ skipping' = {m \in Ready : ~Passes(m, truths)}
    BY DEF Launch
  <1>2. /\ DOMAIN wave' = {m \in Ready : Passes(m, truths)}
        /\ \A n \in DOMAIN wave' : wave'[n] = "running"
    BY <1>1
  <1>3. Terminal' = Terminal /\ \A n : Deps(n)' = Deps(n)
    BY <1>0 DEF Terminal, Deps
  <1>4. Ready \subseteq remaining /\ \A n \in Ready : Deps(n) \subseteq Terminal
    BY DEF Ready
  <1>5. remaining = Nodes \ Terminal
    BY <1>0 DEF IInv, CallShape
  <1>6. \A n \in DOMAIN wave' : \A p \in Deps(n) :
            /\ graph.edges[<<p, n>>] = "on_success" => p \in completed
            /\ graph.edges[<<p, n>>] = "on_skipped" => p \in skipped
    <2> SUFFICES ASSUME NEW n \in Ready, Passes(n, truths), NEW p \in Deps(n)
                 PROVE  /\ graph.edges[<<p, n>>] = "on_success" => p \in completed
                        /\ graph.edges[<<p, n>>] = "on_skipped" => p \in skipped
      BY <1>2
    <2>1. EdgeHolds(p, n, truths)
      BY DEF Passes
    <2>2. p \in Nodes
      BY <1>4 DEF IInv, TypeOK, Terminal
    <2>3. /\ nodeStatus[p] = "completed" => p \in completed
          /\ nodeStatus[p] = "skipped" => p \in skipped
      BY <2>2 DEF IInv, Statuses
    <2> QED
      BY <2>1, <2>3 DEF EdgeHolds
  <1>7. TypeOK'
    BY <1>0, <1>1, <1>2, <1>4 DEF IInv, TypeOK, request
  <1>8. CallShape'
    BY <1>0, <1>1, <1>2, <1>3, <1>4 DEF IInv, CallShape
  <1>9. Statuses'
    BY <1>0, <1>3 DEF IInv, Statuses
  <1>10. WaveRoutes'
    BY <1>0, <1>3, <1>6 DEF WaveRoutes
  <1>11. WaveGates'
    BY <1>0, <1>2 DEF WaveGates
  <1>12. Marks'
    BY <1>0, <1>3 DEF IInv, Marks
  <1>13. NothingRunsEarly'
    BY <1>2, <1>3, <1>4, <1>5 DEF IInv, NothingRunsEarly
  <1>14. OutputsGrounded' /\ RoutesHonoured' /\ GateHolds'
    BY <1>0, <1>3 DEF IInv, OutputsGrounded, RoutesHonoured, GateHolds
  <1>15. HonestCompletion' /\ StallsOnlyOnBadGraph'
    BY <1>0 DEF HonestCompletion, StallsOnlyOnBadGraph, Stalled
  <1> QED
    BY <1>7, <1>8, <1>9, <1>10, <1>11, <1>12, <1>13, <1>14, <1>15 DEF IInv

\* A step of the wave ends.
LEMMA StepEndsKeeps == ASSUME IInv, NEW n \in Nodes, StepEnds(n) PROVE IInv'
  <1>0. UNCHANGED <<graph, approval, call, phase, resumeFrom, completed, skipped, remaining,
                    outputs, nodeStatus, skipping, status, failedStep, blockedStep>>
    BY DEF StepEnds, request
  <1>1. PICK result \in StepResults(n) : wave' = [wave EXCEPT ![n] = result]
    BY DEF StepEnds
  <1>2. n \in DOMAIN wave /\ wave[n] = "running"
    BY DEF StepEnds
  <1>3. /\ DOMAIN wave' = DOMAIN wave
        /\ \A m \in DOMAIN wave : wave'[m] = IF m = n THEN result ELSE wave[m]
    BY <1>1, <1>2
  <1>4. result \in Results
    BY ResultsOfSteps DEF IInv
  <1>5. Terminal' = Terminal /\ \A m : Deps(m)' = Deps(m)
    BY <1>0 DEF Terminal, Deps
  <1>6. phase = "running"
    BY <1>2 DEF IInv, CallShape, NoWave
  <1>7. TypeOK'
    BY <1>0, <1>3, <1>4 DEF IInv, TypeOK
  <1>8. CallShape'
    BY <1>0, <1>3, <1>5, <1>6 DEF IInv, CallShape
  <1>9. Statuses' /\ Marks'
    BY <1>0, <1>5 DEF IInv, Statuses, Marks
  <1>10. WaveRoutes'
    BY <1>0, <1>3, <1>5 DEF IInv, WaveRoutes
  <1>11. WaveGates'
    <2>1. n \in graph.gated /\ result # "blocked" => approval[n] = "approved"
      BY DEF StepResults, GateClosed
    <2> QED
      BY <1>0, <1>3, <2>1 DEF IInv, WaveGates
  <1>12. NothingRunsEarly'
    BY <1>3, <1>5 DEF IInv, NothingRunsEarly
  <1>13. OutputsGrounded' /\ RoutesHonoured' /\ GateHolds'
    BY <1>0, <1>5 DEF IInv, OutputsGrounded, RoutesHonoured, GateHolds
  <1>14. HonestCompletion' /\ StallsOnlyOnBadGraph'
    BY <1>0, <1>6 DEF HonestCompletion, StallsOnlyOnBadGraph, Stalled
  <1> QED
    BY <1>7, <1>8, <1>9, <1>10, <1>11, <1>12, <1>13, <1>14 DEF IInv

\* The call finds no ready step among the remaining ones.
LEMMA StallKeeps == IInv /\ Stall => IInv'
  <1> SUFFICES ASSUME IInv, Stall PROVE IInv'
    OBVIOUS
  <1>0. /\ phase = "running" /\ Ready = {} /\ phase' = "returned" /\ status' = "failed"
        /\ nodeStatus' = [n \in Nodes |-> IF n \in remaining THEN "blocked" ELSE nodeStatus[n]]
        /\ wave = NoWave /\ skipping = {}
        /\ UNCHANGED <<graph, approval, call, resumeFrom, completed, skipped, remaining,
                       outputs, wave, skipping, failedStep, blockedStep>>
    BY DEF Stall, request
  <1>1. Terminal' = Terminal /\ \A m : Deps(m)' = Deps(m)
    BY <1>0 DEF Terminal, Deps
  <1>2. nodeStatus \in [Nodes -> Results \cup {"pending", "skipped"}]
    BY DEF IInv, TypeOK
  <1>3. nodeStatus' \in [Nodes -> Results \cup {"pending", "skipped"}]
    BY <1>0, <1>2 DEF Results
  <1>4. TypeOK'
    BY <1>0, <1>3 DEF IInv, TypeOK, Results
  <1>5. CallShape'
    BY <1>0 DEF CallShape
  <1>6. Statuses'
    BY <1>0, <1>2 DEF IInv, Statuses
  <1>7. WaveRoutes' /\ WaveGates' /\ NothingRunsEarly' /\ Marks'
    BY <1>0, <1>1 DEF IInv, WaveRoutes, WaveGates, NothingRunsEarly, Marks
  <1>8. OutputsGrounded' /\ RoutesHonoured' /\ GateHolds'
    BY <1>0, <1>1 DEF IInv, OutputsGrounded, RoutesHonoured, GateHolds
  <1>9. HonestCompletion'
    BY <1>0 DEF HonestCompletion
  <1>10. ~WellFounded'
    <2> SUFFICES ASSUME WellFounded PROVE FALSE
      BY <1>1 DEF WellFounded
    <2>1. remaining = Nodes \ Terminal /\ remaining # {}
      BY <1>0 DEF IInv, CallShape
    <2>2. PICK n \in remaining : Deps(n) \subseteq Nodes \ remaining
      BY <2>1 DEF WellFounded
    <2>3. n \in Ready
      BY <2>1, <2>2 DEF Ready
    <2> QED
      BY <1>0, <2>3
  <1> QED
    BY <1>4, <1>5, <1>6, <1>7, <1>8, <1>9, <1>10 DEF IInv, StallsOnlyOnBadGraph

\* What a wave adds to the run's state.
LEMMA CollectFacts ==
    ASSUME IInv, Collect
    PROVE  /\ phase = "running"
           /\ DOMAIN wave \cup skipping \subseteq Nodes \ Terminal
           /\ \A n \in DOMAIN wave \cup skipping : Deps(n) \subseteq Terminal
           /\ DOMAIN wave = Ended({"completed", "stopped"}) \cup Ended({"failed", "blocked"})
           /\ Terminal' = Terminal \cup Ended({"completed", "stopped"}) \cup skipping
           /\ \A n : Deps(n)' = Deps(n)
  <1>1. phase = "running" /\ Ended({"running"}) = {} /\ graph' = graph
        /\ completed' = completed \cup Ended({"completed", "stopped"})
        /\ skipped' = skipped \cup skipping
    BY DEF Collect, request
  <1>2. \A n \in DOMAIN wave : wave[n] \in Results
    BY <1>1 DEF IInv, TypeOK, Ended
  <1> QED
    BY <1>1, <1>2 DEF IInv, CallShape, NothingRunsEarly, Terminal, Ended, Deps, Results

\* The results of a wave are collected.
LEMMA CollectKeeps == IInv /\ Collect => IInv'
  <1> SUFFICES ASSUME IInv, Collect PROVE IInv'
    OBVIOUS
  <1> DEFINE Bad == Ended(Results \ {"completed"})
  <1>0. /\ completed' = completed \cup Ended({"completed", "stopped"})
        /\ skipped' = skipped \cup skipping
        /\ outputs' = outputs \cup Ended({"completed", "blocked"})
        /\ remaining' = remaining \ (DOMAIN wave \cup skipping)
        /\ nodeStatus' = [n \in Nodes |-> IF n \in DOMAIN wave THEN wave[n]
                                          ELSE IF n \in skipping THEN "skipped"
                                          ELSE nodeStatus[n]]
        /\ wave' = NoWave /\ skipping' = {} /\ DOMAIN wave' = {}
        /\ graph' = graph /\ approval' = approval /\ call' = call /\ resumeFrom' = resumeFrom
    BY DEF Collect, request, NoWave
  <1>1. /\ phase = "running"
        /\ DOMAIN wave \cup skipping \subseteq Nodes \ Terminal
        /\ \A n \in DOMAIN wave \cup skipping : Deps(n) \subseteq Terminal
        /\ DOMAIN wave = Ended({"completed", "stopped"}) \cup Ended({"failed", "blocked"})
        /\ Terminal' = Terminal \cup Ended({"completed", "stopped"}) \cup skipping
        /\ \A n : Deps(n)' = Deps(n)
    BY CollectFacts
  <1>2. PICK last \in Ids, failed \in Ids, blocked \in Ids :
          /\ MarkLast(Bad, NoStep, last)
          /\ MarkLast(Ended({"failed"}), failedStep, failed)
          /\ MarkLast(Ended({"blocked"}), blockedStep, blocked)
          /\ status' = IF last = NoStep THEN status ELSE wave[last]
          /\ failedStep' = failed
          /\ blockedStep' = blocked
          /\ phase' = IF last # NoStep \/ remaining' = {} THEN "returned" ELSE "running"
    BY DEF Collect
  <1>3. /\ status = "completed" /\ failedStep = NoStep /\ blockedStep = NoStep
        /\ remaining = Nodes \ Terminal /\ remaining # {}
        /\ DOMAIN wave \cap skipping = {}
    BY <1>1 DEF IInv, CallShape
  <1>4. NoStep \notin Nodes /\ Terminal \subseteq Nodes
        /\ nodeStatus \in [Nodes -> Results \cup {"pending", "skipped"}]
        /\ \A n \in DOMAIN wave : n \in Nodes
    BY <1>1 DEF IInv, TypeOK, Terminal, NoStep, Nodes
  <1>5. \A n \in DOMAIN wave : wave[n] \in Results
    <2>1. Ended({"running"}) = {}
      BY DEF Collect
    <2> QED
      BY <2>1 DEF IInv, TypeOK, Ended
  <1>6. /\ last # NoStep => last \in Bad
        /\ last = NoStep => Bad = {}
        /\ failed # NoStep => failed \in Ended({"failed"})
        /\ failed = NoStep => Ended({"failed"}) = {}
        /\ blocked # NoStep => blocked \in Ended({"blocked"})
    BY <1>2, <1>3, <1>4 DEF MarkLast, IsLast, Ended
  <1>7. nodeStatus' \in [Nodes -> Results \cup {"pending", "skipped"}]
    BY <1>0, <1>4, <1>5
  <1>8. status' \in Results
    BY <1>2, <1>3, <1>5, <1>6 DEF Ended, Results
  <1>9. TypeOK'
    BY <1>0, <1>1, <1>2, <1>7, <1>8, <1>4 DEF IInv, TypeOK, Ended
  <1>10. last = NoStep => Ended({"completed", "stopped"}) = DOMAIN wave
                          /\ \A n \in DOMAIN wave : wave[n] = "completed"
    BY <1>5, <1>6 DEF Ended, Results
  <1>11. phase' = "running" => last = NoStep /\ remaining' # {}
    BY <1>2
  <1>12. CallShape'
    <2>1. phase' = "running" => remaining' = Nodes \ Terminal'
      BY <1>0, <1>1, <1>3, <1>10, <1>11
    <2>2. phase' = "running" => status' = "completed" /\ failedStep' = NoStep
                                /\ blockedStep' = NoStep
      BY <1>2, <1>3, <1>6, <1>11, <1>10 DEF Ended
    <2> QED
      BY <1>0, <1>2, <1>11, <2>1, <2>2 DEF CallShape
  <1>13. ASSUME NEW n \in Nodes
         PROVE  nodeStatus'[n] = IF n \in DOMAIN wave THEN wave[n]
                                 ELSE IF n \in skipping THEN "skipped" ELSE nodeStatus[n]
    BY <1>0
  <1>14. last = NoStep => \A n \in Terminal' : nodeStatus'[n] \in {"completed", "skipped"}
    <2>1. \A n \in Terminal : nodeStatus[n] \in {"completed", "skipped"}
      BY <1>1 DEF IInv, Statuses
    <2> QED
      BY <1>1, <1>4, <1>10, <1>13, <2>1
  <1>15. Statuses'
    <2>1. ASSUME NEW n \in Nodes
          PROVE  /\ nodeStatus'[n] = "completed" => n \in completed'
                 /\ nodeStatus'[n] = "skipped" => n \in skipped'
      <3>1. /\ nodeStatus[n] = "completed" => n \in completed
            /\ nodeStatus[n] = "skipped" => n \in skipped
        BY DEF IInv, Statuses
      <3> QED
        BY <1>0, <1>5, <1>13, <3>1 DEF Ended, Results
    <2> QED
      BY <1>11, <1>14, <2>1 DEF Statuses
  <1>16. WaveRoutes' /\ WaveGates'
    BY <1>0 DEF WaveRoutes, WaveGates
  <1>17. Marks'
    <2>1. Ended({"failed"}) \cap Terminal' = {} /\ Ended({"blocked"}) \cap Terminal' = {}
      BY <1>1, <1>3 DEF Ended
    <2>2. NoStep \notin Terminal'
      BY <1>1, <1>4 DEF Ended
    <2> QED
      BY <1>2, <1>6, <2>1, <2>2 DEF Marks
  <1>18. NothingRunsEarly' /\ OutputsGrounded'
    BY <1>0, <1>1 DEF IInv, NothingRunsEarly, OutputsGrounded, Ended
  <1>19. RoutesHonoured' /\ GateHolds'
    BY <1>0, <1>1 DEF IInv, RoutesHonoured, GateHolds, WaveRoutes, WaveGates, Ended
  <1>20. HonestCompletion'
    <2> SUFFICES ASSUME phase' = "returned", status' = "completed", NEW n \in Nodes
                 PROVE  nodeStatus'[n] \in {"completed", "skipped"}
      BY DEF HonestCompletion
    <2>1. last = NoStep
      BY <1>2, <1>6 DEF Ended
    <2>2. remaining' = {}
      BY <1>2, <2>1
    <2>3. n \in Terminal'
      BY <1>0, <1>1, <1>3, <1>10, <2>1, <2>2
    <2> QED
      BY <1>14, <2>1, <2>3
  <1>21. StallsOnlyOnBadGraph'
    <2>1. status' = "failed" => failedStep' # NoStep
      BY <1>2, <1>3, <1>6 DEF Ended
    <2> QED
      BY <2>1 DEF StallsOnlyOnBadGraph, Stalled
  <1> QED
    BY <1>9, <1>12, <1>15, <1>16, <1>17, <1>18, <1>19, <1>20, <1>21 DEF IInv

LEMMA StepKeeps == IInv /\ [Next]_vars => IInv'
  <1> SUFFICES ASSUME IInv, [Next]_vars PROVE IInv'
    OBVIOUS
  <1>1. CASE Execute
    <2>1. Start(NoStep) /\ phase # "running" /\ UNCHANGED approval
      BY <1>1 DEF Execute
    <2> QED
      BY <2>1, StartKeeps DEF Ids
  <1>2. ASSUME NEW target \in Ids, Resume(target) PROVE IInv'
    <2>1. /\ Start(target) /\ phase # "running"
          /\ UNCHANGED approval \/ \E decision \in Decisions : Decide(target, decision)
      BY <1>2 DEF Resume
    <2> QED
      BY <2>1, StartKeeps
  <1>3. CASE Launch
    BY <1>3, LaunchKeeps
  <1>4. CASE Stall
    BY <1>4, StallKeeps
  <1>5. CASE Collect
    BY <1>5, CollectKeeps
  <1>6. ASSUME NEW n \in Nodes, StepEnds(n) PROVE IInv'
    BY <1>6, StepEndsKeeps
  <1>7. CASE UNCHANGED vars
    <2>1. Terminal' = Terminal /\ \A n : Deps(n)' = Deps(n)
      BY <1>7 DEF vars, Terminal, Deps
    <2>2. WellFounded' <=> WellFounded
      BY <2>1 DEF WellFounded
    <2> QED
      BY <1>7, <2>1, <2>2
      DEF vars, IInv, TypeOK, CallShape, Statuses, WaveRoutes, WaveGates, Marks,
          NothingRunsEarly, OutputsGrounded, RoutesHonoured, GateHolds, HonestCompletion,
          StallsOnlyOnBadGraph, Stalled
  <1> QED
    BY <1>1, <1>2, <1>3, <1>4, <1>5, <1>6, <1>7 DEF Next, InCall

\* The inductive invariant holds in every reachable state.
THEOREM Inductive == Spec => []IInv
  BY InitHolds, StepKeeps, PTL DEF Spec

\* Every variable of execute keeps its type.
THEOREM TypeCorrect == Spec => []TypeOK
  BY Inductive, PTL DEF IInv

\* No step runs or stands as terminal on top of one that does not, through any
\* number of waves and resumes of any graph.
THEOREM OrderSafe == Spec => []NothingRunsEarly
  BY Inductive, PTL DEF IInv

\* No output in node_outputs outlives the steps it was computed from.
THEOREM OutputsSafe == Spec => []OutputsGrounded
  BY Inductive, PTL DEF IInv

\* Routing over on_success and on_skipped edges survives resumes.
THEOREM RoutesSafe == Spec => []RoutesHonoured
  BY Inductive, PTL DEF IInv

\* A gated step counts as completed only under an approval on record.
THEOREM GateSafe == Spec => []GateHolds
  BY Inductive, PTL DEF IInv

\* "completed" is returned only with every step completed or skipped.
THEOREM CompletionHonest == Spec => []HonestCompletion
  BY Inductive, PTL DEF IInv

\* A well-founded graph never stalls.
THEOREM NoStall == Spec => []StallsOnlyOnBadGraph
  BY Inductive, PTL DEF IInv

--------------------------------------------------------------------------------
(* Resuming, and the abstract order *)

LEMMA ResumeStep ==
    IInv /\ [Next]_vars =>
        [call' # call /\ resumeFrom' = DefaultTarget => completed \subseteq completed']_vars
  <1> SUFFICES ASSUME IInv, Next, call' # call, resumeFrom' = DefaultTarget
               PROVE  completed \subseteq completed'
    OBVIOUS
  <1>1. ASSUME NEW target \in Ids, Start(target), target = DefaultTarget \/ target = NoStep
        PROVE  completed \subseteq completed'
    <2>1. target \notin Terminal
      <3>1. NoStep \notin Terminal
        BY DEF IInv, TypeOK, Terminal, NoStep, Nodes
      <3> QED
        BY <1>1, <3>1 DEF IInv, Marks, DefaultTarget
    <2>2. Affected(target) \cap Terminal = {}
      BY <2>1, AffectedPending DEF IInv
    <2> QED
      BY <1>1, <2>2 DEF Start, Terminal
  <1>2. CASE Execute
    BY <1>1, <1>2 DEF Execute, Ids
  <1>3. ASSUME NEW target \in Ids, Resume(target) PROVE completed \subseteq completed'
    <2>1. Start(target) /\ resumeFrom' = target
      BY <1>3 DEF Resume, Start
    <2> QED
      BY <1>1, <2>1
  <1>4. CASE InCall
    BY <1>4 DEF InCall, Launch, Stall, Collect, StepEnds, request
  <1> QED
    BY <1>2, <1>3, <1>4 DEF Next

\* Resumed at the step that blocked or failed, a run forgets no completed step.
THEOREM ResumePrecise == Spec => ResumeKeepsSuccess
  <1>1. Spec => [][Next]_vars
    BY DEF Spec
  <1> QED
    BY <1>1, Inductive, ResumeStep, PTL DEF ResumeKeepsSuccess

\* A step of the executor is a Finish, a Reset or a stutter of the abstract one.
LEMMA OrderStep == IInv /\ [Next]_vars => [Order!Next]_Order!vars
  <1> SUFFICES ASSUME IInv, [Next]_vars PROVE [Order!Next]_Order!vars
    OBVIOUS
  <1> DEFINE deps == [n \in Nodes |-> Deps(n)]
  <1>1. ASSUME graph' = graph PROVE deps' = deps
    BY <1>1 DEF Deps
  <1>2. Terminal \subseteq Nodes
    BY DEF IInv, TypeOK, Terminal
  <1>3. ASSUME NEW target \in Ids, Start(target) PROVE Order!Next
    <2>1. Affected(target) \in SUBSET Nodes /\ ClosedUnderDependents(Affected(target))
      BY AffectedFacts
    <2>2. \A n \in Terminal : deps[n] \cap Affected(target) # {} => n \in Affected(target)
      BY <1>2, <2>1 DEF ClosedUnderDependents
    <2>3. Terminal' = Terminal \ Affected(target) /\ deps' = deps
      BY <1>1, <1>3 DEF Start, Terminal
    <2>4. Order!Reset(Affected(target))
      BY <2>2, <2>3 DEF Order!Reset
    <2> QED
      BY <2>1, <2>4 DEF Order!Next
  <1>4. CASE Collect
    <2> DEFINE Group == Ended({"completed", "stopped"}) \cup skipping
    <2>1. /\ DOMAIN wave \cup skipping \subseteq Nodes \ Terminal
          /\ \A n \in DOMAIN wave \cup skipping : Deps(n) \subseteq Terminal
          /\ Terminal' = Terminal \cup Ended({"completed", "stopped"}) \cup skipping
      BY <1>4, CollectFacts
    <2>2. Group \subseteq DOMAIN wave \cup skipping
      BY DEF Ended
    <2>3. deps' = deps
      BY <1>1, <1>4 DEF Collect, request
    <2>4. Group \in SUBSET Nodes /\ Group \subseteq Nodes \ Terminal
      BY <2>1, <2>2
    <2>5. \A n \in Group : deps[n] \subseteq Terminal
      BY <2>1, <2>2, <2>4
    <2>6. Terminal' = Terminal \cup Group
      BY <2>1
    <2>7. Order!Finish(Group)
      BY <2>3, <2>4, <2>5, <2>6 DEF Order!Finish
    <2> QED
      BY <2>4, <2>7 DEF Order!Next
  <1>5. ASSUME graph' = graph, completed' = completed, skipped' = skipped
        PROVE  Order!vars' = Order!vars
    BY <1>1, <1>5 DEF Order!vars, Terminal
  <1>6. CASE Launch \/ Stall \/ (\E n \in Nodes : StepEnds(n)) \/ UNCHANGED vars
    BY <1>5, <1>6 DEF Launch, Stall, StepEnds, request, vars
  <1> QED
    BY <1>3, <1>4, <1>6 DEF Next, InCall, Execute, Resume, Ids

\* The executor implements the abstract order of dependencies.
THEOREM Refinement == Spec => ImplementsOrder
  <1>1. Init => Order!Init
    <2> SUFFICES ASSUME Init PROVE Order!Init
      OBVIOUS
    <2>1. [n \in Nodes |-> Deps(n)] \in [Nodes -> SUBSET Ids]
      BY DEF Deps
    <2>2. Terminal = {}
      BY DEF Init, Terminal
    <2> QED
      BY <2>1, <2>2 DEF Order!Init
  <1> QED
    BY <1>1, Inductive, OrderStep, PTL DEF Spec, ImplementsOrder, Order!Spec

--------------------------------------------------------------------------------
(* How a plan becomes a graph (TaskGraphContract): what the search of the gate for *)
(* cycles gives, what an answer that passes is made into, and what a second plan    *)
(* after it does.  A search is a recursive function; that there is one, and what it *)
(* gives, is shown by induction over what a loop has before it.                     *)

NatLess == {pair \in Nat \X Nat : pair[1] < pair[2]}

LEMMA NatLessIsWellFounded == IsWellFoundedOn(NatLess, Nat)
<1>1. IsWellFoundedOn({ss \in Nat \X Nat : ss[1] < ss[2]}, Nat)
  BY NatLessThanWellFounded DEF OpToRel
<1>2. QED
  BY <1>1 DEF NatLess

\* Induction over the numbers, by a least counterexample.
LEMMA EveryNumber ==
    ASSUME NEW S, 0 \in S, \A n \in Nat : n \in S => n + 1 \in S
    PROVE  Nat \subseteq S
<1> SUFFICES ASSUME Nat \ S # {}
             PROVE  FALSE
  OBVIOUS
<1>1. PICK m \in Nat \ S : \A x \in Nat \ S : <<x, m>> \notin NatLess
  BY WFMin, NatLessIsWellFounded
<1>2. m # 0 /\ m - 1 \in Nat /\ m = (m - 1) + 1
  BY <1>1
<1>3. m - 1 \in Nat \ S
  BY <1>1, <1>2
<1>4. <<m - 1, m>> \in Nat \X Nat /\ <<m - 1, m>>[1] < <<m - 1, m>>[2]
  BY <1>1, <1>2
<1>5. <<m - 1, m>> \in NatLess
  BY <1>4, Zenon DEF NatLess
<1> QED
  BY <1>1, <1>3, <1>5

Founds(deps) == [cyclic : BOOLEAN, visited : SUBSET DOMAIN deps]

\* What a loop has before it: more when fewer are being visited, and, of those
\* being visited the same, when more are left.
Ahead(deps, loop) ==
    Cardinality(DOMAIN deps \ loop.visiting) * (Cardinality(DOMAIN deps) + 1)
      + Cardinality(loop.ids)

LEMMA AheadShrinks ==
    ASSUME NEW deps, IsFiniteSet(DOMAIN deps), NEW loop \in Loops(deps)
    PROVE  /\ Ahead(deps, loop) \in Nat
           /\ \A inner \in Loops(deps), id \in loop.ids :
                /\ inner.visiting = loop.visiting /\ inner.ids = loop.ids \ {id}
                   => Ahead(deps, inner) < Ahead(deps, loop)
                /\ id \notin loop.visiting /\ inner.visiting = loop.visiting \cup {id}
                   => Ahead(deps, inner) < Ahead(deps, loop)
<1> DEFINE all == Cardinality(DOMAIN deps)
<1>1. \A some \in SUBSET DOMAIN deps :
        IsFiniteSet(some) /\ Cardinality(some) \in Nat /\ Cardinality(some) <= all
  BY FS_Subset, FS_CardinalityType
<1>2. all \in Nat
  BY FS_CardinalityType
<1> HIDE DEF all
<1>3. \A a, b \in Nat : a * (all + 1) + b \in Nat
  BY <1>2
<1>4. ASSUME NEW l \in Loops(deps)
      PROVE  /\ l.ids \in SUBSET DOMAIN deps
             /\ DOMAIN deps \ l.visiting \in SUBSET DOMAIN deps
             /\ Ahead(deps, l) = Cardinality(DOMAIN deps \ l.visiting) * (all + 1)
                                   + Cardinality(l.ids)
  BY <1>4 DEF Loops, Ahead, all
<1>5. Ahead(deps, loop) \in Nat
  BY <1>1, <1>3, <1>4
<1>6. ASSUME NEW inner \in Loops(deps), NEW id \in loop.ids,
             inner.visiting = loop.visiting, inner.ids = loop.ids \ {id}
      PROVE  Ahead(deps, inner) < Ahead(deps, loop)
  <2>1. Cardinality(inner.ids) = Cardinality(loop.ids) - 1
    BY <1>1, <1>4, <1>6, FS_RemoveElement, ZenonT(30)
  <2>2. Cardinality(inner.ids) \in Nat /\ Cardinality(loop.ids) \in Nat
    BY <1>1, <1>4
  <2> DEFINE left == Cardinality(DOMAIN deps \ loop.visiting)
             less == Cardinality(inner.ids)
             more == Cardinality(loop.ids)
  <2>3. left \in Nat
    BY <1>1, <1>4
  <2>4. Ahead(deps, inner) = left * (all + 1) + less /\ Ahead(deps, loop) = left * (all + 1) + more
    BY <1>4, <1>6
  <2>5. less = more - 1 /\ less \in Nat /\ more \in Nat
    BY <2>1, <2>2
  <2> HIDE DEF left, less, more
  <2>6. left * (all + 1) \in Nat
    BY <1>2, <2>3
  <2> QED
    BY <2>4, <2>5, <2>6
<1>7. ASSUME NEW inner \in Loops(deps), NEW id \in loop.ids,
             id \notin loop.visiting, inner.visiting = loop.visiting \cup {id}
      PROVE  Ahead(deps, inner) < Ahead(deps, loop)
  <2> DEFINE left == Cardinality(DOMAIN deps \ inner.visiting)
  <2>1. DOMAIN deps \ inner.visiting = (DOMAIN deps \ loop.visiting) \ {id}
    BY <1>7
  <2>2. id \in DOMAIN deps \ loop.visiting
    BY <1>4, <1>7
  <2>3. IsFiniteSet(DOMAIN deps \ loop.visiting)
    BY <1>1, <1>4
  <2>4. left = Cardinality(DOMAIN deps \ loop.visiting) - 1
    <3>1. Cardinality((DOMAIN deps \ loop.visiting) \ {id}) = Cardinality(DOMAIN deps \ loop.visiting) - 1
      BY <2>2, <2>3, FS_RemoveElement
    <3> QED
      BY <2>1, <3>1
  <2>5. Cardinality(DOMAIN deps \ loop.visiting) \in Nat /\ left \in Nat
    BY <1>1, <1>4
  <2>10. Cardinality(DOMAIN deps \ loop.visiting) = left + 1
    BY <2>4, <2>5
  <2>6. Cardinality(inner.ids) <= all /\ Cardinality(inner.ids) \in Nat /\ Cardinality(loop.ids) \in Nat
    BY <1>1, <1>4
  <2> HIDE DEF left
  <2>7. (left + 1) * (all + 1) = left * (all + 1) + (all + 1) /\ left * (all + 1) \in Nat
    BY <1>2, <2>5
  <2>8. Ahead(deps, inner) = left * (all + 1) + Cardinality(inner.ids)
    BY <1>4 DEF left
  <2>9. Ahead(deps, loop) = (left + 1) * (all + 1) + Cardinality(loop.ids)
    BY <1>4, <2>10
  <2> QED
    BY <1>2, <2>6, <2>7, <2>8, <2>9
<1> QED
  BY <1>5, <1>6, <1>7

\* What the body of a search gives only depends on what has less ahead.
LEMMA VisitsAgree ==
    ASSUME NEW deps, IsFiniteSet(DOMAIN deps), NEW loop \in Loops(deps), NEW f, NEW g,
           \A inner \in Loops(deps) : Ahead(deps, inner) < Ahead(deps, loop) =>
               f[inner] = g[inner] /\ f[inner] \in Founds(deps)
    PROVE  /\ VisitAll(f, deps, loop) = VisitAll(g, deps, loop)
           /\ VisitAll(f, deps, loop) \in Founds(deps)
<1>1. /\ loop.ids \subseteq DOMAIN deps /\ loop.visiting \subseteq DOMAIN deps
      /\ loop.visited \subseteq DOMAIN deps
  BY DEF Loops
<1>2. CASE loop.ids = {}
  BY <1>1, <1>2 DEF VisitAll, Founds
<1>3. CASE loop.ids # {}
  <2> DEFINE id == CHOOSE id \in loop.ids : TRUE
             before(h) == Visit(h, deps, id, loop.visiting, loop.visited)
             inside == [ids |-> deps[id] \cap DOMAIN deps,
                        visiting |-> loop.visiting \cup {id}, visited |-> loop.visited]
             rest(h) == [ids |-> loop.ids \ {id}, visiting |-> loop.visiting,
                         visited |-> before(h).visited]
  <2>1. id \in loop.ids /\ id \in DOMAIN deps
    BY <1>1, <1>3
  <2>2. \A h : VisitAll(h, deps, loop) = IF before(h).cyclic THEN before(h) ELSE h[rest(h)]
    BY <1>3 DEF VisitAll
  <2>3. inside \in Loops(deps) /\ inside.visiting = loop.visiting \cup {id}
    BY <1>1, <2>1 DEF Loops
  <2>4. id \notin loop.visiting => f[inside] = g[inside] /\ f[inside] \in Founds(deps)
    BY <2>1, <2>3, AheadShrinks
  <2>5. \A h : before(h) = IF id \in loop.visited THEN [cyclic |-> FALSE, visited |-> loop.visited]
                          ELSE IF id \in loop.visiting
                          THEN [cyclic |-> TRUE, visited |-> loop.visited]
                          ELSE IF h[inside].cyclic THEN h[inside]
                          ELSE [cyclic |-> FALSE, visited |-> h[inside].visited \cup {id}]
    BY DEF Visit
  <2> HIDE DEF id, before, inside
  <2>6. before(f) = before(g) /\ before(f) \in Founds(deps)
    <3>1. CASE id \in loop.visited \/ id \in loop.visiting
      BY <1>1, <2>5, <3>1 DEF Founds
    <3>2. CASE id \notin loop.visited /\ id \notin loop.visiting
      <4>1. f[inside] = g[inside] /\ f[inside] \in Founds(deps)
        BY <2>4, <3>2
      <4>2. before(f) = IF f[inside].cyclic THEN f[inside]
                        ELSE [cyclic |-> FALSE, visited |-> f[inside].visited \cup {id}]
        BY <2>5, <3>2
      <4>3. before(g) = IF g[inside].cyclic THEN g[inside]
                        ELSE [cyclic |-> FALSE, visited |-> g[inside].visited \cup {id}]
        BY <2>5, <3>2
      <4> QED
        BY <2>1, <4>1, <4>2, <4>3 DEF Founds
    <3> QED
      BY <3>1, <3>2
  <2>7. rest(f) = rest(g)
    BY <2>6
  <2>8. rest(f) \in Loops(deps) /\ rest(f).visiting = loop.visiting /\ rest(f).ids = loop.ids \ {id}
    BY <1>1, <2>6 DEF Loops, Founds
  <2> HIDE DEF rest
  <2>9. f[rest(f)] = g[rest(f)] /\ f[rest(f)] \in Founds(deps)
    BY <2>1, <2>8, AheadShrinks
  <2> QED
    BY <2>2, <2>6, <2>7, <2>9
<1> QED
  BY <1>2, <1>3

Solves(search, deps) == search = [loop \in Loops(deps) |-> VisitAll(search, deps, loop)]

\* There is a search: those of the loops with less than n before them exist, for
\* every n.
LEMMA SearchExists ==
    ASSUME NEW deps, IsFiniteSet(DOMAIN deps)
    PROVE  \E search : Solves(search, deps)
<1> DEFINE near(n) == {loop \in Loops(deps) : Ahead(deps, loop) < n}
           Partial(f, n) == /\ f \in [near(n) -> Founds(deps)]
                            /\ \A loop \in near(n) : f[loop] = VisitAll(f, deps, loop)
           reached == {n \in Nat : \E f : Partial(f, n)}
           all == Cardinality(DOMAIN deps)
<1>1. 0 \in reached
  <2>1. near(0) = {}
    BY AheadShrinks
  <2>2. Partial([loop \in near(0) |-> [cyclic |-> FALSE, visited |-> {}]], 0)
    BY <2>1
  <2> QED
    BY <2>2
<1>2. ASSUME NEW n \in Nat, n \in reached
      PROVE  n + 1 \in reached
  <2>1. PICK f : Partial(f, n)
    BY <1>2
  <2> DEFINE g == [loop \in near(n + 1) |-> VisitAll(f, deps, loop)]
  <2>2. near(n) \subseteq near(n + 1)
    BY AheadShrinks
  <2>3. \A loop \in near(n) : g[loop] = f[loop] /\ f[loop] \in Founds(deps)
    BY <2>1, <2>2
  <2>4. ASSUME NEW loop \in near(n + 1)
        PROVE  g[loop] = VisitAll(g, deps, loop) /\ g[loop] \in Founds(deps)
    <3>1. ASSUME NEW inner \in Loops(deps), Ahead(deps, inner) < Ahead(deps, loop)
          PROVE  f[inner] = g[inner] /\ f[inner] \in Founds(deps)
      <4>1. Ahead(deps, inner) \in Nat /\ Ahead(deps, loop) \in Nat /\ Ahead(deps, loop) < n + 1
        BY AheadShrinks
      <4>2. inner \in near(n)
        BY <3>1, <4>1
      <4> QED
        BY <2>3, <4>2
    <3> HIDE DEF g
    <3>2. /\ VisitAll(f, deps, loop) = VisitAll(g, deps, loop)
          /\ VisitAll(f, deps, loop) \in Founds(deps)
      BY <3>1, VisitsAgree
    <3>3. g[loop] = VisitAll(f, deps, loop)
      BY DEF g
    <3> QED
      BY <3>2, <3>3
  <2>5. g \in [near(n + 1) -> Founds(deps)]
    BY <2>4
  <2>6. Partial(g, n + 1)
    BY <2>4, <2>5
  <2>7. n + 1 \in Nat
    OBVIOUS
  <2> HIDE DEF Partial
  <2>8. \E h : Partial(h, n + 1)
    BY <2>6
  <2> QED
    BY <2>7, <2>8, Zenon
<1> HIDE DEF reached
<1>3. Nat \subseteq reached
  BY <1>1, <1>2, EveryNumber
<1>4. \A some \in SUBSET DOMAIN deps : Cardinality(some) \in Nat /\ Cardinality(some) <= all
  BY FS_Subset, FS_CardinalityType
<1>5. all \in Nat
  BY FS_CardinalityType
<1> HIDE DEF all
<1>6. all * (all + 1) + all + 1 \in Nat
  BY <1>5
<1>7. ASSUME NEW a \in Nat, NEW b \in Nat, a <= all, b <= all
      PROVE  a * (all + 1) + b < all * (all + 1) + all + 1
  <2> DEFINE c == all - a
  <2>1. c \in Nat /\ all = a + c
    BY <1>5, <1>7
  <2>2. (a + c) * (all + 1) = a * (all + 1) + c * (all + 1)
    BY <1>5, <2>1
  <2>3. c * (all + 1) \in Nat /\ a * (all + 1) \in Nat
    BY <1>5, <2>1
  <2> HIDE DEF c
  <2>4. all * (all + 1) = a * (all + 1) + c * (all + 1)
    BY <2>1, <2>2
  <2> QED
    BY <1>5, <1>7, <2>3, <2>4
<1>8. near(all * (all + 1) + all + 1) = Loops(deps)
  <2>1. ASSUME NEW loop \in Loops(deps)
        PROVE  Ahead(deps, loop) < all * (all + 1) + all + 1
    <3>1. loop.ids \in SUBSET DOMAIN deps /\ DOMAIN deps \ loop.visiting \in SUBSET DOMAIN deps
      BY DEF Loops
    <3> QED
      BY <1>4, <1>7, <3>1 DEF Ahead, all
  <2> QED
    BY <2>1
<1>9. PICK f : Partial(f, all * (all + 1) + all + 1)
  BY <1>3, <1>6 DEF reached
<1>10. f = [loop \in Loops(deps) |-> VisitAll(f, deps, loop)]
  BY <1>8, <1>9
<1> QED
  BY <1>10 DEF Solves

\* What a search gives is what the loop found and has visited.
LEMMA SearchTypes ==
    ASSUME NEW deps, IsFiniteSet(DOMAIN deps), NEW search, Solves(search, deps)
    PROVE  \A loop \in Loops(deps) :
             search[loop] = VisitAll(search, deps, loop) /\ search[loop] \in Founds(deps)
<1> DEFINE reached == {n \in Nat : \A loop \in Loops(deps) :
                          Ahead(deps, loop) < n => search[loop] \in Founds(deps)}
<1>1. \A loop \in Loops(deps) :
        search[loop] = VisitAll(search, deps, loop) /\ Ahead(deps, loop) \in Nat
  BY AheadShrinks DEF Solves
<1>2. 0 \in reached
  BY <1>1
<1>3. ASSUME NEW n \in Nat, n \in reached
      PROVE  n + 1 \in reached
  <2>1. ASSUME NEW loop \in Loops(deps), Ahead(deps, loop) < n + 1
        PROVE  search[loop] \in Founds(deps)
    <3>1. \A inner \in Loops(deps) : Ahead(deps, inner) < Ahead(deps, loop) =>
            search[inner] = search[inner] /\ search[inner] \in Founds(deps)
      BY <1>1, <1>3, <2>1
    <3>2. VisitAll(search, deps, loop) \in Founds(deps)
      BY <3>1, VisitsAgree
    <3> QED
      BY <1>1, <3>2
  <2>2. \A loop \in Loops(deps) :
          Ahead(deps, loop) < n + 1 => search[loop] \in Founds(deps)
    BY <2>1
  <2>3. n + 1 \in Nat
    OBVIOUS
  <2> QED
    BY <2>2, <2>3, Zenon
<1> HIDE DEF reached
<1>4. Nat \subseteq reached
  BY <1>2, <1>3, EveryNumber
<1>5. ASSUME NEW loop \in Loops(deps)
      PROVE  search[loop] \in Founds(deps)
  <2>1. Ahead(deps, loop) + 1 \in Nat /\ Ahead(deps, loop) < Ahead(deps, loop) + 1
    BY <1>1
  <2>2. Ahead(deps, loop) + 1 \in reached
    BY <1>4, <2>1
  <2> QED
    BY <2>1, <2>2 DEF reached
<1> QED
  BY <1>1, <1>5

WholeLoop(deps) == [ids |-> DOMAIN deps, visiting |-> {}, visited |-> {}]

LEMMA HasCycleSearches ==
    ASSUME NEW deps, IsFiniteSet(DOMAIN deps)
    PROVE  \E search : /\ Solves(search, deps)
                       /\ HasCycle(deps) = search[WholeLoop(deps)].cyclic
<1> DEFINE it == CHOOSE search : search = [loop \in Loops(deps) |-> VisitAll(search, deps, loop)]
<1>1. \E search : search = [loop \in Loops(deps) |-> VisitAll(search, deps, loop)]
  BY SearchExists DEF Solves
<1>2. it = [loop \in Loops(deps) |-> VisitAll(it, deps, loop)]
  BY <1>1
<1>3. HasCycle(deps) = it[WholeLoop(deps)].cyclic
  BY Zenon DEF HasCycle, WholeLoop
<1> QED
  BY <1>2, <1>3 DEF Solves

\* No set of these steps waits for itself, and they wait for no other.
Passable(deps, ids) ==
    /\ ids \subseteq DOMAIN deps
    /\ \A id \in ids : deps[id] \cap DOMAIN deps \subseteq ids
    /\ \A some \in (SUBSET ids) \ {{}} : \E id \in some : deps[id] \cap some = {}

\* Each of these steps, but for those being visited, waits for one of them.
Stuck(deps, visiting, ids) ==
    ids \subseteq DOMAIN deps /\ \A id \in ids \ visiting : deps[id] \cap ids # {}

Tells(deps, loop, found) ==
    /\ ~found.cyclic /\ Passable(deps, loop.visited) =>
         Passable(deps, found.visited) /\ loop.ids \cup loop.visited \subseteq found.visited
    /\ found.cyclic => \E some : Stuck(deps, loop.visiting, some) /\ some \cap loop.ids # {}

\* A step that only waits for such steps can be one of them.
LEMMA PassableGrows ==
    ASSUME NEW deps, NEW ids, Passable(deps, ids), NEW id \in DOMAIN deps,
           deps[id] \cap DOMAIN deps \subseteq ids
    PROVE  Passable(deps, ids \cup {id})
<1>1. ASSUME NEW some \in SUBSET (ids \cup {id}), some # {}
      PROVE  \E one \in some : deps[one] \cap some = {}
  <2>1. CASE some \cap ids = {}
    <3>1. some = {id} /\ id \notin ids
      BY <1>1, <2>1
    <3>2. deps[id] \cap some = {}
      BY <3>1
    <3> QED
      BY <3>1, <3>2
  <2>2. CASE some \cap ids # {}
    <3>1. some \cap ids \in (SUBSET ids) \ {{}}
      BY <2>2
    <3>2. PICK one \in some \cap ids : deps[one] \cap (some \cap ids) = {}
      BY <3>1 DEF Passable
    <3>3. deps[one] \cap some \subseteq ids
      BY <1>1, <3>2 DEF Passable
    <3> QED
      BY <3>2, <3>3
  <2> QED
    BY <2>1, <2>2
<1>2. ids \cup {id} \subseteq DOMAIN deps
  BY DEF Passable
<1>3. \A one \in ids \cup {id} : deps[one] \cap DOMAIN deps \subseteq ids \cup {id}
  BY DEF Passable
<1> QED
  BY <1>1, <1>2, <1>3 DEF Passable

\* A loop tells a cycle from none when those it leads to do.
LEMMA TellsStep ==
    ASSUME NEW deps, IsFiniteSet(DOMAIN deps), NEW search, Solves(search, deps),
           NEW loop \in Loops(deps),
           \A inner \in Loops(deps) : Ahead(deps, inner) < Ahead(deps, loop) =>
               Tells(deps, inner, search[inner])
    PROVE  Tells(deps, loop, search[loop])
<1>1. /\ loop.ids \subseteq DOMAIN deps /\ loop.visiting \subseteq DOMAIN deps
      /\ loop.visited \subseteq DOMAIN deps
  BY DEF Loops
<1>2. search[loop] = VisitAll(search, deps, loop) /\ search[loop] \in Founds(deps)
  BY SearchTypes
<1>3. CASE loop.ids = {}
  <2>1. search[loop] = [cyclic |-> FALSE, visited |-> loop.visited]
    BY <1>2, <1>3 DEF VisitAll
  <2> QED
    BY <1>3, <2>1 DEF Tells
<1>4. CASE loop.ids # {}
  <2> DEFINE id == CHOOSE id \in loop.ids : TRUE
             found == Visit(search, deps, id, loop.visiting, loop.visited)
             inside == [ids |-> deps[id] \cap DOMAIN deps,
                        visiting |-> loop.visiting \cup {id}, visited |-> loop.visited]
             rest == [ids |-> loop.ids \ {id}, visiting |-> loop.visiting,
                      visited |-> found.visited]
  <2>1. id \in loop.ids /\ id \in DOMAIN deps
    BY <1>1, <1>4
  <2>2. search[loop] = IF found.cyclic THEN found ELSE search[rest]
    BY <1>2, <1>4 DEF VisitAll
  <2>3. found = IF id \in loop.visited THEN [cyclic |-> FALSE, visited |-> loop.visited]
                ELSE IF id \in loop.visiting THEN [cyclic |-> TRUE, visited |-> loop.visited]
                ELSE IF search[inside].cyclic THEN search[inside]
                ELSE [cyclic |-> FALSE, visited |-> search[inside].visited \cup {id}]
    BY DEF Visit
  <2>4. /\ inside \in Loops(deps) /\ inside.ids = deps[id] \cap DOMAIN deps
        /\ inside.visiting = loop.visiting \cup {id} /\ inside.visited = loop.visited
    BY <1>1, <2>1 DEF Loops
  <2>5. /\ rest.ids = loop.ids \ {id} /\ rest.visiting = loop.visiting
        /\ rest.visited = found.visited
        /\ found.visited \subseteq DOMAIN deps => rest \in Loops(deps)
    BY <1>1 DEF Loops
  <2> HIDE DEF id, inside, rest, found
  <2>6. id \notin loop.visiting => Tells(deps, inside, search[inside])
    BY <2>1, <2>4, AheadShrinks
  <2>7. search[inside] \in Founds(deps)
    BY <2>4, SearchTypes
  <2>8. found.visited \subseteq DOMAIN deps
    <3>1. search[inside].visited \subseteq DOMAIN deps
      BY <2>7 DEF Founds
    <3> QED
      BY <1>1, <2>1, <2>3, <3>1
  <2>9. rest \in Loops(deps) /\ Tells(deps, rest, search[rest])
    <3>1. rest \in Loops(deps)
      BY <2>5, <2>8
    <3> QED
      BY <2>1, <2>5, <3>1, AheadShrinks
  <2>10. ASSUME ~found.cyclic, Passable(deps, loop.visited)
         PROVE  Passable(deps, found.visited) /\ {id} \cup loop.visited \subseteq found.visited
    <3>1. CASE id \in loop.visited
      BY <2>3, <2>10, <3>1
    <3>2. CASE id \notin loop.visited
      <4>1. id \notin loop.visiting /\ ~search[inside].cyclic
        BY <2>3, <2>10, <3>2
      <4>2. found.visited = search[inside].visited \cup {id}
        BY <2>3, <3>2, <4>1
      <4>3. /\ Passable(deps, search[inside].visited)
            /\ deps[id] \cap DOMAIN deps \subseteq search[inside].visited
            /\ loop.visited \subseteq search[inside].visited
        BY <2>4, <2>6, <2>10, <4>1 DEF Tells
      <4>4. Passable(deps, search[inside].visited \cup {id})
        BY <2>1, <4>3, PassableGrows
      <4> QED
        BY <4>2, <4>3, <4>4
    <3> QED
      BY <3>1, <3>2
  <2>11. ASSUME found.cyclic
         PROVE  \E some : Stuck(deps, loop.visiting, some) /\ some \cap loop.ids # {}
    <3>1. id \notin loop.visited
      BY <2>3, <2>11
    <3>2. CASE id \in loop.visiting
      <4>1. Stuck(deps, loop.visiting, {id})
        BY <2>1, <3>2 DEF Stuck
      <4> QED
        BY <2>1, <4>1
    <3>3. CASE id \notin loop.visiting
      <4>1. search[inside].cyclic
        BY <2>3, <2>11, <3>1, <3>3
      <4>2. PICK some : Stuck(deps, inside.visiting, some) /\ some \cap inside.ids # {}
        BY <2>6, <3>3, <4>1 DEF Tells
      <4>3. Stuck(deps, loop.visiting, some \cup {id})
        BY <2>1, <2>4, <4>2 DEF Stuck
      <4> QED
        BY <2>1, <4>3
    <3> QED
      BY <3>2, <3>3
  <2>12. CASE found.cyclic
    <3>1. search[loop] = found
      BY <2>2, <2>12
    <3> QED
      BY <2>11, <2>12, <3>1 DEF Tells
  <2>13. CASE ~found.cyclic
    <3>1. search[loop] = search[rest]
      BY <2>2, <2>13
    <3>2. ASSUME ~search[rest].cyclic, Passable(deps, loop.visited)
          PROVE  /\ Passable(deps, search[rest].visited)
                 /\ loop.ids \cup loop.visited \subseteq search[rest].visited
      <4>1. Passable(deps, rest.visited) /\ {id} \cup loop.visited \subseteq rest.visited
        BY <2>5, <2>10, <2>13, <3>2
      <4>2. /\ Passable(deps, search[rest].visited)
            /\ rest.ids \cup rest.visited \subseteq search[rest].visited
        BY <2>9, <3>2, <4>1 DEF Tells
      <4> QED
        BY <2>5, <4>1, <4>2
    <3>3. ASSUME search[rest].cyclic
          PROVE  \E some : Stuck(deps, loop.visiting, some) /\ some \cap loop.ids # {}
      <4>1. PICK some : Stuck(deps, rest.visiting, some) /\ some \cap rest.ids # {}
        BY <2>9, <3>3 DEF Tells
      <4> QED
        BY <2>5, <4>1
    <3> QED
      BY <3>1, <3>2, <3>3 DEF Tells
  <2> QED
    BY <2>12, <2>13
<1> QED
  BY <1>3, <1>4

\* A plan has a cycle, as _visit finds it, just when some of its steps wait for one
\* another: each of them for one of them.
THEOREM SearchIsExact ==
    ASSUME NEW deps, IsFiniteSet(DOMAIN deps)
    PROVE  HasCycle(deps) <=> \E ids \in (SUBSET DOMAIN deps) \ {{}} :
                                 \A id \in ids : deps[id] \cap ids # {}
<1>1. PICK search : Solves(search, deps) /\ HasCycle(deps) = search[WholeLoop(deps)].cyclic
  BY HasCycleSearches
<1> DEFINE reached == {n \in Nat : \A loop \in Loops(deps) :
                          Ahead(deps, loop) < n => Tells(deps, loop, search[loop])}
<1>2. \A loop \in Loops(deps) : Ahead(deps, loop) \in Nat
  BY AheadShrinks
<1>3. 0 \in reached
  BY <1>2
<1>4. ASSUME NEW n \in Nat, n \in reached
      PROVE  n + 1 \in reached
  <2>1. ASSUME NEW loop \in Loops(deps), Ahead(deps, loop) < n + 1
        PROVE  Tells(deps, loop, search[loop])
    <3>1. \A inner \in Loops(deps) : Ahead(deps, inner) < Ahead(deps, loop) =>
            Tells(deps, inner, search[inner])
      BY <1>2, <1>4, <2>1
    <3> QED
      BY <1>1, <3>1, TellsStep
  <2>2. n + 1 \in Nat
    OBVIOUS
  <2> QED
    BY <2>1, <2>2
<1> HIDE DEF reached
<1>5. Nat \subseteq reached
  BY <1>3, <1>4, EveryNumber
<1>6. WholeLoop(deps) \in Loops(deps)
  BY DEF WholeLoop, Loops
<1>7. Tells(deps, WholeLoop(deps), search[WholeLoop(deps)])
  <2>1. /\ Ahead(deps, WholeLoop(deps)) + 1 \in Nat
        /\ Ahead(deps, WholeLoop(deps)) < Ahead(deps, WholeLoop(deps)) + 1
    BY <1>2, <1>6
  <2>2. Ahead(deps, WholeLoop(deps)) + 1 \in reached
    BY <1>5, <2>1
  <2> QED
    BY <1>6, <2>1, <2>2 DEF reached
<1>8. /\ WholeLoop(deps).ids = DOMAIN deps /\ WholeLoop(deps).visiting = {}
      /\ WholeLoop(deps).visited = {}
  BY DEF WholeLoop
<1>9. Passable(deps, {})
  BY DEF Passable
<1>10. ASSUME ~HasCycle(deps), NEW ids \in SUBSET DOMAIN deps, ids # {}
       PROVE  \E id \in ids : deps[id] \cap ids = {}
  <2>1. /\ Passable(deps, search[WholeLoop(deps)].visited)
        /\ DOMAIN deps \subseteq search[WholeLoop(deps)].visited
    BY <1>1, <1>7, <1>8, <1>9, <1>10 DEF Tells
  <2> QED
    BY <1>10, <2>1 DEF Passable
<1>11. ASSUME HasCycle(deps)
       PROVE  \E ids \in (SUBSET DOMAIN deps) \ {{}} : \A id \in ids : deps[id] \cap ids # {}
  <2>1. PICK some : Stuck(deps, {}, some) /\ some \cap DOMAIN deps # {}
    BY <1>1, <1>7, <1>8, <1>11 DEF Tells
  <2> QED
    BY <2>1 DEF Stuck
<1> QED
  BY <1>10, <1>11

\* The place of an item among some.
RankIn(places, i) == Cardinality({j \in places : j <= i})

\* The items at some places, counted: one for each number up to how many they are.
LEMMA RanksAreAll ==
    ASSUME NEW places \in SUBSET Nat, IsFiniteSet(places)
    PROVE  /\ \A i \in places : RankIn(places, i) \in 1 .. Cardinality(places)
           /\ \A i, j \in places : i < j => RankIn(places, i) < RankIn(places, j)
           /\ \A k \in 1 .. Cardinality(places) : \E i \in places : RankIn(places, i) = k
<1> DEFINE upTo(i) == {j \in places : j <= i}
           all == Cardinality(places)
           ranks == [i \in places |-> RankIn(places, i)]
<1>1. all \in Nat /\ IsFiniteSet(1 .. all) /\ Cardinality(1 .. all) = all
  <2>1. all \in Nat /\ all \in Int /\ 1 \in Int
    BY FS_CardinalityType
  <2> HIDE DEF all
  <2>2. IsFiniteSet(1 .. all) /\ Cardinality(1 .. all) = IF 1 > all THEN 0 ELSE all - 1 + 1
    BY <2>1, FS_Interval
  <2> QED
    BY <2>1, <2>2
<1>2. ASSUME NEW i \in places
      PROVE  /\ IsFiniteSet(upTo(i)) /\ ranks[i] = Cardinality(upTo(i))
             /\ ranks[i] \in 1 .. all
  <2>1. IsFiniteSet(upTo(i)) /\ Cardinality(upTo(i)) <= all
    BY FS_Subset, upTo(i) \in SUBSET places
  <2>2. i \in upTo(i)
    OBVIOUS
  <2>3. Cardinality(upTo(i)) \in Nat
    BY <2>1, FS_CardinalityType
  <2>4. Cardinality(upTo(i)) # 0
    BY <2>1, <2>2, FS_EmptySet
  <2>5. ranks[i] = Cardinality(upTo(i))
    BY DEF RankIn
  <2> HIDE DEF all, upTo, ranks
  <2> QED
    BY <1>1, <2>1, <2>3, <2>4, <2>5
<1>3. ASSUME NEW i \in places, NEW j \in places, i < j
      PROVE  ranks[i] < ranks[j]
  <2>1. upTo(i) \in SUBSET upTo(j) /\ upTo(i) # upTo(j)
    <3>1. j \in upTo(j) /\ j \notin upTo(i)
      BY <1>3
    <3>2. \A k \in places : k <= i => k <= j
      BY <1>3
    <3> QED
      BY <3>1, <3>2
  <2> HIDE DEF upTo, all, ranks
  <2>2. Cardinality(upTo(i)) <= Cardinality(upTo(j)) /\ Cardinality(upTo(i)) # Cardinality(upTo(j))
    BY <1>2, <2>1, FS_Subset
  <2>3. ranks[i] \in Nat /\ ranks[j] \in Nat
    BY <1>1, <1>2
  <2> QED
    BY <1>2, <2>2, <2>3
<1>4. ranks \in Injection(places, 1 .. all)
  <2>1. ranks \in [places -> 1 .. all]
    BY <1>2
  <2>2. ASSUME NEW i \in places, NEW j \in places, ranks[i] = ranks[j]
        PROVE  i = j
    <3>1. ranks[i] \in Nat /\ ranks[j] \in Nat
      <4> HIDE DEF ranks, all, upTo
      <4> QED
        BY <1>1, <1>2
    <3>2. ~(i < j) /\ ~(j < i)
      BY <1>3, <2>2, <3>1
    <3> QED
      BY <3>2
  <2>3. DOMAIN ranks = places
    OBVIOUS
  <2> HIDE DEF ranks, all
  <2> QED
    BY <2>1, <2>2, <2>3 DEF Injection, IsInjective
<1>5. \A k \in 1 .. all : \E i \in places : ranks[i] = k
  <2> HIDE DEF ranks, upTo
  <2>1. Cardinality(places) = Cardinality(1 .. all)
    BY <1>1
  <2>2. ranks \in Surjection(places, 1 .. all)
    BY <1>1, <1>4, <2>1, FS_Injection
  <2> QED
    BY <2>2 DEF Surjection
<1>6. \A i \in places : ranks[i] = RankIn(places, i)
  OBVIOUS
<1> HIDE DEF ranks
<1> QED
  BY <1>2, <1>3, <1>5, <1>6

\* What is at some places of a list is a list of what is there.
LEMMA ItemsAtTypes ==
    ASSUME NEW S, NEW list \in Seq(S), NEW places \in SUBSET DOMAIN list
    PROVE  /\ ItemsAt(list, places) \in Seq(S)
           /\ Len(ItemsAt(list, places)) <= Len(list)
           /\ \A k \in DOMAIN ItemsAt(list, places) :
                \E i \in places : ItemsAt(list, places)[k] = list[i]
<1> DEFINE all == Cardinality(places)
           at(k) == CHOOSE i \in places : RankIn(places, i) = k
<1>1. IsFiniteSet(DOMAIN list) /\ Cardinality(DOMAIN list) = Len(list)
  <2>1. DOMAIN list = 1 .. Len(list) /\ Len(list) \in Nat /\ 1 \in Int /\ Len(list) \in Int
    OBVIOUS
  <2>2. IsFiniteSet(1 .. Len(list))
        /\ Cardinality(1 .. Len(list)) = IF 1 > Len(list) THEN 0 ELSE Len(list) - 1 + 1
    BY <2>1, FS_Interval
  <2> QED
    BY <2>1, <2>2
<1>2. IsFiniteSet(places) /\ all \in Nat /\ all <= Len(list)
  BY <1>1, FS_Subset, FS_CardinalityType
<1>3. places \in SUBSET Nat
  OBVIOUS
<1>4. \A k \in 1 .. all : at(k) \in places /\ list[at(k)] \in S
  <2>1. \A k \in 1 .. all : \E i \in places : RankIn(places, i) = k
    BY <1>2, <1>3, RanksAreAll
  <2>2. \A i \in places : list[i] \in S
    OBVIOUS
  <2> QED
    BY <2>1, <2>2
<1>5. ItemsAt(list, places) = [k \in 1 .. all |-> list[at(k)]]
  <2> DEFINE key == [i \in places |-> 0]
  <2>1. ASSUME NEW i \in places PROVE PlaceOf(key, i) = RankIn(places, i)
    <3>1. \A j \in places : ~Precedes(key, i, j) <=> j <= i
      BY <1>3 DEF Precedes
    <3>2. DOMAIN key = places
      OBVIOUS
    <3> HIDE DEF key
    <3>3. {j \in DOMAIN key : ~Precedes(key, i, j)} = {j \in places : j <= i}
      BY <3>1, <3>2
    <3>4. QED
      BY <3>3 DEF PlaceOf, RankIn
  <2>2. DOMAIN key = places /\ ItemsAt(list, places) = SortedBy(list, key)
    BY DEF ItemsAt
  <2> HIDE DEF key
  <2>3. \A k : (CHOOSE i \in places : PlaceOf(key, i) = k) = at(k)
    BY <2>1
  <2>4. SortedBy(list, key)
          = [k \in 1 .. all |-> list[CHOOSE i \in places : PlaceOf(key, i) = k]]
    BY <2>2 DEF SortedBy
  <2> HIDE DEF at, all
  <2>5. QED
    BY <2>2, <2>3, <2>4
<1> HIDE DEF all, at
<1>6. ItemsAt(list, places) \in Seq(S) /\ Len(ItemsAt(list, places)) = all
      /\ DOMAIN ItemsAt(list, places) = 1 .. all
  BY <1>2, <1>4, <1>5
<1> QED
  BY <1>2, <1>4, <1>5, <1>6

\* The steps of a plan are such, there is a name for each, and one for a replan that
\* none of them has or is given.
StepsNamed(steps) ==
    /\ steps \in Seq(PlanSteps) /\ DOMAIN steps \subseteq DOMAIN StepNames
    /\ \E k \in DOMAIN ReplanNames :
         /\ \A i \in DOMAIN StepNames : StepNames[i] # ReplanNames[k]
         /\ \A i \in DOMAIN steps : steps[i].id # <<ReplanNames[k]>>

HasFreeName(plan) == \E k \in DOMAIN ReplanNames : <<ReplanNames[k]>> \notin GraphIds(plan)

\* A graph of named steps, each its own, that can be gone through to its end.
Sound(plan) ==
    /\ plan.nodes \in Seq(PlanSteps) /\ plan.nodes # <<>> /\ plan.edges \subseteq PlanEdges
    /\ <<>> \notin GraphIds(plan) /\ HasFreeName(plan)
    /\ Appendable(plan) /\ DistinctIds(plan) /\ CanFinish(plan)

LEMMA NamesAreStrings ==
    /\ \A i \in DOMAIN StepNames : StepNames[i] \in STRING /\ <<StepNames[i]>> \in Seq(STRING)
    /\ \A k \in DOMAIN ReplanNames :
         ReplanNames[k] \in STRING /\ <<ReplanNames[k]>> \in Seq(STRING)
    /\ DOMAIN ReplanNames \subseteq Nat
  BY ContractAssumption

LEMMA FillIdsTypes ==
    ASSUME NEW steps, StepsNamed(steps)
    PROVE  /\ FillIds(steps) \in Seq(PlanSteps) /\ Len(FillIds(steps)) = Len(steps)
           /\ DOMAIN FillIds(steps) = DOMAIN steps
           /\ \A i \in DOMAIN steps :
                /\ FillIds(steps)[i].id = IF steps[i].id = <<>> THEN <<StepNames[i]>>
                                          ELSE steps[i].id
                /\ FillIds(steps)[i].id # <<>>
<1>1. steps \in Seq(PlanSteps) /\ DOMAIN steps = 1 .. Len(steps) /\ Len(steps) \in Nat
      /\ DOMAIN steps \subseteq DOMAIN StepNames
  BY DEF StepsNamed
<1>2. ASSUME NEW i \in DOMAIN steps
      PROVE  /\ FillIds(steps)[i] \in PlanSteps
             /\ FillIds(steps)[i].id = IF steps[i].id = <<>> THEN <<StepNames[i]>> ELSE steps[i].id
             /\ FillIds(steps)[i].id # <<>>
  <2>1. steps[i] \in PlanSteps /\ <<StepNames[i]>> \in Seq(STRING)
    BY <1>1, NamesAreStrings
  <2>2. FillIds(steps)[i] = [steps[i] EXCEPT !.id = IF @ = <<>> THEN <<StepNames[i]>> ELSE @]
    BY DEF FillIds
  <2>3. <<StepNames[i]>> # <<>>
    OBVIOUS
  <2> QED
    BY <2>1, <2>2, <2>3 DEF PlanSteps
<1>3. DOMAIN FillIds(steps) = 1 .. Len(steps)
  BY <1>1 DEF FillIds
<1>4. FillIds(steps) = [i \in 1 .. Len(steps) |-> FillIds(steps)[i]]
  BY <1>1 DEF FillIds
<1>5. FillIds(steps) \in Seq(PlanSteps) /\ Len(FillIds(steps)) = Len(steps)
  <2> DEFINE named == FillIds(steps)
             size == Len(steps)
  <2>1. size \in Nat /\ named = [i \in 1 .. size |-> named[i]]
    BY <1>1, <1>4
  <2>2. \A i \in 1 .. size : named[i] \in PlanSteps
    BY <1>1, <1>2
  <2> HIDE DEF named, size
  <2>3. named \in Seq(PlanSteps) /\ Len(named) = size
    BY <2>1, <2>2
  <2> QED
    BY <2>3 DEF named, size
<1> QED
  BY <1>1, <1>2, <1>3, <1>5

\* What is normalized is named again.
LEMMA NormalizedIsNamed ==
    ASSUME NEW answer, StepsNamed(answer.steps)
    PROVE  StepsNamed(NormalizeOutput(answer).steps)
<1> DEFINE steps == answer.steps
           named == FillIds(steps)
           places == {i \in DOMAIN named : named[i].kind # "junk"}
           kept == ItemsAt(named, places)
<1>1. NormalizeOutput(answer).steps = kept
  BY DEF NormalizeOutput
<1>2. /\ named \in Seq(PlanSteps) /\ Len(named) = Len(steps) /\ DOMAIN named = DOMAIN steps
      /\ \A i \in DOMAIN steps : named[i].id = IF steps[i].id = <<>> THEN <<StepNames[i]>>
                                               ELSE steps[i].id
  BY FillIdsTypes
<1>3. places \in SUBSET DOMAIN named
  OBVIOUS
<1>4. PICK r \in DOMAIN ReplanNames :
         /\ \A i \in DOMAIN StepNames : StepNames[i] # ReplanNames[r]
         /\ \A i \in DOMAIN steps : steps[i].id # <<ReplanNames[r]>>
  BY DEF StepsNamed
<1>5. steps \in Seq(PlanSteps) /\ DOMAIN steps \subseteq DOMAIN StepNames
  BY DEF StepsNamed
<1>6. \A i \in DOMAIN steps : <<StepNames[i]>> # <<ReplanNames[r]>>
  BY <1>4, <1>5
<1> HIDE DEF named, places, steps
<1>7. /\ kept \in Seq(PlanSteps) /\ Len(kept) <= Len(named)
      /\ \A k \in DOMAIN kept : \E i \in places : kept[k] = named[i]
  BY <1>2, <1>3, ItemsAtTypes
<1> HIDE DEF kept
<1>8. DOMAIN kept \subseteq DOMAIN steps
  BY <1>2, <1>5, <1>7
<1>9. ASSUME NEW k \in DOMAIN kept
      PROVE  kept[k].id # <<ReplanNames[r]>>
  <2>1. PICK i \in places : kept[k] = named[i]
    BY <1>7
  <2>2. i \in DOMAIN steps
    BY <1>2, <1>3
  <2> QED
    BY <1>2, <1>4, <1>6, <2>1, <2>2
<1> QED
  BY <1>1, <1>4, <1>5, <1>7, <1>8, <1>9 DEF StepsNamed

\* What is built of named steps.
LEMMA BuiltTypes ==
    ASSUME NEW steps, StepsNamed(steps)
    PROVE  LET plan == BuildTaskGraph(steps) IN
           /\ plan.nodes \in Seq(PlanSteps) /\ plan.edges \subseteq PlanEdges
           /\ <<>> \notin GraphIds(plan) /\ HasFreeName(plan)
<1> DEFINE nodes == FillNodes(steps)
           plan == BuildTaskGraph(steps)
<1>1. plan.nodes = nodes /\ plan.edges = GeneratedEdges(nodes)
  BY DEF BuildTaskGraph
<1>2. /\ FillIds(steps) \in Seq(PlanSteps) /\ Len(FillIds(steps)) = Len(steps)
      /\ DOMAIN FillIds(steps) = DOMAIN steps
      /\ \A i \in DOMAIN steps :
           /\ FillIds(steps)[i].id = IF steps[i].id = <<>> THEN <<StepNames[i]>> ELSE steps[i].id
           /\ FillIds(steps)[i].id # <<>>
  BY FillIdsTypes
<1>3. /\ steps \in Seq(PlanSteps) /\ DOMAIN steps = 1 .. Len(steps) /\ Len(steps) \in Nat
      /\ DOMAIN steps \subseteq DOMAIN StepNames
  BY DEF StepsNamed
<1>4. ASSUME NEW i \in DOMAIN steps
      PROVE  nodes[i] \in PlanSteps /\ nodes[i].id = FillIds(steps)[i].id
  <2>1. FillIds(steps)[i] \in PlanSteps
    BY <1>2
  <2>2. nodes[i] = [FillIds(steps)[i] EXCEPT !.kind = IF @ \in {"missing", "junk"} THEN "work" ELSE @]
    BY DEF FillNodes
  <2> DEFINE filled == FillIds(steps)[i]
             kind == IF filled.kind \in {"missing", "junk"} THEN "work" ELSE filled.kind
  <2>3. filled \in PlanSteps /\ kind \in PlanKinds
    BY <2>1 DEF PlanSteps, PlanKinds
  <2>4. nodes[i] = [filled EXCEPT !.kind = kind]
    BY <2>2
  <2> HIDE DEF nodes, filled, kind
  <2>5. nodes[i] \in PlanSteps /\ nodes[i].id = filled.id
    BY <2>3, <2>4 DEF PlanSteps
  <2> QED
    BY <2>5 DEF filled
<1>5. nodes = [i \in 1 .. Len(steps) |-> nodes[i]] /\ DOMAIN nodes = DOMAIN steps
  BY <1>3 DEF FillNodes
<1> HIDE DEF nodes, plan
<1>6. nodes \in Seq(PlanSteps)
  BY <1>3, <1>4, <1>5
<1>7. GraphIds(plan) = {nodes[i].id : i \in DOMAIN steps}
  BY <1>1, <1>5 DEF GraphIds
<1>8. <<>> \notin GraphIds(plan)
  BY <1>2, <1>4, <1>7
<1>9. HasFreeName(plan)
  <2>1. PICK r \in DOMAIN ReplanNames :
           /\ \A i \in DOMAIN StepNames : StepNames[i] # ReplanNames[r]
           /\ \A i \in DOMAIN steps : steps[i].id # <<ReplanNames[r]>>
    BY DEF StepsNamed
  <2>2. \A i \in DOMAIN steps : <<StepNames[i]>> # <<ReplanNames[r]>>
    BY <1>3, <2>1
  <2>3. \A i \in DOMAIN steps : nodes[i].id # <<ReplanNames[r]>>
    BY <1>2, <1>4, <2>1, <2>2
  <2> QED
    BY <1>7, <2>3 DEF HasFreeName
<1>10. plan.edges \subseteq PlanEdges
  <2>1. \A j \in DOMAIN nodes : nodes[j] \in PlanSteps
    BY <1>4, <1>5
  <2>2. ASSUME NEW i \in DOMAIN nodes, NEW source \in Sources(nodes, i)
        PROVE  source \in Seq(STRING)
    <3>1. \A j \in DOMAIN nodes : nodes[j].id \in Seq(STRING) /\ nodes[j].parent \in Seq(STRING)
      BY <2>1 DEF PlanSteps
    <3>2. i \in 1 .. Len(steps)
      BY <1>3, <1>5
    <3>3. \A j \in 1 .. (i - 1) : j \in DOMAIN nodes
      BY <1>3, <1>5, <3>2
    <3>4. i > 1 => i - 1 \in DOMAIN nodes
      BY <1>3, <1>5, <3>2
    <3>5. CASE nodes[i].parent # <<>>
      BY <2>2, <3>1, <3>5 DEF Sources
    <3>6. CASE nodes[i].parent = <<>> /\ nodes[i].kind = "finalize"
      <4>1. Sources(nodes, i) = {nodes[j].id : j \in 1 .. (i - 1)}
        BY <3>6 DEF Sources
      <4> QED
        BY <2>2, <3>1, <3>3, <4>1
    <3>7. CASE nodes[i].parent = <<>> /\ nodes[i].kind = "stop" /\ i > 1
      <4>1. Sources(nodes, i) = {nodes[i - 1].id}
        BY <3>7 DEF Sources
      <4> QED
        BY <2>2, <3>1, <3>4, <3>7, <4>1
    <3>8. CASE nodes[i].parent = <<>> /\ nodes[i].kind # "finalize" /\ ~(nodes[i].kind = "stop" /\ i > 1)
      <4>1. Sources(nodes, i) = {}
        BY <3>8 DEF Sources
      <4> QED
        BY <2>2, <4>1
    <3> QED
      BY <3>5, <3>6, <3>7, <3>8
  <2>3. \A i \in DOMAIN nodes : nodes[i].id \in Seq(STRING)
    BY <2>1 DEF PlanSteps
  <2>4. ASSUME NEW edge \in GeneratedEdges(nodes)
        PROVE  edge \in PlanEdges
    <3>1. PICK i \in DOMAIN nodes :
             edge \in {[from |-> source, to |-> nodes[i].id, condition |-> "always"] :
                          source \in Sources(nodes, i)}
      BY DEF GeneratedEdges
    <3>2. PICK source \in Sources(nodes, i) :
             edge = [from |-> source, to |-> nodes[i].id, condition |-> "always"]
      BY <3>1
    <3> QED
      BY <2>2, <2>3, <3>2 DEF PlanEdges
  <2> QED
    BY <1>1, <2>4
<1> QED
  BY <1>1, <1>6, <1>8, <1>9, <1>10 DEF plan

LEMMA IdsAreFinite ==
    ASSUME NEW plan, plan.nodes \in Seq(PlanSteps)
    PROVE  IsFiniteSet(GraphIds(plan))
<1> DEFINE places == DOMAIN plan.nodes
           idAt == [i \in places |-> plan.nodes[i].id]
<1>1. IsFiniteSet(places)
  <2>1. places = 1 .. Len(plan.nodes) /\ 1 \in Int /\ Len(plan.nodes) \in Int
    OBVIOUS
  <2> QED
    BY <2>1, FS_Interval
<1>2. idAt \in Surjection(places, GraphIds(plan))
  <2>1. idAt \in [places -> GraphIds(plan)]
    BY DEF GraphIds
  <2>2. \A id \in GraphIds(plan) : \E i \in places : idAt[i] = id
    BY DEF GraphIds
  <2> HIDE DEF idAt, places
  <2> QED
    BY <2>1, <2>2 DEF Surjection
<1> HIDE DEF idAt, places
<1> QED
  BY <1>1, <1>2, FS_Surjection

LEMMA DependenciesTell ==
    ASSUME NEW plan
    PROVE  /\ DOMAIN Dependencies(plan) = GraphIds(plan)
           /\ \A id \in GraphIds(plan) : \A from :
                from \in Dependencies(plan)[id] <=>
                   \/ \E i \in DOMAIN plan.nodes : /\ plan.nodes[i].id = id
                                                  /\ plan.nodes[i].parent = from /\ from # <<>>
                   \/ \E edge \in plan.edges : edge.to = id /\ edge.from = from
<1>1. DOMAIN Dependencies(plan) = GraphIds(plan)
  BY DEF Dependencies
<1>2. ASSUME NEW id \in GraphIds(plan), NEW from
      PROVE  from \in Dependencies(plan)[id] <=>
                   \/ \E i \in DOMAIN plan.nodes : /\ plan.nodes[i].id = id
                                                  /\ plan.nodes[i].parent = from /\ from # <<>>
                   \/ \E edge \in plan.edges : edge.to = id /\ edge.from = from
  <2>1. Dependencies(plan)[id] =
           {node.parent : node \in {n \in ToSet(plan.nodes) : n.id = id /\ n.parent # <<>>}}
             \cup {edge.from : edge \in {e \in plan.edges : e.to = id}}
    BY DEF Dependencies
  <2>2. ToSet(plan.nodes) = {plan.nodes[i] : i \in DOMAIN plan.nodes}
    BY DEF ToSet
  <2> QED
    BY <2>1, <2>2
<1> QED
  BY <1>1, <1>2

\* A graph of named steps that passes the gate is sound.
LEMMA ValidIsSound ==
    ASSUME NEW steps, StepsNamed(steps), ValidTaskGraph(BuildTaskGraph(steps))
    PROVE  Sound(BuildTaskGraph(steps))
<1> DEFINE plan == BuildTaskGraph(steps)
           deps == Dependencies(plan)
<1>1. /\ plan.nodes \in Seq(PlanSteps) /\ plan.edges \subseteq PlanEdges
      /\ <<>> \notin GraphIds(plan) /\ HasFreeName(plan)
  BY BuiltTypes
<1>2. /\ plan.nodes # <<>> /\ DistinctIds(plan)
      /\ \A node \in ToSet(plan.nodes) : node.parent \in GraphIds(plan) \cup {<<>>}
      /\ \A edge \in plan.edges : {edge.from, edge.to} \subseteq GraphIds(plan)
      /\ ~HasCycle(deps)
  BY DEF ValidTaskGraph
<1> HIDE DEF plan
<1>3. DOMAIN deps = GraphIds(plan) /\ IsFiniteSet(DOMAIN deps)
  BY <1>1, DependenciesTell, IdsAreFinite
<1>4. ASSUME NEW id \in DOMAIN deps
      PROVE  deps[id] \subseteq DOMAIN deps
  <2>1. ASSUME NEW from \in deps[id] PROVE from \in GraphIds(plan)
    <3>1. \/ \E i \in DOMAIN plan.nodes : /\ plan.nodes[i].id = id
                                         /\ plan.nodes[i].parent = from /\ from # <<>>
          \/ \E edge \in plan.edges : edge.to = id /\ edge.from = from
      BY <1>3, DependenciesTell
    <3>2. \A i \in DOMAIN plan.nodes : plan.nodes[i] \in ToSet(plan.nodes)
      BY DEF ToSet
    <3> QED
      BY <1>2, <3>1, <3>2
  <2> QED
    BY <1>3, <2>1
<1>5. \A waiting \in (SUBSET DOMAIN deps) \ {{}} : \E id \in waiting : deps[id] \cap waiting = {}
  <2> HIDE DEF deps
  <2> QED
    BY <1>2, <1>3, SearchIsExact
<1>6. CanFinish(plan)
  BY <1>4, <1>5 DEF CanFinish
<1>7. Appendable(plan)
  BY <1>2 DEF Appendable
<1> QED
  BY <1>1, <1>2, <1>6, <1>7 DEF Sound, plan

\* The least of the names that are free.
LEMMA ReplanIdIsFree ==
    ASSUME NEW plan, HasFreeName(plan)
    PROVE  /\ ReplanId(plan) \notin GraphIds(plan)
           /\ \E name \in STRING : ReplanId(plan) = <<name>>
<1> DEFINE free == {k \in DOMAIN ReplanNames : <<ReplanNames[k]>> \notin GraphIds(plan)}
           first == CHOOSE k \in free : \A other \in free : k <= other
<1>1. free # {} /\ free \subseteq Nat
  BY NamesAreStrings DEF HasFreeName
<1>2. PICK least \in free : \A x \in free : <<x, least>> \notin NatLess
  <2> HIDE DEF free
  <2> QED
    BY <1>1, WFMin, NatLessIsWellFounded
<1>3. ASSUME NEW x \in free PROVE least <= x
  <2>1. x \in Nat /\ least \in Nat /\ <<x, least>> \in Nat \X Nat /\ <<x, least>> \notin NatLess
    BY <1>1, <1>2
  <2>2. ~(<<x, least>>[1] < <<x, least>>[2])
    BY <2>1, Zenon DEF NatLess
  <2> QED
    BY <2>1, <2>2
<1>4. first \in free
  BY <1>2, <1>3
<1>5. ReplanId(plan) = <<ReplanNames[first]>>
  BY DEF ReplanId
<1> QED
  BY <1>4, <1>5, NamesAreStrings

\* A name before an id keeps the ids apart.
LEMMA PrefixesTell ==
    ASSUME NEW S, NEW name \in S, NEW a \in Seq(S), NEW b \in Seq(S)
    PROVE  /\ <<name>> \o a = <<name>> \o b => a = b
           /\ a # <<>> => Len(<<name>> \o a) > 1
           /\ <<name>> \o a \in Seq(S)
<1> DEFINE first == <<name>>
<1>1. first \in Seq(S) /\ Len(first) = 1
  OBVIOUS
<1> HIDE DEF first
<1>2. ASSUME NEW c \in Seq(S)
      PROVE  /\ Len(first \o c) = 1 + Len(c) /\ first \o c \in Seq(S)
             /\ \A i \in 1 .. Len(c) : (first \o c)[1 + i] = c[i]
  <2>1. /\ first \o c \in Seq(S) /\ Len(first \o c) = 1 + Len(c)
        /\ \A i \in 1 .. (Len(first) + Len(c)) :
             (first \o c)[i] = IF i <= Len(first) THEN first[i] ELSE c[i - Len(first)]
    BY <1>1, ConcatProperties, SMTT(30)
  <2>2. ASSUME NEW i \in 1 .. Len(c)
        PROVE  1 + i \in 1 .. (1 + Len(c)) /\ ~(1 + i <= 1) /\ (1 + i) - 1 = i
    OBVIOUS
  <2> QED
    BY <1>1, <2>1, <2>2
<1>3. Len(a) \in Nat /\ Len(b) \in Nat /\ (a # <<>> => Len(a) > 0)
  OBVIOUS
<1>4. ASSUME first \o a = first \o b PROVE a = b
  <2>1. Len(first \o a) = 1 + Len(a) /\ Len(first \o b) = 1 + Len(b)
    BY <1>2
  <2>2. Len(a) = Len(b)
    BY <1>3, <1>4, <2>1
  <2>3. \A i \in 1 .. Len(a) : a[i] = b[i]
    BY <1>2, <1>4, <2>2, SMTT(30)
  <2> QED
    BY <2>2, <2>3
<1>5. a # <<>> => Len(first \o a) > 1
  BY <1>2, <1>3
<1> QED
  BY <1>2, <1>4, <1>5 DEF first

\* A finite set of places has a last one.
LEMMA LastIsOne ==
    ASSUME NEW list \in Seq(PlanSteps), NEW places \in SUBSET DOMAIN list, places # {}
    PROVE  (CHOOSE i \in places : \A j \in places : j <= i) \in places
<1> DEFINE back == {Len(list) - i : i \in places}
<1>1. /\ Len(list) \in Nat /\ DOMAIN list = 1 .. Len(list)
  OBVIOUS
<1>2. back \subseteq Nat /\ back # {}
  BY <1>1
<1>3. PICK m \in back : \A x \in back : <<x, m>> \notin NatLess
  <2> HIDE DEF back
  <2> QED
    BY <1>2, WFMin, NatLessIsWellFounded
<1>4. PICK last \in places : m = Len(list) - last
  BY <1>3
<1>5. ASSUME NEW j \in places PROVE j <= last
  <2>1. Len(list) - j \in back
    OBVIOUS
  <2> DEFINE x == Len(list) - j
  <2>2. x \in Nat /\ m \in Nat /\ <<x, m>> \in Nat \X Nat /\ <<x, m>> \notin NatLess
    BY <1>2, <1>3, <2>1
  <2> HIDE DEF x
  <2>3. ~(<<x, m>>[1] < <<x, m>>[2])
    BY <2>2, Zenon DEF NatLess
  <2>4. ~(x < m)
    BY <2>3
  <2> QED
    BY <1>1, <1>4, <2>2, <2>4 DEF x
<1> QED
  BY <1>4, <1>5

Follows(plan, from, to) == \E e \in plan.edges : e.from = from /\ e.to = to

\* What a graph with a second plan after it has.
IsAppended(whole, plan, revised, rp) ==
    /\ \A i \in DOMAIN whole.nodes :
         \/ i \in DOMAIN plan.nodes
         \/ i = Len(plan.nodes) + 1
         \/ \E j \in DOMAIN revised.nodes : i = Len(plan.nodes) + 1 + j
    /\ \A i \in DOMAIN plan.nodes : i \in DOMAIN whole.nodes /\ whole.nodes[i] = plan.nodes[i]
    /\ LET replan == whole.nodes[Len(plan.nodes) + 1] IN
         /\ Len(plan.nodes) + 1 \in DOMAIN whole.nodes /\ replan.id = rp
         /\ replan.parent = <<>> \/ \E i \in TerminalSteps(plan) : replan.parent = plan.nodes[i].id
    /\ \A j \in DOMAIN revised.nodes :
         LET node == whole.nodes[Len(plan.nodes) + 1 + j] IN
         /\ Len(plan.nodes) + 1 + j \in DOMAIN whole.nodes
         /\ node.id = rp \o revised.nodes[j].id
         /\ node.parent = IF revised.nodes[j].parent = <<>> THEN rp
                          ELSE rp \o revised.nodes[j].parent
    /\ \A from, to :
         Follows(whole, from, to) <=>
           \/ Follows(plan, from, to)
           \/ to = rp /\ \E i \in TerminalSteps(plan) : from = plan.nodes[i].id
           \/ \E e \in revised.edges : from = rp \o e.from /\ to = rp \o e.to
           \/ from = rp /\ \E id \in EntrySteps(revised) : to = rp \o id

LEMMA AppendedTells ==
    ASSUME NEW plan, Sound(plan), NEW revised, Sound(revised)
    PROVE  /\ IsAppended(AppendReplan(plan, revised), plan, revised, ReplanId(plan))
           /\ IsPrefix(plan.nodes, AppendReplan(plan, revised).nodes)
           /\ plan.edges \subseteq AppendReplan(plan, revised).edges
<1> DEFINE whole == AppendReplan(plan, revised)
           rp == ReplanId(plan)
           ends == TerminalSteps(plan)
           last == CHOOSE i \in ends : \A j \in ends : j <= i
           replan == [id |-> rp, parent |-> IF ends = {} THEN <<>> ELSE plan.nodes[last].id,
                      kind |-> "replan"]
           renamed == [i \in DOMAIN revised.nodes |->
                         [revised.nodes[i] EXCEPT !.id = rp \o @,
                                                  !.parent = IF @ = <<>> THEN rp ELSE rp \o @]]
           rejected == {[from |-> plan.nodes[i].id, to |-> rp, condition |-> "critic_rejected"] :
                          i \in ends}
           inside == {[e EXCEPT !.from = rp \o @, !.to = rp \o @] : e \in revised.edges}
           entering == {[from |-> rp, to |-> rp \o id, condition |-> "always"] :
                          id \in EntrySteps(revised)}
           n == Len(plan.nodes)
           m == Len(revised.nodes)
<1>1. /\ whole.nodes = (plan.nodes \o <<replan>>) \o renamed
      /\ whole.edges = plan.edges \cup rejected \cup inside \cup entering
  BY DEF AppendReplan
<1>2. /\ plan.nodes \in Seq(PlanSteps) /\ revised.nodes \in Seq(PlanSteps)
      /\ revised.edges \subseteq PlanEdges
  BY DEF Sound
<1>3. rp \in Seq(STRING)
  <2>1. PICK name \in STRING : rp = <<name>>
    BY ReplanIdIsFree DEF Sound
  <2>2. \A S : \A x \in S : <<x>> \in Seq(S)
    OBVIOUS
  <2> QED
    BY <2>1, <2>2
<1>4. n \in Nat /\ m \in Nat /\ DOMAIN plan.nodes = 1 .. n /\ DOMAIN revised.nodes = 1 .. m
  BY <1>2
<1>5. ends \subseteq DOMAIN plan.nodes
  BY DEF TerminalSteps
<1>6. replan.parent = <<>> \/ \E i \in ends : replan.parent = plan.nodes[i].id
  <2>1. ends # {} => last \in ends
    <3> HIDE DEF ends
    <3> QED
      BY <1>2, <1>5, LastIsOne
  <2> QED
    BY <2>1
<1>7. ASSUME NEW j \in DOMAIN revised.nodes
      PROVE  /\ renamed[j].id = rp \o revised.nodes[j].id
             /\ renamed[j].parent = IF revised.nodes[j].parent = <<>> THEN rp
                                    ELSE rp \o revised.nodes[j].parent
  <2>1. revised.nodes[j] \in PlanSteps
    BY <1>2
  <2> HIDE DEF rp
  <2> QED
    BY <2>1 DEF PlanSteps
<1>8. ASSUME NEW e \in revised.edges
      PROVE  LET to == [e EXCEPT !.from = rp \o @, !.to = rp \o @] IN
             to.from = rp \o e.from /\ to.to = rp \o e.to
  <2>1. e \in PlanEdges
    BY <1>2
  <2> HIDE DEF rp
  <2> QED
    BY <2>1 DEF PlanEdges
<1>9. replan.id = rp
  OBVIOUS
<1>10. DOMAIN renamed = 1 .. m
  BY <1>4
<1> HIDE DEF whole, rp, ends, replan, renamed, inside, n, m
<1>11. /\ Len(whole.nodes) = n + 1 + m /\ DOMAIN whole.nodes = 1 .. (n + 1 + m)
       /\ \A i \in 1 .. n : whole.nodes[i] = plan.nodes[i]
       /\ whole.nodes[n + 1] = replan
       /\ \A j \in 1 .. m : whole.nodes[n + 1 + j] = renamed[j]
  <2> DEFINE S == PlanSteps \cup {replan} \cup {renamed[j] : j \in 1 .. m}
             first == plan.nodes \o <<replan>>
  <2>1. plan.nodes \in Seq(S) /\ <<replan>> \in Seq(S) /\ Len(<<replan>>) = 1
    BY <1>2
  <2>2. renamed \in Seq(S) /\ Len(renamed) = m
    <3>1. \A j \in 1 .. m : renamed[j] \in S
      OBVIOUS
    <3>2. renamed = [j \in 1 .. m |-> renamed[j]]
      BY <1>4, <1>10 DEF renamed
    <3> HIDE DEF S
    <3>3. m \in Nat
      BY <1>4
    <3> QED
      BY <3>1, <3>2, <3>3
  <2> HIDE DEF S
  <2>3. /\ first \in Seq(S) /\ Len(first) = n + 1
        /\ \A i \in 1 .. n : first[i] = plan.nodes[i]
        /\ first[n + 1] = replan
    BY <1>4, <2>1 DEF n
  <2> HIDE DEF first
  <2>4. whole.nodes = first \o renamed
    BY <1>1 DEF first
  <2>9. /\ whole.nodes \in Seq(S) /\ Len(whole.nodes) = Len(first) + Len(renamed)
        /\ \A i \in 1 .. (Len(first) + Len(renamed)) :
             whole.nodes[i] = IF i <= Len(first) THEN first[i] ELSE renamed[i - Len(first)]
    <3> HIDE DEF n, m, renamed
    <3>1. /\ first \o renamed \in Seq(S) /\ Len(first \o renamed) = Len(first) + Len(renamed)
          /\ \A i \in 1 .. (Len(first) + Len(renamed)) :
               (first \o renamed)[i] = IF i <= Len(first) THEN first[i] ELSE renamed[i - Len(first)]
      BY <2>2, <2>3, ConcatProperties
    <3> QED
      BY <2>4, <3>1
  <2>5. Len(whole.nodes) = n + 1 + m /\ DOMAIN whole.nodes = 1 .. (n + 1 + m)
    BY <2>2, <2>3, <2>9
  <2>6. \A i \in 1 .. (n + 1) : whole.nodes[i] = first[i]
    <3>1. ASSUME NEW i \in 1 .. (n + 1) PROVE i \in 1 .. (n + 1 + m) /\ i <= n + 1
      BY <1>4
    <3> QED
      BY <2>2, <2>3, <2>9, <3>1
  <2>7. \A j \in 1 .. m : whole.nodes[n + 1 + j] = renamed[j]
    <3>1. ASSUME NEW j \in 1 .. m
          PROVE  /\ n + 1 + j \in 1 .. (n + 1 + m) /\ ~(n + 1 + j <= n + 1)
                 /\ (n + 1 + j) - (n + 1) = j
      BY <1>4
    <3> QED
      BY <2>2, <2>3, <2>9, <3>1
  <2>8. n + 1 \in 1 .. (n + 1) /\ \A i \in 1 .. n : i \in 1 .. (n + 1)
    BY <1>4
  <2> QED
    BY <2>3, <2>5, <2>6, <2>7, <2>8
<1>12. \A i \in DOMAIN whole.nodes :
         \/ i \in DOMAIN plan.nodes
         \/ i = n + 1
         \/ \E j \in DOMAIN revised.nodes : i = n + 1 + j
  <2>1. ASSUME NEW i \in 1 .. (n + 1 + m)
        PROVE  i \in 1 .. n \/ i = n + 1 \/ \E j \in 1 .. m : i = n + 1 + j
    <3>1. CASE i > n + 1
      <4>1. i - (n + 1) \in 1 .. m /\ i = n + 1 + (i - (n + 1))
        BY <1>4, <3>1
      <4> QED
        BY <4>1
    <3>2. CASE ~(i > n + 1)
      BY <1>4, <3>2
    <3> QED
      BY <3>1, <3>2
  <2> QED
    BY <1>4, <1>11, <2>1
<1>13. \A i \in DOMAIN plan.nodes : i \in DOMAIN whole.nodes /\ whole.nodes[i] = plan.nodes[i]
  <2>1. \A i \in 1 .. n : i \in 1 .. (n + 1 + m)
    BY <1>4
  <2> QED
    BY <1>4, <1>11, <2>1
<1>14. n + 1 \in DOMAIN whole.nodes /\ \A j \in DOMAIN revised.nodes : n + 1 + j \in DOMAIN whole.nodes
  <2>1. n + 1 \in 1 .. (n + 1 + m) /\ \A j \in 1 .. m : n + 1 + j \in 1 .. (n + 1 + m)
    BY <1>4
  <2> QED
    BY <1>4, <1>11, <2>1
<1>15. \A j \in DOMAIN revised.nodes :
         /\ whole.nodes[n + 1 + j].id = rp \o revised.nodes[j].id
         /\ whole.nodes[n + 1 + j].parent = IF revised.nodes[j].parent = <<>> THEN rp
                                            ELSE rp \o revised.nodes[j].parent
  BY <1>4, <1>7, <1>11
<1>16. ASSUME NEW from, NEW to
       PROVE  Follows(whole, from, to) <=>
           \/ Follows(plan, from, to)
           \/ to = rp /\ \E i \in ends : from = plan.nodes[i].id
           \/ \E e \in revised.edges : from = rp \o e.from /\ to = rp \o e.to
           \/ from = rp /\ \E id \in EntrySteps(revised) : to = rp \o id
  <2>1. Follows(whole, from, to) <=>
          \/ Follows(plan, from, to)
          \/ \E e \in rejected : e.from = from /\ e.to = to
          \/ \E e \in inside : e.from = from /\ e.to = to
          \/ \E e \in entering : e.from = from /\ e.to = to
    BY <1>1 DEF Follows
  <2>2. (\E e \in rejected : e.from = from /\ e.to = to)
          <=> to = rp /\ \E i \in ends : from = plan.nodes[i].id
    <3>1. ASSUME NEW i \in ends, from = plan.nodes[i].id, to = rp
          PROVE  \E e \in rejected : e.from = from /\ e.to = to
      <4> DEFINE e == [from |-> plan.nodes[i].id, to |-> rp, condition |-> "critic_rejected"]
      <4>1. e \in rejected /\ e.from = from /\ e.to = to
        BY <3>1
      <4> QED
        BY <4>1
    <3>2. ASSUME NEW e \in rejected
          PROVE  e.to = rp /\ \E i \in ends : e.from = plan.nodes[i].id
      OBVIOUS
    <3> QED
      BY <3>1, <3>2
  <2>3. (\E e \in inside : e.from = from /\ e.to = to)
          <=> \E e \in revised.edges : from = rp \o e.from /\ to = rp \o e.to
    BY <1>8, ZenonT(30) DEF inside
  <2>4. (\E e \in entering : e.from = from /\ e.to = to)
          <=> from = rp /\ \E id \in EntrySteps(revised) : to = rp \o id
    <3>1. ASSUME NEW id \in EntrySteps(revised), from = rp, to = rp \o id
          PROVE  \E e \in entering : e.from = from /\ e.to = to
      <4> DEFINE e == [from |-> rp, to |-> rp \o id, condition |-> "always"]
      <4>1. e \in entering /\ e.from = from /\ e.to = to
        BY <3>1
      <4> QED
        BY <4>1
    <3>2. ASSUME NEW e \in entering
          PROVE  e.from = rp /\ \E id \in EntrySteps(revised) : e.to = rp \o id
      OBVIOUS
    <3> QED
      BY <3>1, <3>2
  <2> QED
    BY <2>1, <2>2, <2>3, <2>4
<1>17. IsAppended(whole, plan, revised, rp)
  BY <1>6, <1>9, <1>11, <1>12, <1>13, <1>14, <1>15, <1>16 DEF IsAppended, ends, n
<1>18. IsPrefix(plan.nodes, whole.nodes)
  <2>1. n <= Len(whole.nodes)
    <3>1. Len(whole.nodes) = n + 1 + m
      BY <1>11
    <3> QED
      BY <1>4, <3>1
  <2>2. SubSeq(plan.nodes, 1, n) = [i \in 1 .. n |-> plan.nodes[i]]
    BY <1>4
  <2>3. SubSeq(whole.nodes, 1, n) = [i \in 1 .. n |-> whole.nodes[i]]
    BY <1>4
  <2> QED
    BY <1>11, <2>1, <2>2, <2>3 DEF IsPrefix, n
<1> QED
  BY <1>1, <1>17, <1>18 DEF whole, rp

\* A plan and a second one to be appended to it, and what comes of them.
Appends(whole, plan, revised, rp) ==
    /\ Sound(plan) /\ Sound(revised) /\ IsAppended(whole, plan, revised, rp)
    /\ \A id \in GraphIds(plan) : Len(id) <= 1
    /\ rp \notin GraphIds(plan) /\ \E name \in STRING : rp = <<name>>

SecondIds(revised, rp) == {rp \o id : id \in GraphIds(revised)}

\* The ids of the second plan are no others.
LEMMA SecondIdsApart ==
    ASSUME NEW whole, NEW plan, NEW revised, NEW rp, Appends(whole, plan, revised, rp)
    PROVE  /\ \A id \in GraphIds(revised) : rp \o id \notin GraphIds(plan) \cup {rp}
           /\ \A id, other \in GraphIds(revised) \cup {<<>>} : rp \o id = rp \o other => id = other
<1>1. PICK name \in STRING : rp = <<name>>
  BY DEF Appends
<1>2. Len(rp) = 1 /\ \A id \in GraphIds(plan) : Len(id) <= 1
  BY <1>1 DEF Appends
<1>3. \A id \in GraphIds(revised) : id \in Seq(STRING) /\ id # <<>>
  <2>1. /\ revised.nodes \in Seq(PlanSteps) /\ <<>> \notin GraphIds(revised)
        /\ \A i \in DOMAIN revised.nodes : revised.nodes[i] \in PlanSteps
    BY DEF Appends, Sound
  <2> QED
    BY <2>1 DEF GraphIds, PlanSteps
<1>4. <<>> \in Seq(STRING)
  OBVIOUS
<1>5. \A id \in GraphIds(revised) : Len(rp \o id) > 1
  BY <1>1, <1>3, PrefixesTell
<1>6. \A id, other \in GraphIds(revised) \cup {<<>>} : rp \o id = rp \o other => id = other
  BY <1>1, <1>3, <1>4, PrefixesTell, SMTT(30)
<1>7. ASSUME NEW id \in GraphIds(revised), rp \o id \in GraphIds(plan) \cup {rp}
      PROVE  FALSE
  <2>1. Len(rp \o id) <= 1
    <3>1. CASE rp \o id = rp
      <4>1. Len(rp \o id) = 1
        BY <1>2, <3>1
      <4> QED
        BY <4>1
    <3>2. CASE rp \o id \in GraphIds(plan)
      BY <1>2, <3>2
    <3> QED
      BY <1>7, <3>1, <3>2
  <2>2. Len(rp \o id) > 1
    BY <1>5
  <2>3. Len(rp \o id) \in Nat
    BY <1>1, <1>3, PrefixesTell, LenProperties
  <2> QED
    BY <2>1, <2>2, <2>3
<1> QED
  BY <1>6, <1>7

\* Where the steps of the whole are.
PlacesTell(whole, plan, revised, rp) ==
    LET n == Len(plan.nodes) IN
    /\ \A i \in DOMAIN whole.nodes :
         /\ whole.nodes[i].id \in GraphIds(plan) \cup {rp} \cup SecondIds(revised, rp)
         /\ whole.nodes[i].id \in GraphIds(plan) => i \in DOMAIN plan.nodes
         /\ whole.nodes[i].id = rp => i = n + 1
         /\ \A id \in GraphIds(revised) : whole.nodes[i].id = rp \o id =>
              \E j \in DOMAIN revised.nodes : i = n + 1 + j /\ revised.nodes[j].id = id
    /\ \A i \in DOMAIN plan.nodes :
         i \in DOMAIN whole.nodes /\ whole.nodes[i] = plan.nodes[i]
    /\ n + 1 \in DOMAIN whole.nodes /\ whole.nodes[n + 1].id = rp
    /\ \A j \in DOMAIN revised.nodes :
         /\ n + 1 + j \in DOMAIN whole.nodes
         /\ whole.nodes[n + 1 + j].id = rp \o revised.nodes[j].id

LEMMA AppendedPlaces ==
    ASSUME NEW whole, NEW plan, NEW revised, NEW rp, Appends(whole, plan, revised, rp)
    PROVE  PlacesTell(whole, plan, revised, rp)
<1> DEFINE n == Len(plan.nodes)
           places == DOMAIN whole.nodes
           InFirst(i) == i \in DOMAIN plan.nodes
           InSecond(i) == \E j \in DOMAIN revised.nodes : i = n + 1 + j
<1>1. /\ \A i \in places : InFirst(i) \/ i = n + 1 \/ InSecond(i)
      /\ \A i \in DOMAIN plan.nodes : i \in places /\ whole.nodes[i] = plan.nodes[i]
      /\ n + 1 \in places /\ whole.nodes[n + 1].id = rp
      /\ \A j \in DOMAIN revised.nodes :
           n + 1 + j \in places /\ whole.nodes[n + 1 + j].id = rp \o revised.nodes[j].id
  BY DEF Appends, IsAppended
<1>2. /\ \A i \in DOMAIN plan.nodes : plan.nodes[i].id \in GraphIds(plan)
      /\ \A j \in DOMAIN revised.nodes : revised.nodes[j].id \in GraphIds(revised)
  BY DEF GraphIds
<1>3. /\ \A id \in GraphIds(revised) : rp \o id \notin GraphIds(plan) \cup {rp}
      /\ \A id, other \in GraphIds(revised) \cup {<<>>} : rp \o id = rp \o other => id = other
  BY SecondIdsApart
<1>4. rp \notin GraphIds(plan)
  BY DEF Appends
<1> HIDE DEF n, places
<1>5. \A i \in places : InFirst(i) => whole.nodes[i].id \in GraphIds(plan)
  BY <1>1, <1>2
<1>6. ASSUME NEW i \in places, InSecond(i)
      PROVE  /\ whole.nodes[i].id \in SecondIds(revised, rp)
             /\ whole.nodes[i].id \notin GraphIds(plan) \cup {rp}
             /\ \A id \in GraphIds(revised) : whole.nodes[i].id = rp \o id =>
                  \E j \in DOMAIN revised.nodes : i = n + 1 + j /\ revised.nodes[j].id = id
  <2>1. PICK j \in DOMAIN revised.nodes : i = n + 1 + j
    BY <1>6
  <2>2. whole.nodes[i].id = rp \o revised.nodes[j].id /\ revised.nodes[j].id \in GraphIds(revised)
    BY <1>1, <1>2, <2>1
  <2>3. whole.nodes[i].id \in SecondIds(revised, rp)
    BY <2>2 DEF SecondIds
  <2>4. whole.nodes[i].id \notin GraphIds(plan) \cup {rp}
    BY <1>3, <2>2
  <2>5. \A id \in GraphIds(revised) : whole.nodes[i].id = rp \o id => revised.nodes[j].id = id
    BY <1>3, <2>2
  <2> QED
    BY <2>1, <2>3, <2>4, <2>5
<1>7. \A i \in places : whole.nodes[i].id \in GraphIds(plan) \cup {rp} \cup SecondIds(revised, rp)
  BY <1>1, <1>5, <1>6
<1>8. \A i \in places : whole.nodes[i].id \in GraphIds(plan) => InFirst(i)
  BY <1>1, <1>4, <1>6
<1>9. \A i \in places : whole.nodes[i].id = rp => i = n + 1
  BY <1>1, <1>4, <1>5, <1>6
<1>10. ASSUME NEW i \in places, NEW id \in GraphIds(revised), whole.nodes[i].id = rp \o id
       PROVE  \E j \in DOMAIN revised.nodes : i = n + 1 + j /\ revised.nodes[j].id = id
  <2>1. whole.nodes[i].id \notin GraphIds(plan) \cup {rp}
    BY <1>3, <1>10
  <2>2. InSecond(i)
    BY <1>1, <1>5, <2>1
  <2> QED
    BY <1>6, <1>10, <2>2
<1> QED
  BY <1>1, <1>7, <1>8, <1>9, <1>10 DEF n, places, PlacesTell

LEMMA AppendedIds ==
    ASSUME NEW whole, NEW plan, NEW revised, NEW rp, Appends(whole, plan, revised, rp)
    PROVE  /\ GraphIds(whole) = GraphIds(plan) \cup {rp} \cup SecondIds(revised, rp)
           /\ DistinctIds(whole)
<1> DEFINE n == Len(plan.nodes)
           places == DOMAIN whole.nodes
<1>1. /\ \A i \in places :
           /\ whole.nodes[i].id \in GraphIds(plan) \cup {rp} \cup SecondIds(revised, rp)
           /\ whole.nodes[i].id \in GraphIds(plan) => i \in DOMAIN plan.nodes
           /\ whole.nodes[i].id = rp => i = n + 1
           /\ \A id \in GraphIds(revised) : whole.nodes[i].id = rp \o id =>
                \E j \in DOMAIN revised.nodes : i = n + 1 + j /\ revised.nodes[j].id = id
      /\ \A i \in DOMAIN plan.nodes : i \in places /\ whole.nodes[i] = plan.nodes[i]
      /\ n + 1 \in places /\ whole.nodes[n + 1].id = rp
      /\ \A j \in DOMAIN revised.nodes :
           n + 1 + j \in places /\ whole.nodes[n + 1 + j].id = rp \o revised.nodes[j].id
  <2>1. PlacesTell(whole, plan, revised, rp)
    BY AppendedPlaces
  <2> QED
    BY <2>1 DEF PlacesTell
<1>2. /\ GraphIds(whole) = {whole.nodes[i].id : i \in places}
      /\ \A id \in GraphIds(plan) : \E i \in DOMAIN plan.nodes : plan.nodes[i].id = id
      /\ \A id \in GraphIds(revised) : \E j \in DOMAIN revised.nodes : revised.nodes[j].id = id
  BY DEF GraphIds
<1>4. DistinctIds(plan) /\ DistinctIds(revised)
  BY DEF Appends, Sound
<1> HIDE DEF n, places
<1>5. GraphIds(whole) \subseteq GraphIds(plan) \cup {rp} \cup SecondIds(revised, rp)
  BY <1>1, <1>2
<1>6. GraphIds(plan) \cup {rp} \cup SecondIds(revised, rp) \subseteq GraphIds(whole)
  <2>1. GraphIds(plan) \subseteq GraphIds(whole)
    BY <1>1, <1>2, SMTT(30)
  <2>2. rp \in GraphIds(whole)
    BY <1>1, <1>2
  <2>3. ASSUME NEW id \in GraphIds(revised) PROVE rp \o id \in GraphIds(whole)
    <3>1. PICK j \in DOMAIN revised.nodes : revised.nodes[j].id = id
      BY <1>2
    <3>2. n + 1 + j \in places /\ whole.nodes[n + 1 + j].id = rp \o id
      BY <1>1, <3>1
    <3> QED
      BY <1>2, <3>2
  <2> QED
    BY <2>1, <2>2, <2>3 DEF SecondIds
<1>7. ASSUME NEW i \in places, NEW k \in places, whole.nodes[i].id = whole.nodes[k].id
      PROVE  i = k
  <2>1. CASE whole.nodes[i].id \in GraphIds(plan)
    <3>1. i \in DOMAIN plan.nodes /\ k \in DOMAIN plan.nodes
      BY <1>1, <1>7, <2>1
    <3>2. plan.nodes[i].id = plan.nodes[k].id
      BY <1>1, <1>7, <3>1
    <3> QED
      BY <1>4, <3>1, <3>2 DEF DistinctIds
  <2>2. CASE whole.nodes[i].id = rp
    BY <1>1, <1>7, <2>2
  <2>3. CASE whole.nodes[i].id \in SecondIds(revised, rp)
    <3>1. PICK id \in GraphIds(revised) : whole.nodes[i].id = rp \o id
      BY <2>3 DEF SecondIds
    <3>2. PICK j \in DOMAIN revised.nodes : i = n + 1 + j /\ revised.nodes[j].id = id
      BY <1>1, <3>1
    <3>5. whole.nodes[k].id = rp \o id
      BY <1>7, <3>1
    <3>3. PICK l \in DOMAIN revised.nodes : k = n + 1 + l /\ revised.nodes[l].id = id
      BY <1>1, <3>5
    <3>4. j = l
      BY <1>4, <3>2, <3>3 DEF DistinctIds
    <3> QED
      BY <3>2, <3>3, <3>4
  <2> QED
    BY <1>1, <2>1, <2>2, <2>3
<1>8. DistinctIds(whole)
  BY <1>7 DEF DistinctIds, places
<1> QED
  BY <1>5, <1>6, <1>8

LEMMA EntriesAreSteps ==
    ASSUME NEW revised, Sound(revised)
    PROVE  EntrySteps(revised) \subseteq GraphIds(revised)
<1>1. Head(revised.nodes).id \in GraphIds(revised)
  <2>1. 1 \in DOMAIN revised.nodes /\ Head(revised.nodes) = revised.nodes[1]
    BY DEF Sound
  <2> QED
    BY <2>1 DEF GraphIds
<1> QED
  BY <1>1 DEF EntrySteps

\* What the steps of both plans wait for: those of the first as before, the replan
\* step for the last of the first, and those of the second for one another and the
\* replan step, and for one of them.
WaitsTell(deps, plan, revised, rp) ==
    /\ \A id \in GraphIds(plan) : deps[id] = Dependencies(plan)[id]
    /\ deps[rp] \subseteq GraphIds(plan)
    /\ \A i \in TerminalSteps(plan) : plan.nodes[i].id \in deps[rp]
    /\ \A id \in GraphIds(revised) :
         /\ \A from \in deps[rp \o id] :
              from = rp \/ \E y \in Dependencies(revised)[id] : from = rp \o y
         /\ \/ rp \in deps[rp \o id]
            \/ \E y \in Dependencies(revised)[id] : rp \o y \in deps[rp \o id]

LEMMA AppendedWaits ==
    ASSUME NEW whole, NEW plan, NEW revised, NEW rp, Appends(whole, plan, revised, rp)
    PROVE  WaitsTell(Dependencies(whole), plan, revised, rp)
<1> DEFINE n == Len(plan.nodes)
           places == DOMAIN whole.nodes
           deps == Dependencies(whole)
           ByParent(g, from, id) == \E i \in DOMAIN g.nodes :
                g.nodes[i].id = id /\ g.nodes[i].parent = from /\ from # <<>>
<1>1. /\ \A i \in places :
           /\ whole.nodes[i].id \in GraphIds(plan) => i \in DOMAIN plan.nodes
           /\ whole.nodes[i].id = rp => i = n + 1
           /\ \A id \in GraphIds(revised) : whole.nodes[i].id = rp \o id =>
                \E j \in DOMAIN revised.nodes : i = n + 1 + j /\ revised.nodes[j].id = id
      /\ \A i \in DOMAIN plan.nodes : i \in places /\ whole.nodes[i] = plan.nodes[i]
      /\ n + 1 \in places /\ whole.nodes[n + 1].id = rp
      /\ \A j \in DOMAIN revised.nodes :
           n + 1 + j \in places /\ whole.nodes[n + 1 + j].id = rp \o revised.nodes[j].id
  <2>1. PlacesTell(whole, plan, revised, rp)
    BY AppendedPlaces
  <2> QED
    BY <2>1 DEF PlacesTell
<1>11. /\ \/ whole.nodes[n + 1].parent = <<>>
          \/ \E i \in TerminalSteps(plan) : whole.nodes[n + 1].parent = plan.nodes[i].id
       /\ \A j \in DOMAIN revised.nodes :
            whole.nodes[n + 1 + j].parent =
                 IF revised.nodes[j].parent = <<>> THEN rp ELSE rp \o revised.nodes[j].parent
  BY DEF Appends, IsAppended
<1>2. \A from, to :
        Follows(whole, from, to) <=>
           \/ Follows(plan, from, to)
           \/ to = rp /\ \E i \in TerminalSteps(plan) : from = plan.nodes[i].id
           \/ \E e \in revised.edges : from = rp \o e.from /\ to = rp \o e.to
           \/ from = rp /\ \E id \in EntrySteps(revised) : to = rp \o id
  BY DEF Appends, IsAppended
<1>3. /\ \A i \in DOMAIN plan.nodes : plan.nodes[i].id \in GraphIds(plan)
      /\ \A j \in DOMAIN revised.nodes : revised.nodes[j].id \in GraphIds(revised)
      /\ \A id \in GraphIds(revised) : \E j \in DOMAIN revised.nodes : revised.nodes[j].id = id
      /\ TerminalSteps(plan) \subseteq DOMAIN plan.nodes
      /\ EntrySteps(revised) \subseteq GraphIds(revised)
  BY EntriesAreSteps DEF GraphIds, TerminalSteps, Appends
<1>4. /\ \A id \in GraphIds(revised) : rp \o id \notin GraphIds(plan) \cup {rp}
      /\ \A id, other \in GraphIds(revised) \cup {<<>>} : rp \o id = rp \o other => id = other
      /\ rp \notin GraphIds(plan) /\ rp # <<>>
  <2>1. rp \notin GraphIds(plan) /\ rp # <<>>
    BY DEF Appends
  <2>2. /\ \A id \in GraphIds(revised) : rp \o id \notin GraphIds(plan) \cup {rp}
        /\ \A id, other \in GraphIds(revised) \cup {<<>>} : rp \o id = rp \o other => id = other
    BY SecondIdsApart
  <2> QED
    BY <2>1, <2>2
<1>5. /\ \A from, to : Follows(plan, from, to) => {from, to} \subseteq GraphIds(plan)
      /\ \A e \in revised.edges : {e.from, e.to} \subseteq GraphIds(revised)
      /\ <<>> \notin GraphIds(plan)
  BY DEF Appends, Sound, Appendable, Follows
<1>6. \A g : \A id \in GraphIds(g) : \A from :
         from \in Dependencies(g)[id] <=> ByParent(g, from, id) \/ Follows(g, from, id)
  <2>1. ASSUME NEW g, NEW id \in GraphIds(g), NEW from
        PROVE  from \in Dependencies(g)[id] <=> ByParent(g, from, id) \/ Follows(g, from, id)
    BY DependenciesTell DEF Follows
  <2> QED
    BY <2>1
<1>7. GraphIds(whole) = GraphIds(plan) \cup {rp} \cup SecondIds(revised, rp)
  BY AppendedIds
<1> HIDE DEF n, places, deps, ByParent
<1>8. ASSUME NEW id \in GraphIds(plan), NEW from
      PROVE  from \in deps[id] <=> from \in Dependencies(plan)[id]
  <2>1. ByParent(whole, from, id) <=> ByParent(plan, from, id)
    <3>1. ASSUME ByParent(plan, from, id) PROVE ByParent(whole, from, id)
      BY <1>1, <3>1 DEF ByParent, places
    <3>2. ASSUME ByParent(whole, from, id) PROVE ByParent(plan, from, id)
      <4>1. PICK i \in places : whole.nodes[i].id = id /\ whole.nodes[i].parent = from /\ from # <<>>
        BY <3>2 DEF ByParent, places
      <4>2. i \in DOMAIN plan.nodes
        BY <1>1, <4>1
      <4> QED
        BY <1>1, <4>1, <4>2 DEF ByParent
    <3> QED
      BY <3>1, <3>2
  <2>2. Follows(whole, from, id) <=> Follows(plan, from, id)
    <3>1. id # rp /\ \A other \in GraphIds(revised) : id # rp \o other
      BY <1>4
    <3>2. ~\E e \in revised.edges : from = rp \o e.from /\ id = rp \o e.to
      BY <1>5, <3>1
    <3>3. ~\E other \in EntrySteps(revised) : id = rp \o other
      BY <1>3, <3>1
    <3> QED
      BY <1>2, <3>1, <3>2, <3>3
  <2>3. id \in GraphIds(whole)
    BY <1>7
  <2> QED
    BY <1>6, <2>1, <2>2, <2>3 DEF deps
<1>9. ASSUME NEW from
      PROVE  /\ from \in deps[rp] => from \in GraphIds(plan)
             /\ (\E i \in TerminalSteps(plan) : from = plan.nodes[i].id) => from \in deps[rp]
  <2>1. rp \in GraphIds(whole)
    BY <1>7
  <2>2. from \in deps[rp] <=> ByParent(whole, from, rp) \/ Follows(whole, from, rp)
    BY <1>6, <2>1 DEF deps
  <2>3. ASSUME ByParent(whole, from, rp) PROVE from \in GraphIds(plan)
    <3>1. PICK i \in places : whole.nodes[i].id = rp /\ whole.nodes[i].parent = from /\ from # <<>>
      BY <2>3 DEF ByParent, places
    <3>2. i = n + 1
      BY <1>1, <3>1
    <3> QED
      BY <1>3, <1>11, <3>1, <3>2
  <2>4. ASSUME Follows(whole, from, rp) PROVE from \in GraphIds(plan)
    BY <1>2, <1>3, <1>4, <1>5, <2>4
  <2>5. (\E i \in TerminalSteps(plan) : from = plan.nodes[i].id) => Follows(whole, from, rp)
    BY <1>2
  <2> QED
    BY <2>2, <2>3, <2>4, <2>5
<1>10. ASSUME NEW id \in GraphIds(revised)
       PROVE  /\ \A from \in deps[rp \o id] :
                   from = rp \/ \E y \in Dependencies(revised)[id] : from = rp \o y
              /\ \/ rp \in deps[rp \o id]
                 \/ \E y \in Dependencies(revised)[id] : rp \o y \in deps[rp \o id]
  <2>1. rp \o id \in GraphIds(whole)
    BY <1>7 DEF SecondIds
  <2>2. \A from : from \in deps[rp \o id]
                    <=> ByParent(whole, from, rp \o id) \/ Follows(whole, from, rp \o id)
    BY <1>6, <2>1 DEF deps
  <2>3. ASSUME NEW from, ByParent(whole, from, rp \o id)
        PROVE  from = rp \/ \E y \in Dependencies(revised)[id] : from = rp \o y
    <3>1. PICK i \in places : /\ whole.nodes[i].id = rp \o id /\ whole.nodes[i].parent = from
                              /\ from # <<>>
      BY <2>3 DEF ByParent, places
    <3>2. PICK j \in DOMAIN revised.nodes : i = n + 1 + j /\ revised.nodes[j].id = id
      BY <1>1, <3>1
    <3>3. revised.nodes[j].id = id
      BY <3>2
    <3>4. CASE revised.nodes[j].parent = <<>>
      BY <1>11, <3>1, <3>2, <3>4
    <3>5. CASE revised.nodes[j].parent # <<>>
      <4>1. ByParent(revised, revised.nodes[j].parent, id)
        BY <3>3, <3>5 DEF ByParent
      <4>2. revised.nodes[j].parent \in Dependencies(revised)[id]
        BY <1>6, <4>1
      <4> QED
        BY <1>11, <3>1, <3>2, <3>5, <4>2
    <3> QED
      BY <3>4, <3>5
  <2>4. ASSUME NEW from, Follows(whole, from, rp \o id)
        PROVE  from = rp \/ \E y \in Dependencies(revised)[id] : from = rp \o y
    <3>1. \/ from = rp
          \/ \E e \in revised.edges : from = rp \o e.from /\ rp \o id = rp \o e.to
      BY <1>2, <1>3, <1>4, <1>5, <2>4
    <3>2. ASSUME NEW e \in revised.edges, from = rp \o e.from, rp \o id = rp \o e.to
          PROVE  \E y \in Dependencies(revised)[id] : from = rp \o y
      <4>1. e.to = id
        BY <1>4, <1>5, <3>2
      <4>2. Follows(revised, e.from, id)
        BY <4>1 DEF Follows
      <4>3. e.from \in Dependencies(revised)[id]
        BY <1>6, <4>2
      <4> QED
        BY <3>2, <4>3
    <3> QED
      BY <3>1, <3>2
  <2>5. \/ rp \in deps[rp \o id]
        \/ \E y \in Dependencies(revised)[id] : rp \o y \in deps[rp \o id]
    <3>1. PICK j \in DOMAIN revised.nodes : revised.nodes[j].id = id
      BY <1>3
    <3> DEFINE i == n + 1 + j
    <3>2. i \in places /\ whole.nodes[i].id = rp \o id
      BY <1>1, <3>1
    <3>3. whole.nodes[i].parent = IF revised.nodes[j].parent = <<>> THEN rp
                                  ELSE rp \o revised.nodes[j].parent
      BY <1>11
    <3> HIDE DEF i
    <3>4. CASE revised.nodes[j].parent = <<>>
      <4>1. ByParent(whole, rp, rp \o id)
        BY <1>4, <3>2, <3>3, <3>4 DEF ByParent, places
      <4> QED
        BY <2>2, <4>1
    <3>5. CASE revised.nodes[j].parent # <<>>
      <4> DEFINE y == revised.nodes[j].parent
      <4>1. ByParent(revised, y, id)
        BY <3>1, <3>5 DEF ByParent
      <4>2. y \in Dependencies(revised)[id]
        BY <1>6, <4>1
      <4>3. y \in GraphIds(revised)
        BY <4>2, DependenciesTell DEF Appends, Sound, CanFinish
      <4>4. rp \o y # <<>>
        <5>1. PICK name \in STRING : rp = <<name>>
          BY DEF Appends
        <5>2. y \in Seq(STRING)
          <6>1. revised.nodes \in Seq(PlanSteps)
            BY DEF Appends, Sound
          <6>2. revised.nodes[j] \in PlanSteps
            BY <6>1
          <6> QED
            BY <6>2 DEF PlanSteps
        <5>3. Len(rp \o y) > 1
          BY <3>5, <5>1, <5>2, PrefixesTell
        <5> QED
          BY <5>3
      <4>5. ByParent(whole, rp \o y, rp \o id)
        BY <3>2, <3>3, <3>5, <4>4 DEF ByParent, places
      <4> QED
        BY <2>2, <4>2, <4>5
    <3> QED
      BY <3>4, <3>5
  <2> QED
    BY <2>2, <2>3, <2>4, <2>5
<1> QED
  BY <1>8, <1>9, <1>10 DEF deps, WaitsTell

\* In a plan that can finish, the steps that another follows are followed in the end
\* by one that none does.
LEMMA NothingGoesOn ==
    ASSUME NEW deps, IsFiniteSet(DOMAIN deps),
           \A waiting \in (SUBSET DOMAIN deps) \ {{}} : \E id \in waiting : deps[id] \cap waiting = {},
           NEW ids \in SUBSET DOMAIN deps, \A id \in ids : \E next \in ids : id \in deps[next]
    PROVE  ids = {}
<1> SUFFICES ASSUME ids # {} PROVE FALSE
  OBVIOUS
<1> DEFINE goOn == {some \in SUBSET ids : some # {} /\ \A id \in some : \E next \in some : id \in deps[next]}
<1>1. goOn # {}
  BY ids \in goOn
<1>2. goOn \subseteq FiniteSubsetsOf(ids)
  <2>1. IsFiniteSet(ids)
    BY FS_Subset
  <2>2. \A some \in SUBSET ids : IsFiniteSet(some)
    BY <2>1, FS_Subset
  <2> QED
    BY <2>2 DEF FiniteSubsetsOf
<1>3. PICK some \in goOn : \A less \in goOn : <<less, some>> \notin StrictSubsetOrdering(ids)
  <2> HIDE DEF goOn
  <2> QED
    BY <1>1, <1>2, WFMin, FS_StrictSubsetOrderingWellFounded
<1>4. some \in (SUBSET DOMAIN deps) \ {{}}
  OBVIOUS
<1>5. PICK first \in some : deps[first] \cap some = {}
  BY <1>4
<1> DEFINE rest == some \ {first}
<1>6. ASSUME NEW id \in some PROVE \E next \in rest : id \in deps[next]
  <2>1. PICK next \in some : id \in deps[next]
    OBVIOUS
  <2>2. next # first
    BY <1>5, <2>1
  <2> QED
    BY <2>1, <2>2
<1>7. rest \in goOn
  <2>1. rest # {}
    BY <1>6
  <2>2. \A id \in rest : \E next \in rest : id \in deps[next]
    BY <1>6
  <2>3. rest \in SUBSET ids
    OBVIOUS
  <2> HIDE DEF rest
  <2> QED
    BY <2>1, <2>2, <2>3
<1>8. some \in SUBSET ids /\ rest \in SUBSET ids /\ rest \subseteq some /\ rest # some
  OBVIOUS
<1> HIDE DEF rest, goOn
<1>9. <<rest, some>> \in StrictSubsetOrdering(ids)
  BY <1>8 DEF StrictSubsetOrdering
<1> QED
  BY <1>3, <1>7, <1>9

LEMMA SoundDependencies ==
    ASSUME NEW plan, Sound(plan)
    PROVE  LET deps == Dependencies(plan) IN
           /\ DOMAIN deps = GraphIds(plan) /\ IsFiniteSet(DOMAIN deps)
           /\ \A id \in DOMAIN deps : deps[id] \subseteq DOMAIN deps
           /\ \A waiting \in (SUBSET DOMAIN deps) \ {{}} : \E id \in waiting : deps[id] \cap waiting = {}
  BY DependenciesTell, IdsAreFinite DEF Sound, CanFinish

\* A plan with a second one after it can finish.
LEMMA AppendedCanFinish ==
    ASSUME NEW whole, NEW plan, NEW revised, NEW rp, Appends(whole, plan, revised, rp)
    PROVE  CanFinish(whole)
<1> DEFINE deps == Dependencies(whole)
           first == Dependencies(plan)
           second == Dependencies(revised)
<1>1. DOMAIN deps = GraphIds(plan) \cup {rp} \cup SecondIds(revised, rp)
  <2>1. DOMAIN deps = GraphIds(whole)
    BY DependenciesTell
  <2>2. GraphIds(whole) = GraphIds(plan) \cup {rp} \cup SecondIds(revised, rp)
    BY AppendedIds
  <2> QED
    BY <2>1, <2>2
<1>2. WaitsTell(deps, plan, revised, rp)
  BY AppendedWaits
<1>3. /\ DOMAIN first = GraphIds(plan)
      /\ \A id \in DOMAIN first : first[id] \subseteq DOMAIN first
      /\ \A waiting \in (SUBSET DOMAIN first) \ {{}} : \E id \in waiting : first[id] \cap waiting = {}
  BY SoundDependencies DEF Appends
<1>4. /\ DOMAIN second = GraphIds(revised)
      /\ \A id \in DOMAIN second : second[id] \subseteq DOMAIN second
      /\ \A waiting \in (SUBSET DOMAIN second) \ {{}} : \E id \in waiting : second[id] \cap waiting = {}
  BY SoundDependencies DEF Appends
<1>5. rp \notin GraphIds(plan) /\ \A id \in GraphIds(revised) : rp \o id \notin GraphIds(plan) \cup {rp}
  BY SecondIdsApart DEF Appends
<1> HIDE DEF deps, first, second
<1>6. /\ \A id \in GraphIds(plan) : deps[id] = first[id]
      /\ deps[rp] \subseteq GraphIds(plan)
      /\ \A id \in GraphIds(revised) : \A from \in deps[rp \o id] :
              from = rp \/ \E y \in second[id] : from = rp \o y
  BY <1>2 DEF WaitsTell, first, second
<1>7. ASSUME NEW id \in DOMAIN deps PROVE deps[id] \subseteq DOMAIN deps
  <2>1. CASE id \in GraphIds(plan)
    BY <1>1, <1>3, <1>6, <2>1
  <2>2. CASE id = rp
    BY <1>1, <1>6, <2>2
  <2>3. CASE id \in SecondIds(revised, rp)
    <3>1. PICK x \in GraphIds(revised) : id = rp \o x
      BY <2>3 DEF SecondIds
    <3>2. \A y \in second[x] : rp \o y \in SecondIds(revised, rp)
      BY <1>4 DEF SecondIds
    <3>3. ASSUME NEW from \in deps[rp \o x] PROVE from \in DOMAIN deps
      <4>1. from = rp \/ \E y \in second[x] : from = rp \o y
        BY <1>6
      <4> QED
        BY <1>1, <3>2, <4>1
    <3> QED
      BY <3>1, <3>3
  <2> QED
    BY <1>1, <2>1, <2>2, <2>3
<1>8. ASSUME NEW waiting \in (SUBSET DOMAIN deps) \ {{}}
      PROVE  \E id \in waiting : deps[id] \cap waiting = {}
  <2>1. CASE waiting \cap GraphIds(plan) # {}
    <3>1. PICK id \in waiting \cap GraphIds(plan) : first[id] \cap (waiting \cap GraphIds(plan)) = {}
      BY <1>3, <2>1
    <3>2. deps[id] \subseteq GraphIds(plan) /\ deps[id] = first[id]
      BY <1>3, <1>6, <3>1
    <3> QED
      BY <3>1, <3>2
  <2>2. CASE waiting \cap GraphIds(plan) = {} /\ rp \in waiting
    BY <1>6, <2>2
  <2>3. CASE waiting \cap GraphIds(plan) = {} /\ rp \notin waiting
    <3> DEFINE left == {x \in GraphIds(revised) : rp \o x \in waiting}
    <3>1. \A id \in waiting : \E x \in left : id = rp \o x
      BY <1>1, <2>3 DEF SecondIds
    <3>2. left \in (SUBSET DOMAIN second) \ {{}}
      BY <1>4, <3>1
    <3>3. PICK x \in left : second[x] \cap left = {}
      <4> HIDE DEF left
      <4> QED
        BY <1>4, <3>2
    <3>4. second[x] \subseteq GraphIds(revised)
      BY <1>4, <3>2
    <3>5. ASSUME NEW from \in deps[rp \o x] PROVE from \notin waiting
      <4>1. from = rp \/ \E y \in second[x] : from = rp \o y
        BY <1>6
      <4>2. ASSUME NEW y \in second[x] PROVE rp \o y \notin waiting
        BY <3>3, <3>4
      <4> QED
        BY <2>3, <4>1, <4>2
    <3>6. rp \o x \in waiting
      OBVIOUS
    <3> QED
      BY <3>5, <3>6
  <2> QED
    BY <2>1, <2>2, <2>3
<1> QED
  BY <1>7, <1>8 DEF CanFinish, deps

\* A step of the second plan waits for all of the first.
LEMMA SecondComesLast ==
    ASSUME NEW whole, NEW plan, NEW revised, NEW rp, Appends(whole, plan, revised, rp),
           NEW ids \in SUBSET GraphIds(whole), ids \ GraphIds(plan) # {},
           \A id \in ids : Dependencies(whole)[id] \subseteq ids
    PROVE  GraphIds(plan) \subseteq ids
<1> DEFINE deps == Dependencies(whole)
           first == Dependencies(plan)
           second == Dependencies(revised)
<1>1. GraphIds(whole) = GraphIds(plan) \cup {rp} \cup SecondIds(revised, rp)
  BY AppendedIds
<1>2. WaitsTell(deps, plan, revised, rp)
  BY AppendedWaits
<1>3. /\ DOMAIN first = GraphIds(plan) /\ IsFiniteSet(DOMAIN first)
      /\ \A waiting \in (SUBSET DOMAIN first) \ {{}} : \E id \in waiting : first[id] \cap waiting = {}
  BY SoundDependencies DEF Appends
<1>4. /\ DOMAIN second = GraphIds(revised)
      /\ \A id \in DOMAIN second : second[id] \subseteq DOMAIN second
      /\ \A waiting \in (SUBSET DOMAIN second) \ {{}} : \E id \in waiting : second[id] \cap waiting = {}
  BY SoundDependencies DEF Appends
<1>5. \A id \in ids : deps[id] \subseteq ids
  OBVIOUS
<1>6. \A u \in GraphIds(plan) : \A v : (\E e \in plan.edges : e.from = u /\ e.to = v)
                                     => v \in GraphIds(plan) /\ u \in first[v]
  BY DependenciesTell DEF Appends, Sound, Appendable
<1> HIDE DEF deps, first, second
<1>7. /\ \A id \in GraphIds(plan) : deps[id] = first[id]
      /\ \A i \in TerminalSteps(plan) : plan.nodes[i].id \in deps[rp]
      /\ \A id \in GraphIds(revised) :
           rp \in deps[rp \o id] \/ \E y \in second[id] : rp \o y \in deps[rp \o id]
  BY <1>2 DEF WaitsTell, first, second
<1>8. rp \in ids
  <2> SUFFICES ASSUME rp \notin ids PROVE FALSE
    OBVIOUS
  <2> DEFINE left == {x \in GraphIds(revised) : rp \o x \in ids}
  <2>1. left # {}
    BY <1>1, ZenonT(30) DEF SecondIds
  <2>2. left \in (SUBSET DOMAIN second) \ {{}}
    BY <1>4, <2>1
  <2>3. PICK x \in left : second[x] \cap left = {}
    <3> HIDE DEF left
    <3> QED
      BY <1>4, <2>2
  <2>4. PICK y \in second[x] : rp \o y \in deps[rp \o x]
    BY <1>5, <1>7, <2>3
  <2>5. y \in left
    BY <1>4, <1>5, <2>3, <2>4
  <2> QED
    BY <2>3, <2>4, <2>5
<1>9. \A i \in TerminalSteps(plan) : plan.nodes[i].id \in ids
  BY <1>5, <1>7, <1>8
<1> DEFINE before == GraphIds(plan) \ ids
<1>10. ASSUME NEW u \in before PROVE \E v \in before : u \in first[v]
  <2>1. PICK i \in DOMAIN plan.nodes : plan.nodes[i].id = u
    BY DEF GraphIds
  <2>2. i \notin TerminalSteps(plan)
    BY <1>9, <2>1
  <2>3. PICK e \in plan.edges : e.from = u
    BY <2>1, <2>2 DEF TerminalSteps
  <2>4. e.to \in GraphIds(plan) /\ u \in first[e.to]
    BY <1>6, <2>3
  <2>5. e.to \notin ids
    BY <1>5, <1>7, <2>4
  <2> QED
    BY <2>4, <2>5
<1>11. before = {}
  <2>1. before \in SUBSET DOMAIN first
    BY <1>3
  <2> HIDE DEF before
  <2> QED
    BY <1>3, <1>10, <2>1, NothingGoesOn
<1> QED
  BY <1>11

\* Until it is executed a plan of the orchestrator's is sound, where its steps give
\* the graph that was validated.
PlanIsSound(stage, plan) == planStage = stage /\ ~foreign => Sound(plan)

PlansIInv ==
    /\ planStage \in {"asked", "reviewing"} => base = NoGraph
    /\ PlanIsSound("reviewing", NormalizeTaskGraph(NoGraph, planned.steps))
    /\ PlanIsSound("revising", base)
    /\ PlansCanFinish

LEMMA AnswersAreSound ==
    ASSUME NEW answer \in PlanAnswers \cup RevisedAnswers,
           Accepted(NormalizeOutput(answer)),
           ~IsForeign(NormalizeOutput(NormalizeOutput(answer)))
    PROVE  Sound(NormalizeTaskGraph(NoGraph, NormalizeOutput(NormalizeOutput(answer)).steps))
<1> DEFINE output == NormalizeOutput(answer)
           final == NormalizeOutput(output)
<1>1. StepsNamed(answer.steps)
  BY ContractAssumption DEF StepsNamed, IsAnswer
<1>2. StepsNamed(output.steps)
  BY <1>1, NormalizedIsNamed
<1> HIDE DEF output
<1>3. StepsNamed(final.steps)
  BY <1>2, NormalizedIsNamed
<1>4. ValidTaskGraph(final.graph) /\ final.graph = BuildTaskGraph(final.steps)
  BY DEF Accepted, IsForeign, output
<1>5. NormalizeTaskGraph(NoGraph, final.steps) = BuildTaskGraph(final.steps)
  BY DEF NormalizeTaskGraph, NoGraph
<1> HIDE DEF final
<1>6. Sound(BuildTaskGraph(final.steps))
  <2>1. ValidTaskGraph(BuildTaskGraph(final.steps))
    BY <1>4
  <2> QED
    BY <1>3, <2>1, ValidIsSound
<1> QED
  BY <1>5, <1>6 DEF final, output

LEMMA SoundFinishes ==
    ASSUME NEW plan, Sound(plan)
    PROVE  CanFinish(plan) /\ DistinctIds(plan)
  BY DEF Sound

\* A second plan after a first one: the whole can finish, and the second ends it.
LEMMA SecondPlansFinish ==
    ASSUME NEW plan, Sound(plan), NEW revised, Sound(revised),
           \A id \in GraphIds(plan) : ~(Len(id) > 1)
    PROVE  LET whole == AppendReplan(plan, revised) IN
           /\ CanFinish(whole) /\ DistinctIds(whole)
           /\ IsPrefix(plan.nodes, whole.nodes) /\ plan.edges \subseteq whole.edges
           /\ \A ids \in SUBSET GraphIds(whole) :
                (/\ ids \ GraphIds(plan) # {}
                 /\ \A id \in ids : Dependencies(whole)[id] \subseteq ids)
                => GraphIds(plan) \subseteq ids
<1> DEFINE whole == AppendReplan(plan, revised)
           rp == ReplanId(plan)
<1>1. /\ IsAppended(whole, plan, revised, rp)
      /\ IsPrefix(plan.nodes, whole.nodes) /\ plan.edges \subseteq whole.edges
  BY AppendedTells
<1>2. rp \notin GraphIds(plan) /\ \E name \in STRING : rp = <<name>>
  BY ReplanIdIsFree DEF Sound
<1>3. \A id \in GraphIds(plan) : Len(id) <= 1
  <2>1. ASSUME NEW id \in GraphIds(plan) PROVE Len(id) \in Nat
    <3>1. PICK i \in DOMAIN plan.nodes : id = plan.nodes[i].id
      BY DEF GraphIds
    <3>2. plan.nodes \in Seq(PlanSteps)
      BY DEF Sound
    <3>3. plan.nodes[i] \in PlanSteps
      BY <3>2
    <3>4. id \in Seq(STRING)
      BY <3>1, <3>3 DEF PlanSteps
    <3> QED
      BY <3>4
  <2> QED
    BY <2>1
<1> HIDE DEF whole, rp
<1>4. Appends(whole, plan, revised, rp)
  BY <1>1, <1>2, <1>3 DEF Appends
<1>5. CanFinish(whole) /\ DistinctIds(whole)
  BY <1>4, AppendedCanFinish, AppendedIds
<1>6. ASSUME NEW ids \in SUBSET GraphIds(whole), ids \ GraphIds(plan) # {},
             \A id \in ids : Dependencies(whole)[id] \subseteq ids
      PROVE  GraphIds(plan) \subseteq ids
  BY <1>4, <1>6, SecondComesLast
<1> QED
  BY <1>1, <1>5, <1>6 DEF whole


LEMMA PlansStart == ContractInit => PlansIInv
  BY DEF ContractInit, PlansIInv, PlanIsSound, PlansCanFinish, ExecutedCanFinish,
         RevisionComesLast, IsExecuted

LEMMA PlansStep == PlansIInv /\ [ContractNext]_contractVars => PlansIInv'
<1> SUFFICES ASSUME PlansIInv, [ContractNext]_contractVars
             PROVE  PlansIInv'
  OBVIOUS
<1>1. ASSUME NEW answer \in PlanAnswers, planStage = "asked", Orchestrate(answer)
      PROVE  PlansIInv'
  <2> DEFINE output == NormalizeOutput(answer)
  <2>1. CASE Accepted(output)
    <3>1. /\ planned' = NormalizeOutput(output) /\ foreign' = IsForeign(planned')
          /\ planStage' = "reviewing" /\ base' = NoGraph
      BY <1>1, <2>1 DEF Orchestrate, PlansIInv
    <3>2. ~foreign' => Sound(NormalizeTaskGraph(NoGraph, planned'.steps))
      BY <2>1, <3>1, AnswersAreSound
    <3> QED
      BY <3>1, <3>2 DEF PlansIInv, PlanIsSound, PlansCanFinish, ExecutedCanFinish,
                        RevisionComesLast, IsExecuted
  <2>2. CASE ~Accepted(output)
    BY <1>1, <2>2 DEF Orchestrate, PlansIInv, PlanIsSound, PlansCanFinish, ExecutedCanFinish,
                      RevisionComesLast, IsExecuted
  <2> QED
    BY <2>1, <2>2
<1>2. ASSUME CriticAccepts
      PROVE  PlansIInv'
  <2>1. /\ planStage = "reviewing" /\ planStage' = "executing" /\ foreign' = foreign
        /\ active' = NormalizeTaskGraph(NoGraph, planned.steps) /\ base' = NoGraph
    BY <1>2 DEF CriticAccepts, PlansIInv
  <2>2. ~foreign' => CanFinish(active') /\ DistinctIds(active')
    <3>1. ~foreign => Sound(NormalizeTaskGraph(NoGraph, planned.steps))
      BY <2>1 DEF PlansIInv, PlanIsSound
    <3>2. ~foreign => CanFinish(NormalizeTaskGraph(NoGraph, planned.steps))
                      /\ DistinctIds(NormalizeTaskGraph(NoGraph, planned.steps))
      BY <3>1, SoundFinishes
    <3> QED
      BY <2>1, <3>2
  <2>3. PlansCanFinish'
    BY <2>1, <2>2 DEF PlansCanFinish, ExecutedCanFinish, RevisionComesLast
  <2> QED
    BY <2>1, <2>3 DEF PlansIInv, PlanIsSound
<1>3. ASSUME CriticRejects
      PROVE  PlansIInv'
  <2>1. /\ planStage = "reviewing" /\ planStage' = "revising" /\ foreign' = foreign
        /\ base' = NormalizeTaskGraph(NoGraph, planned.steps)
    BY <1>3 DEF CriticRejects
  <2>2. ~foreign => Sound(NormalizeTaskGraph(NoGraph, planned.steps))
    BY <2>1 DEF PlansIInv, PlanIsSound
  <2> QED
    BY <2>1, <2>2 DEF PlansIInv, PlanIsSound, PlansCanFinish, ExecutedCanFinish,
                      RevisionComesLast, IsExecuted
<1>4. ASSUME NEW answer \in RevisedAnswers, Revise(answer)
      PROVE  PlansIInv'
  <2> DEFINE output == NormalizeOutput(answer)
             revised == NormalizeTaskGraph(NoGraph, NormalizeOutput(output).steps)
  <2>1. CASE Accepted(output) /\ Appendable(revised)
    <3>1. /\ planStage = "revising" /\ planStage' = "executing" /\ base' = base
          /\ active' = AppendReplan(base, revised)
          /\ foreign' = (foreign \/ IsForeign(NormalizeOutput(output)))
      BY <1>4, <2>1 DEF Revise
    <3>2. ~foreign' => Sound(base) /\ Sound(revised)
      BY <2>1, <3>1, AnswersAreSound DEF PlansIInv, PlanIsSound
    <3> HIDE DEF revised
    <3>3. ASSUME ~foreign', ~NamedLikeReplan'
          PROVE  /\ CanFinish(active') /\ DistinctIds(active')
                 /\ IsPrefix(base.nodes, active'.nodes) /\ base.edges \subseteq active'.edges
                 /\ \A ids \in SUBSET GraphIds(active') :
                      (/\ ids \ GraphIds(base) # {}
                       /\ \A id \in ids : Dependencies(active')[id] \subseteq ids)
                      => GraphIds(base) \subseteq ids
      <4>1. \A id \in GraphIds(base) : ~(Len(id) > 1)
        BY <3>1, <3>3 DEF NamedLikeReplan
      <4>2. Sound(base) /\ Sound(revised)
        BY <3>2, <3>3
      <4> DEFINE whole == AppendReplan(base, revised)
      <4>3. /\ CanFinish(whole) /\ DistinctIds(whole)
            /\ IsPrefix(base.nodes, whole.nodes) /\ base.edges \subseteq whole.edges
            /\ \A ids \in SUBSET GraphIds(whole) :
                 (/\ ids \ GraphIds(base) # {}
                  /\ \A id \in ids : Dependencies(whole)[id] \subseteq ids)
                 => GraphIds(base) \subseteq ids
        BY <4>1, <4>2, SecondPlansFinish
      <4> QED
        BY <3>1, <4>3
    <3>4. ExecutedCanFinish'
      BY <3>3 DEF ExecutedCanFinish
    <3>5. RevisionComesLast'
      BY <3>1, <3>3 DEF RevisionComesLast
    <3> QED
      BY <3>1, <3>4, <3>5 DEF PlansIInv, PlanIsSound, PlansCanFinish
  <2>2. CASE ~(Accepted(output) /\ Appendable(revised))
    BY <1>4, <2>2 DEF Revise, PlansIInv, PlanIsSound, PlansCanFinish, ExecutedCanFinish,
                      RevisionComesLast, IsExecuted
  <2> QED
    BY <2>1, <2>2
<1>5. ASSUME NEW answer \in RevisedAnswers, RuntimeReplan(answer)
      PROVE  PlansIInv'
  <2> DEFINE output == NormalizeOutput(answer)
  <2>1. CASE Accepted(output)
    <3>1. /\ planned' = NormalizeOutput(output) /\ foreign' = IsForeign(planned')
          /\ active' = NormalizeTaskGraph(NoGraph, planned'.steps)
          /\ planStage' = "replanned" /\ base' = NoGraph
      BY <1>5, <2>1 DEF RuntimeReplan
    <3>2. ~foreign' => Sound(active')
      BY <2>1, <3>1, AnswersAreSound
    <3>3. ~foreign' => CanFinish(active') /\ DistinctIds(active')
      BY <3>2, SoundFinishes
    <3> QED
      BY <3>1, <3>3 DEF PlansIInv, PlanIsSound, PlansCanFinish, ExecutedCanFinish,
                        RevisionComesLast
  <2>2. CASE ~Accepted(output)
    BY <1>5, <2>2 DEF RuntimeReplan, PlansIInv, PlanIsSound, PlansCanFinish, ExecutedCanFinish,
                      RevisionComesLast, IsExecuted
  <2> QED
    BY <2>1, <2>2
<1>6. CASE UNCHANGED contractVars
  BY <1>6 DEF contractVars, PlansIInv, PlanIsSound, PlansCanFinish, ExecutedCanFinish,
              RevisionComesLast, IsExecuted, NamedLikeReplan
<1> QED
  BY <1>1, <1>2, <1>3, <1>4, <1>5, <1>6 DEF ContractNext

\* What is executed can be gone through to its end, and a second plan that the critic
\* asked for comes after all of the first.
THEOREM PlansFinish == ContractSpec => []PlansCanFinish
<1>1. PlansIInv => PlansCanFinish
  BY DEF PlansIInv
<1> QED
  BY <1>1, PlansStart, PlansStep, PTL DEF ContractSpec

================================================================================
