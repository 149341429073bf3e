---------------------------- MODULE RunReportProofs ----------------------------
(***************************************************************************)
(* Proofs about RunReport and RunTrace, for any plans, decisions, resumes    *)
(* and restarts.                                                            *)
(* An answer is honest because the run it is made of is sound: its approvals *)
(* were given (StepsGranted, DoneUnlocked), its records and receipts belong  *)
(* to its steps (RecordsTell, EffectsReceived), and where it stopped there   *)
(* is an open record (StopTold).  A saved context is sound in the same way,  *)
(* which is what carries this through a resume.  The items of a first run    *)
(* tell what became of its steps (RunTold), so that what is kept of a run     *)
(* tells what it answered (SnapshotsTold, LastTold, SettledTold).            *)
(***************************************************************************)
EXTENDS RunTrace, FiniteSetTheorems, SequenceTheorems, WellFoundedInduction, TLAPS

Gates == {"none", "pending", "approved", "rejected", "expired"}
Approvals == {"none", "approved", "noted", "rejected", "expired"}
RunSteps == [kind : StepKinds, after : SUBSET Nat, gate : Gates, approval : Approvals]

\* An approval of a step, or of its command, comes from a decision on that step.
StepsGranted(run) ==
    /\ run.steps \in Seq(RunSteps)
    /\ run.done \subseteq DOMAIN run.steps
    /\ \A i \in DOMAIN run.steps :
         run.steps[i].gate = "approved" \/ run.steps[i].approval \in {"approved", "noted"}
           => i \in run.granted

\* What DecisionUnlocksItsStep says of a run.
DoneUnlocked(run, auto) ==
    \A i \in run.done :
        \/ run.steps[i].gate = "none" /\ (run.steps[i].kind \in ToolKinds => auto)
        \/ i \in run.granted
        \/ run.steps[i].gate = "none" /\ run.steps[i].kind \notin ToolKinds

\* A record is of a step that has an approval of its level, and one that is open
\* although its step is done is the step's own.
RecordsTell(run) ==
    \A r \in run.records :
        /\ r.step \in DOMAIN run.steps
        /\ r.id \in {"step", "human", "command"} \X {r.step}
        /\ r.id[1] = "step" => run.steps[r.step].gate # "none"
        /\ r.id[1] = "human" => run.steps[r.step].kind = "ask"
        /\ r.id[1] = "command" => run.steps[r.step].kind \in ToolKinds
        /\ r.state \in OpenStates /\ r.step \in run.done
             => r.id[1] = "step" /\ r.step \in run.granted

EffectsReceived(run) ==
    /\ \A i \in run.effects : i \in DOMAIN run.steps /\ run.steps[i].kind \in ToolKinds
    /\ \A i \in run.effects \cap run.done : \E r \in run.receipts : r.step = i /\ r.ok

StopTold(run) ==
    /\ {run.blocked, run.failed} \subseteq {0} \cup DOMAIN run.steps
    /\ run.status \in {"completed", "failed", "blocked"}
    /\ run.status = "blocked" =>
         run.blocked # 0 /\ \E r \in run.records : r.state \in OpenStates /\ r.step = run.blocked

RunSound(run, auto) ==
    /\ StepsGranted(run) /\ DoneUnlocked(run, auto) /\ RecordsTell(run)
    /\ EffectsReceived(run) /\ StopTold(run)

Formed(run) ==
    run \in [steps : {run.steps}, remaining : {run.remaining}, done : {run.done},
              records : {run.records}, receipts : {run.receipts}, trace : {run.trace},
              status : {run.status}, blocked : {run.blocked}, failed : {run.failed},
              class : {run.class}, resumed : {run.resumed}, replanned : {run.replanned}, critical : {run.critical},
              granted : {run.granted}, effects : {run.effects}]

\* A run that goes on has come to no stop, and one that has completed did all.
Progresses(run, stage) ==
    /\ stage \in {"idle", "executing", "executed", "answered"}
    /\ run.remaining \subseteq DOMAIN run.steps /\ run.done \cap run.remaining = {}
    /\ run.status = "completed" => DOMAIN run.steps \subseteq run.done \cup run.remaining
    /\ stage = "executing" => run.status = "completed"
    /\ stage \in {"executed", "answered"} /\ run.status = "completed" => run.remaining = {}

AllSaved(saved, auto) ==
    /\ Len(saved) \in Nat /\ saved = [k \in 1 .. Len(saved) |-> saved[k]]
    /\ \A k \in 1 .. Len(saved) : saved[k] = NoContext \/ RunSound(saved[k], auto)

AnswerTold ==
    reportStage = "answered" =>
        \/ /\ answer = AnswerTo(current)
           /\ savedRuns # <<>> => savedRuns[Len(savedRuns)] \in {ContextOf(current), NoContext}
        \/ answer.status \notin {"pending_approval", "completed"}

ReportIInv ==
    /\ autoApprove \in BOOLEAN
    /\ Formed(current) /\ RunSound(current, autoApprove) /\ Progresses(current, reportStage)
    /\ AllSaved(savedRuns, autoApprove) /\ AnswerTold

-----------------------------------------------------------------------------
LEMMA StepResult ==
    ASSUME autoApprove \in BOOLEAN, NEW step \in RunSteps, NEW outcome, outcome \in ResultsOf(step)
    PROVE  /\ outcome.status \in {"completed", "failed", "blocked"}
           /\ outcome.status = "blocked" => outcome.state \in OpenStates
           /\ outcome.status = "completed" =>
                /\ ~GateShut(step) /\ step.kind # "ask"
                /\ step.kind \in ToolKinds =>
                     /\ outcome.state = "resumed"
                     /\ step.approval \in {"approved", "noted"} \/ autoApprove
<1>1. /\ step.kind \in {"tool", "reasoned", "denied", "ask", "work"}
      /\ step.gate \in Gates /\ step.approval \in Approvals
  BY DEF RunSteps, StepKinds
<1>2. CASE GateShut(step)
  <2> DEFINE open == IF step.gate \in {"rejected", "expired"} THEN step.gate ELSE "pending"
  <2>3. ResultsOf(step) = {[status |-> "blocked", state |-> open, class |-> "permission"]}
    BY <1>2, Zenon DEF ResultsOf
  <2>5. open \in {"pending", "rejected", "expired"}
    OBVIOUS
  <2> HIDE DEF open
  <2>6. \A x \in ResultsOf(step) : x = [status |-> "blocked", state |-> open, class |-> "permission"]
    BY <2>3, Zenon
  <2>1. outcome = [status |-> "blocked", state |-> open, class |-> "permission"]
    BY <2>6
  <2>2. outcome.status = "blocked" /\ outcome.state \in {"pending", "rejected", "expired"}
    BY <2>1, <2>5
  <2>4. QED
    BY <2>2 DEF OpenStates
<1>3. CASE ~GateShut(step) /\ step.kind = "work"
  <2>1. outcome \in {[status |-> "completed", state |-> "none", class |-> "none"],
                    [status |-> "failed", state |-> "none", class |-> "none"],
                    [status |-> "failed", state |-> "none", class |-> "runtime"]}
    BY <1>3 DEF ResultsOf, LacksReason
  <2>2. outcome.status \in {"completed", "failed"}
    BY <2>1
  <2>3. QED
    BY <1>3, <2>2 DEF ToolKinds
<1>4. CASE ~GateShut(step) /\ step.kind = "ask"
  <2>1. outcome \in {[status |-> "blocked", state |-> "pending", class |-> "permission"]}
    BY <1>4 DEF ResultsOf, LacksReason
  <2>2. QED
    BY <2>1 DEF OpenStates
<1>5. CASE ~GateShut(step) /\ (step.kind = "denied" \/ LacksReason(step))
  <2>1. step.kind \notin {"work", "ask"}
    BY <1>5 DEF LacksReason
  <2>2. outcome \in {[status |-> "failed", state |-> ApprovalState(step, FALSE), class |-> "permission"],
                    [status |-> "failed", state |-> "none", class |-> "runtime"]}
    BY <1>5, <2>1 DEF ResultsOf
  <2>4. \E state, class : outcome = [status |-> "failed", state |-> state, class |-> class]
    BY <2>2
  <2>5. outcome.status = "failed"
    BY <2>4
  <2>3. QED
    BY <2>5
<1>6. CASE ~GateShut(step) /\ step.kind \notin {"work", "ask", "denied"} /\ ~LacksReason(step)
  <2>1. CASE step.approval \in {"rejected", "expired"} \/ ~IsApproved(step)
    <3>1. outcome \in {[status |-> "blocked", state |-> ApprovalState(step, FALSE), class |-> "permission"],
                      [status |-> "failed", state |-> "none", class |-> "runtime"]}
      BY <1>6, <2>1 DEF ResultsOf
    <3>2. ~IsApproved(step)
      BY <2>1 DEF IsApproved
    <3>4. ApprovalState(step, FALSE) \in {"pending", "rejected", "expired"}
      BY <3>2 DEF ApprovalState
    <3>6. \/ outcome = [status |-> "blocked", state |-> ApprovalState(step, FALSE), class |-> "permission"]
          \/ outcome = [status |-> "failed", state |-> "none", class |-> "runtime"]
      BY <3>1
    <3> DEFINE state == ApprovalState(step, FALSE)
    <3> HIDE DEF state
    <3>7. \/ outcome = [status |-> "blocked", state |-> state, class |-> "permission"]
          \/ outcome = [status |-> "failed", state |-> "none", class |-> "runtime"]
      BY <3>6 DEF state
    <3>8. outcome.status \in {"blocked", "failed"} /\ (outcome.status = "blocked" => outcome.state = state)
      BY <3>7
    <3>5. /\ outcome.status \in {"blocked", "failed"}
          /\ outcome.status = "blocked" => outcome.state = ApprovalState(step, FALSE)
      BY <3>8 DEF state
    <3>3. QED
      BY <3>4, <3>5 DEF OpenStates
  <2>2. CASE step.approval \notin {"rejected", "expired"} /\ IsApproved(step)
    <3>1. outcome \in {[status |-> "completed", state |-> ApprovalState(step, TRUE), class |-> "none"],
                      [status |-> "failed", state |-> ApprovalState(step, FALSE), class |-> "runtime"],
                      [status |-> "failed", state |-> "none", class |-> "runtime"]}
      BY <1>6, <2>2 DEF ResultsOf
    <3>2. ApprovalState(step, TRUE) = "resumed"
      BY <2>2 DEF ApprovalState
    <3>3. step.approval \in {"approved", "noted"} \/ autoApprove
      BY <2>2 DEF IsApproved
    <3>6. outcome = [status |-> "completed", state |-> "resumed", class |-> "none"]
            \/ \E state : outcome = [status |-> "failed", state |-> state, class |-> "runtime"]
      BY <3>1, <3>2
    <3>4. outcome.status \in {"completed", "failed"}
          /\ (outcome.status = "completed" => outcome.state = "resumed")
      BY <3>6
    <3>5. QED
      BY <1>6, <3>3, <3>4
  <2>3. QED
    BY <2>1, <2>2
<1>7. QED
  BY <1>1, <1>2, <1>3, <1>4, <1>5, <1>6

NatLess == {pair \in Nat \X Nat : pair[1] < pair[2]}

LEMMA NatLessIsWellFounded == IsWellFoundedOn(NatLess, Nat)
<1>1. IsWellFoundedOn({pair \in Nat \X Nat : pair[1] < pair[2]}, Nat)
  BY NatLessThanWellFounded DEF OpToRel
<1>2. QED
  BY <1>1 DEF NatLess

\* Of some places of a sequence, one is the last.
LEMMA Largest ==
    ASSUME NEW n \in Nat, NEW S \in SUBSET (1 .. n), S # {}
    PROVE  Max(S) \in S
<1> DEFINE T == {x \in Nat : x <= n /\ n - x \in S}
<1>1. T \in SUBSET Nat /\ T # {}
  <2>1. PICK y \in S : TRUE
    OBVIOUS
  <2>2. n - y \in Nat /\ n - y <= n /\ n - (n - y) = y
    OBVIOUS
  <2>3. QED
    BY <2>1, <2>2
<1>2. PICK m \in T : \A x \in T : <<x, m>> \notin NatLess
  BY <1>1, WFMin, NatLessIsWellFounded
<1>3. ASSUME NEW x \in T PROVE m <= x
  <2>1. x \in Nat /\ m \in Nat /\ <<x, m>> \in Nat \X Nat /\ <<x, m>> \notin NatLess
    BY <1>1, <1>2
  <2>2. ~(<<x, m>>[1] < <<x, m>>[2])
    BY <2>1, Zenon DEF NatLess
  <2>3. QED
    BY <2>1, <2>2
<1>4. n - m \in S /\ m \in Nat /\ m <= n
  BY <1>2
<1>5. ASSUME NEW y \in S PROVE n - m >= y
  <2>1. n - y \in Nat /\ n - y <= n /\ n - (n - y) = y
    OBVIOUS
  <2>2. m <= n - y
    BY <1>3, <2>1
  <2>3. QED
    BY <1>4, <2>2
<1>6. QED
  BY <1>4, <1>5 DEF Max

-----------------------------------------------------------------------------
(* The results of a wave.                                                    *)

IsWave(run, results) ==
    \A i \in DOMAIN results : i \in run.remaining /\ results[i] \in ResultsOf(run.steps[i])

LEMMA FoldParts ==
    ASSUME NEW run, Formed(run), NEW results, NEW new, new = Fold(run, results)
    PROVE  /\ Formed(new)
           /\ new.steps = run.steps /\ new.granted = run.granted
           /\ new.remaining = run.remaining \ DOMAIN results
           /\ new.done = run.done \cup Told(results, "completed")
           /\ new.status = IF Stopped(results) = {} THEN run.status
                           ELSE results[Max(Stopped(results))].status
           /\ new.blocked = Latest(Told(results, "blocked"), run.blocked)
           /\ new.failed = Latest(Told(results, "failed"), run.failed)
           /\ new.records = {r \in run.records : \A rec \in NewRecords(run, results) : r.id # rec.id}
                              \cup NewRecords(run, results)
           /\ new.receipts = {r \in run.receipts : r.step \notin RanIn(run, results)} \cup
                               NewReceipts(run, results)
           /\ new.effects = run.effects \cup Acted(run, results)
           /\ new.trace = run.trace \o Items(results) /\ new.resumed = run.resumed
<1> DEFINE status == IF Stopped(results) = {} THEN run.status
                     ELSE results[Max(Stopped(results))].status
           blocked == Latest(Told(results, "blocked"), run.blocked)
           failed == Latest(Told(results, "failed"), run.failed)
           records == {r \in run.records : \A rec \in NewRecords(run, results) : r.id # rec.id}
                              \cup NewRecords(run, results)
           receipts == {r \in run.receipts : r.step \notin RanIn(run, results)} \cup
                               NewReceipts(run, results)
           effects == run.effects \cup Acted(run, results)
           class == IF Told(results, "failed") = {} THEN run.class
                    ELSE results[Max(Told(results, "failed"))].class
           done == run.done \cup Told(results, "completed")
           remaining == run.remaining \ DOMAIN results
           trace == run.trace \o Items(results)
<1>1. new = [run EXCEPT !.remaining = remaining, !.trace = trace, !.done = done, !.status = status,
                        !.blocked = blocked, !.failed = failed, !.class = class, !.records = records,
                        !.receipts = receipts, !.effects = effects]
  BY Zenon DEF Fold
<1> HIDE DEF status, blocked, failed, class, records, receipts, effects, done, remaining, trace
<1> DEFINE first == [run EXCEPT !.remaining = remaining, !.trace = trace, !.done = done,
                                !.status = status, !.blocked = blocked]
<1>6. first \in [steps : {run.steps}, remaining : {remaining}, done : {done},
                 records : {run.records}, receipts : {run.receipts}, trace : {trace},
                 status : {status}, blocked : {blocked}, failed : {run.failed},
                 class : {run.class}, resumed : {run.resumed}, replanned : {run.replanned}, critical : {run.critical},
                 granted : {run.granted}, effects : {run.effects}]
  BY DEF Formed
<1>7. new = [first EXCEPT !.failed = failed, !.class = class, !.records = records, !.receipts = receipts,
                          !.effects = effects]
  BY <1>1
<1> HIDE DEF first
<1>2. new \in [steps : {run.steps}, remaining : {remaining}, done : {done},
               records : {records}, receipts : {receipts}, trace : {trace}, status : {status},
               blocked : {blocked}, failed : {failed}, class : {class}, resumed : {run.resumed},
               replanned : {run.replanned}, critical : {run.critical},
               granted : {run.granted}, effects : {effects}]
  BY <1>6, <1>7, ZenonT(30)
<1>3. Formed(new)
  BY <1>2 DEF Formed
<1>4. /\ new.steps = run.steps /\ new.granted = run.granted
      /\ new.remaining = remaining /\ new.done = done /\ new.status = status
      /\ new.blocked = blocked /\ new.failed = failed /\ new.records = records
      /\ new.receipts = receipts /\ new.effects = effects
      /\ new.trace = trace /\ new.resumed = run.resumed
  BY <1>2
<1>5. QED
  BY <1>3, <1>4 DEF status, blocked, failed, records, receipts, effects, done, remaining, trace

\* The step that is told of last is one of those that are.
LEMMA LatestIsOne ==
    ASSUME NEW run, NEW stage, StepsGranted(run), Progresses(run, stage),
           NEW ids \in SUBSET run.remaining, NEW otherwise
    PROVE  /\ ids # {} => Max(ids) \in ids
           /\ Latest(ids, otherwise) \in ids \cup {otherwise}
           /\ ids # {} => Latest(ids, otherwise) \in ids
<1>1. ids \in SUBSET (1 .. Len(run.steps)) /\ Len(run.steps) \in Nat
  BY LenProperties DEF StepsGranted, Progresses
<1>2. ids # {} => Max(ids) \in ids
  BY <1>1, Largest
<1>3. QED
  BY <1>2 DEF Latest

LEMMA WaveSteps ==
    ASSUME autoApprove \in BOOLEAN, NEW run, NEW stage, StepsGranted(run), Progresses(run, stage),
           NEW results, IsWave(run, results)
    PROVE  /\ DOMAIN results \subseteq run.remaining /\ DOMAIN results \subseteq DOMAIN run.steps
           /\ \A i \in DOMAIN results :
                /\ run.steps[i] \in RunSteps
                /\ results[i].status \in {"completed", "failed", "blocked"}
                /\ results[i].status = "blocked" => results[i].state \in OpenStates
                /\ results[i].status = "completed" =>
                     /\ ~GateShut(run.steps[i]) /\ run.steps[i].kind # "ask"
                     /\ run.steps[i].kind \in ToolKinds =>
                          /\ results[i].state = "resumed"
                          /\ run.steps[i].approval \in {"approved", "noted"} \/ autoApprove
<1>1. DOMAIN results \subseteq run.remaining /\ DOMAIN results \subseteq DOMAIN run.steps
  BY DEF IsWave, Progresses
<1>2. ASSUME NEW i \in DOMAIN results PROVE run.steps[i] \in RunSteps
  BY <1>1, ElementOfSeq DEF StepsGranted
<1>3. ASSUME NEW i \in DOMAIN results PROVE results[i] \in ResultsOf(run.steps[i])
  BY DEF IsWave
<1>4. QED
  BY <1>1, <1>2, <1>3, StepResult

\* A wave leaves a run sound.
LEMMA WaveSound ==
    ASSUME autoApprove \in BOOLEAN, NEW run, NEW stage, Formed(run), RunSound(run, autoApprove),
           Progresses(run, stage), run.status = "completed",
           NEW results, IsWave(run, results), NEW new, new = Fold(run, results)
    PROVE  Formed(new) /\ RunSound(new, autoApprove)
<1> DEFINE completed == Told(results, "completed")
           blocked == Told(results, "blocked")
           failed == Told(results, "failed")
           ran == RanIn(run, results)
           records == NewRecords(run, results)
           receipts == NewReceipts(run, results)
<1>1. /\ Formed(new)
      /\ new.steps = run.steps /\ new.granted = run.granted
      /\ new.done = run.done \cup completed
      /\ new.status = IF Stopped(results) = {} THEN run.status ELSE results[Max(Stopped(results))].status
      /\ new.blocked = Latest(blocked, run.blocked)
      /\ new.failed = Latest(failed, run.failed)
      /\ new.records = {r \in run.records : \A rec \in records : r.id # rec.id} \cup records
      /\ new.receipts = {r \in run.receipts : r.step \notin ran} \cup receipts
      /\ new.effects = run.effects \cup Acted(run, results)
  BY FoldParts
<1>2. /\ DOMAIN results \subseteq run.remaining /\ DOMAIN results \subseteq DOMAIN run.steps
      /\ completed \subseteq DOMAIN results /\ blocked \subseteq DOMAIN results
      /\ failed \subseteq DOMAIN results /\ ran \subseteq DOMAIN results
  BY WaveSteps DEF RunSound, Told, RanIn
<1>3. ASSUME NEW i \in completed
      PROVE  /\ i \in DOMAIN results /\ run.steps[i] \in RunSteps
             /\ run.steps[i].gate \in {"none", "approved"} /\ run.steps[i].kind # "ask"
             /\ run.steps[i].kind \in ToolKinds =>
                  /\ i \in ran /\ results[i].state = "resumed"
                  /\ run.steps[i].approval \in {"approved", "noted"} \/ autoApprove
  <2>1. i \in DOMAIN results /\ results[i].status = "completed"
    BY DEF Told
  <2>2. /\ run.steps[i] \in RunSteps /\ ~GateShut(run.steps[i]) /\ run.steps[i].kind # "ask"
        /\ run.steps[i].kind \in ToolKinds =>
             /\ results[i].state = "resumed"
             /\ run.steps[i].approval \in {"approved", "noted"} \/ autoApprove
    BY <2>1, WaveSteps DEF RunSound
  <2>3. QED
    BY <2>1, <2>2 DEF GateShut, RanIn, RunsCommand
<1>4. ASSUME NEW rec \in records
      PROVE  /\ rec.step \in DOMAIN results /\ rec.state = results[rec.step].state
             /\ rec.id \in {"step", "human", "command"} \X {rec.step}
             /\ rec.id[1] = "step" => GateShut(run.steps[rec.step])
             /\ rec.id[1] = "human" => run.steps[rec.step].kind = "ask"
             /\ rec.id[1] = "command" =>
                  ~GateShut(run.steps[rec.step]) /\ run.steps[rec.step].kind # "ask"
             /\ results[rec.step].state # "none"
  <2>1. PICK i \in DOMAIN results :
          results[i].state # "none" /\ rec = RecordOf(run, i, results[i].state)
    BY DEF NewRecords
  <2> DEFINE level == CASE GateShut(run.steps[i])                              -> "step"
                        [] ~GateShut(run.steps[i]) /\ run.steps[i].kind = "ask" -> "human"
                        [] OTHER                                               -> "command"
  <2>2. rec = [id |-> <<level, i>>, step |-> i, state |-> results[i].state]
    BY <2>1 DEF RecordOf
  <2>3. /\ level \in {"step", "human", "command"}
        /\ level = "step" => GateShut(run.steps[i])
        /\ level = "human" => run.steps[i].kind = "ask"
        /\ level = "command" => ~GateShut(run.steps[i]) /\ run.steps[i].kind # "ask"
    BY DEF GateShut
  <2> HIDE DEF level
  <2>4. rec.step = i /\ rec.state = results[i].state /\ rec.id = <<level, i>> /\ rec.id[1] = level
    BY <2>2
  <2>5. QED
    BY <2>1, <2>3, <2>4
<1>5. ASSUME NEW i \in DOMAIN results, results[i].state # "none"
      PROVE  \E rec \in records : rec.step = i /\ rec.state = results[i].state
                                 /\ (i \in ran => rec.id = <<"command", i>>)
  <2>1. RecordOf(run, i, results[i].state) \in records
    BY <1>5 DEF NewRecords
  <2>2. /\ RecordOf(run, i, results[i].state).step = i
        /\ RecordOf(run, i, results[i].state).state = results[i].state
    BY DEF RecordOf
  <2>3. i \in ran => RecordOf(run, i, results[i].state).id = <<"command", i>>
    <3>1. i \in ran => ~GateShut(run.steps[i]) /\ run.steps[i].kind # "ask"
      BY DEF RanIn, RunsCommand, ToolKinds
    <3>2. QED
      BY <3>1 DEF RecordOf
  <2>4. QED
    BY <2>1, <2>2, <2>3
<1>6. run.done \cap completed = {}
  BY <1>2 DEF Progresses
<1> HIDE DEF completed, blocked, failed, ran, records, receipts
<1>7. StepsGranted(new)
  BY <1>1, <1>2 DEF RunSound, StepsGranted
<1>8. DoneUnlocked(new, autoApprove)
  <2>1. ASSUME NEW i \in completed, i \notin run.granted
        PROVE  run.steps[i].gate = "none" /\ (run.steps[i].kind \in ToolKinds => autoApprove)
    BY <1>2, <1>3, <2>1 DEF RunSound, StepsGranted
  <2>2. QED
    BY <1>1, <2>1 DEF RunSound, DoneUnlocked
<1>9. RecordsTell(new)
  <2>1. ASSUME NEW r \in records
        PROVE  /\ r.step \in DOMAIN run.steps
               /\ r.id \in {"step", "human", "command"} \X {r.step}
               /\ r.id[1] = "step" => run.steps[r.step].gate # "none"
               /\ r.id[1] = "human" => run.steps[r.step].kind = "ask"
               /\ r.id[1] = "command" => run.steps[r.step].kind \in ToolKinds
               /\ r.state \notin OpenStates \/ r.step \notin new.done
    <3>1. /\ r.step \in DOMAIN results /\ r.step \in run.remaining /\ r.step \in DOMAIN run.steps
          /\ r.state = results[r.step].state
          /\ r.id[1] = "step" => run.steps[r.step].gate # "none"
      BY <1>2, <1>4 DEF GateShut
    <3>2. ASSUME r.id[1] = "command" PROVE run.steps[r.step].kind \in ToolKinds
      <4>1. /\ ~GateShut(run.steps[r.step]) /\ run.steps[r.step].kind # "ask"
            /\ results[r.step].state # "none"
        BY <1>4, <3>2
      <4>2. run.steps[r.step] \in RunSteps /\ results[r.step] \in ResultsOf(run.steps[r.step])
        BY <3>1, WaveSteps DEF RunSound, IsWave
      <4>3. run.steps[r.step].kind # "work"
        <5>1. SUFFICES ASSUME run.steps[r.step].kind = "work" PROVE FALSE
          OBVIOUS
        <5>2. results[r.step] \in {[status |-> "completed", state |-> "none", class |-> "none"],
                                   [status |-> "failed", state |-> "none", class |-> "none"],
                                   [status |-> "failed", state |-> "none", class |-> "runtime"]}
          BY <4>1, <4>2, <5>1 DEF ResultsOf, LacksReason
        <5>3. QED
          BY <4>1, <5>2
      <4>4. QED
        BY <4>1, <4>2, <4>3 DEF RunSteps, StepKinds, ToolKinds
    <3>3. r.step \in completed => r.state \notin OpenStates
      <4>1. r.step \in completed => run.steps[r.step].kind \notin ToolKinds \/ r.state = "resumed"
        BY <1>3, <3>1
      <4>2. r.step \in completed => r.id[1] # "human" /\ r.id[1] # "step"
        BY <1>3, <1>4 DEF GateShut
      <4>3. r.id[1] \in {"step", "human", "command"}
        BY <1>4
      <4>4. QED
        BY <3>2, <4>1, <4>2, <4>3 DEF OpenStates
    <3>4. r.step \notin run.done
      BY <3>1 DEF Progresses
    <3>5. QED
      BY <1>1, <1>4, <3>1, <3>2, <3>3, <3>4
  <2>2. ASSUME NEW r \in run.records, \A rec \in records : r.id # rec.id,
               r.state \in OpenStates, r.step \in new.done
        PROVE  r.id[1] = "step" /\ r.step \in run.granted
    <3>1. CASE r.step \in run.done
      BY <2>2, <3>1 DEF RunSound, RecordsTell
    <3>2. CASE r.step \in completed
      <4>1. /\ r.id \in {"step", "human", "command"} \X {r.step}
            /\ r.step \in DOMAIN run.steps
            /\ r.id[1] = "step" => run.steps[r.step].gate # "none"
            /\ r.id[1] = "human" => run.steps[r.step].kind = "ask"
            /\ r.id[1] = "command" => run.steps[r.step].kind \in ToolKinds
        BY DEF RunSound, RecordsTell
      <4>2. r.id[1] # "human"
        BY <1>3, <3>2, <4>1
      <4>3. r.id[1] # "command"
        <5>1. SUFFICES ASSUME r.id[1] = "command" PROVE FALSE
          OBVIOUS
        <5>2. r.step \in ran /\ r.step \in DOMAIN results /\ results[r.step].state = "resumed"
          BY <1>3, <3>2, <4>1, <5>1
        <5>3. PICK rec \in records : rec.id = <<"command", r.step>>
          BY <1>5, <5>2
        <5>4. r.id = <<"command", r.step>>
          BY <4>1, <5>1
        <5>5. QED
          BY <2>2, <5>3, <5>4
      <4>4. r.id[1] = "step" /\ run.steps[r.step].gate # "none"
        BY <4>1, <4>2, <4>3
      <4>5. r.step \in run.granted
        BY <1>3, <3>2, <4>1, <4>4 DEF RunSound, StepsGranted
      <4>6. QED
        BY <4>4, <4>5
    <3>3. QED
      BY <1>1, <2>2, <3>1, <3>2
  <2>3. QED
    BY <1>1, <2>1, <2>2 DEF RunSound, RecordsTell
<1>10. EffectsReceived(new)
  <2>1. ASSUME NEW i \in Acted(run, results)
        PROVE  i \in DOMAIN run.steps /\ run.steps[i].kind \in ToolKinds
    BY <1>2 DEF Acted, PassesGates, RunsCommand
  <2>2. ASSUME NEW i \in run.effects \cap run.done
        PROVE  \E r \in new.receipts : r.step = i /\ r.ok
    <3>1. PICK r \in run.receipts : r.step = i /\ r.ok
      BY DEF RunSound, EffectsReceived
    <3>2. i \notin ran
      BY <1>2 DEF Progresses
    <3>3. QED
      BY <1>1, <3>1, <3>2
  <2>3. ASSUME NEW i \in new.effects \cap completed
        PROVE  \E r \in new.receipts : r.step = i /\ r.ok
    <3>1. run.steps[i].kind \in ToolKinds
      BY <1>1, <2>1, <2>3 DEF RunSound, EffectsReceived
    <3>2. i \in ran /\ results[i].status = "completed"
      BY <1>3, <3>1 DEF completed, Told
    <3>3. [step |-> i, state |-> results[i].state, ok |-> results[i].status = "completed"] \in receipts
      BY <3>2 DEF receipts, NewReceipts, ran
    <3>4. receipts \subseteq new.receipts
      BY <1>1
    <3>5. /\ [step |-> i, state |-> results[i].state, ok |-> results[i].status = "completed"].step = i
          /\ [step |-> i, state |-> results[i].state, ok |-> results[i].status = "completed"].ok
                = (results[i].status = "completed")
      BY Zenon
    <3>6. QED
      BY <3>2, <3>3, <3>4, <3>5, Zenon
  <2>4. new.effects \cap new.done \subseteq (run.effects \cap run.done) \cup (new.effects \cap completed)
    BY <1>1, <1>2 DEF Progresses, Acted
  <2>5. QED
    BY <1>1, <2>1, <2>2, <2>3, <2>4 DEF RunSound, EffectsReceived
<1>11. StopTold(new)
  <2>1. /\ Latest(blocked, run.blocked) \in blocked \cup {run.blocked}
        /\ Latest(failed, run.failed) \in failed \cup {run.failed}
        /\ blocked # {} => Latest(blocked, run.blocked) \in blocked
        /\ Stopped(results) # {} => Max(Stopped(results)) \in Stopped(results)
    <3>1. Stopped(results) = blocked \cup failed
      BY DEF Stopped, blocked, failed
    <3>2. blocked \in SUBSET run.remaining /\ failed \in SUBSET run.remaining
          /\ Stopped(results) \in SUBSET run.remaining
      BY <1>2, <3>1
    <3>3. QED
      BY <3>2, LatestIsOne DEF RunSound
  <2>2. {new.blocked, new.failed} \subseteq {0} \cup DOMAIN new.steps
    BY <1>1, <1>2, <2>1 DEF RunSound, StopTold
  <2>3. ASSUME Stopped(results) # {}
        PROVE  /\ new.status \in {"blocked", "failed"}
               /\ new.status = "blocked" => blocked # {}
    BY <1>1, <2>1, <2>3 DEF Stopped, Told, blocked
  <2>4. ASSUME new.status = "blocked"
        PROVE  /\ new.blocked # 0
               /\ \E r \in new.records : r.state \in OpenStates /\ r.step = new.blocked
    <3>1. Stopped(results) # {} /\ blocked # {}
      BY <1>1, <2>3, <2>4
    <3>2. new.blocked \in blocked
      BY <1>1, <2>1, <3>1
    <3>3. /\ new.blocked \in DOMAIN results /\ results[new.blocked].status = "blocked"
      BY <3>2 DEF blocked, Told
    <3>4. results[new.blocked].state \in OpenStates
      BY <3>3, WaveSteps DEF RunSound
    <3>5. PICK rec \in records : rec.step = new.blocked /\ rec.state = results[new.blocked].state
      BY <1>5, <3>3, <3>4 DEF OpenStates
    <3>6. new.blocked # 0
      BY <1>2, <3>3, LenProperties DEF RunSound, StepsGranted
    <3>7. QED
      BY <1>1, <3>4, <3>5, <3>6
  <2>5. new.status \in {"completed", "failed", "blocked"}
    BY <1>1, <2>3
  <2>6. QED
    BY <2>2, <2>4, <2>5 DEF StopTold
<1>12. QED
  BY <1>1, <1>7, <1>8, <1>9, <1>10, <1>11 DEF RunSound

LEMMA WaveProgresses ==
    ASSUME autoApprove \in BOOLEAN, NEW run, Formed(run), RunSound(run, autoApprove),
           Progresses(run, "executing"),
           NEW results, IsWave(run, results), NEW new, new = Fold(run, results),
           NEW stage, stage = IF new.status # "completed" \/ new.remaining = {}
                              THEN "executed" ELSE "executing"
    PROVE  Progresses(new, stage)
<1>1. /\ new.steps = run.steps /\ new.remaining = run.remaining \ DOMAIN results
      /\ new.done = run.done \cup Told(results, "completed")
      /\ new.status = IF Stopped(results) = {} THEN run.status
                      ELSE results[Max(Stopped(results))].status
  BY FoldParts
<1>2. /\ DOMAIN results \subseteq run.remaining /\ DOMAIN results \subseteq DOMAIN run.steps
      /\ \A i \in DOMAIN results : results[i].status \in {"completed", "failed", "blocked"}
  BY WaveSteps DEF RunSound
<1>3. Told(results, "completed") \subseteq DOMAIN results
  BY DEF Told
<1>4. new.status = "completed" => DOMAIN run.steps \subseteq new.done \cup new.remaining
  <2>1. SUFFICES ASSUME new.status = "completed" PROVE DOMAIN run.steps \subseteq new.done \cup new.remaining
    OBVIOUS
  <2>2. Stopped(results) = {}
    <3>1. SUFFICES ASSUME Stopped(results) # {} PROVE FALSE
      OBVIOUS
    <3>2. Stopped(results) \in SUBSET run.remaining
      BY <1>2 DEF Stopped, Told
    <3>3. Max(Stopped(results)) \in Stopped(results)
      BY <3>1, <3>2, LatestIsOne DEF RunSound
    <3>4. results[Max(Stopped(results))].status # "completed"
      BY <3>3 DEF Stopped, Told
    <3>5. QED
      BY <1>1, <2>1, <3>1, <3>4
  <2>3. DOMAIN results \subseteq Told(results, "completed")
    BY <1>2, <2>2 DEF Stopped, Told
  <2>4. run.status = "completed"
    BY DEF Progresses
  <2>5. QED
    BY <1>1, <2>3, <2>4 DEF Progresses
<1>5. new.remaining \subseteq DOMAIN new.steps /\ new.done \cap new.remaining = {}
  BY <1>1, <1>3 DEF Progresses
<1>6. QED
  BY <1>1, <1>4, <1>5 DEF Progresses

-----------------------------------------------------------------------------
(* Runs that begin.                                                          *)

PlanForms == Seq([kind : StepKinds, gated : BOOLEAN, after : SUBSET Nat])

\* A run of a plan that nothing has been done of.
BeginsWith(new, plan) ==
    /\ Formed(new) /\ new.steps = Fresh(plan).steps /\ new.remaining = DOMAIN plan
    /\ new.done = {} /\ new.records = {} /\ new.receipts = {} /\ new.effects = {}
    /\ new.granted = {} /\ new.blocked = 0 /\ new.failed = 0

LEMMA FreshBegins ==
    ASSUME NEW plan, NEW critical, NEW new,
           \/ new = [Fresh(plan) EXCEPT !.replanned = TRUE, !.critical = critical]
           \/ new = [Fresh(plan) EXCEPT !.critical = critical]
    PROVE  /\ BeginsWith(new, plan) /\ new.status = "completed"
           /\ new.trace = <<>> /\ new.resumed = FALSE
<1> DEFINE steps == [i \in DOMAIN plan |-> Planned(plan[i])]
<1>1. /\ Fresh(plan) \in [steps : {steps}, remaining : {DOMAIN plan}, done : {{}}, records : {{}},
            receipts : {{}}, trace : {<<>>}, status : {"completed"}, blocked : {0}, failed : {0},
            class : {"none"}, resumed : {FALSE}, replanned : {FALSE}, critical : {FALSE},
            granted : {{}}, effects : {{}}]
      /\ Fresh(plan).steps = steps
  BY DEF Fresh
<1> HIDE DEF steps
<1>2. new \in [steps : {steps}, remaining : {DOMAIN plan}, done : {{}}, records : {{}},
            receipts : {{}}, trace : {<<>>}, status : {"completed"}, blocked : {0}, failed : {0},
            class : {"none"}, resumed : {FALSE}, replanned : BOOLEAN, critical : {critical}, granted : {{}},
            effects : {{}}]
  BY <1>1, ZenonT(30)
<1>3. Formed(new)
  BY <1>2 DEF Formed
<1>4. QED
  BY <1>1, <1>2, <1>3 DEF BeginsWith

LEMMA BegunIsSound ==
    ASSUME NEW plan \in PlanForms, NEW new, BeginsWith(new, plan), NEW auto,
           new.status \in {"completed", "failed"}, NEW stage,
           \/ new.status = "completed" /\ stage = IF plan = <<>> THEN "executed" ELSE "executing"
           \/ plan = <<>> /\ stage \in {"idle", "answered"}
    PROVE  RunSound(new, auto) /\ Progresses(new, stage)
<1>1. new.steps = [i \in DOMAIN plan |-> Planned(plan[i])]
  BY DEF BeginsWith, Fresh
<1>2. plan \in Seq([kind : StepKinds, gated : BOOLEAN, after : SUBSET Nat])
  BY DEF PlanForms
<1>3. ASSUME NEW i \in DOMAIN plan
      PROVE  /\ Planned(plan[i]) \in RunSteps
             /\ Planned(plan[i]).gate # "approved" /\ Planned(plan[i]).approval = "none"
  <2>1. plan[i] \in [kind : StepKinds, gated : BOOLEAN, after : SUBSET Nat]
    <3>1. i \in 1 .. Len(plan)
      BY <1>2, LenProperties
    <3> DEFINE forms == [kind : StepKinds, gated : BOOLEAN, after : SUBSET Nat]
    <3>2. plan \in Seq(forms)
      BY <1>2
    <3> HIDE DEF forms
    <3>3. plan[i] \in forms
      BY <3>1, <3>2, ElementOfSeq
    <3>4. QED
      BY <3>3 DEF forms
  <2>2. QED
    BY <2>1 DEF Planned, RunSteps, Gates, Approvals
<1>4. DOMAIN plan = 1 .. Len(plan) /\ Len(plan) \in Nat
  BY <1>2, LenProperties
<1>5. new.steps \in Seq(RunSteps)
  BY <1>1, <1>3, <1>4
<1>6. StepsGranted(new)
  BY <1>1, <1>3, <1>5 DEF StepsGranted, BeginsWith
<1>7. DoneUnlocked(new, auto) /\ RecordsTell(new) /\ EffectsReceived(new) /\ StopTold(new)
  BY DEF BeginsWith, DoneUnlocked, RecordsTell, EffectsReceived, StopTold
<1>8. DOMAIN new.steps = DOMAIN plan /\ new.remaining = DOMAIN plan /\ new.done = {}
  BY <1>1 DEF BeginsWith
<1>9. plan = <<>> => DOMAIN plan = {}
  OBVIOUS
<1>10. Progresses(new, stage)
  BY <1>8, <1>9 DEF Progresses
<1>11. QED
  BY <1>6, <1>7, <1>10 DEF RunSound

\* What a resumed run begins with is as sound as the context it resumes.
LEMMA ResumedIsSound ==
    ASSUME NEW auto, NEW context, RunSound(context, auto),
           NEW step \in {0} \cup DOMAIN context.steps, NEW decision \in ApprovalDecisions,
           NEW new, new = Resumed(context, step, decision),
           NEW stage, stage = IF new.remaining = {} THEN "executed" ELSE "executing"
    PROVE  Formed(new) /\ RunSound(new, auto) /\ Progresses(new, stage)
<1> DEFINE target == TargetIn(context, step)
           again == Dependents(context.steps, target)
           steps == Decided(context, target, decision)
           granted == IF decision.state = "approved" /\ target # 0
                      THEN context.granted \cup {target} ELSE context.granted
           remaining == DOMAIN context.steps \ (context.done \ again)
           done == context.done \ again
<1>1. target \in {0} \cup DOMAIN context.steps
  BY DEF TargetIn, RunSound, StopTold
<1>2. target \in DOMAIN context.steps => target \in again
  BY DEF Dependents
<1>3. /\ decision.state \in {"none", "approved", "rejected", "expired"}
      /\ decision.noted \in BOOLEAN
  <2>1. ApprovalDecisions
          \subseteq [state : {"none", "approved", "rejected", "expired"}, noted : BOOLEAN]
    BY DEF ApprovalDecisions, NoDecision
  <2>2. QED
    BY <2>1
<1>4. /\ context.steps \in Seq(RunSteps) /\ DOMAIN context.steps = 1 .. Len(context.steps)
      /\ Len(context.steps) \in Nat /\ 0 \notin DOMAIN context.steps
      /\ \A i \in DOMAIN context.steps : context.steps[i] \in RunSteps
  BY ElementOfSeq, LenProperties DEF RunSound, StepsGranted
<1>5. new \in [steps : {steps}, remaining : {remaining}, trace : {context.trace}, done : {done},
               records : {context.records}, receipts : {context.receipts}, status : {"completed"},
               blocked : {0}, failed : {0}, class : {"none"}, resumed : {TRUE}, replanned : {FALSE},
               critical : {FALSE}, effects : {context.effects}, granted : {granted}]
  BY Zenon DEF Resumed
<1> DEFINE written == [i \in DOMAIN context.steps |->
             IF i = target /\ decision.state # "none"
             THEN [kind |-> context.steps[i].kind, after |-> context.steps[i].after,
                   gate |-> IF context.steps[i].gate = "none" THEN "none" ELSE decision.state,
                   approval |-> IF context.steps[i].kind \notin ToolKinds
                                THEN context.steps[i].approval
                                ELSE IF decision.state = "approved" /\ decision.noted THEN "noted"
                                ELSE decision.state]
             ELSE context.steps[i]]
<1>6. steps = written
  <2>1. CASE decision.state = "none" \/ target = 0
    BY <1>4, <2>1 DEF Decided
  <2>2. CASE decision.state # "none" /\ target # 0
    <3> DEFINE old == context.steps[target]
               gate == IF old.gate = "none" THEN old.gate ELSE decision.state
               approval == IF old.kind \notin ToolKinds THEN old.approval
                           ELSE IF decision.state = "approved" /\ decision.noted THEN "noted"
                           ELSE decision.state
    <3>1. target \in DOMAIN context.steps /\ old \in RunSteps
      BY <1>1, <1>4, <2>2
    <3>2. steps = [context.steps EXCEPT ![target].gate = gate, ![target].approval = approval]
      BY <2>2, Zenon DEF Decided
    <3> HIDE DEF gate, approval
    <3>3. steps = [context.steps EXCEPT ![target] = [old EXCEPT !.gate = gate, !.approval = approval]]
      BY <1>4, <3>1, <3>2
    <3>4. [old EXCEPT !.gate = gate, !.approval = approval]
            = [kind |-> old.kind, after |-> old.after, gate |-> gate, approval |-> approval]
      <4>1. old \in [kind : {old.kind}, after : {old.after}, gate : {old.gate},
                     approval : {old.approval}]
        BY <3>1 DEF RunSteps
      <4> HIDE DEF old
      <4> DEFINE changed == [old EXCEPT !.gate = gate, !.approval = approval]
      <4>2. changed \in [kind : {old.kind}, after : {old.after}, gate : {gate}, approval : {approval}]
        BY <4>1
      <4> HIDE DEF changed
      <4>3. changed = [kind |-> old.kind, after |-> old.after, gate |-> gate, approval |-> approval]
        BY <4>2
      <4>4. QED
        BY <4>3 DEF changed
    <3>5. written[target] = [kind |-> old.kind, after |-> old.after, gate |-> gate, approval |-> approval]
      BY <2>2, <3>1 DEF gate, approval
    <3>6. \A i \in DOMAIN context.steps \ {target} : written[i] = context.steps[i]
      OBVIOUS
    <3> HIDE DEF written
    <3>7. QED
      BY <1>4, <3>1, <3>3, <3>4, <3>5, <3>6 DEF written
  <2>3. QED
    BY <2>1, <2>2
<1>7. ASSUME NEW i \in DOMAIN context.steps
      PROVE  /\ written[i] \in RunSteps /\ written[i].kind = context.steps[i].kind
             /\ written[i].gate = "none" <=> context.steps[i].gate = "none"
             /\ i # target => written[i] = context.steps[i]
             /\ written[i].gate = "approved" \/ written[i].approval \in {"approved", "noted"}
                  => i \in granted
  <2>1. CASE i = target /\ decision.state # "none"
    <3>1. context.steps[i] \in RunSteps /\ target # 0
      BY <1>4, <2>1
    <3>2. QED
      BY <1>3, <2>1, <3>1 DEF RunSteps, Gates, Approvals, RunSound, StepsGranted
  <2>2. CASE i # target \/ decision.state = "none"
    BY <1>4, <2>2 DEF RunSound, StepsGranted
  <2>3. QED
    BY <2>1, <2>2
<1>8. DOMAIN written = DOMAIN context.steps /\ written \in Seq(RunSteps)
  <2>1. written \in [1 .. Len(context.steps) -> RunSteps]
    BY <1>4, <1>7
  <2> HIDE DEF written
  <2>2. QED
    BY <1>4, <2>1
<1> HIDE DEF again, steps, granted, written, remaining, done
<1>9. /\ Formed(new)
      /\ new.steps = written /\ new.remaining = remaining /\ new.done = done
      /\ new.records = context.records /\ new.receipts = context.receipts
      /\ new.status = "completed" /\ new.blocked = 0 /\ new.failed = 0
      /\ new.effects = context.effects /\ new.granted = granted
  BY <1>5, <1>6 DEF Formed
<1>10. /\ context.granted \subseteq granted /\ done \subseteq context.done
       /\ target \notin done
  BY <1>1, <1>2, <1>4 DEF granted, done, RunSound, StepsGranted
<1>11. StepsGranted(new)
  BY <1>7, <1>8, <1>9, <1>10 DEF RunSound, StepsGranted
<1>12. DoneUnlocked(new, auto)
  BY <1>7, <1>9, <1>10 DEF RunSound, StepsGranted, DoneUnlocked
<1>13. RecordsTell(new)
  BY <1>7, <1>8, <1>9, <1>10 DEF RunSound, RecordsTell
<1>14. EffectsReceived(new)
  BY <1>7, <1>8, <1>9, <1>10 DEF RunSound, EffectsReceived
<1>15. StopTold(new)
  BY <1>9 DEF StopTold
<1>16. Progresses(new, stage)
  BY <1>8, <1>9, <1>10 DEF Progresses, remaining, done
<1>17. QED
  BY <1>9, <1>11, <1>12, <1>13, <1>14, <1>15, <1>16 DEF RunSound

LEMMA SavedMore ==
    ASSUME NEW saved, NEW auto, AllSaved(saved, auto),
           NEW context, context = NoContext \/ RunSound(context, auto),
           NEW new, new = Append(saved, context)
    PROVE  AllSaved(new, auto) /\ new # <<>> /\ new[Len(new)] = context
<1> DEFINE all == {saved[k] : k \in 1 .. Len(saved)} \cup {context}
<1>1. saved \in Seq(all) /\ context \in all
  <2>1. saved \in [1 .. Len(saved) -> all] /\ Len(saved) \in Nat
    BY DEF AllSaved
  <2> HIDE DEF all
  <2>2. QED
    BY <2>1 DEF all
<1> HIDE DEF all
<1>2. /\ new \in Seq(all) /\ Len(new) = Len(saved) + 1 /\ new[Len(saved) + 1] = context
      /\ \A k \in 1 .. Len(saved) : new[k] = saved[k]
  BY <1>1, AppendProperties
<1>3. Len(new) \in Nat /\ new = [k \in 1 .. Len(new) |-> new[k]]
  BY <1>2, LenProperties
<1>4. \A k \in 1 .. Len(new) : k = Len(saved) + 1 \/ k \in 1 .. Len(saved)
  BY <1>2 DEF AllSaved
<1>5. new # <<>>
  BY <1>2 DEF AllSaved
<1>6. QED
  BY <1>2, <1>3, <1>4, <1>5 DEF AllSaved

LEMMA ContextIsSound ==
    ASSUME NEW run, NEW auto, RunSound(run, auto)
    PROVE  RunSound(ContextOf(run), auto)
<1>1. /\ ContextOf(run).steps = run.steps /\ ContextOf(run).done = run.done
      /\ ContextOf(run).records = run.records /\ ContextOf(run).receipts = run.receipts
      /\ ContextOf(run).granted = run.granted /\ ContextOf(run).effects = run.effects
      /\ ContextOf(run).status = run.status /\ ContextOf(run).blocked = run.blocked
      /\ ContextOf(run).failed = run.failed
  BY DEF ContextOf
<1>2. QED
  BY <1>1 DEF RunSound, StepsGranted, DoneUnlocked, RecordsTell, EffectsReceived, StopTold

RunIsSound(run, auto, stage) == Formed(run) /\ RunSound(run, auto) /\ Progresses(run, stage)

LEMMA FirstRun ==
    ASSUME NEW auto, NEW run, run = Fresh(<<>>) \/ run = [Fresh(<<>>) EXCEPT !.resumed = TRUE, !.status = "failed"],
           NEW stage \in {"idle", "answered"}
    PROVE  RunIsSound(run, auto, stage)
<1>1. <<>> \in PlanForms /\ DOMAIN <<>> = {}
  BY DEF PlanForms
<1> DEFINE steps == [i \in DOMAIN <<>> |-> Planned((<<>>)[i])]
<1>2. /\ Fresh(<<>>) \in [steps : {steps}, remaining : {DOMAIN <<>>}, done : {{}}, records : {{}},
            receipts : {{}}, trace : {<<>>}, status : {"completed"}, blocked : {0}, failed : {0},
            class : {"none"}, resumed : {FALSE}, replanned : {FALSE}, critical : {FALSE},
            granted : {{}}, effects : {{}}]
      /\ Fresh(<<>>).steps = steps
  BY DEF Fresh
<1> HIDE DEF steps
<1>3. run \in [steps : {steps}, remaining : {DOMAIN <<>>}, done : {{}}, records : {{}},
            receipts : {{}}, trace : {<<>>}, status : {"completed", "failed"}, blocked : {0},
            failed : {0}, class : {"none"}, resumed : BOOLEAN, replanned : {FALSE}, critical : {FALSE},
            granted : {{}}, effects : {{}}]
  BY <1>2
<1>4. Formed(run) /\ BeginsWith(run, <<>>) /\ run.status \in {"completed", "failed"}
  BY <1>2, <1>3 DEF Formed, BeginsWith
<1>5. QED
  BY <1>1, <1>4, BegunIsSound DEF RunIsSound

LEMMA ReportStep ==
    ASSUME ReportIInv, TraceNext
    PROVE  ReportIInv'
<1> USE DEF RunIsSound
<1>1. autoApprove' = autoApprove /\ remembering' = remembering
  BY DEF TraceNext, Submitted, StartRun, RuntimeReplanned, Wave, FinishRun, RecordTrace, Restart,
         Resuming, ResumeRun, ResumeFails
<1>2. ASSUME RunIsSound(current', autoApprove, reportStage'), AllSaved(savedRuns', autoApprove),
             reportStage' = "answered" =>
                \/ /\ current' = current /\ answer' = AnswerTo(current)
                   /\ savedRuns' # <<>> =>
                        savedRuns'[Len(savedRuns')] \in {ContextOf(current), NoContext}
                \/ answer'.status \notin {"pending_approval", "completed"}
      PROVE  ReportIInv'
  <2>1. AnswerTold'
    BY <1>1, <1>2 DEF AnswerTold, AnswerTo, IsAnsweredApproved, NeedsApproval,
                      RequiresManualApproval, Open, ContextOf
  <2>2. QED
    BY <1>1, <1>2, <2>1 DEF ReportIInv
<1>3. ASSUME NEW plan \in RunPlans, BeginsWith(current', plan), current'.status = "completed",
             reportStage' = IF plan = <<>> THEN "executed" ELSE "executing", savedRuns' = savedRuns
      PROVE  ReportIInv'
  <2>1. plan \in PlanForms
    BY PlanAssumption DEF PlanForms
  <2>2. \/ /\ current'.status = "completed"
           /\ reportStage' = IF plan = <<>> THEN "executed" ELSE "executing"
        \/ plan = <<>> /\ reportStage' \in {"idle", "answered"}
    BY <1>3
  <2>3. RunSound(current', autoApprove) /\ Progresses(current', reportStage')
    BY <1>3, <2>1, <2>2, BegunIsSound
  <2>4. QED
    BY <1>2, <1>3, <2>3 DEF ReportIInv, BeginsWith
<1>4. ASSUME NEW plan \in RunPlans, StartRun(plan) PROVE ReportIInv'
  <2>1. PICK critical \in BOOLEAN : current' = [Fresh(plan) EXCEPT !.critical = critical]
    BY <1>4 DEF StartRun
  <2>2. BeginsWith(current', plan) /\ current'.status = "completed"
    BY <2>1, FreshBegins
  <2>3. QED
    BY <1>3, <1>4, <2>2 DEF StartRun
<1>5. ASSUME NEW plan \in RunPlans, RuntimeReplanned(plan) PROVE ReportIInv'
  <2>1. current' = [Fresh(plan) EXCEPT !.replanned = TRUE, !.critical = current.critical]
    BY <1>5 DEF RuntimeReplanned
  <2>2. BeginsWith(current', plan) /\ current'.status = "completed"
    BY <2>1, FreshBegins, ZenonT(30)
  <2>3. QED
    BY <1>3, <1>5, <2>2 DEF RuntimeReplanned
<1>6. CASE Wave
  <2>1. PICK results : /\ IsWave(current, results) /\ current' = Fold(current, results)
                       /\ reportStage = "executing" /\ savedRuns' = savedRuns
                       /\ reportStage' = IF current'.status # "completed" \/ current'.remaining = {}
                                         THEN "executed" ELSE "executing"
    BY <1>6 DEF Wave, IsWave
  <2>2. Progresses(current, "executing") /\ current.status = "completed"
    BY <2>1 DEF ReportIInv, Progresses
  <2>3. RunIsSound(current', autoApprove, reportStage')
    BY <2>1, <2>2, WaveSound, WaveProgresses DEF ReportIInv
  <2>4. QED
    BY <1>2, <2>1, <2>3 DEF ReportIInv
<1>7. CASE FinishRun
  <2>1. PICK context \in {ContextOf(current), NoContext} :
          /\ savedRuns' = Append(savedRuns, context)
          /\ reportStage = "executed" /\ reportStage' = "answered"
          /\ answer' = AnswerTo(current) /\ current' = current
    BY <1>7 DEF FinishRun
  <2>2. context = NoContext \/ RunSound(context, autoApprove)
    BY <2>1, ContextIsSound DEF ReportIInv
  <2>3. /\ AllSaved(savedRuns', autoApprove) /\ savedRuns' # <<>>
        /\ savedRuns'[Len(savedRuns')] = context
    BY <2>1, <2>2, SavedMore DEF ReportIInv
  <2>4. RunIsSound(current', autoApprove, reportStage')
    BY <2>1 DEF ReportIInv, Progresses
  <2>5. QED
    BY <1>2, <2>1, <2>3, <2>4
<1>8. CASE RecordTrace
  <2>1. /\ reportStage = "answered" /\ answer' \in {answer, NoAnswer}
        /\ UNCHANGED <<reportStage, current, savedRuns>>
    BY <1>8 DEF RecordTrace
  <2>2. NoAnswer.status \notin {"pending_approval", "completed"}
    BY DEF NoAnswer
  <2>3. QED
    BY <1>2, <2>1, <2>2 DEF ReportIInv, AnswerTold
<1>9. CASE Restart
  <2>1. /\ current' = Fresh(<<>>) /\ answer' = NoAnswer /\ reportStage' = "answered"
        /\ savedRuns' \in {savedRuns, Append(savedRuns, NoContext)}
    BY <1>9 DEF Restart
  <2>2. AllSaved(savedRuns', autoApprove)
    BY <2>1, SavedMore DEF ReportIInv
  <2>3. NoAnswer.status \notin {"pending_approval", "completed"}
    BY DEF NoAnswer
  <2>4. RunIsSound(current', autoApprove, reportStage')
    BY <2>1, FirstRun
  <2>5. QED
    BY <1>2, <2>1, <2>2, <2>3, <2>4
<1>10. ASSUME NEW k \in DOMAIN savedRuns, ResumeFails(k) PROVE ReportIInv'
  <2>1. /\ reportStage = "answered" /\ reportStage' = "answered"
        /\ answer' = [NoAnswer EXCEPT !.status = "failed", !.approved = TRUE]
        /\ savedRuns' = Append(savedRuns, NoContext)
        /\ current' = [Fresh(<<>>) EXCEPT !.resumed = TRUE, !.status = "failed"]
    BY <1>10 DEF ResumeFails
  <2>2. AllSaved(savedRuns', autoApprove)
    BY <2>1, SavedMore DEF ReportIInv
  <2>3. answer'.status = "failed"
    BY <2>1 DEF NoAnswer
  <2>4. RunIsSound(current', autoApprove, reportStage')
    BY <2>1, FirstRun
  <2>5. QED
    BY <1>2, <2>2, <2>3, <2>4
<1>11. ASSUME NEW k \in DOMAIN savedRuns, NEW decision \in ApprovalDecisions,
              NEW step \in {0} \cup DOMAIN savedRuns[k].steps, ResumeRun(k, step, decision)
       PROVE  ReportIInv'
  <2>1. /\ savedRuns[k] # NoContext /\ current' = Resumed(savedRuns[k], step, decision)
        /\ reportStage' = IF current'.remaining = {} THEN "executed" ELSE "executing"
        /\ savedRuns' = savedRuns
    BY <1>11 DEF ResumeRun
  <2>2. RunSound(savedRuns[k], autoApprove)
    BY <2>1 DEF ReportIInv, AllSaved
  <2>3. RunIsSound(current', autoApprove, reportStage')
    BY <2>1, <2>2, ResumedIsSound
  <2>4. QED
    BY <1>2, <2>1, <2>3 DEF ReportIInv
<1>12. QED
  BY <1>4, <1>5, <1>6, <1>7, <1>8, <1>9, <1>10, <1>11 DEF TraceNext, Submitted, Resuming

\* An answer that is told is an honest one.
LEMMA SoundRunsAreHonest == ReportIInv => AnswersAreHonest
<1> SUFFICES ASSUME ReportIInv PROVE AnswersAreHonest
  OBVIOUS
<1>1. DecisionUnlocksItsStep
  BY DEF ReportIInv, RunSound, DoneUnlocked, DecisionUnlocksItsStep
<1>2. ASSUME IsAnswered, answer.status \in {"pending_approval", "completed"}
      PROVE  /\ answer = AnswerTo(current)
             /\ Last(savedRuns) \in {ContextOf(current), NoContext}
             /\ answer.status = "pending_approval" => current.status = "blocked"
             /\ answer.status = "completed" => current.status = "completed"
             /\ answer.required = NeedsApproval(current)
             /\ answer.approved = IsAnsweredApproved(current)
             /\ answer.summarized = (remembering /\ ~RequiresManualApproval(current))
  <2>1. /\ answer = AnswerTo(current)
        /\ savedRuns[Len(savedRuns)] \in {ContextOf(current), NoContext}
    BY <1>2 DEF IsAnswered, ReportIInv, AnswerTold
  <2>2. /\ answer.status = IF current.status = "blocked" /\ NeedsApproval(current)
                           THEN "pending_approval" ELSE current.status
        /\ answer.required = NeedsApproval(current)
        /\ answer.approved = IsAnsweredApproved(current)
        /\ answer.summarized = (remembering /\ ~RequiresManualApproval(current))
    BY <2>1, Zenon DEF AnswerTo
  <2>3. current.status \in {"completed", "failed", "blocked"}
    BY DEF ReportIInv, RunSound, StopTold
  <2>4. QED
    BY <2>1, <2>2, <2>3 DEF Last
<1>3. PendingIsHonest
  <2>1. SUFFICES ASSUME IsAnswered, answer.status = "pending_approval"
                 PROVE  /\ answer.required /\ ~answer.approved /\ ~answer.summarized
                        /\ \E record \in Open(current) : record.step = current.blocked
                        /\ Last(savedRuns) # NoContext =>
                              TargetIn(Last(savedRuns), 0) = current.blocked
    BY DEF PendingIsHonest
  <2>2. PICK record \in current.records :
          record.state \in OpenStates /\ record.step = current.blocked
    BY <1>2, <2>1 DEF ReportIInv, RunSound, StopTold
  <2>3. record \in Open(current)
    BY <2>2 DEF Open
  <2>4. NeedsApproval(current) /\ ~IsAnsweredApproved(current) /\ RequiresManualApproval(current)
    BY <2>2, <2>3 DEF NeedsApproval, IsAnsweredApproved, RequiresManualApproval
  <2>5. Last(savedRuns) # NoContext => TargetIn(Last(savedRuns), 0) = current.blocked
    <3>1. current.blocked # 0 /\ ContextOf(current).blocked = current.blocked
      BY <1>2, <2>1 DEF ReportIInv, RunSound, StopTold, ContextOf
    <3>2. QED
      BY <1>2, <2>1, <3>1 DEF TargetIn
  <2>6. QED
    BY <1>2, <2>1, <2>2, <2>3, <2>4, <2>5
<1>4. AnswerMatchesRun
  <2>1. SUFFICES ASSUME IsAnswered, answer.status = "completed"
                 PROVE  /\ DOMAIN current.steps = current.done
                        /\ \A i \in current.effects : \E r \in current.receipts : r.step = i /\ r.ok
                        /\ \A r \in Open(current) : r.id[1] = "step" /\ r.step \in current.granted
    BY DEF AnswerMatchesRun
  <2>2. current.status = "completed" /\ reportStage = "answered"
    BY <1>2, <2>1 DEF IsAnswered
  <2>3. DOMAIN current.steps = current.done
    BY <2>2 DEF ReportIInv, Progresses, RunSound, StepsGranted
  <2>4. \A i \in current.effects : \E r \in current.receipts : r.step = i /\ r.ok
    BY <2>3 DEF ReportIInv, RunSound, EffectsReceived
  <2>5. \A r \in Open(current) : r.id[1] = "step" /\ r.step \in current.granted
    BY <2>3 DEF ReportIInv, RunSound, RecordsTell, Open
  <2>6. QED
    BY <2>3, <2>4, <2>5
<1>5. QED
  BY <1>1, <1>3, <1>4 DEF AnswersAreHonest

LEMMA AnswersInit == TraceInit => ReportIInv
<1>1. SUFFICES ASSUME TraceInit PROVE ReportIInv
  OBVIOUS
<1>2. /\ reportStage = "idle" /\ savedRuns = <<>> /\ autoApprove \in BOOLEAN
      /\ current = Fresh(<<>>)
  BY <1>1 DEF TraceInit, ReportInit
<1>3. RunIsSound(current, autoApprove, reportStage)
  BY <1>2, FirstRun
<1>4. AllSaved(savedRuns, autoApprove)
  BY <1>2 DEF AllSaved
<1>5. QED
  BY <1>2, <1>3, <1>4 DEF ReportIInv, AnswerTold, RunIsSound

LEMMA AnswersStutter ==
    ASSUME ReportIInv,
           UNCHANGED <<reportStage, autoApprove, remembering, current, answer, savedRuns>>
    PROVE  ReportIInv'
<1>1. AnswerTold'
  BY DEF ReportIInv, AnswerTold, AnswerTo, IsAnsweredApproved, NeedsApproval,
         RequiresManualApproval, Open, ContextOf
<1>2. QED
  BY <1>1 DEF ReportIInv

\* Whatever a run executes, is stopped by, saves and resumes, with whatever decisions,
\* and wherever the process restarts, its answers say what was done and allowed.
THEOREM AnswersHonest == TraceSpec => []AnswersAreHonest
<1>1. TraceInit => ReportIInv
  BY AnswersInit
<1>2. ReportIInv /\ [TraceNext]_<<reportVars, traceVars>> => ReportIInv'
  <2>1. UNCHANGED reportVars =>
          UNCHANGED <<reportStage, autoApprove, remembering, current, answer, savedRuns>>
    BY DEF reportVars
  <2>2. QED
    BY <2>1, AnswersStutter, ReportStep
<1>3. QED
  BY <1>1, <1>2, SoundRunsAreHonest, PTL DEF TraceSpec

\* The total of scores that are all or nothing.
AllOrNothing(runs, scores, metric, good, full) ==
    \A k \in runs : scores[k][metric] = IF k \in good THEN full ELSE 0

LEMMA TotalCounts ==
    ASSUME NEW runs, NEW scores, NEW metric, NEW good, NEW full \in Nat, IsFiniteSet(runs),
           AllOrNothing(runs, scores, metric, good, full)
    PROVE  Total(runs, scores, metric) = full * Cardinality(runs \cap good)
<1> DEFINE one(s) == CHOOSE k \in s : TRUE
           next(g, s) == IF s = {} THEN 0 ELSE scores[one(s)][metric] + g[s \ {one(s)}]
           count(s) == Cardinality(s \cap good)
           counted == [s \in SUBSET runs |-> full * count(s)]
           IsTotal(g) == g = [s \in SUBSET runs |-> next(g, s)]
           total == CHOOSE g : IsTotal(g)
<1>1. Total(runs, scores, metric) = total[runs]
  BY DEF Total
<1>2. ASSUME NEW s \in SUBSET runs
      PROVE  /\ IsFiniteSet(s) /\ count(s) \in Nat
             /\ s = {} => count(s) = 0
             /\ s # {} => /\ one(s) \in s /\ s \ {one(s)} \in SUBSET runs
                          /\ scores[one(s)][metric] = IF one(s) \in good THEN full ELSE 0
                          /\ count(s) = (IF one(s) \in good THEN 1 ELSE 0) + count(s \ {one(s)})
                          /\ count(s \ {one(s)}) \in Nat
  <2>1. IsFiniteSet(s) /\ IsFiniteSet(s \cap good)
    <3>1. IsFiniteSet(s)
      BY FS_Subset
    <3>2. QED
      BY <3>1, FS_Subset, s \cap good \in SUBSET s
  <2>2. count(s) \in Nat
    BY <2>1, FS_CardinalityType
  <2>3. s = {} => count(s) = 0
    BY FS_EmptySet
  <2>4. ASSUME s # {}
        PROVE  /\ one(s) \in s /\ s \ {one(s)} \in SUBSET runs
               /\ scores[one(s)][metric] = IF one(s) \in good THEN full ELSE 0
               /\ count(s) = (IF one(s) \in good THEN 1 ELSE 0) + count(s \ {one(s)})
               /\ count(s \ {one(s)}) \in Nat
    <3>1. one(s) \in s
      BY <2>4
    <3> HIDE DEF one
    <3>2. (s \ {one(s)}) \cap good = (s \cap good) \ {one(s)}
      OBVIOUS
    <3>3. /\ IsFiniteSet((s \cap good) \ {one(s)})
          /\ Cardinality((s \cap good) \ {one(s)}) =
               IF one(s) \in s \cap good THEN Cardinality(s \cap good) - 1 ELSE Cardinality(s \cap good)
      BY <2>1, FS_RemoveElement
    <3>4. Cardinality((s \cap good) \ {one(s)}) \in Nat
      BY <3>3, FS_CardinalityType
    <3>5. count(s \ {one(s)}) = Cardinality((s \cap good) \ {one(s)})
      BY <3>2
    <3>6. /\ s \ {one(s)} \in SUBSET runs
          /\ scores[one(s)][metric] = IF one(s) \in good THEN full ELSE 0
      BY <3>1 DEF AllOrNothing
    <3>7. one(s) \in s \cap good <=> one(s) \in good
      BY <3>1
    <3>8. count(s) = (IF one(s) \in good THEN 1 ELSE 0) + count(s \ {one(s)})
      BY <2>2, <3>3, <3>4, <3>5, <3>7
    <3> HIDE DEF count
    <3>9. QED
      BY <3>1, <3>4, <3>5, <3>6, <3>8
  <2>5. QED
    BY <2>1, <2>2, <2>3, <2>4
<1> HIDE DEF one, count
<1>3. \A s \in SUBSET runs : next(counted, s) = counted[s]
  <2>1. SUFFICES ASSUME NEW s \in SUBSET runs PROVE next(counted, s) = full * count(s)
    BY Zenon
  <2>2. CASE s = {}
    <3>1. next(counted, s) = 0
      BY <2>2
    <3> HIDE DEF counted, next
    <3>2. count(s) = 0
      BY <1>2, <2>2
    <3>3. full * 0 = 0
      OBVIOUS
    <3>4. QED
      BY <3>1, <3>2, <3>3
  <2>3. CASE s # {}
    <3>1. /\ counted[s \ {one(s)}] = full * count(s \ {one(s)})
          /\ next(counted, s) = scores[one(s)][metric] + counted[s \ {one(s)}]
      BY <1>2, <2>3
    <3> HIDE DEF counted, next
    <3>2. QED
      BY <1>2, <2>3, <3>1
  <2>4. QED
    BY <2>2, <2>3
<1>4. IsTotal(counted)
  <2>1. counted = [s \in SUBSET runs |-> counted[s]]
    OBVIOUS
  <2> HIDE DEF counted, next
  <2>2. QED
    BY <1>3, <2>1
<1>5. IsTotal(total)
  BY <1>4
<1> HIDE DEF total, counted
<1> DEFINE wrong == {s \in SUBSET runs : total[s] # full * count(s)}
<1>6. wrong = {}
  <2>1. SUFFICES ASSUME wrong # {} PROVE FALSE
    OBVIOUS
  <2>2. wrong \subseteq FiniteSubsetsOf(runs)
    BY <1>2 DEF FiniteSubsetsOf
  <2>3. PICK s \in wrong : \A t \in wrong : <<t, s>> \notin StrictSubsetOrdering(runs)
    BY <2>1, <2>2, WFMin, FS_StrictSubsetOrderingWellFounded
  <2>4. total[s] = next(total, s)
    BY <1>5
  <2>5. s # {}
    <3>1. full * 0 = 0
      OBVIOUS
    <3>2. s = {} => total[s] = 0 /\ count(s) = 0
      BY <1>2, <2>4
    <3>3. total[s] # full * count(s)
      BY <2>3
    <3>4. QED
      BY <3>1, <3>2, <3>3
  <2> DEFINE rest == s \ {one(s)}
  <2>6. rest \in SUBSET runs /\ rest \subseteq s /\ rest # s
    BY <1>2, <2>5
  <2>7. <<rest, s>> \in StrictSubsetOrdering(runs)
    <3> HIDE DEF rest
    <3>1. QED
      BY <2>6 DEF StrictSubsetOrdering
  <2>8. total[rest] = full * count(rest)
    BY <2>3, <2>6, <2>7
  <2>9. total[s] = scores[one(s)][metric] + total[rest]
    BY <2>4, <2>5
  <2> HIDE DEF rest, wrong
  <2>10. total[s] = full * count(s)
    BY <1>2, <2>5, <2>8, <2>9 DEF wrong, rest
  <2>11. QED
    BY <2>10 DEF wrong
<1>7. QED
  BY <1>1, <1>6 DEF count

-----------------------------------------------------------------------------
(* The trace of a run (RunTrace).  The items of a run that resumes no other   *)
(* are those of the steps that are over, and tell what became of them.        *)

Statuses == {"completed", "failed", "blocked"}
TraceItems == [step : Nat, status : Statuses]

RunTold(run) ==
    ~run.resumed =>
        /\ run.trace \in Seq(TraceItems)
        /\ \A k \in DOMAIN run.trace :
             /\ run.trace[k].step \in DOMAIN run.steps \ run.remaining
             /\ run.trace[k].status = "completed" <=> run.trace[k].step \in run.done
        /\ \A i \in DOMAIN run.steps \ run.remaining :
             \E k \in DOMAIN run.trace : run.trace[k].step = i
        /\ {run.blocked, run.failed} \cap (run.done \cup run.remaining) = {}
        /\ run.status = "completed" => run.blocked = 0 /\ run.failed = 0
        /\ run.status # "completed" => \E k \in DOMAIN run.trace : IsBad(run.trace[k])

\* Of some places, one is the first.
LEMMA Least ==
    ASSUME NEW S \in SUBSET Nat, S # {}
    PROVE  Min(S) \in S
<1>1. PICK m \in S : \A x \in S : <<x, m>> \notin NatLess
  BY WFMin, NatLessIsWellFounded
<1>2. ASSUME NEW x \in S PROVE m <= x
  <2>1. x \in Nat /\ m \in Nat /\ <<x, m>> \in Nat \X Nat /\ <<x, m>> \notin NatLess
    BY <1>1
  <2>2. ~(<<x, m>>[1] < <<x, m>>[2])
    BY <2>1, Zenon DEF NatLess
  <2>3. QED
    BY <2>1, <2>2
<1>3. QED
  BY <1>2 DEF Min

\* The items of a wave: one for each of its steps, in their order.
LEMMA ItemsTell ==
    ASSUME NEW n \in Nat, NEW results, DOMAIN results \subseteq 1 .. n,
           \A i \in DOMAIN results : results[i].status \in Statuses
    PROVE  /\ Items(results) \in Seq(TraceItems)
           /\ \A k \in 1 .. Len(Items(results)) :
                /\ Items(results)[k].step \in DOMAIN results
                /\ Items(results)[k].status = results[Items(results)[k].step].status
           /\ \A i \in DOMAIN results :
                \E k \in 1 .. Len(Items(results)) : Items(results)[k].step = i
<1> DEFINE ids == DOMAIN results
           upTo(i) == {j \in ids : j <= i}
           places == [i \in ids |-> Place(ids, i)]
           count == Cardinality(ids)
<1>1. IsFiniteSet(ids) /\ count \in Nat
  <2>1. IsFiniteSet(1 .. n)
    BY FS_Interval, 1 \in Int, n \in Int
  <2>2. IsFiniteSet(ids)
    BY <2>1, FS_Subset
  <2>3. QED
    BY <2>2, FS_CardinalityType
<1>2. ASSUME NEW i \in ids
      PROVE  IsFiniteSet(upTo(i)) /\ places[i] = Cardinality(upTo(i)) /\ places[i] \in 1 .. count
  <2>1. IsFiniteSet(upTo(i)) /\ Cardinality(upTo(i)) <= count
    BY <1>1, FS_Subset, upTo(i) \in SUBSET ids
  <2>2. i \in upTo(i)
    OBVIOUS
  <2>3. Cardinality(upTo(i)) \in Nat
    BY <2>1, FS_CardinalityType
  <2>4. Cardinality(upTo(i)) # 0
    BY <2>1, <2>2, FS_EmptySet
  <2>5. places[i] = Cardinality(upTo(i))
    BY DEF Place
  <2> HIDE DEF ids, upTo, places
  <2>6. QED
    BY <1>1, <2>1, <2>3, <2>4, <2>5
<1>3. ASSUME NEW i \in ids, NEW j \in ids, i < j PROVE places[i] # places[j]
  <2>1. upTo(i) \in SUBSET upTo(j) /\ j \in upTo(j) /\ j \notin upTo(i)
    <3>1. i \in Int /\ j \in Int /\ \A k \in ids : k \in Int
      OBVIOUS
    <3>2. \A k \in ids : k <= i => k <= j
      BY <1>3, <3>1
    <3>3. ~(j <= i) /\ j <= j
      BY <1>3, <3>1
    <3> HIDE DEF ids
    <3>4. QED
      BY <3>2, <3>3
  <2>2. upTo(j) # upTo(i)
    BY <2>1
  <2> HIDE DEF upTo, places, ids
  <2>3. QED
    BY <1>2, <2>1, <2>2, FS_Subset
<1>4. places \in Injection(ids, 1 .. count)
  <2>1. places \in [ids -> 1 .. count]
    BY <1>2
  <2>2. \A i \in ids, j \in ids : places[i] = places[j] => i = j
    BY <1>3
  <2>3. DOMAIN places = ids
    OBVIOUS
  <2> HIDE DEF places, ids
  <2>4. QED
    BY <2>1, <2>2, <2>3 DEF Injection, IsInjective
<1>5. \A k \in 1 .. count : \E i \in ids : places[i] = k
  <2> HIDE DEF places, ids
  <2>1. IsFiniteSet(1 .. count) /\ Cardinality(1 .. count) = count
    BY <1>1, FS_Interval, 1 \in Int, count \in Int
  <2>2. places \in Surjection(ids, 1 .. count)
    BY <1>4, <2>1, FS_Injection
  <2>3. QED
    BY <2>2 DEF Surjection
<1> DEFINE nth(k) == CHOOSE i \in ids : Place(ids, i) = k
<1>6. ASSUME NEW k \in 1 .. count PROVE nth(k) \in ids /\ places[nth(k)] = k
  <2>1. PICK i \in ids : places[i] = k
    BY <1>5
  <2>2. \E j \in ids : Place(ids, j) = k
    BY <2>1
  <2>3. nth(k) \in ids /\ Place(ids, nth(k)) = k
    BY <2>2
  <2>4. QED
    BY <2>3
<1>7. ASSUME NEW i \in ids PROVE nth(places[i]) = i
  BY <1>2, <1>3, <1>6
<1>8. Items(results) = [k \in 1 .. count |-> [step |-> nth(k), status |-> results[nth(k)].status]]
  BY DEF Items
<1> HIDE DEF nth, places, count
<1>9. Items(results) \in [1 .. count -> TraceItems]
  BY <1>6, <1>8 DEF TraceItems
<1>10. Items(results) \in Seq(TraceItems) /\ Len(Items(results)) = count
  BY <1>1, <1>9
<1>11. ASSUME NEW k \in 1 .. count
       PROVE  /\ Items(results)[k].step = nth(k)
              /\ Items(results)[k].status = results[nth(k)].status
  BY <1>8
<1>12. ASSUME NEW i \in ids
       PROVE  \E k \in 1 .. count : Items(results)[k].step = i
  BY <1>2, <1>7, <1>11
<1>13. ASSUME NEW k \in 1 .. count
       PROVE  /\ Items(results)[k].step \in ids
              /\ Items(results)[k].status = results[Items(results)[k].step].status
  BY <1>6, <1>11
<1> HIDE DEF ids
<1>14. QED
  BY <1>10, <1>12, <1>13 DEF ids

\* A wave adds what it did.
LEMMA WaveTold ==
    ASSUME autoApprove \in BOOLEAN, NEW run, Formed(run), RunSound(run, autoApprove),
           Progresses(run, "executing"), RunTold(run),
           NEW results, IsWave(run, results), NEW new, new = Fold(run, results)
    PROVE  RunTold(new)
<1> DEFINE items == Items(results)
<1>1. /\ new.steps = run.steps /\ new.remaining = run.remaining \ DOMAIN results
      /\ new.done = run.done \cup Told(results, "completed")
      /\ new.status = IF Stopped(results) = {} THEN run.status ELSE results[Max(Stopped(results))].status
      /\ new.blocked = Latest(Told(results, "blocked"), run.blocked)
      /\ new.failed = Latest(Told(results, "failed"), run.failed)
      /\ new.trace = run.trace \o items /\ new.resumed = run.resumed
  BY FoldParts
<1>2. /\ DOMAIN results \subseteq run.remaining /\ DOMAIN results \subseteq DOMAIN run.steps
      /\ \A i \in DOMAIN results : results[i].status \in Statuses
  BY WaveSteps DEF RunSound, Statuses
<1>3. DOMAIN run.steps = 1 .. Len(run.steps) /\ Len(run.steps) \in Nat
  BY LenProperties DEF RunSound, StepsGranted
<1>4. /\ items \in Seq(TraceItems)
      /\ \A k \in 1 .. Len(items) :
           items[k].step \in DOMAIN results /\ items[k].status = results[items[k].step].status
      /\ \A i \in DOMAIN results : \E k \in 1 .. Len(items) : items[k].step = i
  BY <1>2, <1>3, ItemsTell
<1> HIDE DEF items
<1>5. SUFFICES ASSUME ~run.resumed
               PROVE  RunTold(new)
  BY <1>1 DEF RunTold
<1>6. /\ run.status = "completed" /\ run.blocked = 0 /\ run.failed = 0
      /\ run.trace \in Seq(TraceItems)
      /\ run.done \cap run.remaining = {} /\ run.done \subseteq DOMAIN run.steps
      /\ 0 \notin DOMAIN run.steps
  BY <1>3, <1>5 DEF RunTold, Progresses, RunSound, StepsGranted
<1> DEFINE n == Len(run.trace)
           m == Len(items)
<1>7. /\ n \in Nat /\ m \in Nat /\ DOMAIN run.trace = 1 .. n
      /\ new.trace \in Seq(TraceItems) /\ DOMAIN new.trace = 1 .. n + m
      /\ \A k \in 1 .. n + m : new.trace[k] = IF k <= n THEN run.trace[k] ELSE items[k - n]
  BY <1>1, <1>4, <1>6, LenProperties, ConcatProperties
<1> HIDE DEF n, m
<1>8. ASSUME NEW k \in DOMAIN new.trace
      PROVE  \/ k \in 1 .. n /\ new.trace[k] = run.trace[k]
             \/ k - n \in 1 .. m /\ new.trace[k] = items[k - n]
  BY <1>7
<1>9. /\ \A k \in 1 .. n : k \in DOMAIN new.trace /\ new.trace[k] = run.trace[k]
      /\ \A k \in 1 .. m : k + n \in DOMAIN new.trace /\ new.trace[k + n] = items[k]
  <2>1. \A k \in 1 .. m : k + n \in 1 .. n + m /\ ~(k + n <= n) /\ (k + n) - n = k
    BY <1>7
  <2>2. QED
    BY <1>7, <2>1
<1>10. /\ Told(results, "completed") \subseteq DOMAIN results
       /\ \A i \in DOMAIN results :
            i \in Told(results, "completed") <=> results[i].status = "completed"
  BY DEF Told
<1>11. ASSUME NEW k \in DOMAIN new.trace
       PROVE  /\ new.trace[k].step \in DOMAIN new.steps \ new.remaining
              /\ new.trace[k].status = "completed" <=> new.trace[k].step \in new.done
  <2>1. CASE k \in 1 .. n /\ new.trace[k] = run.trace[k]
    <3>1. /\ run.trace[k].step \in DOMAIN run.steps \ run.remaining
          /\ run.trace[k].status = "completed" <=> run.trace[k].step \in run.done
      BY <1>5, <1>7, <2>1 DEF RunTold
    <3>2. QED
      BY <1>1, <1>2, <1>10, <2>1, <3>1
  <2>2. CASE k - n \in 1 .. m /\ new.trace[k] = items[k - n]
    <3> DEFINE item == new.trace[k]
    <3>1. item.step \in DOMAIN results /\ item.status = results[item.step].status
      BY <1>4, <2>2 DEF m
    <3> HIDE DEF item
    <3>2. item.step \in DOMAIN new.steps \ new.remaining
      BY <1>1, <1>2, <3>1
    <3>3. item.status = "completed" <=> item.step \in new.done
      BY <1>1, <1>2, <1>6, <1>10, <3>1
    <3>4. QED
      BY <3>2, <3>3 DEF item
  <2>3. QED
    BY <1>8, <2>1, <2>2
<1>12. ASSUME NEW i \in DOMAIN new.steps \ new.remaining
       PROVE  \E k \in DOMAIN new.trace : new.trace[k].step = i
  <2>1. CASE i \in run.remaining
    <3>1. i \in DOMAIN results
      BY <1>1, <2>1
    <3>2. PICK k \in 1 .. m : items[k].step = i
      BY <1>4, <3>1 DEF m
    <3>3. QED
      BY <1>9, <3>2
  <2>2. CASE i \notin run.remaining
    <3>1. PICK k \in 1 .. n : run.trace[k].step = i
      BY <1>1, <1>5, <1>7, <2>2 DEF RunTold
    <3>2. QED
      BY <1>9, <3>1
  <2>3. QED
    BY <2>1, <2>2
<1>13. {new.blocked, new.failed} \cap (new.done \cup new.remaining) = {}
  <2>1. ASSUME NEW status \in {"blocked", "failed"}
        PROVE  Latest(Told(results, status), 0) \notin new.done \cup new.remaining
    <3>1. Told(results, status) \in SUBSET run.remaining
      BY <1>2 DEF Told
    <3>2. Latest(Told(results, status), 0) \in Told(results, status) \cup {0}
      BY <3>1, LatestIsOne DEF RunSound
    <3>3. \A i \in Told(results, status) : i \in DOMAIN results /\ results[i].status # "completed"
      BY DEF Told
    <3>4. \A i \in Told(results, status) : i \notin new.done \cup new.remaining
      BY <1>1, <1>2, <1>6, <1>10, <3>3
    <3>5. 0 \notin new.done \cup new.remaining
      BY <1>1, <1>2, <1>6, <1>10 DEF Progresses
    <3>6. QED
      BY <3>2, <3>4, <3>5
  <2>2. QED
    BY <1>1, <1>6, <2>1
<1>14. new.status = "completed" => new.blocked = 0 /\ new.failed = 0
  <2>1. SUFFICES ASSUME new.status = "completed" PROVE new.blocked = 0 /\ new.failed = 0
    OBVIOUS
  <2>2. Stopped(results) = {}
    <3>1. SUFFICES ASSUME Stopped(results) # {} PROVE FALSE
      OBVIOUS
    <3>2. Stopped(results) \in SUBSET run.remaining
      BY <1>2 DEF Stopped, Told
    <3>3. Max(Stopped(results)) \in Stopped(results)
      BY <3>1, <3>2, LatestIsOne DEF RunSound
    <3>4. results[Max(Stopped(results))].status # "completed"
      BY <3>3 DEF Stopped, Told
    <3>5. QED
      BY <1>1, <2>1, <3>1, <3>4
  <2>3. QED
    BY <1>1, <1>6, <2>2 DEF Stopped, Latest
<1>15. new.status # "completed" => \E k \in DOMAIN new.trace : IsBad(new.trace[k])
  <2>1. SUFFICES ASSUME new.status # "completed" PROVE \E k \in DOMAIN new.trace : IsBad(new.trace[k])
    OBVIOUS
  <2>2. PICK i \in Stopped(results) : TRUE
    BY <1>1, <1>6, <2>1
  <2>3. i \in DOMAIN results /\ results[i].status \in {"failed", "blocked"}
    BY DEF Stopped, Told
  <2>4. PICK k \in 1 .. m : items[k].step = i
    BY <1>4, <2>3 DEF m
  <2>5. items[k].status = results[items[k].step].status
    BY <1>4 DEF m
  <2>6. QED
    BY <1>9, <2>3, <2>4, <2>5 DEF IsBad
<1>16. QED
  BY <1>7, <1>11, <1>12, <1>13, <1>14, <1>15 DEF RunTold

\* A run that begins has told nothing yet.
LEMMA BegunTold ==
    ASSUME NEW plan \in PlanForms, NEW new, BeginsWith(new, plan), new.status = "completed",
           new.trace = <<>>
    PROVE  RunTold(new)
<1>1. /\ new.remaining = DOMAIN plan /\ new.done = {} /\ new.blocked = 0 /\ new.failed = 0
      /\ DOMAIN new.steps = DOMAIN plan
  BY DEF BeginsWith, Fresh
<1>2. 0 \notin DOMAIN plan
  BY LenProperties DEF PlanForms
<1>3. new.trace \in Seq(TraceItems) /\ DOMAIN new.trace = {}
  BY EmptySeq
<1>4. QED
  BY <1>1, <1>2, <1>3 DEF RunTold

\* What a snapshot names as the failure of a run is one.
SnapshotTold(snapshot) ==
    ~snapshot.resumed =>
        /\ snapshot.status = "completed" <=> snapshot.failure = 0
        /\ snapshot.failure # 0 => IsBad(snapshot.trace[snapshot.failure])

LEMMA SnapshotsTellTruly ==
    ASSUME NEW run, NEW auto, NEW stage, RunSound(run, auto), Progresses(run, stage), RunTold(run)
    PROVE  SnapshotTold(Snapshot(run)) /\ Snapshot(run).status = run.status
<1> DEFINE named == IF run.failed # 0 THEN run.failed ELSE run.blocked
           places == {k \in DOMAIN run.trace : run.trace[k].step = named \/ IsBad(run.trace[k])}
<1>1. /\ Snapshot(run).status = run.status /\ Snapshot(run).resumed = run.resumed
      /\ Snapshot(run).trace = [k \in DOMAIN run.trace |-> run.trace[k]]
      /\ Snapshot(run).failure = IF places = {} THEN 0 ELSE Min(places)
  BY DEF Snapshot, StepEntries, FailureItem
<1>2. SUFFICES ASSUME ~run.resumed
               PROVE  /\ run.status = "completed" <=> places = {}
                      /\ places # {} => Min(places) \in places /\ Min(places) # 0
                      /\ \A k \in places : IsBad(run.trace[k])
  BY <1>1 DEF SnapshotTold
<1>3. /\ run.trace \in Seq(TraceItems)
      /\ \A k \in DOMAIN run.trace :
           /\ run.trace[k].step \in DOMAIN run.steps \ run.remaining
           /\ run.trace[k].status = "completed" <=> run.trace[k].step \in run.done
  BY <1>2 DEF RunTold
<1>4. /\ DOMAIN run.trace = 1 .. Len(run.trace) /\ Len(run.trace) \in Nat
      /\ 0 \notin DOMAIN run.steps
  BY <1>3, LenProperties DEF RunSound, StepsGranted
<1>5. ASSUME NEW k \in DOMAIN run.trace, run.trace[k].step \notin run.done
      PROVE  IsBad(run.trace[k])
  <2>1. run.trace[k] \in TraceItems
    BY <1>3, <1>4, ElementOfSeq
  <2>2. run.trace[k].status \in {"completed", "failed", "blocked"}
    BY <2>1 DEF TraceItems, Statuses
  <2>3. QED
    BY <1>3, <1>5, <2>2 DEF IsBad
<1>6. \A k \in places : IsBad(run.trace[k])
  <2>1. SUFFICES ASSUME NEW k \in DOMAIN run.trace, run.trace[k].step = named
                 PROVE  IsBad(run.trace[k])
    OBVIOUS
  <2>2. named \in {run.failed, run.blocked}
    OBVIOUS
  <2>3. named \notin run.done
    BY <1>2, <2>2 DEF RunTold
  <2>4. QED
    BY <1>5, <2>1, <2>3
<1>7. run.status = "completed" => places = {}
  <2>1. SUFFICES ASSUME run.status = "completed", NEW k \in places PROVE FALSE
    OBVIOUS
  <2>2. run.trace[k].step \in run.done
    BY <1>3, <2>1 DEF Progresses
  <2>3. run.trace[k].status = "completed"
    BY <1>3, <2>2
  <2>4. QED
    BY <1>6, <2>3 DEF IsBad
<1>8. run.status # "completed" => places # {}
  BY <1>2 DEF RunTold
<1>9. places # {} => Min(places) \in places /\ Min(places) # 0
  <2>1. places \in SUBSET Nat /\ 0 \notin places
    BY <1>4
  <2> HIDE DEF places
  <2>2. QED
    BY <2>1, Least
<1>10. QED
  BY <1>6, <1>7, <1>8, <1>9

-----------------------------------------------------------------------------
(* What is kept of the runs.  A run that has answered is traced before the next *)
(* one begins, so that at most one is saved without a file.                     *)

Listed(seq) == Len(seq) \in Nat /\ seq = [k \in 1 .. Len(seq) |-> seq[k]]

FilesKept ==
    /\ Listed(files)
    /\ IF reportStage = "answered" THEN Len(savedRuns) \in {Len(files), Len(files) + 1}
       ELSE Len(savedRuns) = Len(files)
    /\ reportStage = "idle" => Len(savedRuns) = 0
    /\ DOMAIN cache \subseteq 1 .. Len(files)

SnapshotsTold ==
    /\ \A k \in DOMAIN cache : SnapshotTold(cache[k])
    /\ \A k \in 1 .. Len(files) : files[k] # NoSnapshot => SnapshotTold(files[k])

\* The last answer is that of the current run, and so is the last trace.
LastTold ==
    reportStage = "answered" /\ answer # NoAnswer =>
        /\ answer.status = "completed" <=> current.status = "completed"
        /\ ~Untraced => /\ Len(files) \in DOMAIN cache
                        /\ cache[Len(files)].status = current.status

\* A run that resumes no other is the first.
FirstTold ==
    ~current.resumed =>
        IF reportStage = "answered"
        THEN Untraced => /\ Len(files) = 0 /\ answer = AnswerTo(current)
                         /\ savedRuns[1] \in {ContextOf(current), NoContext}
        ELSE Len(savedRuns) = 0

\* What a client is shown is what the context of the run would show.
ShownTruly(shown) ==
    /\ shown.status = "completed" => ~shown.error /\ ToSet(shown.graph.nodes) \subseteq {"completed"}
    /\ \A edge \in shown.graph.edges :
         edge.status = "completed" => shown.graph.nodes[edge.to] = "completed"

SettledTold ==
    settled # NoDetail =>
        /\ Len(files) # 0 /\ detail \in {NoDetail, settled}
        /\ files[1] # NoSnapshot =>
             /\ ShownTruly(settled) /\ settled.status # "none"
             /\ savedRuns[1] # NoContext =>
                  /\ ShownStatus(savedRuns[1].status) = settled.status
                  /\ ShownGraph(savedRuns[1].steps, savedRuns[1].trace) = settled.graph

TraceIInv ==
    /\ ReportIInv /\ RunTold(current) /\ FilesKept /\ SnapshotsTold
    /\ LastTold /\ FirstTold /\ SettledTold

\* What is appended is the last, and the rest stays.
LEMMA Longer ==
    ASSUME NEW seq, Listed(seq), NEW last
    PROVE  /\ Listed(Append(seq, last)) /\ Len(Append(seq, last)) = Len(seq) + 1
           /\ Append(seq, last)[Len(seq) + 1] = last
           /\ \A k \in 1 .. Len(seq) : Append(seq, last)[k] = seq[k]
<1> DEFINE all == {seq[k] : k \in 1 .. Len(seq)} \cup {last}
           new == Append(seq, last)
<1>1. seq \in Seq(all) /\ last \in all
  <2>1. seq \in [1 .. Len(seq) -> all] /\ Len(seq) \in Nat
    BY DEF Listed
  <2> HIDE DEF all
  <2>2. QED
    BY <2>1 DEF all
<1> HIDE DEF all
<1>2. /\ new \in Seq(all) /\ Len(new) = Len(seq) + 1 /\ new[Len(seq) + 1] = last
      /\ \A k \in 1 .. Len(seq) : new[k] = seq[k]
  BY <1>1, AppendProperties
<1>3. Listed(new)
  <2> HIDE DEF new
  <2>1. QED
    BY <1>2, LenProperties DEF Listed
<1>4. QED
  BY <1>2, <1>3

\* Statuses are shown alike whether they are the run's or its answer's.
LEMMA AnswersShownAlike ==
    ASSUME NEW run, run.status \in Statuses
    PROVE  /\ ShownStatus(AnswerTo(run).status) = ShownStatus(run.status)
           /\ ShownStatus(run.status) # "none"
           /\ ShownStatus(run.status) = "completed" <=> run.status = "completed"
           /\ AnswerTo(run).status = "completed" <=> run.status = "completed"
<1>1. AnswerTo(run).status = IF run.status = "blocked" /\ NeedsApproval(run) THEN "pending_approval"
                             ELSE run.status
  BY DEF AnswerTo
<1>2. /\ ShownStatus("completed") = "completed" /\ ShownStatus("failed") = "failed"
      /\ ShownStatus("blocked") = "failed" /\ ShownStatus("pending_approval") = "failed"
  BY DEF ShownStatus
<1>3. QED
  BY <1>1, <1>2 DEF Statuses

\* The graph of a run that completed shows nothing but completed steps.
LEMMA GraphsShownTruly ==
    ASSUME NEW run, NEW auto, NEW stage, RunSound(run, auto), Progresses(run, stage),
           stage = "answered", ~run.resumed, RunTold(run),
           NEW shown, shown.graph = ShownGraph(run.steps, run.trace),
           shown.error = \E k \in DOMAIN run.trace : IsBad(run.trace[k]),
           shown.status = "completed" <=> run.status = "completed"
    PROVE  ShownTruly(shown)
<1> DEFINE steps == run.steps
           trace == run.trace
           nodes == [i \in DOMAIN steps |-> LastStatus(trace, i)]
<1>1. /\ shown.graph.nodes = nodes
      /\ shown.graph.edges =
           UNION {{[from |-> k, to |-> i, status |-> EdgeStatus(LastStatus(trace, k), LastStatus(trace, i))] :
                      k \in steps[i].after} : i \in DOMAIN steps}
  BY DEF ShownGraph
<1>2. ASSUME NEW edge \in shown.graph.edges, edge.status = "completed"
      PROVE  shown.graph.nodes[edge.to] = "completed"
  <2>1. PICK i \in DOMAIN steps : \E k \in steps[i].after :
          edge = [from |-> k, to |-> i, status |-> EdgeStatus(LastStatus(trace, k), LastStatus(trace, i))]
    BY <1>1
  <2>2. edge.to = i /\ \E source : EdgeStatus(source, LastStatus(trace, i)) = "completed"
    BY <1>2, <2>1
  <2>3. LastStatus(trace, i) = "completed"
    BY <2>2 DEF EdgeStatus
  <2>4. QED
    BY <1>1, <2>2, <2>3
<1>3. ASSUME run.status = "completed"
      PROVE  ~shown.error /\ \A i \in DOMAIN steps : nodes[i] = "completed"
  <2>1. DOMAIN steps \subseteq run.done /\ run.remaining = {}
    BY <1>3 DEF Progresses
  <2>2. \A k \in DOMAIN trace : trace[k].step \in DOMAIN steps /\ trace[k].status = "completed"
    BY <2>1 DEF RunTold
  <2>3. ~shown.error
    BY <2>2 DEF IsBad
  <2>4. ASSUME NEW i \in DOMAIN steps PROVE LastStatus(trace, i) = "completed"
    <3> DEFINE places == {k \in DOMAIN trace : trace[k].step = i}
    <3>1. places # {}
      BY <2>1 DEF RunTold
    <3>2. places \in SUBSET (1 .. Len(trace)) /\ Len(trace) \in Nat
      BY LenProperties DEF RunTold
    <3>3. LastStatus(trace, i) = IF places = {} THEN "pending" ELSE trace[Max(places)].status
      BY DEF LastStatus
    <3>4. Max(places) \in places
      <4> HIDE DEF places
      <4>1. QED
        BY <3>1, <3>2, Largest
    <3>5. QED
      BY <2>2, <3>1, <3>3, <3>4
  <2>5. QED
    BY <2>3, <2>4
<1>4. shown.status = "completed" => ToSet(shown.graph.nodes) \subseteq {"completed"}
  <2>1. ToSet(shown.graph.nodes) = {nodes[i] : i \in DOMAIN steps}
    BY <1>1 DEF ToSet
  <2> HIDE DEF nodes
  <2>2. QED
    BY <1>3, <2>1
<1>5. QED
  BY <1>2, <1>3, <1>4 DEF ShownTruly

\* Whoever looks at a run is told what was answered.
LEMMA TraceIsTold == TraceIInv => TraceTellsTheRun
<1> SUFFICES ASSUME TraceIInv PROVE TraceTellsTheRun
  OBVIOUS
<1>1. /\ Len(files) \in Nat /\ DOMAIN files = 1 .. Len(files)
      /\ Len(savedRuns) \in Nat /\ DOMAIN cache \subseteq DOMAIN files
      /\ Len(savedRuns) \in {Len(files), Len(files) + 1}
  BY DEF TraceIInv, FilesKept, Listed, ReportIInv, AllSaved
<1>2. RestartTellsTheSame
  <2>1. SUFFICES ASSUME settled # NoDetail, files[1] # NoSnapshot
                 PROVE  IF TaskDetail = NoDetail THEN savedRuns[1] = NoContext
                        ELSE TaskDetail.status = settled.status /\ TaskDetail.graph = settled.graph
                             /\ ShownTruly(TaskDetail)
    BY DEF RestartTellsTheSame, ShownTruly
  <2>2. /\ Len(files) # 0 /\ detail \in {NoDetail, settled}
        /\ ShownTruly(settled) /\ settled.status # "none"
        /\ savedRuns[1] # NoContext =>
             /\ ShownStatus(savedRuns[1].status) = settled.status
             /\ ShownGraph(savedRuns[1].steps, savedRuns[1].trace) = settled.graph
    BY <2>1 DEF TraceIInv, SettledTold
  <2>3. CASE detail # NoDetail
    <3>1. TaskDetail = settled
      BY <2>2, <2>3 DEF TaskDetail
    <3>2. QED
      BY <2>1, <2>2, <3>1
  <2>4. CASE detail = NoDetail /\ savedRuns[1] = NoContext
    BY <2>4 DEF TaskDetail
  <2>5. CASE detail = NoDetail /\ savedRuns[1] # NoContext
    <3>1. savedRuns # <<>>
      BY <1>1, <2>2
    <3>2. TaskDetail = PersistedDetail(savedRuns[1])
      BY <2>5, <3>1 DEF TaskDetail
    <3>3. TaskDetail.status = settled.status /\ TaskDetail.graph = settled.graph /\ ~TaskDetail.error
      BY <2>2, <2>5, <3>2 DEF PersistedDetail
    <3>4. ShownTruly(TaskDetail)
      BY <2>2, <3>3 DEF ShownTruly
    <3>5. TaskDetail # NoDetail
      BY <2>2, <3>3 DEF NoDetail
    <3>6. QED
      BY <3>3, <3>4, <3>5
  <2>6. QED
    BY <2>3, <2>4, <2>5
<1> DEFINE known == {k \in DOMAIN files : SnapshotOf(k) # NoSnapshot}
           good == {k \in known : CaseSucceeds(SnapshotOf(k))}
<1>3. ASSUME NEW k \in known, ~SnapshotOf(k).resumed
      PROVE  /\ k \in good <=> ~CaseFails(SnapshotOf(k))
             /\ CaseFails(SnapshotOf(k)) => IsBad(SnapshotOf(k).trace[SnapshotOf(k).failure])
  <2>1. SnapshotTold(SnapshotOf(k))
    BY <1>1 DEF SnapshotOf, TraceIInv, SnapshotsTold
  <2>2. QED
    BY <1>3, <2>1 DEF SnapshotTold, CaseSucceeds, CaseFails
<1>4. ASSUME reportStage = "answered", ~Untraced, answer # NoAnswer
      PROVE  Len(files) \in good <=> answer.status = "completed"
  <2>1. /\ Len(files) \in DOMAIN cache /\ cache[Len(files)].status = current.status
        /\ answer.status = "completed" <=> current.status = "completed"
    BY <1>4 DEF TraceIInv, LastTold
  <2>2. current.status # "none"
    BY DEF TraceIInv, ReportIInv, RunSound, StopTold
  <2>3. Len(files) \in known
    BY <1>1, <2>1, <2>2 DEF SnapshotOf, NoSnapshot
  <2>4. QED
    BY <2>1, <2>3 DEF SnapshotOf, CaseSucceeds
<1>5. ASSUME NEW chosen \in SUBSET known, NEW case \in TestCases, GatePasses(chosen, case)
      PROVE  10 * Cardinality(chosen \cap good) >= 7 * Cardinality(chosen)
  <2> DEFINE scores == [k \in chosen |-> BehaviorOf(SnapshotOf(k), case)]
             well == {k \in chosen : ResumesWell(SnapshotOf(k))}
  <2>1. 100 * Total(chosen, scores, "resume") >= 70 * 60 * Cardinality(chosen)
    BY <1>5 DEF GatePasses, Blocking, Full
  <2>2. AllOrNothing(chosen, scores, "resume", well, 60)
    BY DEF AllOrNothing, BehaviorOf, Whether, Full
  <2>3. IsFiniteSet(chosen)
    <3>1. IsFiniteSet(1 .. Len(files))
      BY <1>1, FS_Interval, 1 \in Int, Len(files) \in Int
    <3>2. chosen \in SUBSET (1 .. Len(files))
      BY <1>1
    <3>3. QED
      BY <3>1, <3>2, FS_Subset
  <2>4. Total(chosen, scores, "resume") = 60 * Cardinality(chosen \cap well)
    <3> HIDE DEF scores, well
    <3>1. QED
      BY <2>2, <2>3, TotalCounts, 60 \in Nat
  <2>5. chosen \cap well \in SUBSET (chosen \cap good)
    BY DEF ResumesWell
  <2>6. IsFiniteSet(chosen \cap good)
    BY <2>3, FS_Subset, chosen \cap good \in SUBSET chosen
  <2>7. Cardinality(chosen \cap well) <= Cardinality(chosen \cap good)
    BY <2>5, <2>6, FS_Subset
  <2>8. {Cardinality(chosen), Cardinality(chosen \cap well), Cardinality(chosen \cap good)} \subseteq Nat
    <3>1. IsFiniteSet(chosen \cap well)
      BY <2>3, FS_Subset, chosen \cap well \in SUBSET chosen
    <3>2. QED
      BY <2>3, <2>6, <3>1, FS_CardinalityType
  <2> HIDE DEF scores, well, known, good
  <2>9. QED
    BY <2>1, <2>4, <2>7, <2>8
<1>6. EvaluationIsFair
  BY <1>3, <1>4, <1>5 DEF EvaluationIsFair
<1>7. QED
  BY <1>2, <1>6 DEF TraceTellsTheRun

-----------------------------------------------------------------------------
LEMMA TracesAreTold ==
    ASSUME TraceIInv, ReportIInv', RecordTrace
    PROVE  TraceIInv'
<1>1. PICK written \in BOOLEAN :
        /\ files' = Append(files, IF written THEN Snapshot(current) ELSE NoSnapshot)
        /\ answer' = IF written THEN answer ELSE NoAnswer
        /\ detail' = IF current.resumed THEN detail ELSE SettledDetail(written)
        /\ settled' = IF current.resumed THEN settled ELSE SettledDetail(written)
  BY DEF RecordTrace
<1>2. /\ reportStage = "answered" /\ Untraced
      /\ UNCHANGED <<reportStage, autoApprove, remembering, current, savedRuns>>
      /\ cache' = [k \in DOMAIN cache \cup {Len(savedRuns)} |->
                      IF k \in DOMAIN cache THEN cache[k] ELSE Snapshot(current)]
  BY DEF RecordTrace
<1> DEFINE n == Len(files)
<1>3. /\ n \in Nat /\ Len(savedRuns) = n + 1 /\ DOMAIN cache \subseteq 1 .. n /\ Listed(files)
  BY <1>2 DEF TraceIInv, FilesKept, Listed, Untraced
<1>4. /\ Listed(files') /\ Len(files') = n + 1
      /\ files'[n + 1] = IF written THEN Snapshot(current) ELSE NoSnapshot
      /\ \A k \in 1 .. n : files'[k] = files[k]
  <2> DEFINE last == IF written THEN Snapshot(current) ELSE NoSnapshot
  <2>1. files' = Append(files, last)
    BY <1>1
  <2> HIDE DEF last
  <2>2. /\ Listed(files') /\ Len(files') = n + 1
        /\ files'[n + 1] = last /\ \A k \in 1 .. n : files'[k] = files[k]
    BY <1>3, <2>1, Longer
  <2>3. QED
    BY <2>2 DEF last
<1>5. /\ RunSound(current, autoApprove) /\ Progresses(current, "answered") /\ RunTold(current)
      /\ current.status \in Statuses
  BY <1>2 DEF TraceIInv, ReportIInv, RunSound, StopTold, Statuses
<1>6. SnapshotTold(Snapshot(current)) /\ Snapshot(current).status = current.status
  BY <1>5, SnapshotsTellTruly
<1> HIDE DEF n
<1>7. FilesKept'
  BY <1>2, <1>3, <1>4 DEF FilesKept
<1>8. SnapshotsTold'
  <2>1. ASSUME NEW k \in DOMAIN cache' PROVE SnapshotTold(cache'[k])
    BY <1>2, <1>6 DEF TraceIInv, SnapshotsTold
  <2>2. ASSUME NEW k \in 1 .. Len(files'), files'[k] # NoSnapshot PROVE SnapshotTold(files'[k])
    <3>1. CASE k \in 1 .. n
      BY <1>4, <2>2, <3>1 DEF TraceIInv, SnapshotsTold, n
    <3>2. CASE k = n + 1
      BY <1>4, <1>6, <2>2, <3>2
    <3>3. k \in 1 .. n \/ k = n + 1
      BY <1>3, <1>4
    <3>4. QED
      BY <3>1, <3>2, <3>3
  <2>3. QED
    BY <2>1, <2>2 DEF SnapshotsTold
<1>9. LastTold'
  <2>1. SUFFICES ASSUME answer' # NoAnswer
                 PROVE  /\ answer'.status = "completed" <=> current.status = "completed"
                        /\ Len(files') \in DOMAIN cache' /\ cache'[Len(files')].status = current.status
    BY <1>2 DEF LastTold
  <2>2. answer' = answer
    BY <1>1, <2>1
  <2>3. n + 1 \notin DOMAIN cache
    BY <1>3
  <2>4. n + 1 \in DOMAIN cache' /\ cache'[n + 1] = Snapshot(current)
    BY <1>2, <1>3, <2>3
  <2>5. QED
    BY <1>2, <1>4, <1>6, <2>1, <2>2, <2>4 DEF TraceIInv, LastTold
<1>10. FirstTold'
  BY <1>2, <1>3, <1>4 DEF FirstTold, Untraced
<1>11. SettledTold'
  <2>1. CASE current.resumed
    <3>1. settled' = settled /\ detail' = detail
      BY <1>1, <2>1
    <3>2. settled # NoDetail => files'[1] = files[1]
      BY <1>3, <1>4 DEF TraceIInv, SettledTold, n
    <3>3. QED
      BY <1>2, <1>3, <1>4, <3>1, <3>2 DEF TraceIInv, SettledTold
  <2>2. CASE ~current.resumed /\ ~written
    <3>1. detail' = settled' /\ n = 0 /\ files'[1] = NoSnapshot /\ Len(files') # 0
      BY <1>1, <1>2, <1>3, <1>4, <2>2 DEF TraceIInv, FirstTold, n
    <3>2. QED
      BY <3>1 DEF SettledTold
  <2>3. CASE ~current.resumed /\ written
    <3>1. /\ n = 0 /\ answer = AnswerTo(current) /\ savedRuns[1] \in {ContextOf(current), NoContext}
      BY <1>2, <2>3 DEF TraceIInv, FirstTold, n
    <3>2. /\ settled' = detail'
          /\ settled'.status = ShownStatus(answer.status)
          /\ settled'.error = \E k \in DOMAIN current.trace : IsBad(current.trace[k])
          /\ settled'.graph = ShownGraph(current.steps, current.trace)
      BY <1>1, <2>3 DEF SettledDetail
    <3>3. /\ settled'.status = ShownStatus(current.status) /\ settled'.status # "none"
          /\ settled'.status = "completed" <=> current.status = "completed"
      BY <1>5, <3>1, <3>2, AnswersShownAlike
    <3>4. ShownTruly(settled')
      BY <1>5, <2>3, <3>2, <3>3, GraphsShownTruly
    <3>5. savedRuns[1] # NoContext =>
            /\ ShownStatus(savedRuns[1].status) = settled'.status
            /\ ShownGraph(savedRuns[1].steps, savedRuns[1].trace) = settled'.graph
      BY <3>1, <3>2, <3>3 DEF ContextOf
    <3>6. QED
      BY <1>2, <1>3, <1>4, <3>1, <3>2, <3>3, <3>4, <3>5 DEF SettledTold
  <2>4. QED
    BY <2>1, <2>2, <2>3
<1>12. RunTold(current')
  BY <1>2, <1>5
<1>13. QED
  BY <1>7, <1>8, <1>9, <1>10, <1>11, <1>12 DEF TraceIInv

\* A restart forgets what the process had, and what was written stays.
LEMMA RestartsAreTold ==
    ASSUME TraceIInv, ReportIInv', Restart
    PROVE  TraceIInv'
<1> DEFINE n == Len(files)
           begun == Len(savedRuns) + (IF reportStage = "answered" THEN 0 ELSE 1)
<1>1. /\ cache' = <<>> /\ detail' = NoDetail /\ settled' = settled
      /\ current' = Fresh(<<>>) /\ answer' = NoAnswer /\ reportStage' = "answered"
      /\ savedRuns' = IF Len(savedRuns) = begun THEN savedRuns ELSE Append(savedRuns, NoContext)
      /\ files' = IF n = begun THEN files ELSE Append(files, NoSnapshot)
  BY DEF Restart
<1>2. /\ n \in Nat /\ Listed(files) /\ Listed(savedRuns) /\ DOMAIN cache \subseteq 1 .. n
      /\ begun \in {n, n + 1}
      /\ Len(savedRuns) # begun => begun = Len(savedRuns) + 1
      /\ Len(savedRuns) \in {n, n + 1}
  <2>1. Listed(files) /\ Listed(savedRuns)
    BY DEF TraceIInv, FilesKept, ReportIInv, AllSaved, Listed
  <2>2. Len(files) \in Nat /\ Len(savedRuns) \in Nat
    BY <2>1 DEF Listed
  <2>3. QED
    BY <2>1, <2>2 DEF TraceIInv, FilesKept
<1>3. /\ Listed(files') /\ Len(files') = begun
      /\ \A k \in 1 .. n : files'[k] = files[k]
      /\ \A k \in 1 .. Len(files') : k \in 1 .. n \/ files'[k] = NoSnapshot
  <2>1. CASE n = begun
    BY <1>1, <1>2, <2>1
  <2>2. CASE n # begun
    <3>1. files' = Append(files, NoSnapshot) /\ begun = n + 1
      BY <1>1, <1>2, <2>2
    <3>2. /\ Listed(files') /\ Len(files') = n + 1
          /\ files'[n + 1] = NoSnapshot /\ \A k \in 1 .. n : files'[k] = files[k]
      BY <1>2, <3>1, Longer
    <3>3. \A k \in 1 .. n + 1 : k \in 1 .. n \/ k = n + 1
      BY <1>2
    <3>4. QED
      BY <3>1, <3>2, <3>3
  <2>3. QED
    BY <2>1, <2>2
<1>4. Len(savedRuns') = begun /\ \A k \in 1 .. Len(savedRuns) : savedRuns'[k] = savedRuns[k]
  <2>1. CASE Len(savedRuns) = begun
    BY <1>1, <2>1
  <2>2. CASE Len(savedRuns) # begun
    <3>1. savedRuns' = Append(savedRuns, NoContext) /\ begun = Len(savedRuns) + 1
      BY <1>1, <1>2, <2>2
    <3>2. /\ Len(savedRuns') = Len(savedRuns) + 1
          /\ \A k \in 1 .. Len(savedRuns) : savedRuns'[k] = savedRuns[k]
      BY <1>2, <3>1, Longer
    <3>3. QED
      BY <3>1, <3>2
  <2>3. QED
    BY <2>1, <2>2
<1> HIDE DEF begun
<1>5. FilesKept'
  <2>1. DOMAIN cache' = {}
    BY <1>1
  <2>2. QED
    BY <1>1, <1>3, <1>4, <2>1 DEF FilesKept
<1>6. SnapshotsTold'
  BY <1>1, <1>3 DEF TraceIInv, SnapshotsTold, n
<1>7. LastTold'
  BY <1>1 DEF LastTold
<1>8. FirstTold'
  <2>1. ~Untraced'
    BY <1>2, <1>3, <1>4 DEF Untraced
  <2>2. QED
    BY <1>1, <2>1 DEF FirstTold
<1>9. SettledTold'
  <2>1. settled # NoDetail => /\ files'[1] = files[1] /\ Len(files') # 0
                              /\ savedRuns'[1] = savedRuns[1]
    <3>1. settled # NoDetail => 1 \in 1 .. n /\ 1 \in 1 .. Len(savedRuns) /\ Len(files') # 0
      BY <1>2, <1>3 DEF TraceIInv, SettledTold, n
    <3>2. QED
      BY <1>3, <1>4, <3>1
  <2>2. QED
    BY <1>1, <2>1 DEF TraceIInv, SettledTold
<1>10. RunTold(current')
  <2>1. /\ current'.trace = <<>> /\ current'.status = "completed" /\ current'.done = {}
        /\ current'.blocked = 0 /\ current'.failed = 0 /\ DOMAIN current'.steps = {}
        /\ current'.remaining = {}
    BY <1>1 DEF Fresh
  <2>2. QED
    BY <2>1 DEF RunTold
<1>11. QED
  BY <1>5, <1>6, <1>7, <1>8, <1>9, <1>10 DEF TraceIInv

\* What a run does before it has answered is told by the run itself.
LEMMA RunsAreTold ==
    ASSUME TraceIInv, ReportIInv', UNCHANGED <<cache, files, settled, savedRuns>>,
           reportStage' \in {"executing", "executed"},
           detail' = detail \/ settled = NoDetail,
           ~(reportStage = "answered" /\ Untraced), RunTold(current'),
           current'.resumed \/ Len(savedRuns) = 0
    PROVE  TraceIInv'
<1>1. /\ Len(files) \in Nat /\ Listed(files) /\ Len(savedRuns) = Len(files)
      /\ Listed(files') /\ Len(files') = Len(files)
  BY DEF TraceIInv, FilesKept, Listed, Untraced
<1>2. FilesKept'
  BY <1>1 DEF TraceIInv, FilesKept
<1>3. SnapshotsTold'
  BY DEF TraceIInv, SnapshotsTold
<1>4. LastTold' /\ FirstTold'
  BY DEF LastTold, FirstTold
<1>5. SettledTold'
  BY DEF TraceIInv, SettledTold
<1>6. QED
  BY <1>2, <1>3, <1>4, <1>5 DEF TraceIInv

\* A run that answers saves one more context, and is not traced yet.
LEMMA AnswersAreTold ==
    ASSUME TraceIInv, ReportIInv', UNCHANGED <<cache, files, settled, detail>>,
           Len(savedRuns) = Len(files), reportStage' = "answered", RunTold(current'),
           NEW context, savedRuns' = Append(savedRuns, context),
           answer'.status = "completed" <=> current'.status = "completed",
           \/ current'.resumed
           \/ /\ Len(savedRuns) = 0 /\ answer' = AnswerTo(current)
              /\ UNCHANGED <<autoApprove, remembering, current>>
              /\ context \in {ContextOf(current), NoContext}
    PROVE  TraceIInv'
<1>1. /\ Listed(files) /\ Listed(savedRuns) /\ Len(files) \in Nat
      /\ Len(files') = Len(files) /\ Listed(files')
  BY DEF TraceIInv, FilesKept, ReportIInv, AllSaved, Listed
<1>2. /\ Len(savedRuns') = Len(files) + 1 /\ savedRuns'[Len(savedRuns) + 1] = context
      /\ \A k \in 1 .. Len(savedRuns) : savedRuns'[k] = savedRuns[k]
  BY <1>1, Longer
<1>3. FilesKept'
  BY <1>1, <1>2 DEF TraceIInv, FilesKept
<1>4. SnapshotsTold'
  BY DEF TraceIInv, SnapshotsTold
<1>5. Untraced'
  BY <1>1, <1>2 DEF Untraced
<1>6. LastTold'
  BY <1>5 DEF LastTold
<1>7. FirstTold'
  BY <1>1, <1>2 DEF FirstTold, AnswerTo, IsAnsweredApproved, NeedsApproval,
                    RequiresManualApproval, Open, ContextOf
<1>8. SettledTold'
  <2>1. settled # NoDetail => 1 \in 1 .. Len(savedRuns)
    BY <1>1 DEF TraceIInv, SettledTold
  <2>2. QED
    BY <1>1, <1>2, <2>1 DEF TraceIInv, SettledTold
<1>9. QED
  BY <1>3, <1>4, <1>6, <1>7, <1>8 DEF TraceIInv

LEMMA TraceStep ==
    ASSUME TraceIInv, TraceNext
    PROVE  TraceIInv'
<1>1. ReportIInv'
  BY ReportStep DEF TraceIInv
<1>2. /\ RunTold(current) /\ RunSound(current, autoApprove) /\ Formed(current)
      /\ Progresses(current, reportStage) /\ autoApprove \in BOOLEAN
      /\ current.status \in Statuses
  BY DEF TraceIInv, ReportIInv, RunSound, StopTold, Statuses
<1>3. ASSUME NEW plan \in RunPlans, BeginsWith(current', plan),
             current'.status = "completed", current'.trace = <<>>
      PROVE  RunTold(current')
  <2>1. plan \in PlanForms
    BY PlanAssumption DEF PlanForms
  <2>2. QED
    BY <1>3, <2>1, BegunTold
<1>4. ASSUME NEW plan \in RunPlans, Submitted(plan) PROVE TraceIInv'
  <2>1. /\ reportStage = "idle" /\ UNCHANGED <<cache, files, settled, savedRuns>>
        /\ reportStage' \in {"executing", "executed"}
    BY <1>4 DEF Submitted, StartRun
  <2>2. RunTold(current')
    <3>1. PICK critical \in BOOLEAN : current' = [Fresh(plan) EXCEPT !.critical = critical]
      BY <1>4 DEF Submitted, StartRun
    <3>2. BeginsWith(current', plan) /\ current'.status = "completed" /\ current'.trace = <<>>
      BY <3>1, FreshBegins
    <3>3. QED
      BY <1>3, <3>2
  <2>3. Len(savedRuns) = 0 /\ settled = NoDetail
    BY <2>1 DEF TraceIInv, FilesKept, SettledTold
  <2>4. QED
    BY <1>1, <2>1, <2>2, <2>3, RunsAreTold
<1>5. ASSUME NEW plan \in RunPlans, RuntimeReplanned(plan), UNCHANGED traceVars PROVE TraceIInv'
  <2>1. /\ reportStage = "executed" /\ UNCHANGED <<cache, files, detail, settled, savedRuns>>
        /\ reportStage' \in {"executing", "executed"} /\ ~current.resumed
        /\ current' = [Fresh(plan) EXCEPT !.replanned = TRUE, !.critical = current.critical]
    BY <1>5 DEF RuntimeReplanned, MayReplan, traceVars
  <2>2. RunTold(current')
    <3>1. current' = [Fresh(plan) EXCEPT !.replanned = TRUE, !.critical = current.critical]
      BY <2>1
    <3>2. BeginsWith(current', plan) /\ current'.status = "completed"
      BY <3>1, FreshBegins
    <3>3. current'.trace = <<>>
      BY <3>1 DEF Fresh
    <3>4. QED
      BY <1>3, <3>2, <3>3
  <2>3. Len(savedRuns) = 0
    BY <2>1 DEF TraceIInv, FirstTold
  <2>4. QED
    BY <1>1, <2>1, <2>2, <2>3, RunsAreTold
<1>6. CASE Wave /\ UNCHANGED traceVars
  <2>1. /\ reportStage = "executing" /\ UNCHANGED <<cache, files, detail, settled, savedRuns>>
        /\ reportStage' \in {"executing", "executed"}
    BY <1>6 DEF Wave, traceVars
  <2>2. PICK results : IsWave(current, results) /\ current' = Fold(current, results)
    BY <1>6 DEF Wave, IsWave
  <2>3. RunTold(current')
    BY <1>2, <2>1, <2>2, WaveTold
  <2>4. current'.resumed = current.resumed
    BY <1>2, <2>2, FoldParts
  <2>5. current.resumed \/ Len(savedRuns) = 0
    BY <2>1 DEF TraceIInv, FirstTold
  <2>6. QED
    BY <1>1, <2>1, <2>3, <2>4, <2>5, RunsAreTold
<1>7. CASE FinishRun /\ UNCHANGED traceVars
  <2>1. /\ reportStage = "executed" /\ UNCHANGED <<cache, files, detail, settled>>
        /\ UNCHANGED <<autoApprove, remembering, current>>
        /\ reportStage' = "answered" /\ answer' = AnswerTo(current)
    BY <1>7 DEF FinishRun, traceVars
  <2>2. PICK context \in {ContextOf(current), NoContext} : savedRuns' = Append(savedRuns, context)
    BY <1>7 DEF FinishRun
  <2>3. Len(savedRuns) = Len(files) /\ (current.resumed \/ Len(savedRuns) = 0)
    BY <2>1 DEF TraceIInv, FilesKept, FirstTold
  <2>4. answer'.status = "completed" <=> current'.status = "completed"
    BY <1>2, <2>1, AnswersShownAlike
  <2>5. RunTold(current')
    BY <1>2, <2>1
  <2>6. QED
    BY <1>1, <2>1, <2>2, <2>3, <2>4, <2>5, AnswersAreTold
<1>8. CASE RecordTrace
  BY <1>1, <1>8, TracesAreTold
<1>9. CASE Restart
  BY <1>1, <1>9, RestartsAreTold
<1>10. ASSUME NEW k \in DOMAIN savedRuns, ResumeFails(k), ~Untraced, UNCHANGED traceVars
       PROVE  TraceIInv'
  <2>1. /\ reportStage = "answered" /\ UNCHANGED <<cache, files, detail, settled, reportStage>>
        /\ answer' = [NoAnswer EXCEPT !.status = "failed", !.approved = TRUE]
        /\ savedRuns' = Append(savedRuns, NoContext)
        /\ current' = [Fresh(<<>>) EXCEPT !.resumed = TRUE, !.status = "failed"]
    BY <1>10 DEF ResumeFails, traceVars
  <2>2. current'.resumed = TRUE /\ current'.status = "failed"
    BY <2>1 DEF Fresh
  <2>3. answer'.status = "failed"
    BY <2>1 DEF NoAnswer
  <2>4. RunTold(current')
    BY <2>2 DEF RunTold
  <2>5. Len(savedRuns) = Len(files)
    BY <1>10, <2>1 DEF TraceIInv, FilesKept, Listed, Untraced
  <2>6. QED
    BY <1>1, <2>1, <2>2, <2>3, <2>4, <2>5, AnswersAreTold
<1>11. ASSUME NEW k \in DOMAIN savedRuns, NEW decision \in ApprovalDecisions,
              NEW step \in {0} \cup DOMAIN savedRuns[k].steps, ResumeRun(k, step, decision),
              ~Untraced, UNCHANGED traceVars
       PROVE  TraceIInv'
  <2>1. /\ UNCHANGED <<cache, files, detail, settled, savedRuns>>
        /\ reportStage' \in {"executing", "executed"}
        /\ current' = Resumed(savedRuns[k], step, decision)
    BY <1>11 DEF ResumeRun, traceVars
  <2>2. current'.resumed = TRUE
    BY <2>1 DEF Resumed
  <2>3. RunTold(current')
    BY <2>2 DEF RunTold
  <2>4. QED
    BY <1>1, <1>11, <2>1, <2>2, <2>3, RunsAreTold
<1>12. QED
  BY <1>4, <1>5, <1>6, <1>7, <1>8, <1>9, <1>10, <1>11 DEF TraceNext, Resuming

\* Whoever looks at a run later, in the record of its task, in its trace or in an
\* evaluation, before or after a restart, is told what was answered.
THEOREM TraceTold == TraceSpec => []TraceTellsTheRun
<1>1. TraceInit => TraceIInv
  <2>1. SUFFICES ASSUME TraceInit PROVE TraceIInv
    OBVIOUS
  <2>2. ReportIInv
    BY <2>1, AnswersInit
  <2>3. /\ reportStage = "idle" /\ savedRuns = <<>> /\ current = Fresh(<<>>) /\ answer = NoAnswer
        /\ cache = <<>> /\ files = <<>> /\ settled = NoDetail
    BY <2>1 DEF TraceInit, ReportInit
  <2>4. /\ current.trace = <<>> /\ current.status = "completed" /\ current.done = {}
        /\ current.blocked = 0 /\ current.failed = 0 /\ DOMAIN current.steps = {}
        /\ current.remaining = {} /\ current.resumed = FALSE
    BY <2>3 DEF Fresh
  <2>5. RunTold(current)
    BY <2>4 DEF RunTold
  <2>6. FilesKept /\ SnapshotsTold
    BY <2>3 DEF FilesKept, Listed, SnapshotsTold
  <2>7. LastTold /\ FirstTold /\ SettledTold
    BY <2>3 DEF LastTold, FirstTold, SettledTold
  <2>8. QED
    BY <2>2, <2>5, <2>6, <2>7 DEF TraceIInv
<1>2. TraceIInv /\ [TraceNext]_<<reportVars, traceVars>> => TraceIInv'
  <2>1. ASSUME TraceIInv, UNCHANGED <<reportVars, traceVars>> PROVE TraceIInv'
    <3>1. UNCHANGED <<reportStage, autoApprove, remembering, current, answer, savedRuns, cache,
                      files, detail, settled>>
      BY <2>1 DEF reportVars, traceVars
    <3>2. ReportIInv'
      BY <2>1, <3>1, AnswersStutter DEF TraceIInv
    <3>3. RunTold(current')
      BY <2>1, <3>1 DEF TraceIInv
    <3>4. FilesKept' /\ SnapshotsTold' /\ LastTold'
      BY <2>1, <3>1 DEF TraceIInv, FilesKept, Listed, SnapshotsTold, LastTold, Untraced
    <3>5. SettledTold'
      BY <2>1, <3>1 DEF TraceIInv, SettledTold
    <3>6. FirstTold'
      BY <2>1, <3>1 DEF TraceIInv, FirstTold, Untraced, AnswerTo, IsAnsweredApproved, NeedsApproval,
                        RequiresManualApproval, Open, ContextOf
    <3>7. QED
      BY <3>2, <3>3, <3>4, <3>5, <3>6 DEF TraceIInv
  <2>2. QED
    BY <2>1, TraceStep
<1>3. QED
  BY <1>1, <1>2, TraceIsTold, PTL DEF TraceSpec

==============================================================================
