------------------------------ MODULE EventProofs ------------------------------
(***************************************************************************)
(* Proofs about schedules, and about what the agents, the user and the bus   *)
(* tell each other, for any number of tasks, runs, messages and calls.  The   *)
(* components share no state; each has a section of its own.                  *)
(***************************************************************************)
EXTENDS CronManager, AgentQuestions, MessageDelivery, MessageBus,
        FiniteSetTheorems, SequenceTheorems, TLAPS

-----------------------------------------------------------------------------
(* Schedules (CronManager).  That triggers keep their interval rests on two  *)
(* facts about the loops: there is never a second one, and a task the running *)
(* one has collected stays due until it is its turn, for nobody else triggers *)
(* it meanwhile.                                                             *)

LoopStages == {"none", "idle", "tick", "cancelled", "dead"}
CronTaskType ==
    [life : {"new", "live", "deleted"}, enabled : BOOLEAN, interval : Nat, last : Nat \cup {NotYet}]
LoopType == [stage : LoopStages, queue : SUBSET CronTasks, inflight : SUBSET CronTasks]

CronTypes ==
    /\ cronTasks \in [CronTasks -> CronTaskType]
    /\ cronLoops \in [Loops -> LoopType]
    /\ running \in BOOLEAN /\ restarted \in BOOLEAN
    /\ handle \in Loops \cup {NoLoop}
    /\ stopping \subseteq Loops
    /\ cronClock \in Nat

\* A stop() that has not returned has stopped the scheduler, and no start() came since.
StoppedWhileStopping == stopping # {} /\ ~restarted => ~running

\* What a loop has collected has waited for its interval, and goes on waiting.
CollectedStayDue ==
    \A l \in Loops, t \in CronTasks :
        ~restarted /\ cronLoops[l].stage = "tick" /\ t \in cronLoops[l].queue
          /\ cronTasks[t].life = "live" /\ cronTasks[t].last \in Nat
            => cronClock - cronTasks[t].last >= cronTasks[t].interval

CronInv == CronTypes /\ LoopIsHeld /\ StoppedWhileStopping /\ CollectedStayDue

-----------------------------------------------------------------------------
LEMMA IntervalIsNat == ASSUME NEW expr PROVE EstimateInterval(expr) \in Nat
  BY CronAssumption DEF EstimateInterval

LEMMA CronInitHolds == CronInit => CronInv
  <1> SUFFICES ASSUME CronInit PROVE CronInv
    OBVIOUS
  <1>1. CronTypes
    BY CronAssumption DEF CronInit, CronTypes, CronTaskType, LoopType, NewTask, NewLoop, LoopStages
  <1>2. LoopIsHeld /\ StoppedWhileStopping /\ CollectedStayDue
    BY DEF CronInit, LoopIsHeld, StoppedWhileStopping, CollectedStayDue, NewLoop
  <1> QED BY <1>1, <1>2 DEF CronInv

(* Actions that change a task alone. *)

LEMMA CreateKeeps == ASSUME CronInv, NEW t \in CronTasks, CreateTask(t) PROVE CronInv'
  <1> PICK expr : cronTasks' = [cronTasks EXCEPT ![t] =
              [life |-> "live", enabled |-> TRUE, last |-> NotYet,
               interval |-> EstimateInterval(expr)]]
    BY DEF CreateTask
  <1> UNCHANGED <<cronLoops, running, handle, stopping, cronClock, restarted>>
    BY DEF CreateTask
  <1>1. CronTypes'
    BY IntervalIsNat DEF CronInv, CronTypes, CronTaskType
  <1>2. LoopIsHeld' /\ StoppedWhileStopping'
    BY DEF CronInv, LoopIsHeld, StoppedWhileStopping
  <1>3. CollectedStayDue'
    BY CronAssumption DEF CronInv, CronTypes, CollectedStayDue
  <1> QED BY <1>1, <1>2, <1>3 DEF CronInv

LEMMA SwitchKeeps == ASSUME CronInv, NEW t \in CronTasks, SwitchTask(t) PROVE CronInv'
  <1> USE DEF SwitchTask
  <1>1. CronTypes'
    BY DEF CronInv, CronTypes, CronTaskType
  <1>2. LoopIsHeld' /\ StoppedWhileStopping'
    BY DEF CronInv, LoopIsHeld, StoppedWhileStopping
  <1>3. CollectedStayDue'
    BY DEF CronInv, CronTypes, CronTaskType, CollectedStayDue
  <1> QED BY <1>1, <1>2, <1>3 DEF CronInv

LEMMA DeleteKeeps == ASSUME CronInv, NEW t \in CronTasks, DeleteTask(t) PROVE CronInv'
  <1> USE DEF DeleteTask
  <1>1. CronTypes'
    BY CronAssumption DEF CronInv, CronTypes, CronTaskType, NewTask
  <1>2. LoopIsHeld' /\ StoppedWhileStopping'
    BY DEF CronInv, LoopIsHeld, StoppedWhileStopping
  <1>3. CollectedStayDue'
    BY CronAssumption DEF CronInv, CronTypes, CollectedStayDue, NewTask
  <1> QED BY <1>1, <1>2, <1>3 DEF CronInv

(* Starting and stopping. *)

LEMMA StartKeeps == ASSUME CronInv, NEW l \in Loops, StartScheduler(l) PROVE CronInv'
  <1> USE DEF StartScheduler
  <1>1. CronTypes'
    BY DEF CronInv, CronTypes, LoopType, LoopStages
  <1>2. LoopIsHeld'
    BY DEF CronInv, CronTypes, LoopType, LoopIsHeld
  <1>3. StoppedWhileStopping'
    BY DEF CronInv, StoppedWhileStopping
  <1>4. CollectedStayDue'
    BY DEF CronInv, CronTypes, LoopType, CollectedStayDue
  <1> QED BY <1>1, <1>2, <1>3, <1>4 DEF CronInv

LEMMA StopKeeps == ASSUME CronInv, StopScheduler PROVE CronInv'
  <1> USE DEF StopScheduler
  <1>1. CronTypes'
    BY DEF CronInv, CronTypes, LoopType, LoopStages, Cancel
  <1>2. \A l \in Loops : cronLoops'[l].stage \in {"idle", "tick"} =>
            cronLoops'[l] = cronLoops[l] /\ l # handle
    BY CronAssumption DEF CronInv, CronTypes, LoopType, Cancel
  <1>3. LoopIsHeld'
    BY <1>2 DEF CronInv, LoopIsHeld
  <1>4. StoppedWhileStopping'
    BY DEF StoppedWhileStopping
  <1>5. CollectedStayDue'
    BY <1>2 DEF CronInv, CollectedStayDue
  <1> QED BY <1>1, <1>3, <1>4, <1>5 DEF CronInv

LEMMA StopReturnsKeeps == ASSUME CronInv, NEW l \in Loops, StopReturns(l) PROVE CronInv'
  <1> USE DEF StopReturns
  <1>1. CronTypes'
    BY DEF CronInv, CronTypes
  <1>2. LoopIsHeld'
    BY DEF CronInv, LoopIsHeld, StoppedWhileStopping
  <1>3. StoppedWhileStopping'
    BY DEF CronInv, StoppedWhileStopping
  <1>4. CollectedStayDue'
    BY DEF CronInv, CollectedStayDue
  <1> QED BY <1>1, <1>2, <1>3, <1>4 DEF CronInv

LEMMA CancelledKeeps == ASSUME CronInv, NEW l \in Loops, LoopCancelled(l) PROVE CronInv'
  <1> USE DEF LoopCancelled
  <1>1. CronTypes'
    BY DEF CronInv, CronTypes, LoopType, NewLoop, LoopStages
  <1>2. LoopIsHeld' /\ StoppedWhileStopping'
    BY DEF CronInv, CronTypes, LoopIsHeld, StoppedWhileStopping, NewLoop
  <1>3. CollectedStayDue'
    BY DEF CronInv, CronTypes, CollectedStayDue, NewLoop
  <1> QED BY <1>1, <1>2, <1>3 DEF CronInv

(* The loop. *)

LEMMA TickKeeps == ASSUME CronInv, NEW l \in Loops, ScheduleTick(l) PROVE CronInv'
  <1> DEFINE due == {t \in CronTasks : IsDue(t)}
  <1> DEFINE queue == IF running THEN due ELSE {}
             stage == CASE ~running -> "dead"
                        [] running /\ due = {} -> "idle"
                        [] OTHER -> "tick"
             loop == [cronLoops[l] EXCEPT !.queue = queue, !.stage = stage]
  <1>0. /\ cronLoops \in [Loops -> LoopType] /\ loop \in LoopType /\ loop.queue \subseteq due
    <2>1. cronLoops \in [Loops -> LoopType] /\ cronLoops[l] \in LoopType
      BY DEF CronInv, CronTypes
    <2>2. stage \in LoopStages /\ queue \subseteq due /\ due \subseteq CronTasks
      BY DEF LoopStages
    <2> HIDE DEF stage, queue, due
    <2>3. QED
      BY <2>1, <2>2 DEF LoopType, LoopStages
  <1>1. /\ cronLoops[l].stage = "idle"
        /\ UNCHANGED <<cronTasks, running, handle, stopping, cronClock, restarted>>
        /\ cronLoops' \in [Loops -> LoopType]
        /\ \A k \in Loops \ {l} : cronLoops'[k] = cronLoops[k]
        /\ cronLoops'[l].queue \subseteq due
    <2>1. /\ cronLoops[l].stage = "idle" /\ cronLoops' = [cronLoops EXCEPT ![l] = loop]
          /\ UNCHANGED <<cronTasks, running, handle, stopping, cronClock, restarted>>
      BY Zenon DEF ScheduleTick
    <2> HIDE DEF loop, due
    <2>2. QED
      BY <1>0, <2>1
  <1>2. CronTypes'
    BY <1>1 DEF CronInv, CronTypes
  <1>3. LoopIsHeld' /\ StoppedWhileStopping'
    BY <1>1 DEF CronInv, LoopIsHeld, StoppedWhileStopping
  <1>4. CollectedStayDue'
    BY <1>1, CronAssumption DEF CronInv, CronTypes, CollectedStayDue, IsDue
  <1> QED BY <1>2, <1>3, <1>4 DEF CronInv

\* A trigger changes the task alone, and to the present moment.
LEMMA MarkFacts ==
    ASSUME CronTypes, NEW t \in CronTasks, cronTasks' = MarkTriggered(t)
    PROVE  /\ cronTasks' \in [CronTasks -> CronTaskType]
           /\ \A s \in CronTasks : s # t => cronTasks'[s] = cronTasks[s]
           /\ \A s \in CronTasks : cronTasks'[s].interval = cronTasks[s].interval
           /\ cronTasks'[t].last \in {cronTasks[t].last, cronClock}
           /\ cronTasks'[t].last # cronTasks[t].last => cronTasks[t].life = "live"
  BY DEF CronTypes, CronTaskType, MarkTriggered, Live

LEMMA ProcessKeeps ==
    ASSUME CronInv, NEW l \in Loops, NEW t \in CronTasks, ProcessTask(l, t) PROVE CronInv'
  <1> USE DEF ProcessTask
  <1>1. /\ cronLoops' \in [Loops -> LoopType]
        /\ \A k \in Loops \ {l} : cronLoops'[k] = cronLoops[k]
        /\ cronLoops'[l].stage = "tick" /\ cronLoops'[l].queue = cronLoops[l].queue \ {t}
    BY DEF CronInv, CronTypes, LoopType
  <1>2. CronTypes'
    BY <1>1, MarkFacts DEF CronInv, CronTypes
  <1>3. LoopIsHeld' /\ StoppedWhileStopping'
    BY <1>1 DEF CronInv, LoopIsHeld, StoppedWhileStopping
  <1>4. CollectedStayDue'
    <2> SUFFICES ASSUME NEW k \in Loops, NEW s \in CronTasks,
                        ~restarted, cronLoops'[k].stage = "tick", s \in cronLoops'[k].queue,
                        cronTasks'[s].life = "live", cronTasks'[s].last \in Nat
                 PROVE  cronClock - cronTasks'[s].last >= cronTasks'[s].interval
      BY DEF CollectedStayDue
    <2>1. k = l
      BY <1>1 DEF CronInv, LoopIsHeld
    <2>2. s # t /\ s \in cronLoops[l].queue
      BY <1>1, <2>1
    <2>3. cronTasks'[s] = cronTasks[s]
      BY <2>2, MarkFacts DEF CronInv
    <2> QED BY <2>2, <2>3 DEF CronInv, CollectedStayDue
  <1> QED BY <1>2, <1>3, <1>4 DEF CronInv

LEMMA CallbackKeeps ==
    ASSUME CronInv, NEW l \in Loops, NEW t \in CronTasks, CallbackReturns(l, t) PROVE CronInv'
  <1>1. /\ cronLoops[l].stage = "tick"
        /\ UNCHANGED <<cronTasks, running, handle, stopping, cronClock, restarted>>
        /\ cronLoops' \in [Loops -> LoopType]
        /\ \A k \in Loops \ {l} : cronLoops'[k] = cronLoops[k]
        /\ cronLoops'[l].queue = cronLoops[l].queue
    BY DEF CallbackReturns, CronInv, CronTypes, LoopType, LoopStages
  <1>2. CronTypes'
    BY <1>1 DEF CronInv, CronTypes
  <1>3. LoopIsHeld' /\ StoppedWhileStopping'
    BY <1>1 DEF CronInv, LoopIsHeld, StoppedWhileStopping
  <1>4. CollectedStayDue'
    BY <1>1 DEF CronInv, CollectedStayDue
  <1> QED BY <1>2, <1>3, <1>4 DEF CronInv

LEMMA ClockKeeps == ASSUME CronInv, CronTick PROVE CronInv'
  <1> USE DEF CronTick
  <1>1. CronTypes'
    BY DEF CronInv, CronTypes
  <1>2. LoopIsHeld' /\ StoppedWhileStopping'
    BY DEF CronInv, LoopIsHeld, StoppedWhileStopping
  <1>3. CollectedStayDue'
    BY DEF CronInv, CronTypes, CronTaskType, CollectedStayDue
  <1> QED BY <1>1, <1>2, <1>3 DEF CronInv

LEMMA NextKeeps == CronInv /\ [CronNext]_cronVars => CronInv'
  <1> SUFFICES ASSUME CronInv, [CronNext]_cronVars PROVE CronInv'
    OBVIOUS
  <1>1. CASE UNCHANGED cronVars
    BY <1>1 DEF cronVars, CronInv, CronTypes, LoopIsHeld, StoppedWhileStopping, CollectedStayDue
  <1>2. ASSUME NEW t \in CronTasks, CreateTask(t) \/ SwitchTask(t) \/ DeleteTask(t) PROVE CronInv'
    BY <1>2, CreateKeeps, SwitchKeeps, DeleteKeeps
  <1>3. ASSUME NEW l \in Loops, StartScheduler(l) \/ LoopStep(l) \/ StopReturns(l) PROVE CronInv'
    BY <1>3, StartKeeps, StopReturnsKeeps, CancelledKeeps, TickKeeps, ProcessKeeps, CallbackKeeps
    DEF LoopStep
  <1>4. CASE StopScheduler
    BY <1>4, StopKeeps
  <1>5. CASE CronTick
    BY <1>5, ClockKeeps
  <1> QED BY <1>1, <1>2, <1>3, <1>4, <1>5 DEF CronNext

-----------------------------------------------------------------------------
\* Only a trigger turns one moment of a task into another.
LEMMA OnlyTriggersMark == CronInv /\ [CronNext]_cronVars => SpacedTriggers
  <1> SUFFICES ASSUME CronInv, [CronNext]_cronVars, NEW t \in CronTasks,
                      cronTasks'[t].last # cronTasks[t].last, ~restarted,
                      {cronTasks[t].last, cronTasks'[t].last} \subseteq Nat
               PROVE  cronClock - cronTasks[t].last >= cronTasks[t].interval
    BY DEF SpacedTriggers
  <1>1. ASSUME NEW s \in CronTasks, CreateTask(s) \/ SwitchTask(s) \/ DeleteTask(s) PROVE FALSE
    BY <1>1, CronAssumption
    DEF CreateTask, SwitchTask, DeleteTask, CronInv, CronTypes, CronTaskType, NewTask
  <1>2. ASSUME NEW l \in Loops, NEW s \in CronTasks, ProcessTask(l, s)
        PROVE  cronClock - cronTasks[t].last >= cronTasks[t].interval
    <2>1. s = t /\ cronTasks[t].life = "live"
      BY <1>2, MarkFacts DEF ProcessTask, CronInv
    <2> QED BY <1>2, <2>1 DEF ProcessTask, CronInv, CollectedStayDue
  <1>3. ASSUME cronTasks' = cronTasks PROVE FALSE
    BY <1>3
  <1> QED
    BY <1>1, <1>2, <1>3
    DEF CronNext, LoopStep, StartScheduler, StopReturns, LoopCancelled, ScheduleTick,
        CallbackReturns, StopScheduler, CronTick, cronVars

\* The invariant of the scheduler holds throughout: types, at most one loop, and what
\* it collected stays due (_schedule_loop, start, stop).
THEOREM CronInvariant == CronSpec => []CronInv
  BY CronInitHolds, NextKeeps, PTL DEF CronSpec

\* Whatever is created, paused, deleted, started and stopped, and however long a turn
\* takes: the loop that runs is the one a stop() would cancel, and two triggers of a
\* task are its interval apart, unless a start() came in the middle of a stop().
THEOREM TimeIsKept == CronSpec => LoopKeepsTime
  <1>1. CronInv => LoopIsHeld
    BY DEF CronInv
  <1>2. CronInv /\ CronInv' /\ [CronNext]_cronVars => LoopIsHeld' /\ SpacedTriggers
    BY <1>1, OnlyTriggersMark DEF CronInv
  <1> QED BY <1>2, CronInvariant, PTL DEF CronSpec, LoopKeepsTime

-----------------------------------------------------------------------------
(* Questions (AgentQuestions).  What makes the agreement of an agent and the *)
(* question manager inductive is which questions have not been asked yet     *)
(* (Ahead), and what a question can be while its asker waits (Waited).       *)

Stages == {"idle", "think", "notify", "wait", "final", "returned", "cancelled"}
Answers == {"none", "answer", "reads_like_timeout"}
Outcomes == {"nothing", "timeout", "KeyError", "error", "answer", "reads_like_timeout"}
QuestionType ==
    [life : {"none", "known", "cleared"},
     status : {"pending", "answered", "timeout", "cancelled"},
     answer : Answers, woken : BOOLEAN, old : BOOLEAN]

AskTypes ==
    /\ react \in [Askers -> [stage : Stages, step : 1 .. MaxSteps]]
    /\ questions \in [Questions -> QuestionType]
    /\ fired \subseteq Questions
    /\ heard \in [Questions -> Outcomes]

\* A question of a step the run has not come to, or is only thinking about.
Ahead(a, s) == s > react[a].step \/ (s = react[a].step /\ react[a].stage \in {"idle", "think"})

NothingAhead ==
    \A a \in Askers, s \in 1 .. MaxSteps :
        Ahead(a, s) => /\ questions[<<a, s>>].life = "none"
                       /\ heard[<<a, s>>] = "nothing"

\* The question of a run that waits was asked, and its timer has not been noted yet.
Waited ==
    \A a \in Askers : react[a].stage \in {"notify", "wait"} =>
        /\ questions[Asked(a)].life # "none"
        /\ questions[Asked(a)].status # "timeout"

\* Who was woken, or given an answer, is no longer pending.
NoLongerPending ==
    \A q \in Questions :
        /\ questions[q].woken => questions[q].status # "pending"
        /\ questions[q].answer # "none" => questions[q].status \in {"answered", "timeout"}

\* A timeout is the last thing a run hears.
TimeoutIsLast ==
    \A a \in Askers, s \in 1 .. MaxSteps :
        heard[<<a, s>>] = "timeout" =>
            react[a].step = s /\ react[a].stage \in {"final", "returned", "cancelled"}

\* QuestionsSettle but for what a timeout means for the later questions.
Agrees(a, s) ==
    LET q == <<a, s>> IN
    /\ Known(q) /\ questions[q].status = "pending" =>
          \/ s = react[a].step /\ react[a].stage \in {"notify", "wait"}
          \/ react[a].stage = "cancelled"
    /\ heard[q] \in {"answer", "reads_like_timeout"} =>
          questions[q].status = "answered" \/ questions[q].life = "cleared"
    /\ questions[q].life = "cleared" => questions[q].answer # "none"
    /\ heard[q] = "KeyError" => questions[q].life = "cleared"

AskInv ==
    /\ AskTypes
    /\ NothingAhead
    /\ Waited
    /\ NoLongerPending
    /\ TimeoutIsLast
    /\ \A a \in Askers, s \in 1 .. MaxSteps : Agrees(a, s)

-----------------------------------------------------------------------------
LEMMA PairsAreQuestions ==
    /\ \A a \in Askers, s \in 1 .. MaxSteps : <<a, s>> \in Questions
    /\ \A q \in Questions : \E a \in Askers, s \in 1 .. MaxSteps : q = <<a, s>>
  BY DEF Questions

LEMMA AskedIsQuestion ==
    ASSUME AskTypes, NEW a \in Askers PROVE Asked(a) \in Questions
  BY DEF AskTypes, Asked, Questions

LEMMA InvariantSettles == AskInv => QuestionsSettle
  <1> SUFFICES ASSUME AskInv PROVE QuestionsSettle
    OBVIOUS
  <1>1. ASSUME NEW a \in Askers, NEW s \in 1 .. MaxSteps, heard[<<a, s>>] = "timeout",
               NEW later \in s + 1 .. MaxSteps
        PROVE  questions[<<a, later>>].life = "none"
    <2>1. later \in 1 .. MaxSteps /\ later > s
      BY AskAssumption
    <2>2. react[a].step = s
      BY <1>1 DEF AskInv, TimeoutIsLast
    <2> QED BY <2>1, <2>2 DEF AskInv, NothingAhead, Ahead
  <1>2. ASSUME NEW a \in Askers, NEW s \in 1 .. MaxSteps,
               Known(<<a, s>>), questions[<<a, s>>].status = "pending"
        PROVE  \/ <<a, s>> = Asked(a) /\ react[a].stage \in {"notify", "wait"}
               \/ react[a].stage = "cancelled"
    <2>1. Agrees(a, s)
      BY DEF AskInv
    <2> QED BY <1>2, <2>1 DEF Agrees, Asked
  <1>3. ASSUME NEW a \in Askers, NEW s \in 1 .. MaxSteps
        PROVE  /\ heard[<<a, s>>] \in {"answer", "reads_like_timeout"} =>
                    questions[<<a, s>>].status = "answered" \/ questions[<<a, s>>].life = "cleared"
               /\ questions[<<a, s>>].life = "cleared" => questions[<<a, s>>].answer # "none"
               /\ heard[<<a, s>>] = "KeyError" => questions[<<a, s>>].life = "cleared"
    <2>1. Agrees(a, s)
      BY DEF AskInv
    <2> QED BY <2>1 DEF Agrees
  <1> QED BY <1>1, <1>2, <1>3, Zenon DEF QuestionsSettle

LEMMA InitHolds == AskInit => AskInv
  <1> SUFFICES ASSUME AskInit PROVE AskInv
    OBVIOUS
  <1>1. AskTypes
    BY AskAssumption DEF AskInit, AskTypes, QuestionType, Stages, Answers, Outcomes, Unasked
  <1>2. NothingAhead /\ TimeoutIsLast /\ \A a \in Askers, s \in 1 .. MaxSteps : Agrees(a, s)
    BY PairsAreQuestions
    DEF AskInit, NothingAhead, TimeoutIsLast, Agrees, Known, Unasked
  <1>3. Waited /\ NoLongerPending
    BY DEF AskInit, Waited, NoLongerPending, Unasked
  <1> QED BY <1>1, <1>2, <1>3 DEF AskInv

-----------------------------------------------------------------------------
(* Steps of a run that ask and hear nothing.  They leave the questions alone,  *)
(* and the run does not leave a wait but by a cancellation.                     *)

Moves(a) ==
    /\ react' \in [Askers -> [stage : Stages, step : 1 .. MaxSteps]]
    /\ \A b \in Askers : b # a => react'[b] = react[b]
    /\ react'[a].step >= react[a].step
    /\ react'[a].step > react[a].step => react[a].stage = "think" /\ react'[a].stage = "think"
    /\ react'[a].stage \in {"idle", "think"} => react[a].stage \in {"idle", "think"}
    /\ react'[a].stage \in {"notify", "wait"} => react[a].stage = "notify"
    /\ react[a].stage \in {"notify", "wait"} => react'[a].stage \in {"wait", "cancelled"}
    /\ react[a].stage = "cancelled" => react'[a].stage = "cancelled"
    /\ react[a].stage \in {"final", "returned", "cancelled"} =>
          react'[a].stage \in {"final", "returned", "cancelled"}

LEMMA MovesKeep ==
    ASSUME AskInv, NEW a \in Askers, Moves(a), UNCHANGED <<questions, heard>>,
           fired' \subseteq Questions
    PROVE  AskInv'
  <1>1. AskTypes'
    BY DEF AskInv, AskTypes, Moves
  <1>2. NothingAhead'
    <2> SUFFICES ASSUME NEW b \in Askers, NEW s \in 1 .. MaxSteps, Ahead(b, s)'
                 PROVE  questions[<<b, s>>].life = "none" /\ heard[<<b, s>>] = "nothing"
      BY DEF NothingAhead
    <2>1. CASE b # a
      BY <2>1 DEF AskInv, NothingAhead, Ahead, Moves
    <2>2. CASE b = a
      <3>1. react[a].step \in Nat /\ react'[a].step \in Nat /\ s \in Nat
        BY AskAssumption DEF AskInv, AskTypes, Moves
      <3>2. Ahead(a, s)
        BY <2>2, <3>1 DEF Ahead, Moves
      <3> QED BY <2>2, <3>2 DEF AskInv, NothingAhead
    <2> QED BY <2>1, <2>2
  <1>3. Waited'
    <2> SUFFICES ASSUME NEW b \in Askers, react'[b].stage \in {"notify", "wait"}
                 PROVE  /\ questions[Asked(b)'].life # "none"
                        /\ questions[Asked(b)'].status # "timeout"
      BY DEF Waited
    <2>1. Asked(b)' = Asked(b) /\ react[b].stage \in {"notify", "wait"}
      <3>1. CASE b # a
        BY <3>1 DEF Moves, Asked
      <3>2. CASE b = a
        <4>1. react'[a].step = react[a].step /\ react[a].stage = "notify"
          BY <3>2 DEF AskInv, AskTypes, Moves
        <4> QED BY <3>2, <4>1 DEF Asked
      <3> QED BY <3>1, <3>2
    <2> QED BY <2>1 DEF AskInv, Waited
  <1>4. NoLongerPending'
    BY DEF AskInv, NoLongerPending
  <1>5. TimeoutIsLast'
    BY DEF AskInv, AskTypes, TimeoutIsLast, Moves
  <1>6. ASSUME NEW b \in Askers, NEW s \in 1 .. MaxSteps PROVE Agrees(b, s)'
    <2>1. Agrees(b, s)
      BY DEF AskInv
    <2>2. CASE b # a
      BY <2>1, <2>2 DEF Agrees, Known, Moves
    <2>3. CASE b = a
      <3>1. react[a].stage \in {"notify", "wait"} => react'[a].step = react[a].step
        BY DEF AskInv, AskTypes, Moves
      <3> QED BY <2>1, <2>3, <3>1 DEF Agrees, Known, Moves
    <2> QED BY <2>2, <2>3
  <1> QED BY <1>1, <1>2, <1>3, <1>4, <1>5, <1>6 DEF AskInv

\* The end of a step: the next one, or the final answer.
LEMMA StepOverFacts ==
    ASSUME AskTypes, NEW a \in Askers, NEW terminate \in BOOLEAN, StepOver(a, terminate)
    PROVE  /\ react' \in [Askers -> [stage : Stages, step : 1 .. MaxSteps]]
           /\ \A b \in Askers : b # a => react'[b] = react[b]
           /\ \/ react'[a].stage = "final" /\ react'[a].step = react[a].step
              \/ /\ ~terminate
                 /\ react'[a].stage = "think" /\ react'[a].step = react[a].step + 1
  <1>1. react[a] \in [stage : Stages, step : 1 .. MaxSteps] /\ MaxSteps \in Nat
    BY AskAssumption DEF AskTypes
  <1>2. CASE terminate \/ react[a].step = MaxSteps
    <2> DEFINE last == [react[a] EXCEPT !.stage = "final"]
    <2>1. react' = [react EXCEPT ![a] = last]
      BY <1>2 DEF StepOver
    <2>2. /\ last \in [stage : Stages, step : 1 .. MaxSteps]
          /\ last.stage = "final" /\ last.step = react[a].step
      BY <1>1 DEF Stages
    <2> HIDE DEF last
    <2> QED BY <2>1, <2>2 DEF AskTypes
  <1>3. CASE ~terminate /\ react[a].step # MaxSteps
    <2> DEFINE following == [stage |-> "think", step |-> react[a].step + 1]
    <2>1. react' = [react EXCEPT ![a] = following]
      BY <1>3 DEF StepOver
    <2>2. react[a].step + 1 \in 1 .. MaxSteps
      BY <1>1, <1>3
    <2>3. /\ following \in [stage : Stages, step : 1 .. MaxSteps]
          /\ following.stage = "think" /\ following.step = react[a].step + 1
      BY <2>2 DEF Stages
    <2> HIDE DEF following
    <2> QED BY <1>3, <2>1, <2>3 DEF AskTypes
  <1> QED BY <1>2, <1>3

LEMMA QuietStepsKeep ==
    ASSUME AskInv, NEW a \in Askers,
           \/ RunWithReact(a) \/ TakeAction(a) \/ CallbacksNotified(a)
           \/ FinalAnswer(a) \/ TimerFires(a) \/ RunCancelled(a)
    PROVE  AskInv'
  <1> AskTypes
    BY DEF AskInv
  <1>1. CASE RunWithReact(a) \/ CallbacksNotified(a) \/ FinalAnswer(a) \/ RunCancelled(a)
    <2>1. Moves(a)
      BY <1>1
      DEF RunWithReact, CallbacksNotified, FinalAnswer, RunCancelled, AskTypes, Moves, Stages
    <2>2. UNCHANGED <<questions, heard, fired>>
      BY <1>1 DEF RunWithReact, CallbacksNotified, FinalAnswer, RunCancelled
    <2> QED BY <2>1, <2>2, MovesKeep DEF AskTypes
  <1>2. CASE TakeAction(a)
    <2>1. PICK finalize \in BOOLEAN : StepOver(a, finalize)
      BY <1>2 DEF TakeAction
    <2>2. Moves(a)
      BY <1>2, <2>1, StepOverFacts DEF TakeAction, AskTypes, Moves
    <2>3. UNCHANGED <<questions, heard, fired>>
      BY <1>2 DEF TakeAction
    <2> QED BY <2>2, <2>3, MovesKeep DEF AskTypes
  <1>3. CASE TimerFires(a)
    <2>1. AskTypes'
      BY <1>3, AskedIsQuestion DEF TimerFires, AskTypes
    <2>2. UNCHANGED <<react, questions, heard>>
      BY <1>3 DEF TimerFires
    <2> QED
      BY <2>1, <2>2
      DEF AskInv, NothingAhead, Ahead, Waited, Asked, NoLongerPending, TimeoutIsLast, Agrees, Known
  <1> QED BY <1>1, <1>2, <1>3

-----------------------------------------------------------------------------
(* Asking and hearing. *)

LEMMA AskKeeps ==
    ASSUME AskInv, NEW a \in Askers, AskUser(a) PROVE AskInv'
  <1> DEFINE asked == Asked(a)
             step == react[a].step
  <1>1. /\ asked = <<a, step>> /\ asked \in Questions /\ step \in 1 .. MaxSteps
        /\ react[a].stage = "think"
        /\ react' = [react EXCEPT ![a].stage = "notify"]
        /\ questions' = [questions EXCEPT ![asked] = [Unasked EXCEPT !.life = "known"]]
        /\ UNCHANGED <<fired, heard>>
        /\ heard[asked] = "nothing"
    BY AskedIsQuestion DEF AskInv, AskTypes, AskUser, Asked, NothingAhead, Ahead
  <1>2. AskTypes'
    <2> DEFINE known == [Unasked EXCEPT !.life = "known"]
               shown == [react[a] EXCEPT !.stage = "notify"]
    <2>1. known \in QuestionType
      BY DEF QuestionType, Answers, Unasked
    <2>2. shown \in [stage : Stages, step : 1 .. MaxSteps]
      BY DEF AskInv, AskTypes, Stages
    <2>3. questions' = [questions EXCEPT ![asked] = known] /\ react' = [react EXCEPT ![a] = shown]
      BY <1>1
    <2> HIDE DEF known, shown, asked
    <2> QED BY <1>1, <2>1, <2>2, <2>3 DEF AskInv, AskTypes
  <1>3. /\ questions'[asked].life = "known" /\ questions'[asked].status = "pending"
        /\ questions'[asked].answer = "none" /\ ~questions'[asked].woken
        /\ \A q \in Questions : q # asked => questions'[q] = questions[q]
        /\ react'[a].stage = "notify" /\ react'[a].step = step
        /\ \A b \in Askers : b # a => react'[b] = react[b]
    BY <1>1 DEF AskInv, AskTypes, Unasked
  <1>4. NothingAhead'
    <2> SUFFICES ASSUME NEW b \in Askers, NEW s \in 1 .. MaxSteps, Ahead(b, s)'
                 PROVE  questions'[<<b, s>>].life = "none" /\ heard'[<<b, s>>] = "nothing"
      BY DEF NothingAhead
    <2>1. <<b, s>> # asked /\ Ahead(b, s)
      BY <1>1, <1>3 DEF Ahead, AskInv, AskTypes
    <2> QED BY <1>1, <1>3, <2>1, PairsAreQuestions DEF AskInv, NothingAhead
  <1>5. Waited'
    <2> SUFFICES ASSUME NEW b \in Askers, react'[b].stage \in {"notify", "wait"}
                 PROVE  /\ questions'[Asked(b)'].life # "none"
                        /\ questions'[Asked(b)'].status # "timeout"
      BY DEF Waited
    <2>1. CASE b = a
      BY <1>1, <1>3, <2>1 DEF Asked
    <2>2. CASE b # a
      <3>1. Asked(b)' = Asked(b) /\ Asked(b) # asked /\ Asked(b) \in Questions
        BY <1>3, <2>2, AskedIsQuestion DEF Asked, AskInv
      <3> QED BY <1>3, <2>2, <3>1 DEF AskInv, Waited
    <2> QED BY <2>1, <2>2
  <1>6. NoLongerPending'
    BY <1>3 DEF AskInv, NoLongerPending
  <1>7. TimeoutIsLast'
    BY <1>1, <1>3 DEF AskInv, TimeoutIsLast
  <1>8. ASSUME NEW b \in Askers, NEW s \in 1 .. MaxSteps PROVE Agrees(b, s)'
    <2>1. CASE <<b, s>> = asked
      BY <1>1, <1>3, <2>1 DEF Agrees
    <2>2. CASE <<b, s>> # asked
      <3>1. questions'[<<b, s>>] = questions[<<b, s>>] /\ Agrees(b, s)
        BY <1>3, <2>2, PairsAreQuestions DEF AskInv
      <3>2. CASE b = a
        BY <1>1, <1>3, <2>2, <3>1, <3>2 DEF Agrees, Known
      <3>3. CASE b # a
        BY <1>1, <1>3, <3>1, <3>3 DEF Agrees, Known
      <3> QED BY <3>2, <3>3
    <2> QED BY <2>1, <2>2
  <1> QED BY <1>2, <1>4, <1>5, <1>6, <1>7, <1>8 DEF AskInv

LEMMA ReturnKeeps ==
    ASSUME AskInv, NEW a \in Askers, AskReturns(a) PROVE AskInv'
  <1> DEFINE asked == Asked(a)
             step == react[a].step
             out == Outcome(asked)
  <1>1. /\ asked = <<a, step>> /\ asked \in Questions /\ step \in 1 .. MaxSteps
        /\ react[a].stage = "wait"
        /\ heard' = [heard EXCEPT ![asked] = out]
        /\ fired' = fired
        /\ asked \in fired \/ questions[asked].woken
        /\ questions' = IF asked \in fired THEN [questions EXCEPT ![asked].status = "timeout"]
                        ELSE questions
    BY AskedIsQuestion DEF AskInv, AskTypes, AskReturns, Asked
  <1>2. /\ react' \in [Askers -> [stage : Stages, step : 1 .. MaxSteps]]
        /\ \A b \in Askers : b # a => react'[b] = react[b]
        /\ \/ react'[a].stage \in {"final", "returned"} /\ react'[a].step = step
           \/ /\ out # "timeout"
              /\ react'[a].stage = "think" /\ react'[a].step = step + 1
    <2>1. CASE out = "KeyError"
      BY <2>1 DEF AskReturns, AskInv, AskTypes, Stages
    <2>2. CASE out # "KeyError"
      <3>1. StepOver(a, out \in {"timeout", "reads_like_timeout"})
        BY <2>2 DEF AskReturns
      <3>2. CASE out \in {"timeout", "reads_like_timeout"}
        <4>1. StepOver(a, TRUE)
          BY <3>1, <3>2 DEF StepOver
        <4> QED BY <4>1, StepOverFacts DEF AskInv
      <3>3. CASE out \notin {"timeout", "reads_like_timeout"}
        <4>1. StepOver(a, FALSE)
          BY <3>1, <3>3 DEF StepOver
        <4> QED BY <3>3, <4>1, StepOverFacts DEF AskInv
      <3> QED BY <3>2, <3>3
    <2> QED BY <2>1, <2>2
  <1>3. /\ questions[asked].life # "none" /\ questions[asked].status # "timeout"
        /\ questions[asked] \in QuestionType
    BY <1>1 DEF AskInv, Waited, AskTypes
  <1>4. /\ out \in Outcomes
        /\ out = "timeout" => asked \in fired
        /\ out = "KeyError" => questions[asked].life = "cleared"
        /\ out \in {"answer", "reads_like_timeout"} =>
              asked \notin fired /\ questions[asked].status = "answered"
    <2>1. questions[asked].answer # "none" => questions[asked].status = "answered"
      BY <1>1, <1>3 DEF AskInv, NoLongerPending
    <2> QED BY <1>3, <2>1 DEF Outcome, Outcomes, Known, QuestionType, Answers
  <1>5. /\ questions' \in [Questions -> QuestionType]
        /\ \A q \in Questions : q # asked => questions'[q] = questions[q]
        /\ \A q \in Questions : /\ questions'[q].life = questions[q].life
                                /\ questions'[q].answer = questions[q].answer
                                /\ questions'[q].woken = questions[q].woken
        /\ asked \in fired => questions'[asked].status = "timeout"
        /\ asked \notin fired => questions'[asked].status = questions[asked].status
    BY <1>1 DEF AskInv, AskTypes, QuestionType
  <1>6. /\ heard' \in [Questions -> Outcomes]
        /\ heard'[asked] = out
        /\ \A q \in Questions : q # asked => heard'[q] = heard[q]
    BY <1>1, <1>4 DEF AskInv, AskTypes
  <1>7. AskTypes'
    BY <1>1, <1>2, <1>5, <1>6 DEF AskInv, AskTypes
  <1>8. NothingAhead'
    <2> SUFFICES ASSUME NEW b \in Askers, NEW s \in 1 .. MaxSteps, Ahead(b, s)'
                 PROVE  questions'[<<b, s>>].life = "none" /\ heard'[<<b, s>>] = "nothing"
      BY DEF NothingAhead
    <2>1. Ahead(b, s) /\ <<b, s>> # asked
      <3>1. CASE b = a
        BY <1>1, <1>2, <3>1, AskAssumption DEF Ahead
      <3>2. CASE b # a
        BY <1>1, <1>2, <3>2 DEF Ahead
      <3> QED BY <3>1, <3>2
    <2> QED BY <1>5, <1>6, <2>1, PairsAreQuestions DEF AskInv, NothingAhead
  <1>9. Waited'
    <2> SUFFICES ASSUME NEW b \in Askers, react'[b].stage \in {"notify", "wait"}
                 PROVE  /\ questions'[Asked(b)'].life # "none"
                        /\ questions'[Asked(b)'].status # "timeout"
      BY DEF Waited
    <2>1. b # a /\ react'[b] = react[b]
      BY <1>2
    <2>2. Asked(b)' = Asked(b) /\ Asked(b) # asked /\ Asked(b) \in Questions
      BY <2>1, AskedIsQuestion DEF Asked, AskInv
    <2> QED BY <1>5, <2>1, <2>2 DEF AskInv, Waited
  <1>10. NoLongerPending'
    BY <1>5 DEF AskInv, NoLongerPending
  <1>11. TimeoutIsLast'
    <2> SUFFICES ASSUME NEW b \in Askers, NEW s \in 1 .. MaxSteps, heard'[<<b, s>>] = "timeout"
                 PROVE  react'[b].step = s
                        /\ react'[b].stage \in {"final", "returned", "cancelled"}
      BY DEF TimeoutIsLast
    <2>1. CASE <<b, s>> = asked
      BY <1>1, <1>2, <1>6, <2>1
    <2>2. CASE <<b, s>> # asked
      <3>1. heard[<<b, s>>] = "timeout"
        BY <1>6, <2>2, PairsAreQuestions
      <3>2. b # a
        BY <1>1, <3>1 DEF AskInv, TimeoutIsLast
      <3> QED BY <1>2, <3>1, <3>2 DEF AskInv, TimeoutIsLast
    <2> QED BY <2>1, <2>2
  <1>12. ASSUME NEW b \in Askers, NEW s \in 1 .. MaxSteps PROVE Agrees(b, s)'
    <2>1. Agrees(b, s)
      BY DEF AskInv
    <2>2. CASE <<b, s>> = asked
      <3>1. questions'[asked].status # "pending"
        BY <1>1, <1>5 DEF AskInv, NoLongerPending
      <3> QED BY <1>1, <1>4, <1>5, <1>6, <2>1, <2>2, <3>1 DEF Agrees, Known
    <2>3. CASE <<b, s>> # asked
      <3>1. questions'[<<b, s>>] = questions[<<b, s>>] /\ heard'[<<b, s>>] = heard[<<b, s>>]
        BY <1>5, <1>6, <2>3, PairsAreQuestions
      <3>2. CASE b = a
        BY <1>1, <2>1, <2>3, <3>1, <3>2 DEF Agrees, Known
      <3>3. CASE b # a
        BY <1>2, <2>1, <3>1, <3>3 DEF Agrees, Known
      <3> QED BY <3>2, <3>3
    <2> QED BY <2>2, <2>3
  <1> QED BY <1>7, <1>8, <1>9, <1>10, <1>11, <1>12 DEF AskInv

-----------------------------------------------------------------------------
(* What others do to a question that was asked. *)

Settles(q) ==
    LET old == questions[q]
        new == questions'[q] IN
    /\ old.life = "none" => new.life = "none"
    /\ old.life # "none" => new.life # "none"
    /\ old.life = "cleared" => new.life = "cleared"
    /\ new.status = "pending" => old.status = "pending" /\ (new.life = "known" => old.life = "known")
    /\ new.status = "timeout" => old.status = "timeout"
    /\ old.status = "answered" => new.status = "answered"
    /\ new.woken => new.status # "pending"
    /\ new.answer # "none" => new.status \in {"answered", "timeout"}
    /\ new.life = "cleared" => new.answer # "none"

LEMMA SettlingKeeps ==
    ASSUME AskInv, questions' \in [Questions -> QuestionType],
           \A q \in Questions : Settles(q),
           UNCHANGED <<react, fired, heard>>
    PROVE  AskInv'
  <1>1. AskTypes'
    BY DEF AskInv, AskTypes
  <1>2. NothingAhead'
    BY PairsAreQuestions DEF AskInv, NothingAhead, Ahead, Settles
  <1>3. Waited'
    <2> SUFFICES ASSUME NEW a \in Askers, react[a].stage \in {"notify", "wait"}
                 PROVE  /\ questions'[Asked(a)].life # "none"
                        /\ questions'[Asked(a)].status # "timeout"
      BY DEF Waited, Asked
    <2>1. Settles(Asked(a))
      BY AskedIsQuestion DEF AskInv
    <2> QED BY <2>1 DEF AskInv, Waited, Settles
  <1>4. NoLongerPending'
    BY DEF NoLongerPending, Settles
  <1>5. TimeoutIsLast'
    BY DEF AskInv, TimeoutIsLast
  <1>6. ASSUME NEW a \in Askers, NEW s \in 1 .. MaxSteps PROVE Agrees(a, s)'
    <2>1. Agrees(a, s) /\ Settles(<<a, s>>)
      BY PairsAreQuestions DEF AskInv
    <2> QED BY <2>1 DEF Agrees, Known, Settles
  <1> QED BY <1>1, <1>2, <1>3, <1>4, <1>5, <1>6 DEF AskInv

LEMMA SettlingStepsKeep ==
    ASSUME AskInv,
           \/ \E q \in Questions : SubmitAnswer(q) \/ CancelQuestion(q) \/ AnswerAges(q)
           \/ ClearAnswered
    PROVE  AskInv'
  <1>0. \A r \in Questions :
            /\ questions[r] \in QuestionType
            /\ questions[r].woken => questions[r].status # "pending"
            /\ questions[r].answer # "none" => questions[r].status \in {"answered", "timeout"}
            /\ questions[r].life = "cleared" => questions[r].answer # "none"
    BY PairsAreQuestions DEF AskInv, AskTypes, NoLongerPending, Agrees
  <1>1. CASE \E q \in Questions : SubmitAnswer(q)
    <2>1. PICK q \in Questions : SubmitAnswer(q)
      BY <1>1
    <2>2. PICK text \in {"answer", "reads_like_timeout"} :
            questions' = [questions EXCEPT ![q] =
              [questions[q] EXCEPT !.answer = text, !.status = "answered", !.woken = TRUE,
                                   !.old = FALSE]]
      BY <2>1 DEF SubmitAnswer
    <2>3. Known(q) /\ UNCHANGED <<react, fired, heard>>
      BY <2>1 DEF SubmitAnswer
    <2>4. questions' \in [Questions -> QuestionType]
      BY <2>2 DEF AskInv, AskTypes, QuestionType, Answers
    <2>5. \A r \in Questions : r # q => questions'[r] = questions[r]
      BY <2>2 DEF AskInv, AskTypes
    <2>6. /\ questions'[q].life = questions[q].life
          /\ questions'[q].status = "answered" /\ questions'[q].answer # "none"
      BY <2>2 DEF AskInv, AskTypes, QuestionType
    <2>7. \A r \in Questions : Settles(r)
      BY <1>0, <2>3, <2>5, <2>6 DEF Settles, Known
    <2> QED BY <2>3, <2>4, <2>7, SettlingKeeps
  <1>2. CASE \E q \in Questions : CancelQuestion(q) \/ AnswerAges(q)
    <2>1. PICK q \in Questions : CancelQuestion(q) \/ AnswerAges(q)
      BY <1>2
    <2>2. Known(q) /\ UNCHANGED <<react, fired, heard>>
      BY <2>1 DEF CancelQuestion, AnswerAges
    <2>3. /\ questions' \in [Questions -> QuestionType]
          /\ \A r \in Questions : r # q => questions'[r] = questions[r]
      <3> DEFINE new == IF CancelQuestion(q)
                        THEN [questions[q] EXCEPT !.status = "cancelled", !.woken = TRUE]
                        ELSE [questions[q] EXCEPT !.old = TRUE]
      <3>1. questions[q] \in QuestionType
        BY <1>0
      <3>2. new \in QuestionType
        BY <3>1 DEF QuestionType
      <3>3. questions' = [questions EXCEPT ![q] = new]
        <4>1. CASE CancelQuestion(q)
          <5>1. questions' = [questions EXCEPT ![q].status = "cancelled", ![q].woken = TRUE]
            BY <4>1 DEF CancelQuestion
          <5> QED BY <4>1, <5>1, <3>1 DEF AskInv, AskTypes, QuestionType
        <4>2. CASE ~CancelQuestion(q)
          BY <2>1, <4>2 DEF AnswerAges, AskInv, AskTypes
        <4> QED BY <4>1, <4>2
      <3> HIDE DEF new
      <3> QED BY <3>2, <3>3 DEF AskInv, AskTypes
    <2>4. CASE CancelQuestion(q)
      <3>1. /\ questions[q].status = "pending"
            /\ questions'[q].status = "cancelled"
            /\ questions'[q].life = questions[q].life
            /\ questions'[q].answer = questions[q].answer
        BY <2>4 DEF AskInv, AskTypes, QuestionType, CancelQuestion
      <3> QED BY <1>0, <2>2, <2>3, <3>1, SettlingKeeps DEF Settles, Known
    <2>5. CASE AnswerAges(q)
      <3>1. /\ questions'[q].status = questions[q].status
            /\ questions'[q].life = questions[q].life
            /\ questions'[q].answer = questions[q].answer
            /\ questions'[q].woken = questions[q].woken
        BY <2>5 DEF AskInv, AskTypes, QuestionType, AnswerAges
      <3> QED BY <1>0, <2>2, <2>3, <3>1, SettlingKeeps DEF Settles, Known
    <2> QED BY <2>1, <2>4, <2>5
  <1>3. CASE ClearAnswered
    <2>1. UNCHANGED <<react, fired, heard>>
      BY <1>3 DEF ClearAnswered
    <2>2. questions' \in [Questions -> QuestionType] /\ \A r \in Questions : Settles(r)
      BY <1>0, <1>3 DEF QuestionType, ClearAnswered, Clearable, Settles, Known
    <2> QED BY <2>1, <2>2, SettlingKeeps
  <1> QED BY <1>1, <1>2, <1>3

-----------------------------------------------------------------------------
LEMMA StepsKeep == AskInv /\ [AskNext]_askVars => AskInv'
  <1> SUFFICES ASSUME AskInv, [AskNext]_askVars PROVE AskInv'
    OBVIOUS
  <1>1. CASE \E a \in Askers : RunWithReact(a) \/ AgentStep(a) \/ TimerFires(a) \/ RunCancelled(a)
    <2>1. PICK a \in Askers :
            RunWithReact(a) \/ AgentStep(a) \/ TimerFires(a) \/ RunCancelled(a)
      BY <1>1
    <2>2. CASE AskUser(a)
      BY <2>2, AskKeeps
    <2>3. CASE AskReturns(a)
      BY <2>3, ReturnKeeps
    <2>4. CASE \/ RunWithReact(a) \/ TakeAction(a) \/ CallbacksNotified(a)
               \/ FinalAnswer(a) \/ TimerFires(a) \/ RunCancelled(a)
      BY <2>4, QuietStepsKeep
    <2> QED BY <2>1, <2>2, <2>3, <2>4 DEF AgentStep
  <1>2. CASE \/ \E q \in Questions : SubmitAnswer(q) \/ CancelQuestion(q) \/ AnswerAges(q)
             \/ ClearAnswered
    BY <1>2, SettlingStepsKeep
  <1>3. CASE UNCHANGED askVars
    BY <1>3
    DEF askVars, AskInv, AskTypes, NothingAhead, Ahead, Waited, Asked, NoLongerPending,
        TimeoutIsLast, Agrees, Known
  <1> QED BY <1>1, <1>2, <1>3 DEF AskNext

\* AskInv is an invariant of the runs of run_with_react, the question manager
\* and its users.
THEOREM AskInvariant == AskSpec => []AskInv
  <1> QED BY InitHolds, StepsKeep, PTL DEF AskSpec

\* Whatever the order of answers, timers, cancellations and cleanups, what an
\* agent heard and what the question manager shows agree (ask_user,
\* submit_answer, cancel_question, clear_answered_questions).
THEOREM QuestionsAgree == AskSpec => []QuestionsSettle
  <1> QED BY AskInvariant, InvariantSettles, PTL

-----------------------------------------------------------------------------
(* Messages (MessageDelivery).  That everyone hears a message rests on what  *)
(* its sending has still to do: whom it was meant for when it began (Meant), *)
(* and whom it has reached so far (Progress).                                *)

Lists == Receivers \cup {Everyone}

DeliveryTypeOK ==
    /\ sent \in Seq(Messages)
    /\ addressed \in [Messages -> [to : Lists, reply : Messages \cup {NoMessage}]]
    /\ subscribers \in [Lists -> Seq(Callbacks)]
    /\ delivering \in [Messages -> [list : {"unsent", "broadcast", "direct", "done"}, pos : Nat]]
    /\ received \in [Callbacks -> Seq(Messages)]
    /\ awaitedBy \in [Messages -> SUBSET Callbacks]

Has(list, x) == \E i \in 1 .. Len(list) : list[i] = x

\* A callback is called once for a message, and subscribes to one list, once.
Once ==
    /\ \A k \in Callbacks : \A i, j \in 1 .. Len(received[k]) :
         received[k][i] = received[k][j] => i = j
    /\ \A r, q \in Lists : \A i \in 1 .. Len(subscribers[r]), j \in 1 .. Len(subscribers[q]) :
         subscribers[r][i] = subscribers[q][j] => r = q /\ i = j

\* What is in the history is what was sent, and a reply has its request before it.
HistoryTold ==
    /\ \A m \in Messages : delivering[m].list # "unsent" <=> Has(sent, m)
    /\ \A i \in 1 .. Len(sent) : addressed[sent[i]].reply # NoMessage =>
         \E j \in 1 .. i - 1 : sent[j] = addressed[sent[i]].reply

\* Who hears a message is meant to, and was awaited or came later.
Meant ==
    \A m \in Messages, k \in Callbacks :
        Has(received[k], m) \/ k \in awaitedBy[m] =>
            /\ delivering[m].list # "unsent"
            /\ Has(subscribers[Everyone], k) \/ Has(subscribers[addressed[m].to], k)

\* How far the send of a message is: the first callbacks of the list have heard
\* it and the others have not, and the broadcast list comes first.
Progress(m) ==
    LET step == delivering[m]
        to == addressed[m].to
        Told(r) == \A i \in 1 .. Len(subscribers[r]) : i < step.pos <=> Has(received[subscribers[r][i]], m) IN
    /\ step.list = "broadcast" =>
         /\ step.pos \in 1 .. Len(subscribers[Everyone]) + 1
         /\ Told(Everyone)
         /\ \A k \in Callbacks : Has(received[k], m) => Has(subscribers[Everyone], k)
    /\ step.list = "direct" =>
         /\ to # Everyone
         /\ step.pos \in 1 .. Len(subscribers[to]) + 1
         /\ Told(to)
         /\ \A k \in awaitedBy[m] : Has(subscribers[Everyone], k) => Has(received[k], m)
    /\ step.list = "done" => \A k \in awaitedBy[m] : Has(received[k], m)

DeliveryIInv ==
    /\ DeliveryTypeOK /\ Once /\ HistoryTold /\ Meant
    /\ \A m \in Messages : Progress(m)

LEMMA DeliveryInitIInv == DeliveryInit => DeliveryIInv
<1> SUFFICES ASSUME DeliveryInit
             PROVE  DeliveryIInv
  OBVIOUS
<1> USE DEF DeliveryInit
<1>1. DeliveryTypeOK
  BY EmptySeq DEF DeliveryTypeOK, Lists
<1>2. Once
  BY DEF Once, Lists
<1>3. HistoryTold
  BY DEF HistoryTold, Has
<1>4. Meant
  BY DEF Meant, Has
<1>5. \A m \in Messages : Progress(m)
  BY DEF Progress
<1>6. QED
  BY <1>1, <1>2, <1>3, <1>4, <1>5 DEF DeliveryIInv

\* A callback that subscribes has not heard anything, and comes last on its list.
LEMMA SubscribeKeeps ==
    ASSUME DeliveryIInv, NEW k \in Callbacks, NEW r \in Lists, Subscribe(k, r)
    PROVE  DeliveryIInv'
<1> USE DEF DeliveryIInv
<1>1. /\ subscribers' = [subscribers EXCEPT ![r] = Append(@, k)]
      /\ UNCHANGED <<sent, addressed, delivering, received, awaitedBy>>
  BY DEF Subscribe
<1>2. \A q \in Lists : subscribers[q] \in Seq(Callbacks) /\ Len(subscribers[q]) \in Nat
                       /\ DOMAIN subscribers[q] = 1 .. Len(subscribers[q])
  BY LenProperties DEF DeliveryTypeOK
<1>3. \A q \in Lists : ~Has(subscribers[q], k)
  BY <1>2 DEF Subscribe, IsSubscribed, Has, DeliveryTypeOK
<1>4. /\ subscribers' \in [Lists -> Seq(Callbacks)]
      /\ subscribers'[r] = Append(subscribers[r], k)
      /\ \A q \in Lists : q # r => subscribers'[q] = subscribers[q]
  BY <1>1, <1>2, AppendProperties DEF DeliveryTypeOK
<1>5. /\ Len(subscribers'[r]) = Len(subscribers[r]) + 1
      /\ \A i \in 1 .. Len(subscribers[r]) : subscribers'[r][i] = subscribers[r][i]
      /\ subscribers'[r][Len(subscribers[r]) + 1] = k
  BY <1>2, <1>4, AppendProperties
<1>6. \A q \in Lists :
        /\ Len(subscribers'[q]) >= Len(subscribers[q]) /\ Len(subscribers'[q]) \in Nat
        /\ \A i \in 1 .. Len(subscribers[q]) : i \in 1 .. Len(subscribers'[q])
                                              /\ subscribers'[q][i] = subscribers[q][i]
        /\ \A i \in 1 .. Len(subscribers'[q]) :
             \/ i \in 1 .. Len(subscribers[q])
             \/ q = r /\ i = Len(subscribers[r]) + 1 /\ subscribers'[q][i] = k
  <2> SUFFICES ASSUME NEW q \in Lists
               PROVE  /\ Len(subscribers'[q]) >= Len(subscribers[q]) /\ Len(subscribers'[q]) \in Nat
                      /\ \A i \in 1 .. Len(subscribers[q]) : i \in 1 .. Len(subscribers'[q])
                                              /\ subscribers'[q][i] = subscribers[q][i]
                      /\ \A i \in 1 .. Len(subscribers'[q]) :
                           \/ i \in 1 .. Len(subscribers[q])
                           \/ q = r /\ i = Len(subscribers[r]) + 1 /\ subscribers'[q][i] = k
    OBVIOUS
  <2>1. CASE q = r
    <3>1. Len(subscribers[r]) \in Nat
      BY <1>2
    <3>2. /\ Len(subscribers'[r]) >= Len(subscribers[r]) /\ Len(subscribers'[r]) \in Nat
          /\ \A i \in 1 .. Len(subscribers[r]) : i \in 1 .. Len(subscribers'[r])
          /\ \A i \in 1 .. Len(subscribers'[r]) :
               i \in 1 .. Len(subscribers[r]) \/ i = Len(subscribers[r]) + 1
      BY <1>5, <3>1
    <3>3. QED
      BY <1>5, <2>1, <3>2
  <2>2. CASE q # r
    BY <1>2, <1>4, <2>2
  <2>3. QED
    BY <2>1, <2>2
<1>7. DeliveryTypeOK'
  BY <1>1, <1>4 DEF DeliveryTypeOK
<1>8. \A l \in Callbacks, q \in Lists : Has(subscribers[q], l) => Has(subscribers'[q], l)
  BY <1>6 DEF Has
<1>9. \A m \in Messages : ~Has(received[k], m) /\ k \notin awaitedBy[m]
  BY <1>3 DEF Meant, DeliveryTypeOK, Lists
<1>10. \A l \in Callbacks, m \in Messages : Has(received'[l], m) <=> Has(received[l], m)
  BY <1>1 DEF Has
<1>11. Once'
  <2>1. \A q, p \in Lists : \A i \in 1 .. Len(subscribers'[q]), j \in 1 .. Len(subscribers'[p]) :
         subscribers'[q][i] = subscribers'[p][j] => q = p /\ i = j
    BY <1>3, <1>6, SMTT(30) DEF Once, Has
  <2>2. QED
    BY <1>1, <2>1 DEF Once
<1>12. HistoryTold'
  BY <1>1 DEF HistoryTold, Has
<1>13. Meant'
  BY <1>1, <1>8, <1>10 DEF Meant, DeliveryTypeOK, Lists
<1>14. ASSUME NEW m \in Messages
       PROVE  Progress(m)'
  <2> DEFINE to == addressed[m].to
  <2>1. to \in Lists /\ Everyone \in Lists /\ delivering[m].pos \in Nat /\ awaitedBy[m] \subseteq Callbacks
    BY DEF DeliveryTypeOK, Lists
  <2>2. ASSUME NEW q \in Lists, delivering[m].pos \in 1 .. Len(subscribers[q]) + 1,
               \A i \in 1 .. Len(subscribers[q]) : i < delivering[m].pos <=> Has(received[subscribers[q][i]], m)
        PROVE  /\ delivering[m].pos \in 1 .. Len(subscribers'[q]) + 1
               /\ \A i \in 1 .. Len(subscribers'[q]) :
                    i < delivering[m].pos <=> Has(received'[subscribers'[q][i]], m)
    <3>1. \A i \in 1 .. Len(subscribers'[q]) : subscribers'[q][i] \in Callbacks
      BY <1>4, ElementOfSeq
    <3>2. delivering[m].pos \in 1 .. Len(subscribers'[q]) + 1
      BY <1>2, <1>6, <2>2
    <3>3. ASSUME NEW i \in 1 .. Len(subscribers'[q])
          PROVE  i < delivering[m].pos <=> Has(received'[subscribers'[q][i]], m)
      <4>1. CASE i \in 1 .. Len(subscribers[q])
        BY <1>6, <1>10, <2>2, <3>1, <4>1
      <4>2. CASE q = r /\ i = Len(subscribers[r]) + 1 /\ subscribers'[q][i] = k
        <5>1. ~(i < delivering[m].pos)
          BY <1>2, <2>1, <2>2, <4>2
        <5>2. QED
          BY <1>9, <1>10, <4>2, <5>1
      <4>3. QED
        BY <1>6, <4>1, <4>2
    <3>4. QED
      BY <3>2, <3>3
  <2>3. ASSUME delivering[m].list = "broadcast"
        PROVE  \A l \in Callbacks : Has(received'[l], m) => Has(subscribers'[Everyone], l)
    BY <1>8, <1>10, <2>1, <2>3 DEF Progress
  <2>4. ASSUME delivering[m].list = "direct"
        PROVE  \A l \in awaitedBy[m] : Has(subscribers'[Everyone], l) => Has(received'[l], m)
    <3>1. \A l \in awaitedBy[m] : Has(subscribers'[Everyone], l) => Has(subscribers[Everyone], l)
      BY <1>6, <1>9, <2>1 DEF Has
    <3>2. QED
      BY <1>10, <2>1, <2>4, <3>1 DEF Progress
  <2>5. ASSUME delivering[m].list = "done"
        PROVE  \A l \in awaitedBy[m] : Has(received'[l], m)
    BY <1>10, <2>1, <2>5 DEF Progress
  <2>6. QED
    BY <1>1, <2>1, <2>2, <2>3, <2>4, <2>5 DEF Progress
<1>15. QED
  BY <1>7, <1>11, <1>12, <1>13, <1>14

\* A message that is sent was heard by nobody yet, and what it replies to has
\* been heard by somebody.
LEMMA SendKeeps ==
    ASSUME DeliveryIInv, NEW m \in Messages, SendAny(m)
    PROVE  DeliveryIInv'
<1> USE DEF DeliveryIInv
<1>1. PICK to \in Lists, reply \in MayReplyTo : Send(m, to, reply)
  BY DEF SendAny, SendDirect, SendRequest, SendResponse, BroadcastMessage, SendInterrupt,
         SendToolCall, SendFeedback, SendToolResult, Lists, MayReplyTo
<1>2. /\ delivering[m].list = "unsent"
      /\ sent' = Append(sent, m)
      /\ addressed' = [addressed EXCEPT ![m] = [to |-> to, reply |-> reply]]
      /\ delivering' = [delivering EXCEPT ![m] = [list |-> "broadcast", pos |-> 1]]
      /\ awaitedBy' = [awaitedBy EXCEPT ![m] = Listeners(to)]
      /\ UNCHANGED <<subscribers, received>>
  BY <1>1 DEF Send
<1>3. \A k \in Callbacks : /\ received[k] \in Seq(Messages)
                           /\ DOMAIN received[k] = 1 .. Len(received[k])
  BY LenProperties DEF DeliveryTypeOK
<1>4. reply # NoMessage => reply \in Messages /\ Has(sent, reply)
  <2> SUFFICES ASSUME reply # NoMessage
               PROVE  reply \in Messages /\ Has(sent, reply)
    OBVIOUS
  <2>1. PICK k \in Callbacks : \E i \in 1 .. Len(received[k]) : received[k][i] = reply
    BY <1>3 DEF MayReplyTo
  <2>2. reply \in Messages
    BY <1>3, <2>1, ElementOfSeq
  <2>3. delivering[reply].list # "unsent"
    <3>1. Has(received[k], reply)
      BY <2>1 DEF Has
    <3>2. QED
      BY <2>2, <3>1 DEF Meant
  <2>4. QED
    BY <2>2, <2>3 DEF HistoryTold
<1>5. /\ \A q \in Lists : subscribers[q] \in Seq(Callbacks) /\ Len(subscribers[q]) \in Nat
                           /\ DOMAIN subscribers[q] = 1 .. Len(subscribers[q])
      /\ Everyone \in Lists
  BY LenProperties DEF DeliveryTypeOK, Lists
<1>6. \A k : k \in Listeners(to) <=> Has(subscribers[Everyone], k) \/ Has(subscribers[to], k)
  BY <1>5 DEF Listeners, Has
<1>7. Listeners(to) \subseteq Callbacks
  BY <1>5, <1>6, ElementOfSeq DEF Has
<1>8. /\ sent \in Seq(Messages) /\ Len(sent) \in Nat /\ sent' \in Seq(Messages)
      /\ Len(sent') = Len(sent) + 1 /\ sent'[Len(sent) + 1] = m
      /\ \A i \in 1 .. Len(sent) : sent'[i] = sent[i]
  BY <1>2, AppendProperties, LenProperties DEF DeliveryTypeOK
<1>9. DeliveryTypeOK'
  <2>1. /\ [to |-> to, reply |-> reply] \in [to : Lists, reply : Messages \cup {NoMessage}]
        /\ [list |-> "broadcast", pos |-> 1]
             \in [list : {"unsent", "broadcast", "direct", "done"}, pos : Nat]
    BY <1>4
  <2>2. QED
    BY <1>2, <1>7, <1>8, <2>1 DEF DeliveryTypeOK
<1>10. Once'
  BY <1>2 DEF Once
<1>11. /\ addressed'[m] = [to |-> to, reply |-> reply] /\ awaitedBy'[m] = Listeners(to)
       /\ delivering'[m] = [list |-> "broadcast", pos |-> 1]
       /\ \A n \in Messages : n # m => /\ addressed'[n] = addressed[n]
                                       /\ awaitedBy'[n] = awaitedBy[n]
                                       /\ delivering'[n] = delivering[n]
  BY <1>2 DEF DeliveryTypeOK
<1>12. \A i \in 1 .. Len(sent') : i \in 1 .. Len(sent) \/ i = Len(sent) + 1
  BY <1>8
<1>13. \A n \in Messages : Has(sent', n) <=> Has(sent, n) \/ n = m
  <2>1. Len(sent) + 1 \in 1 .. Len(sent') /\ \A i \in 1 .. Len(sent) : i \in 1 .. Len(sent')
    BY <1>8
  <2>2. QED
    BY <1>8, <1>12, <2>1 DEF Has
<1>14. HistoryTold'
  <2>1. \A n \in Messages : delivering'[n].list # "unsent" <=> Has(sent', n)
    BY <1>11, <1>13 DEF HistoryTold
  <2>2. ASSUME NEW i \in 1 .. Len(sent'), addressed'[sent'[i]].reply # NoMessage
        PROVE  \E j \in 1 .. i - 1 : sent'[j] = addressed'[sent'[i]].reply
    <3>1. CASE i \in 1 .. Len(sent)
      <4>1. sent[i] \in Messages /\ sent[i] # m
        BY <1>2, <1>8, <3>1, ElementOfSeq DEF HistoryTold, Has
      <4>2. addressed'[sent'[i]] = addressed[sent[i]]
        BY <1>8, <1>11, <3>1, <4>1
      <4>3. PICK j \in 1 .. i - 1 : sent[j] = addressed[sent[i]].reply
        BY <2>2, <3>1, <4>2 DEF HistoryTold
      <4>4. j \in 1 .. Len(sent)
        BY <1>8, <3>1
      <4>5. QED
        BY <1>8, <4>2, <4>3, <4>4
    <3>2. CASE i = Len(sent) + 1
      <4>1. addressed'[sent'[i]].reply = reply
        BY <1>8, <1>11, <3>2
      <4>2. PICK j \in 1 .. Len(sent) : sent[j] = reply
        BY <1>4, <2>2, <4>1 DEF Has
      <4>3. j \in 1 .. i - 1 /\ sent'[j] = reply
        BY <1>8, <3>2, <4>2
      <4>4. QED
        BY <4>1, <4>3
    <3>3. QED
      BY <1>12, <2>2, <3>1, <3>2
  <2>3. QED
    BY <2>1, <2>2 DEF HistoryTold
<1>15. Meant'
  <2> SUFFICES ASSUME NEW n \in Messages, NEW k \in Callbacks,
                      Has(received[k], n) \/ k \in awaitedBy'[n]
               PROVE  /\ delivering'[n].list # "unsent"
                      /\ Has(subscribers[Everyone], k) \/ Has(subscribers[addressed'[n].to], k)
    BY <1>2 DEF Meant
  <2>1. CASE n = m
    BY <1>2, <1>6, <1>11, <2>1 DEF Meant
  <2>2. CASE n # m
    BY <1>11, <2>2 DEF Meant
  <2>3. QED
    BY <2>1, <2>2
<1>16. ASSUME NEW n \in Messages
       PROVE  Progress(n)'
  <2>1. CASE n = m
    <3>1. \A k \in Callbacks : ~Has(received[k], m)
      BY <1>2 DEF Meant
    <3>2. \A i \in 1 .. Len(subscribers[Everyone]) :
            subscribers[Everyone][i] \in Callbacks /\ ~(i < 1)
      BY <1>5, ElementOfSeq
    <3>3. 1 \in 1 .. Len(subscribers[Everyone]) + 1
      BY <1>5
    <3>4. QED
      BY <1>2, <1>11, <2>1, <3>1, <3>2, <3>3 DEF Progress
  <2>2. CASE n # m
    BY <1>2, <1>11, <2>2 DEF Progress
  <2>3. QED
    BY <2>1, <2>2
<1>17. QED
  BY <1>9, <1>10, <1>14, <1>15, <1>16

\* The callback that is called next has not heard the message: it is on one list
\* only, at one place of it.
LEMMA NotifyKeeps ==
    ASSUME DeliveryIInv, NEW m \in Messages, NotifyNext(m)
    PROVE  DeliveryIInv'
<1> USE DEF DeliveryIInv
<1> DEFINE list == IF delivering[m].list = "broadcast" THEN Everyone ELSE addressed[m].to
           pos == delivering[m].pos
<1>1. /\ list \in Lists /\ ListOf(m) = subscribers[list]
      /\ subscribers[list] \in Seq(Callbacks) /\ Len(subscribers[list]) \in Nat
  BY LenProperties DEF DeliveryTypeOK, ListOf, Lists
<1>2. delivering[m].list \in {"broadcast", "direct"} /\ pos <= Len(subscribers[list])
  BY <1>1 DEF NotifyNext
<1>3. pos \in 1 .. Len(subscribers[list])
  BY <1>1, <1>2 DEF Progress
<1> DEFINE k == subscribers[list][pos]
<1>4. k \in Callbacks
  BY <1>1, <1>3, ElementOfSeq
<1>5. ~Has(received[k], m)
  BY <1>2, <1>3 DEF Progress
<1>6. /\ received' = [received EXCEPT ![k] = Append(@, m)]
      /\ delivering' = [delivering EXCEPT ![m].pos = @ + 1]
      /\ UNCHANGED <<sent, addressed, subscribers, awaitedBy>>
  BY <1>1 DEF NotifyNext
<1> HIDE DEF k, list
<1>7. /\ \A l \in Callbacks : received[l] \in Seq(Messages) /\ Len(received[l]) \in Nat
      /\ delivering \in [Messages -> [list : {"unsent", "broadcast", "direct", "done"}, pos : Nat]]
  BY LenProperties DEF DeliveryTypeOK
<1>8. /\ Append(received[k], m) \in Seq(Messages)
      /\ Len(Append(received[k], m)) = Len(received[k]) + 1
      /\ \A i \in 1 .. Len(received[k]) : Append(received[k], m)[i] = received[k][i]
      /\ Append(received[k], m)[Len(received[k]) + 1] = m
  BY <1>4, <1>7, AppendProperties
<1>9. /\ received' \in [Callbacks -> Seq(Messages)]
      /\ received'[k] = Append(received[k], m)
      /\ \A l \in Callbacks : l # k => received'[l] = received[l]
  BY <1>4, <1>6, <1>8 DEF DeliveryTypeOK
<1>10. /\ delivering' \in [Messages -> [list : {"unsent", "broadcast", "direct", "done"}, pos : Nat]]
       /\ delivering'[m].list = delivering[m].list /\ delivering'[m].pos = pos + 1
       /\ \A n \in Messages : n # m => delivering'[n] = delivering[n]
  <2>1. delivering' = [delivering EXCEPT ![m] = [delivering[m] EXCEPT !.pos = delivering[m].pos + 1]]
    BY <1>6, <1>7
  <2>2. delivering[m].pos + 1 \in Nat
    BY <1>7
  <2>3. QED
    BY <1>7, <2>1, <2>2
<1> HIDE DEF pos
<1>11. DeliveryTypeOK'
  BY <1>6, <1>9, <1>10 DEF DeliveryTypeOK
<1>12. \A i \in 1 .. Len(received'[k]) : i \in 1 .. Len(received[k]) \/ i = Len(received[k]) + 1
  BY <1>4, <1>7, <1>8, <1>9
<1>13. \A l \in Callbacks, n \in Messages :
         Has(received'[l], n) <=> Has(received[l], n) \/ (l = k /\ n = m)
  <2>1. /\ Len(received[k]) + 1 \in 1 .. Len(received'[k])
        /\ \A i \in 1 .. Len(received[k]) : i \in 1 .. Len(received'[k])
    BY <1>4, <1>7, <1>8, <1>9
  <2>2. \A n \in Messages : Has(received'[k], n) <=> Has(received[k], n) \/ n = m
    BY <1>8, <1>9, <1>12, <2>1 DEF Has
  <2>3. QED
    BY <1>9, <2>2
<1>14. Once'
  <2>1. ASSUME NEW l \in Callbacks, NEW i \in 1 .. Len(received'[l]), NEW j \in 1 .. Len(received'[l]),
               received'[l][i] = received'[l][j]
        PROVE  i = j
    <3>1. CASE l = k
      <4>1. \A h \in 1 .. Len(received[k]) : received[k][h] # m
        BY <1>5 DEF Has
      <4>2. QED
        BY <1>4, <1>8, <1>9, <1>12, <2>1, <3>1, <4>1 DEF Once
    <3>2. CASE l # k
      BY <1>9, <2>1, <3>2 DEF Once
    <3>3. QED
      BY <3>1, <3>2
  <2>2. QED
    BY <1>6, <2>1 DEF Once
<1>15. HistoryTold'
  BY <1>6, <1>10 DEF HistoryTold
<1>16. Meant'
  <2>1. Has(subscribers[list], k)
    BY <1>3 DEF Has, k
  <2>2. /\ delivering[m].list # "unsent"
        /\ Has(subscribers[Everyone], k) \/ Has(subscribers[addressed[m].to], k)
    BY <1>2, <2>1 DEF list
  <2>3. QED
    BY <1>6, <1>10, <1>13, <2>2 DEF Meant
<1>17. ASSUME NEW n \in Messages
       PROVE  Progress(n)'
  <2>1. CASE n # m
    <3>1. \A l \in Callbacks : Has(received'[l], n) <=> Has(received[l], n)
      BY <1>13, <2>1
    <3>2. \A q \in Lists : \A i \in 1 .. Len(subscribers[q]) : subscribers[q][i] \in Callbacks
      BY ElementOfSeq DEF DeliveryTypeOK
    <3>3. addressed[n].to \in Lists /\ Everyone \in Lists /\ awaitedBy[n] \subseteq Callbacks
      BY DEF DeliveryTypeOK, Lists
    <3>4. QED
      BY <1>6, <1>10, <2>1, <3>1, <3>2, <3>3 DEF Progress
  <2>2. CASE n = m
    <3>1. pos + 1 \in 1 .. Len(subscribers[list]) + 1 /\ pos \in Nat
      BY <1>1, <1>3
    <3>2. ASSUME NEW i \in 1 .. Len(subscribers[list])
          PROVE  i < pos + 1 <=> Has(received'[subscribers[list][i]], m)
      <4>1. subscribers[list][i] \in Callbacks
        BY <1>1, ElementOfSeq
      <4>2. i < pos <=> Has(received[subscribers[list][i]], m)
        BY <1>2 DEF Progress, list, pos
      <4>3. subscribers[list][i] = k <=> i = pos
        BY <1>1, <1>3 DEF Once, k
      <4>4. i < pos + 1 <=> i < pos \/ i = pos
        BY <3>1
      <4>5. QED
        BY <1>13, <4>1, <4>2, <4>3, <4>4
    <3>3. CASE delivering[m].list = "broadcast"
      <4>1. list = Everyone
        BY <3>3 DEF list
      <4>2. Has(subscribers[Everyone], k)
        BY <1>3, <4>1 DEF Has, k
      <4>3. \A l \in Callbacks : Has(received'[l], m) => Has(subscribers[Everyone], l)
        BY <1>13, <3>3, <4>2 DEF Progress
      <4>4. QED
        BY <1>6, <1>10, <2>2, <3>1, <3>2, <3>3, <4>1, <4>3 DEF Progress
    <3>4. CASE delivering[m].list = "direct"
      <4>1. list = addressed[m].to /\ addressed[m].to # Everyone
        BY <3>4 DEF list, Progress
      <4>2. \A l \in awaitedBy[m] : Has(subscribers[Everyone], l) => Has(received'[l], m)
        BY <1>13, <3>4 DEF Progress, DeliveryTypeOK
      <4>3. QED
        BY <1>6, <1>10, <2>2, <3>1, <3>2, <3>4, <4>1, <4>2 DEF Progress
    <3>5. QED
      BY <1>2, <3>3, <3>4
  <2>3. QED
    BY <2>1, <2>2
<1>18. QED
  BY <1>11, <1>14, <1>15, <1>16, <1>17

\* At the end of the broadcast list nobody of the agent's own list has heard the
\* message, and at the end of that one everybody has.
LEMMA EndOfListKeeps ==
    ASSUME DeliveryIInv, NEW m \in Messages, EndOfList(m)
    PROVE  DeliveryIInv'
<1> USE DEF DeliveryIInv
<1> DEFINE to == addressed[m].to
           list == IF delivering[m].list = "broadcast" THEN Everyone ELSE to
           next == IF delivering[m].list = "broadcast" /\ to # Everyone
                   THEN [list |-> "direct", pos |-> 1] ELSE [list |-> "done", pos |-> 0]
<1>1. /\ list \in Lists /\ to \in Lists /\ Everyone \in Lists /\ ListOf(m) = subscribers[list]
      /\ \A q \in Lists : subscribers[q] \in Seq(Callbacks) /\ Len(subscribers[q]) \in Nat
      /\ delivering[m].pos \in Nat /\ awaitedBy[m] \subseteq Callbacks
  BY LenProperties DEF DeliveryTypeOK, ListOf, Lists
<1>2. /\ delivering[m].list \in {"broadcast", "direct"}
      /\ delivering[m].pos > Len(subscribers[list])
      /\ delivering' = [delivering EXCEPT ![m] = next]
      /\ UNCHANGED <<sent, addressed, subscribers, received, awaitedBy>>
  BY <1>1 DEF EndOfList
<1>3. /\ next \in [list : {"unsent", "broadcast", "direct", "done"}, pos : Nat]
      /\ next.list # "unsent"
  OBVIOUS
<1>4. /\ DeliveryTypeOK' /\ delivering'[m] = next
      /\ \A n \in Messages : n # m => delivering'[n] = delivering[n]
  BY <1>2, <1>3 DEF DeliveryTypeOK
<1>5. Once' /\ HistoryTold' /\ Meant'
  BY <1>2, <1>3, <1>4 DEF Once, HistoryTold, Meant
<1>6. \A l \in Callbacks : Has(subscribers[list], l) => Has(received[l], m)
  <2>1. ASSUME NEW i \in 1 .. Len(subscribers[list])
        PROVE  Has(received[subscribers[list][i]], m)
    <3>1. i < delivering[m].pos
      BY <1>1, <1>2
    <3>2. QED
      BY <1>2, <3>1 DEF Progress
  <2>2. QED
    BY <2>1 DEF Has
<1>7. Progress(m)'
  <2>1. CASE delivering[m].list = "broadcast" /\ to # Everyone
    <3>1. next = [list |-> "direct", pos |-> 1] /\ list = Everyone
      BY <2>1
    <3>2. 1 \in 1 .. Len(subscribers[to]) + 1
      BY <1>1
    <3>3. ASSUME NEW i \in 1 .. Len(subscribers[to])
          PROVE  ~(i < 1) /\ ~Has(received[subscribers[to][i]], m)
      <4>1. subscribers[to][i] \in Callbacks
        BY <1>1, ElementOfSeq
      <4>2. ~Has(subscribers[Everyone], subscribers[to][i])
        BY <1>1, <2>1 DEF Once, Has
      <4>3. QED
        BY <2>1, <4>1, <4>2 DEF Progress
    <3>4. \A l \in awaitedBy[m] : Has(subscribers[Everyone], l) => Has(received[l], m)
      BY <1>1, <1>6, <3>1
    <3>5. QED
      BY <1>2, <1>4, <2>1, <3>1, <3>2, <3>3, <3>4 DEF Progress
  <2>2. CASE ~(delivering[m].list = "broadcast" /\ to # Everyone)
    <3>1. next = [list |-> "done", pos |-> 0]
      BY <2>2
    <3>2. \A l \in awaitedBy[m] : Has(subscribers[Everyone], l) \/ Has(subscribers[to], l)
      BY <1>1 DEF Meant
    <3>3. \A l \in awaitedBy[m] : Has(received[l], m)
      <4>1. CASE delivering[m].list = "broadcast"
        BY <1>1, <1>6, <2>2, <3>2, <4>1
      <4>2. CASE delivering[m].list = "direct"
        BY <1>1, <1>6, <3>2, <4>2 DEF Progress
      <4>3. QED
        BY <1>2, <4>1, <4>2
    <3>4. QED
      BY <1>2, <1>4, <3>1, <3>3 DEF Progress
  <2>3. QED
    BY <2>1, <2>2
<1>8. \A n \in Messages : n # m => Progress(n)'
  BY <1>2, <1>4 DEF Progress
<1>9. \A n \in Messages : Progress(n)'
  BY <1>7, <1>8
<1> HIDE DEF to, list, next
<1>10. QED
  BY <1>4, <1>5, <1>9

LEMMA DeliveryStep == DeliveryIInv /\ [DeliveryNext]_deliveryVars => DeliveryIInv'
<1> SUFFICES ASSUME DeliveryIInv, [DeliveryNext]_deliveryVars
             PROVE  DeliveryIInv'
  OBVIOUS
<1>1. CASE \E k \in Callbacks, r \in Lists : Subscribe(k, r)
  BY <1>1, SubscribeKeeps
<1>2. CASE \E m \in Messages : SendAny(m)
  BY <1>2, SendKeeps
<1>3. CASE \E m \in Messages : NotifyNext(m)
  BY <1>3, NotifyKeeps
<1>4. CASE \E m \in Messages : EndOfList(m)
  BY <1>4, EndOfListKeeps
<1>5. CASE UNCHANGED deliveryVars
  <2>1. UNCHANGED <<sent, addressed, subscribers, delivering, received, awaitedBy>>
    BY <1>5 DEF deliveryVars
  <2>2. DeliveryTypeOK' /\ Once' /\ HistoryTold' /\ Meant'
    BY <2>1 DEF DeliveryIInv, DeliveryTypeOK, Once, HistoryTold, Meant
  <2>3. \A m \in Messages : Progress(m)'
    BY <2>1 DEF DeliveryIInv, Progress
  <2>4. QED
    BY <2>2, <2>3 DEF DeliveryIInv
<1>6. QED
  BY <1>1, <1>2, <1>3, <1>4, <1>5 DEF DeliveryNext, Lists

\* The sends under way, at any moment: how far each is in the lists that change
\* under it (send, _notify_subscribers).
THEOREM DeliveryInvariant == DeliverySpec => []DeliveryIInv
  BY DeliveryInitIInv, DeliveryStep, PTL DEF DeliverySpec

\* A callback was called for a message once if it heard it, and else never.
LEMMA TimesHeard ==
    ASSUME DeliveryIInv, NEW k \in Callbacks, NEW m \in Messages
    PROVE  TimesReceived(k, m) = IF Has(received[k], m) THEN 1 ELSE 0
<1> DEFINE places == {i \in DOMAIN received[k] : received[k][i] = m}
<1>1. DOMAIN received[k] = 1 .. Len(received[k])
  BY LenProperties DEF DeliveryIInv, DeliveryTypeOK
<1>2. CASE Has(received[k], m)
  <2>1. PICK i \in 1 .. Len(received[k]) : received[k][i] = m
    BY <1>2 DEF Has
  <2>2. places = {i}
    BY <1>1, <2>1 DEF DeliveryIInv, Once
  <2>3. Cardinality(places) = 1
    BY <2>2, FS_Singleton
  <2>4. QED
    BY <1>2, <2>3 DEF TimesReceived
<1>3. CASE ~Has(received[k], m)
  <2>1. places = {}
    BY <1>1, <1>3 DEF Has
  <2>2. Cardinality(places) = 0
    BY <2>1, FS_EmptySet
  <2>3. QED
    BY <1>3, <2>2 DEF TimesReceived
<1>4. QED
  BY <1>2, <1>3

\* A reading of one message has the latest of those an agent may read.
LEMMA LatestOne ==
    ASSUME NEW positions, IsFiniteSet(positions), positions \subseteq Nat,
           NEW i \in positions, \A j \in positions : j <= i
    PROVE  Latest(1, positions) = {i}
<1>1. ASSUME NEW h \in positions
      PROVE  Cardinality({j \in positions : j > h}) < 1 <=> h = i
  <2> DEFINE later == {j \in positions : j > h}
  <2>1. IsFiniteSet(later) /\ Cardinality(later) \in Nat
    BY FS_Subset, FS_CardinalityType
  <2>2. later = {} <=> h = i
    <3>1. h \in Nat /\ i \in Nat /\ h <= i
      OBVIOUS
    <3>2. CASE h = i
      <4>1. \A j \in positions : ~(j > h)
        BY <3>2
      <4>2. QED
        BY <3>2, <4>1
    <3>3. CASE h # i
      <4>1. i \in later
        BY <3>1, <3>3
      <4>2. QED
        BY <3>3, <4>1
    <3>4. QED
      BY <3>2, <3>3
  <2>3. Cardinality(later) = 0 <=> later = {}
    BY <2>1, FS_EmptySet
  <2>4. QED
    BY <2>1, <2>2, <2>3
<1>2. Latest(1, positions) = {h \in positions : Cardinality({j \in positions : j > h}) < 1}
  BY DEF Latest
<1>3. QED
  BY <1>1, <1>2

\* Everyone who listened when a message was sent has heard it, once, when its send
\* returns, and a reply follows its request (send, _notify_subscribers); what an
\* agent heard by its own subscription it can read, the latest of it with a limit
\* (get_messages_for_agent): for any number of agents, callbacks and messages.
THEOREM EveryoneIsTold == DeliverySpec => []EveryoneHears
<1>1. DeliveryIInv => EveryoneHears
  <2> SUFFICES ASSUME DeliveryIInv
               PROVE  EveryoneHears
    OBVIOUS
  <2>1. /\ sent \in Seq(Messages) /\ Len(sent) \in Nat /\ DOMAIN sent = 1 .. Len(sent)
        /\ \A q \in Lists : DOMAIN subscribers[q] = 1 .. Len(subscribers[q])
        /\ Everyone \in Lists /\ Receivers \subseteq Lists /\ \A m \in Messages : addressed[m].to \in Lists
    BY LenProperties DEF DeliveryIInv, DeliveryTypeOK, Lists
  <2>2. \A to \in Lists : \A k : k \in Listeners(to) <=> Has(subscribers[Everyone], k) \/ Has(subscribers[to], k)
    BY <2>1 DEF Listeners, Has
  <2>3. ASSUME NEW m \in Messages, NEW k \in Callbacks
        PROVE  /\ delivering[m].list = "done" /\ k \in awaitedBy[m] => TimesReceived(k, m) = 1
               /\ TimesReceived(k, m) <= 1
               /\ TimesReceived(k, m) = 1 => k \in Listeners(addressed[m].to)
    <3>1. TimesReceived(k, m) = IF Has(received[k], m) THEN 1 ELSE 0
      BY TimesHeard
    <3>2. Has(received[k], m) => k \in Listeners(addressed[m].to)
      BY <2>1, <2>2 DEF DeliveryIInv, Meant
    <3>3. delivering[m].list = "done" /\ k \in awaitedBy[m] => Has(received[k], m)
      BY DEF DeliveryIInv, Progress
    <3>4. QED
      BY <3>1, <3>2, <3>3
  <2>4. \A i \in MessageHistory(0) : addressed[sent[i]].reply # NoMessage =>
             \E j \in 1 .. i - 1 : sent[j] = addressed[sent[i]].reply
    BY <2>1 DEF MessageHistory, Latest, DeliveryIInv, HistoryTold
  <2>5. ASSUME NEW r \in Receivers, NEW k \in Listeners(r) \ Listeners(Everyone), NEW m \in Messages,
               TimesReceived(k, m) = 1
        PROVE  \E i \in MessagesFor(r, 0) : sent[i] = m
    <3>1. ~Has(subscribers[Everyone], k) /\ Has(subscribers[r], k) /\ r \in Lists
      BY <2>1, <2>2
    <3>2. k \in Callbacks
      BY <3>1, ElementOfSeq DEF Has, DeliveryIInv, DeliveryTypeOK
    <3>3. Has(received[k], m)
      BY <2>5, <3>2, TimesHeard
    <3>4. delivering[m].list # "unsent" /\ Has(subscribers[addressed[m].to], k)
      BY <3>1, <3>2, <3>3 DEF DeliveryIInv, Meant
    <3>5. addressed[m].to = r
      BY <2>1, <3>1, <3>4 DEF Has, DeliveryIInv, Once
    <3>6. PICK i \in 1 .. Len(sent) : sent[i] = m
      BY <3>4 DEF DeliveryIInv, HistoryTold, Has
    <3>7. i \in MessagesFor(r, 0)
      BY <2>1, <3>5, <3>6 DEF MessagesFor, Latest
    <3>8. QED
      BY <3>6, <3>7
  <2>6. ASSUME NEW r \in Receivers, NEW i \in DOMAIN sent, addressed[sent[i]].to \in {r, Everyone},
               \A j \in i + 1 .. Len(sent) : addressed[sent[j]].to \notin {r, Everyone}
        PROVE  MessagesFor(r, 1) = {i}
    <3> DEFINE readable == {j \in DOMAIN sent : addressed[sent[j]].to \in {r, Everyone}}
    <3>1. IsFiniteSet(1 .. Len(sent)) /\ readable \subseteq 1 .. Len(sent) /\ i \in readable
      BY <2>1, <2>6, FS_Interval
    <3>2. IsFiniteSet(readable) /\ readable \subseteq Nat
      BY <2>1, <3>1, FS_Subset
    <3>3. \A j \in readable : j <= i
      BY <2>1, <2>6
    <3> HIDE DEF readable
    <3>4. Latest(1, readable) = {i}
      BY <3>1, <3>2, <3>3, LatestOne
    <3>5. QED
      BY <3>4 DEF MessagesFor, readable
  <2>7. QED
    BY <2>3, <2>4, <2>5, <2>6 DEF EveryoneHears
<1>2. QED
  BY <1>1, DeliveryInvariant, PTL

-----------------------------------------------------------------------------
(* Events (MessageBus).  What the history holds rests on how far each call   *)
(* is in what it publishes (CallTold), and on which call has the event loop  *)
(* (Held).                                                                   *)

Announced(c) == {<<c, "decision">>, <<c, "resolved">>}
BusIds == Calls \cup EventIds \cup UNION {Announced(c) : c \in Calls}
BusEvents == [id : BusIds, type : BusTypes, cause : BusIds \cup {NoEvent}, run : Calls \cup {NoCall}]

IsCall(call) ==
    call \in [kind : {call.kind}, stage : {call.stage}, source : {call.source},
             candidates : {call.candidates}, conflict : {call.conflict}, outbox : {call.outbox},
             next : {call.next}, agent : {call.agent}]

BusTypeOK ==
    /\ history \in Seq(BusEvents)
    /\ calls = [c \in Calls |-> calls[c]]
    /\ \A c \in Calls : IsCall(calls[c])
    /\ snapshot = [c \in Calls |-> snapshot[c]]

Published(id, events) == \E i \in 1 .. Len(events) : events[i].id = id
Recorded(event, events) == \E i \in 1 .. Len(events) : events[i] = event

\* What a call emits beside the event it began with.
RunOf(c, call) == IF call.kind = "start" THEN c ELSE NoCall
DecisionOf(c, call) == Event(<<c, "decision">>, "moderator_decision", call.source.id, RunOf(c, call))
ResolvedOf(c, call) == Event(<<c, "resolved">>, "arbitration_resolved", call.source.id, RunOf(c, call))

Publishing(call) == call.stage \in {"publish", "notified"}
Opening(call) == Publishing(call) /\ call.next \in {"reserve", "moderate"}
Announcing(call) == Publishing(call) /\ call.next \in {"run", "done"}

\* The event a call began with is the caller's or its own.
SourceTold(c, call) ==
    /\ call.source \in BusEvents
    /\ call.source.id \in EventIds \cup {c}
    /\ call.source.id \in EventIds => call.source.type = EventType[call.source.id]
    /\ call.source.cause = NoEvent /\ call.source.run = NoCall
    /\ call.source.type \notin {"moderator_decision", "arbitration_resolved"}

\* Where a call is in what it publishes: its event, then the decision, then the
\* resolution, each once.
CallTold(c, call, events) ==
    /\ call.stage # "new" => SourceTold(c, call)
    /\ call.stage \in {"new", "reserve", "moderate", "tie"} \/ Opening(call) =>
         /\ \A id \in Announced(c) : ~Published(id, events)
         /\ call.agent = NoAgent
    /\ call.stage = "new" => ~Published(c, events)
    /\ Publishing(call) => call.next \in {"reserve", "moderate", "run", "done"}
    /\ Opening(call) =>
         /\ call.outbox = <<call.source>>
         /\ call.stage = "publish" \/ call.source.id = c => ~Published(call.source.id, events)
    /\ call.stage \in {"reserve", "moderate", "tie", "run", "running"} \/ Announcing(call) =>
         Published(call.source.id, events)
    /\ Announcing(call) =>
         /\ call.next = "run" <=> call.kind = "start"
         /\ \/ /\ call.outbox \in {<<DecisionOf(c, call)>>, <<DecisionOf(c, call), ResolvedOf(c, call)>>}
               /\ \A id \in Announced(c) : ~Published(id, events)
            \/ /\ call.outbox = <<ResolvedOf(c, call)>>
               /\ ~Published(<<c, "resolved">>, events)
               /\ Recorded(DecisionOf(c, call), events)
    /\ call.stage \in {"run", "running"} =>
         call.kind = "start" /\ Recorded(DecisionOf(c, call), events)
    /\ call.stage = "notified" => Head(call.outbox).type \in Awaited

\* What the history holds beside HistoryHolds: an event of a caller has its type,
\* and what carries a run was caused by the event the run began with.
EventsTold ==
    \A i \in 1 .. Len(history) :
        LET event == history[i] IN
        /\ event.id \in EventIds => event.type = EventType[event.id]
        /\ event.run # NoCall => /\ calls[event.run].stage # "new"
                                 /\ event.cause = calls[event.run].source.id

\* Only the call that holds the event loop is between two of its suspensions.
Held == \A c \in Calls : calls[c].stage \in {"publish", "reserve", "moderate", "run"} => holder = c

\* An event that may be in the trace of a run which began with the root.
Belongs(event, root) == event.id = root \/ event.cause = root \/ TiedByCaller(event, root)

\* SnapshotTellsItsRun, of one call.
SnapshotTold(c, call, events, positions) ==
    call.kind = "start" /\ call.stage = "done" =>
        LET root == call.source.id IN
        /\ positions \subseteq 1 .. Len(events)
        /\ \A i \in positions : Belongs(events[i], root)
        /\ call.agent # NoAgent =>
             /\ \E i \in positions : events[i].id = root
             /\ \E i \in positions : events[i].run = c /\ events[i].cause = root

BusIInv ==
    /\ BusTypeOK /\ EventsTold /\ Held
    /\ \A c \in Calls : CallTold(c, calls[c], history)
    /\ \A c \in Calls : SnapshotTold(c, calls[c], history, snapshot[c])
    /\ RecordedOnceUnlessAwaited /\ CausesComeFirst

LEMMA BusConstants ==
    /\ Calls \cap EventIds = {} /\ NoCall \notin Calls
    /\ \A c \in Calls : /\ <<c, "decision">> \notin Calls \cup EventIds
                        /\ <<c, "resolved">> \notin Calls \cup EventIds
    /\ \A id \in EventIds : /\ EventType[id] \in BusTypes
                            /\ EventType[id] \notin {"moderator_decision", "arbitration_resolved"}
    /\ NoEvent \notin Calls \cup EventIds
BY BusAssumption

\* The changes of a call, field by field.
LEMMA PassedCall ==
    ASSUME NEW call, IsCall(call), NEW stage
    PROVE  LET new == [call EXCEPT !.stage = stage] IN
           /\ IsCall(new) /\ new.kind = call.kind /\ new.source = call.source /\ new.stage = stage
           /\ new.outbox = call.outbox /\ new.next = call.next /\ new.agent = call.agent
<1> DEFINE new == [call EXCEPT !.stage = stage]
<1>2. new \in [kind : {call.kind}, stage : {stage}, source : {call.source},
            candidates : {call.candidates}, conflict : {call.conflict}, outbox : {call.outbox},
            next : {call.next}, agent : {call.agent}]
  BY DEF IsCall
<1> HIDE DEF new
<1>4. /\ new.kind = call.kind /\ new.source = call.source /\ new.stage = stage
      /\ new.candidates = call.candidates /\ new.conflict = call.conflict
      /\ new.outbox = call.outbox /\ new.next = call.next /\ new.agent = call.agent
  BY <1>2
<1>5. QED
  BY <1>2, <1>4 DEF IsCall, new

LEMMA BusInitIInv == BusInit => BusIInv
<1> SUFFICES ASSUME BusInit
             PROVE  BusIInv
  OBVIOUS
<1>1. /\ history = <<>> /\ calls = [c \in Calls |-> NewCall] /\ snapshot = [c \in Calls |-> {}]
      /\ Len(history) = 0
  BY DEF BusInit
<1>2. IsCall(NewCall) /\ NewCall.stage = "new" /\ NewCall.agent = NoAgent
  BY DEF IsCall, NewCall
<1>3. BusTypeOK
  BY <1>1, <1>2, EmptySeq DEF BusTypeOK
<1>4. \A c \in Calls : CallTold(c, calls[c], history)
  BY <1>1, <1>2 DEF CallTold, Published, Opening, Announcing, Publishing
<1>5. EventsTold /\ RecordedOnceUnlessAwaited /\ CausesComeFirst
  BY <1>1 DEF EventsTold, RecordedOnceUnlessAwaited, CausesComeFirst
<1>6. Held /\ \A c \in Calls : SnapshotTold(c, calls[c], history, snapshot[c])
  BY <1>1, <1>2 DEF Held, SnapshotTold
<1>7. QED
  BY <1>3, <1>4, <1>5, <1>6 DEF BusIInv

LEMMA Longer ==
    ASSUME NEW events \in Seq(BusEvents), NEW event \in BusEvents
    PROVE  LET longer == Append(events, event) IN
           /\ longer \in Seq(BusEvents) /\ Len(events) \in Nat
           /\ Len(longer) = Len(events) + 1
           /\ longer[Len(events) + 1] = event
           /\ \A i \in 1 .. Len(events) : i \in 1 .. Len(longer) /\ longer[i] = events[i]
           /\ \A i \in 1 .. Len(longer) : i \in 1 .. Len(events) \/ i = Len(events) + 1
           /\ \A id : Published(id, longer) <=> Published(id, events) \/ event.id = id
           /\ \A other : Recorded(other, longer) <=> Recorded(other, events) \/ event = other
<1> DEFINE longer == Append(events, event)
<1>1. /\ longer \in Seq(BusEvents) /\ Len(events) \in Nat
      /\ Len(longer) = Len(events) + 1
      /\ longer[Len(events) + 1] = event
      /\ \A i \in 1 .. Len(events) : longer[i] = events[i]
  BY AppendProperties, LenProperties
<1> HIDE DEF longer
<1>2. /\ \A i \in 1 .. Len(events) : i \in 1 .. Len(longer) /\ longer[i] = events[i]
      /\ \A i \in 1 .. Len(longer) : i \in 1 .. Len(events) \/ i = Len(events) + 1
      /\ Len(events) + 1 \in 1 .. Len(longer)
  BY <1>1
<1>3. \A id : Published(id, longer) <=> Published(id, events) \/ event.id = id
  BY <1>1, <1>2 DEF Published
<1>4. \A other : Recorded(other, longer) <=> Recorded(other, events) \/ event = other
  BY <1>1, <1>2 DEF Recorded
<1>5. QED
  BY <1>1, <1>2, <1>3, <1>4 DEF longer

\* What is told of a call stays true when another one publishes.
LEMMA OthersTold ==
    ASSUME NEW c \in Calls, NEW call, NEW events \in Seq(BusEvents), NEW event \in BusEvents,
           CallTold(c, call, events), call.stage # "publish",
           event.id \notin Announced(c) \cup {c}
    PROVE  CallTold(c, call, Append(events, event))
<1> DEFINE longer == Append(events, event)
<1>1. /\ \A id : Published(id, longer) <=> Published(id, events) \/ event.id = id
      /\ \A other : Recorded(other, longer) <=> Recorded(other, events) \/ event = other
  BY Longer
<1> HIDE DEF longer
<1>2. \A id \in Announced(c) : Published(id, longer) <=> Published(id, events)
  BY <1>1
<1>3. Published(c, longer) <=> Published(c, events)
  BY <1>1
<1>4. <<c, "resolved">> \in Announced(c)
  BY DEF Announced
<1>5. CallTold(c, call, longer)
  BY <1>1, <1>2, <1>3, <1>4 DEF CallTold
<1>6. QED
  BY <1>5 DEF longer

\* A snapshot keeps what it shows.
LEMMA SnapshotStays ==
    ASSUME NEW c, NEW call, NEW events \in Seq(BusEvents), NEW event \in BusEvents, NEW positions,
           SnapshotTold(c, call, events, positions)
    PROVE  SnapshotTold(c, call, Append(events, event), positions)
<1> DEFINE longer == Append(events, event)
<1>1. \A i \in 1 .. Len(events) : i \in 1 .. Len(longer) /\ longer[i] = events[i]
  BY Longer
<1> HIDE DEF longer
<1>2. SnapshotTold(c, call, longer, positions)
  BY <1>1 DEF SnapshotTold
<1>3. QED
  BY <1>2 DEF longer

\* A step of a call that publishes nothing.
LEMMA QuietStep ==
    ASSUME BusIInv, NEW c \in Calls, NEW new, IsCall(new), new.stage # "new",
           calls' = [calls EXCEPT ![c] = new], history' = history,
           holder \in {NoCall, c}, new.stage \in {"publish", "reserve", "moderate", "run"} => holder' = c,
           calls[c].stage # "new" => new.source = calls[c].source,
           CallTold(c, new, history),
           snapshot' = snapshot \/ \E positions : snapshot' = [snapshot EXCEPT ![c] = positions],
           SnapshotTold(c, new, history, snapshot'[c])
    PROVE  BusIInv'
<1> USE DEF BusIInv
<1>1. /\ calls'[c] = new /\ calls' = [q \in Calls |-> calls'[q]]
      /\ \A q \in Calls \ {c} : calls'[q] = calls[q]
  BY DEF BusTypeOK
<1>2. /\ snapshot' = [q \in Calls |-> snapshot'[q]]
      /\ \A q \in Calls \ {c} : snapshot'[q] = snapshot[q]
  BY DEF BusTypeOK
<1>3. BusTypeOK'
  BY <1>1, <1>2 DEF BusTypeOK
<1>4. EventsTold'
  <2>1. ASSUME NEW i \in 1 .. Len(history), history[i].run # NoCall
        PROVE  /\ calls'[history[i].run].stage # "new"
               /\ history[i].cause = calls'[history[i].run].source.id
    <3>1. /\ calls[history[i].run].stage # "new"
          /\ history[i].cause = calls[history[i].run].source.id
      BY <2>1 DEF EventsTold
    <3>a. history[i] \in BusEvents
      BY ElementOfSeq DEF BusTypeOK
    <3>2. history[i].run \in Calls
      BY <2>1, <3>a DEF BusEvents
    <3>3. QED
      BY <1>1, <3>1, <3>2
  <2>2. QED
    BY <2>1 DEF EventsTold
<1>5. Held'
  <2>1. \A q \in Calls \ {c} : calls'[q].stage \notin {"publish", "reserve", "moderate", "run"}
    BY <1>1, BusConstants DEF Held
  <2>2. QED
    BY <1>1, <2>1 DEF Held
<1>6. \A q \in Calls : CallTold(q, calls'[q], history')
  BY <1>1
<1>7. \A q \in Calls : SnapshotTold(q, calls'[q], history', snapshot'[q])
  BY <1>1, <1>2
<1>8. (RecordedOnceUnlessAwaited /\ CausesComeFirst)'
  BY DEF RecordedOnceUnlessAwaited, CausesComeFirst
<1>9. QED
  BY <1>3, <1>4, <1>5, <1>6, <1>7, <1>8

LEMMA RelatedBelongs ==
    ASSUME NEW event, NEW root, NEW c, IsRelated(event, root, c),
           event.run = c => event.cause = root
    PROVE  Belongs(event, root)
BY DEF IsRelated, CorrelationOf, MentionsOf, Belongs, TiedByCaller

\* What a run's trace would take now is its own.
LEMMA RelatedTold ==
    ASSUME BusIInv, NEW c \in Calls, NEW root,
           calls[c].stage # "new" => calls[c].source.id = root
    PROVE  LET positions == {i \in DOMAIN history : IsRelated(history[i], root, c)} IN
           /\ positions \subseteq 1 .. Len(history)
           /\ \A i \in positions : Belongs(history[i], root)
           /\ \A i \in 1 .. Len(history) :
                history[i].id = root \/ history[i].run = c => i \in positions
<1>1. DOMAIN history = 1 .. Len(history)
  BY LenProperties DEF BusIInv, BusTypeOK
<1>2. \A i \in 1 .. Len(history) : history[i].run = c => history[i].cause = root
  BY BusConstants DEF BusIInv, EventsTold
<1> DEFINE positions == {i \in DOMAIN history : IsRelated(history[i], root, c)}
<1>3. \A i \in positions : Belongs(history[i], root)
  <2>1. ASSUME NEW i \in positions
        PROVE  Belongs(history[i], root)
    BY <1>1, <1>2, RelatedBelongs
  <2>2. QED
    BY <2>1
<1>4. \A i \in 1 .. Len(history) :
         history[i].id = root \/ history[i].run = c => i \in positions
  BY <1>1 DEF IsRelated
<1>5. QED
  BY <1>1, <1>3, <1>4

LEMMA AcceptKeeps ==
    ASSUME BusIInv, NEW c \in Calls, NEW id, NEW type, NEW cands, AcceptSystemEvent(c, id, type, cands),
           \/ id \in EventIds /\ type = EventType[id]
           \/ id = c /\ type \in BusTypes \ {"moderator_decision", "arbitration_resolved"}
    PROVE  BusIInv'
<1> DEFINE event == Event(id, type, NoEvent, NoCall)
           stage == CASE type = "invalid" -> "done"
                      [] type # "invalid" /\ KnownEvent(id) -> "reserve"
                      [] OTHER -> "publish"
           outbox == IF KnownEvent(id) THEN <<>> ELSE <<event>>
           new == [calls[c] EXCEPT !.kind = "start", !.source = event, !.candidates = cands,
                                   !.next = "reserve", !.outbox = outbox, !.stage = stage]
<1>1. /\ calls' = [calls EXCEPT ![c] = new] /\ history' = history
      /\ holder = NoCall /\ calls[c].stage = "new"
      /\ holder' = IF type = "invalid" THEN NoCall ELSE c
      /\ snapshot' = IF type # "invalid" THEN snapshot
                     ELSE [snapshot EXCEPT ![c] = {i \in DOMAIN history : IsRelated(history[i], id, c)}]
  BY DEF AcceptSystemEvent
<1>2. IsCall(calls[c]) /\ CallTold(c, calls[c], history)
  BY DEF BusIInv, BusTypeOK
<1>3. /\ event \in BusEvents /\ event.id = id /\ event.type = type
      /\ event.cause = NoEvent /\ event.run = NoCall
      /\ type \notin {"moderator_decision", "arbitration_resolved"}
      /\ id \in EventIds \cup {c} /\ (id \in EventIds => type = EventType[id])
  BY BusConstants DEF Event, BusEvents, BusIds
<1> HIDE DEF event, stage, outbox
<1>a. new \in [kind : {"start"}, stage : {stage}, source : {event}, candidates : {cands},
              conflict : {calls[c].conflict}, outbox : {outbox}, next : {"reserve"},
              agent : {calls[c].agent}]
  BY <1>2 DEF IsCall
<1> HIDE DEF new
<1>b. /\ new.kind = "start" /\ new.source = event /\ new.stage = stage /\ new.candidates = cands
      /\ new.outbox = outbox /\ new.next = "reserve" /\ new.agent = calls[c].agent
      /\ new.conflict = calls[c].conflict
  BY <1>a
<1>4. /\ IsCall(new) /\ new.source = event /\ new.stage = stage /\ new.outbox = outbox
      /\ new.next = "reserve" /\ new.agent = calls[c].agent /\ new.kind = "start"
  BY <1>a, <1>b DEF IsCall
<1>5. DOMAIN history = 1 .. Len(history)
  BY LenProperties DEF BusIInv, BusTypeOK
<1>6. KnownEvent(id) <=> Published(id, history)
  BY <1>5 DEF KnownEvent, Published
<1>7. /\ stage \in {"done", "reserve", "publish"}
      /\ stage = "done" <=> type = "invalid"
      /\ stage = "reserve" => Published(id, history)
      /\ stage = "publish" => ~Published(id, history) /\ outbox = <<event>>
  BY <1>6 DEF stage, outbox
<1>8. SourceTold(c, new)
  BY <1>3, <1>4 DEF SourceTold
<1>9. /\ \A i \in Announced(c) : ~Published(i, history)
      /\ calls[c].agent = NoAgent /\ ~Published(c, history)
  BY <1>1, <1>2 DEF CallTold
<1>10. CallTold(c, new, history)
  BY <1>3, <1>4, <1>7, <1>8, <1>9 DEF CallTold, Opening, Announcing, Publishing
<1>11. SnapshotTold(c, new, history, snapshot'[c])
  <2>1. CASE stage = "done"
    <3>1. snapshot'[c] = {i \in DOMAIN history : IsRelated(history[i], id, c)}
      BY <1>1, <1>7, <2>1 DEF BusIInv, BusTypeOK
    <3>2. QED
      BY <1>1, <1>3, <1>4, <1>9, <3>1, RelatedTold DEF SnapshotTold
  <2>2. CASE stage # "done"
    BY <1>4, <2>2 DEF SnapshotTold
  <2>3. QED
    BY <2>1, <2>2
<1>12. new.stage # "new" /\ (new.stage \in {"publish", "reserve", "moderate", "run"} => holder' = c)
  BY <1>1, <1>4, <1>7
<1>13. snapshot' = snapshot \/ \E positions : snapshot' = [snapshot EXCEPT ![c] = positions]
  BY <1>1
<1>14. QED
  BY <1>1, <1>4, <1>10, <1>11, <1>12, <1>13, QuietStep

LEMMA ArbitrateKeeps ==
    ASSUME BusIInv, NEW c \in Calls, ArbitrateConflict(c)
    PROVE  BusIInv'
<1>1. PICK conflict \in Conflicts, cands \in CandidateSets \ {{}} :
        calls' = [calls EXCEPT ![c] =
            [calls[c] EXCEPT !.kind = "arbitrate",
                      !.source = Event(c, ConflictEvent(conflict), NoEvent, NoCall), !.candidates = cands,
                      !.conflict = conflict,
                      !.outbox = <<Event(c, ConflictEvent(conflict), NoEvent, NoCall)>>, !.stage = "publish",
                      !.next = "moderate"]]
  BY DEF ArbitrateConflict
<1> DEFINE event == Event(c, ConflictEvent(conflict), NoEvent, NoCall)
           new == [calls[c] EXCEPT !.kind = "arbitrate", !.source = event, !.candidates = cands,
                                   !.conflict = conflict, !.outbox = <<event>>, !.stage = "publish",
                                   !.next = "moderate"]
<1>2. /\ history' = history /\ snapshot' = snapshot /\ calls' = [calls EXCEPT ![c] = new]
      /\ holder = NoCall /\ calls[c].stage = "new" /\ holder' = c
  BY <1>1 DEF ArbitrateConflict
<1>3. IsCall(calls[c]) /\ CallTold(c, calls[c], history)
  BY DEF BusIInv, BusTypeOK
<1>4. /\ event \in BusEvents /\ event.id = c
      /\ event.type \in BusTypes \ {"moderator_decision", "arbitration_resolved"}
      /\ event.cause = NoEvent /\ event.run = NoCall /\ c \notin EventIds
  BY BusConstants DEF Event, BusEvents, BusIds, ConflictEvent, BusTypes
<1> HIDE DEF event
<1>a. new \in [kind : {"arbitrate"}, stage : {"publish"}, source : {event}, candidates : {cands},
              conflict : {conflict}, outbox : {<<event>>}, next : {"moderate"},
              agent : {calls[c].agent}]
  BY <1>3 DEF IsCall
<1> HIDE DEF new
<1>b. /\ new.kind = "arbitrate" /\ new.source = event /\ new.stage = "publish"
      /\ new.candidates = cands /\ new.outbox = <<event>> /\ new.next = "moderate"
      /\ new.agent = calls[c].agent /\ new.conflict = conflict
  BY <1>a
<1>5. /\ IsCall(new) /\ new.source = event /\ new.stage = "publish" /\ new.outbox = <<event>>
      /\ new.next = "moderate" /\ new.agent = calls[c].agent /\ new.kind = "arbitrate"
  BY <1>a, <1>b DEF IsCall
<1>6. /\ \A i \in Announced(c) : ~Published(i, history)
      /\ calls[c].agent = NoAgent /\ ~Published(c, history)
  BY <1>2, <1>3 DEF CallTold
<1>7. SourceTold(c, new)
  BY <1>4, <1>5 DEF SourceTold
<1>8. CallTold(c, new, history)
  BY <1>4, <1>5, <1>6, <1>7 DEF CallTold, Opening, Announcing, Publishing
<1>9. SnapshotTold(c, new, history, snapshot'[c])
  BY <1>5 DEF SnapshotTold
<1>10. QED
  BY <1>2, <1>5, <1>8, <1>9, QuietStep

\* A step of a call that only passes to another stage.
Passes(c, stage) ==
    /\ calls' = [calls EXCEPT ![c].stage = stage] /\ history' = history
    /\ holder \in {NoCall, c} /\ calls[c].stage # "new"
    /\ stage \in {"publish", "reserve", "moderate", "run"} => holder' = c
    /\ \/ snapshot' = snapshot /\ (stage = "done" => calls[c].stage = "done")
       \/ snapshot' = [snapshot EXCEPT ![c] = Related(c)]
    /\ \/ stage = "notified" /\ calls[c].stage = "publish" /\ Head(calls[c].outbox).type \in Awaited
       \/ stage = "moderate" /\ calls[c].stage = "reserve"
       \/ stage = "done" /\ calls[c].stage \in {"reserve", "running", "done"}
       \/ stage = "tie" /\ calls[c].stage = "moderate"
       \/ stage = "running" /\ calls[c].stage = "run"

LEMMA PassKeeps ==
    ASSUME BusIInv, NEW c \in Calls, NEW stage, Passes(c, stage)
    PROVE  BusIInv'
<1> USE DEF Passes
<1> DEFINE new == [calls[c] EXCEPT !.stage = stage]
           old == calls[c]
<1>1. calls' = [calls EXCEPT ![c] = new]
  OBVIOUS
<1>2. IsCall(old) /\ CallTold(c, old, history) /\ SnapshotTold(c, old, history, snapshot[c])
  BY DEF BusIInv, BusTypeOK
<1>3. /\ IsCall(new) /\ new.kind = old.kind /\ new.source = old.source /\ new.stage = stage
      /\ new.outbox = old.outbox /\ new.next = old.next /\ new.agent = old.agent
  BY <1>2, PassedCall
<1> HIDE DEF new
<1>4. CallTold(c, new, history)
  <2>1. SourceTold(c, new)
    BY <1>2, <1>3 DEF CallTold, SourceTold
  <2>2. /\ DecisionOf(c, new) = DecisionOf(c, old) /\ ResolvedOf(c, new) = ResolvedOf(c, old)
    BY <1>3 DEF DecisionOf, ResolvedOf, RunOf
  <2>3. CASE stage = "notified" /\ old.stage = "publish" /\ Head(old.outbox).type \in Awaited
    <3>1. /\ Opening(new) <=> Opening(old)
          /\ Announcing(new) <=> Announcing(old)
      BY <1>3, <2>3 DEF Opening, Announcing, Publishing
    <3>2. QED
      BY <1>2, <1>3, <2>1, <2>2, <2>3, <3>1 DEF CallTold, Publishing
  <2>4. CASE stage # "notified"
    <3>1. ~Publishing(new) /\ ~Opening(new) /\ ~Announcing(new)
      BY <1>3, <2>4 DEF Opening, Announcing, Publishing
    <3>2. QED
      BY <1>2, <1>3, <2>1, <2>2, <2>4, <3>1 DEF CallTold
  <2>5. QED
    BY <2>3, <2>4
<1>5. SnapshotTold(c, new, history, snapshot'[c])
  <2>1. CASE stage # "done"
    BY <1>3, <2>1 DEF SnapshotTold
  <2>2. CASE snapshot' = snapshot /\ stage = "done" /\ old.stage = "done"
    <3>1. SnapshotTold(c, old, history, snapshot[c]) /\ old.stage = "done"
      BY <1>2, <2>2
    <3>2. QED
      BY <1>3, <2>2, <3>1 DEF SnapshotTold
  <2>3. CASE snapshot' = [snapshot EXCEPT ![c] = Related(c)] /\ stage = "done"
    <3>1. snapshot'[c] = {i \in DOMAIN history : IsRelated(history[i], old.source.id, c)}
      BY <2>3 DEF Related, BusIInv, BusTypeOK
    <3>2. /\ snapshot'[c] \subseteq 1 .. Len(history)
          /\ \A i \in snapshot'[c] : Belongs(history[i], old.source.id)
          /\ \A i \in 1 .. Len(history) :
                history[i].id = old.source.id \/ history[i].run = c => i \in snapshot'[c]
      BY <3>1, RelatedTold
    <3>3. ASSUME old.kind = "start", old.agent # NoAgent
          PROVE  /\ \E i \in snapshot'[c] : history[i].id = old.source.id
                 /\ \E i \in snapshot'[c] : history[i].run = c /\ history[i].cause = old.source.id
      <4>1. old.stage # "reserve"
        BY <1>2, <3>3 DEF CallTold
      <4>2. CASE old.stage = "running"
        <5>1. Published(old.source.id, history) /\ Recorded(DecisionOf(c, old), history)
          BY <1>2, <4>2 DEF CallTold
        <5>2. /\ DecisionOf(c, old).run = c /\ DecisionOf(c, old).cause = old.source.id
          BY <3>3 DEF DecisionOf, RunOf, Event
        <5>3. QED
          BY <3>2, <5>1, <5>2 DEF Published, Recorded
      <4>3. CASE old.stage = "done"
        <5>1. SnapshotTold(c, old, history, snapshot[c])
          BY <1>2
        <5>2. QED
          BY <3>2, <3>3, <4>3, <5>1 DEF SnapshotTold
      <4>4. QED
        BY <2>3, <4>1, <4>2, <4>3
    <3>4. QED
      BY <1>3, <3>2, <3>3 DEF SnapshotTold
  <2>4. QED
    BY <2>1, <2>2, <2>3
<1>6. snapshot' = snapshot \/ \E positions : snapshot' = [snapshot EXCEPT ![c] = positions]
  OBVIOUS
<1>7. QED
  BY <1>1, <1>3, <1>4, <1>5, <1>6, QuietStep

LEMMA PassingStep ==
    ASSUME BusIInv, NEW c \in Calls,
           \/ NotifyEventSubscribers(c) \/ Reserve(c) \/ AskTieBreaker(c) \/ Suspend(c) \/ FinishRun(c)
    PROVE  BusIInv'
<1>1. CASE NotifyEventSubscribers(c)
  <2>1. Passes(c, "notified")
    BY <1>1 DEF NotifyEventSubscribers, Passes
  <2>2. QED
    BY <2>1, PassKeeps
<1>2. CASE Reserve(c)
  <2>1. Passes(c, "moderate") \/ Passes(c, "done")
    BY <1>2 DEF Reserve, Passes
  <2>2. QED
    BY <2>1, PassKeeps
<1>3. CASE AskTieBreaker(c)
  <2>1. Passes(c, "tie")
    BY <1>3 DEF AskTieBreaker, Passes
  <2>2. QED
    BY <2>1, PassKeeps
<1>4. CASE Suspend(c)
  <2>1. /\ holder = c /\ calls[c].stage \in {"run", "done"} /\ history' = history
        /\ snapshot' = snapshot
        /\ calls' = [calls EXCEPT ![c].stage = IF calls[c].stage = "run" THEN "running"
                                               ELSE calls[c].stage]
    BY <1>4 DEF Suspend
  <2>2. CASE calls[c].stage = "run"
    <3>1. calls' = [calls EXCEPT ![c].stage = "running"]
      BY <2>1, <2>2
    <3>2. Passes(c, "running")
      BY <2>1, <2>2, <3>1 DEF Passes
    <3>3. QED
      BY <3>2, PassKeeps
  <2>3. CASE calls[c].stage = "done"
    <3>1. calls' = [calls EXCEPT ![c].stage = "done"]
      BY <2>1, <2>3
    <3>2. Passes(c, "done")
      BY <2>1, <2>3, <3>1 DEF Passes
    <3>3. QED
      BY <3>2, PassKeeps
  <2>4. QED
    BY <2>1, <2>2, <2>3
<1>5. CASE FinishRun(c)
  <2>1. Passes(c, "done")
    BY <1>5 DEF FinishRun, Passes
  <2>2. QED
    BY <2>1, PassKeeps
<1>6. QED
  BY <1>1, <1>2, <1>3, <1>4, <1>5

LEMMA ModerateKeeps ==
    ASSUME BusIInv, NEW c \in Calls, Moderate(c)
    PROVE  BusIInv'
<1> DEFINE old == calls[c]
           outbox == Announcements(DecisionOf(c, old), ResolvedOf(c, old), old.conflict)
           next == IF old.kind = "start" THEN "run" ELSE "done"
<1>1. PICK a : calls' = [calls EXCEPT ![c].agent = a, ![c].stage = "publish",
                                      ![c].outbox = outbox, ![c].next = next]
  BY DEF Moderate, DecisionOf, ResolvedOf, RunOf
<1>2. /\ holder \in {NoCall, c} /\ old.stage \in {"moderate", "tie"} /\ holder' = c
      /\ history' = history /\ snapshot' = snapshot
  BY DEF Moderate
<1> DEFINE new == [old EXCEPT !.agent = a, !.stage = "publish", !.outbox = outbox, !.next = next]
<1>3. calls' = [calls EXCEPT ![c] = new]
  BY <1>1
<1>4. IsCall(old) /\ CallTold(c, old, history)
  BY DEF BusIInv, BusTypeOK
<1> HIDE DEF outbox, next
<1>a. new \in [kind : {old.kind}, stage : {"publish"}, source : {old.source},
              candidates : {old.candidates}, conflict : {old.conflict}, outbox : {outbox},
              next : {next}, agent : {a}]
  BY <1>4 DEF IsCall
<1> HIDE DEF new
<1>b. /\ new.kind = old.kind /\ new.source = old.source /\ new.stage = "publish"
      /\ new.candidates = old.candidates /\ new.conflict = old.conflict
      /\ new.outbox = outbox /\ new.next = next /\ new.agent = a
  BY <1>a
<1>5. /\ IsCall(new) /\ new.kind = old.kind /\ new.source = old.source /\ new.stage = "publish"
      /\ new.outbox = outbox /\ new.next = next /\ new.agent = a
  BY <1>a, <1>b DEF IsCall
<1>6. /\ SourceTold(c, old) /\ Published(old.source.id, history)
      /\ \A id \in Announced(c) : ~Published(id, history)
  BY <1>2, <1>4 DEF CallTold
<1>7. SourceTold(c, new)
  BY <1>5, <1>6 DEF SourceTold
<1>8. /\ DecisionOf(c, new) = DecisionOf(c, old) /\ ResolvedOf(c, new) = ResolvedOf(c, old)
  BY <1>5 DEF DecisionOf, ResolvedOf, RunOf
<1>9. outbox \in {<<DecisionOf(c, new)>>, <<DecisionOf(c, new), ResolvedOf(c, new)>>}
  BY <1>8 DEF outbox, Announcements
<1>10. next \in {"run", "done"} /\ (next = "run" <=> new.kind = "start")
  BY <1>5 DEF next
<1>11. CallTold(c, new, history)
  BY <1>5, <1>6, <1>7, <1>9, <1>10 DEF CallTold, Opening, Announcing, Publishing
<1>12. SnapshotTold(c, new, history, snapshot'[c])
  BY <1>5 DEF SnapshotTold
<1>13. QED
  BY <1>2, <1>3, <1>5, <1>11, <1>12, QuietStep

LEMMA RecordKeeps ==
    ASSUME BusIInv, NEW c \in Calls, RecordEvent(c)
    PROVE  BusIInv'
<1> DEFINE old == calls[c]
           event == Head(old.outbox)
           rest == Tail(old.outbox)
           next == IF Len(old.outbox) = 1 THEN old.next ELSE "publish"
           new == [old EXCEPT !.outbox = rest, !.stage = next]
           longer == Append(history, event)
           decision == DecisionOf(c, old)
           resolved == ResolvedOf(c, old)
<1>1. /\ history' = longer /\ calls' = [calls EXCEPT ![c] = new]
      /\ snapshot' = snapshot /\ holder' = c
      /\ \/ holder = c /\ old.stage = "publish" /\ event.type \notin Awaited
         \/ holder = NoCall /\ old.stage = "notified"
  BY DEF RecordEvent
<1>2. /\ IsCall(old) /\ CallTold(c, old, history) /\ SnapshotTold(c, old, history, snapshot[c])
      /\ history \in Seq(BusEvents)
  BY DEF BusIInv, BusTypeOK
<1>3. new \in [kind : {old.kind}, stage : {next}, source : {old.source},
              candidates : {old.candidates}, conflict : {old.conflict}, outbox : {rest},
              next : {old.next}, agent : {old.agent}]
  BY <1>2 DEF IsCall
<1> HIDE DEF new
<1>4. /\ new.kind = old.kind /\ new.source = old.source /\ new.stage = next
      /\ new.candidates = old.candidates /\ new.conflict = old.conflict
      /\ new.outbox = rest /\ new.next = old.next /\ new.agent = old.agent
  BY <1>3
<1>5. IsCall(new)
  BY <1>3, <1>4 DEF IsCall
<1>6. /\ Publishing(old) /\ SourceTold(c, old)
      /\ Opening(old) \/ Announcing(old)
  BY <1>1, <1>2 DEF CallTold, Publishing, Opening, Announcing
<1>7. /\ decision.id = <<c, "decision">> /\ decision.type = "moderator_decision"
      /\ decision.cause = old.source.id /\ decision.run = RunOf(c, old) /\ decision \in BusEvents
      /\ resolved.id = <<c, "resolved">> /\ resolved.type = "arbitration_resolved"
      /\ resolved.cause = old.source.id /\ resolved.run = RunOf(c, old) /\ resolved \in BusEvents
  BY <1>6 DEF DecisionOf, ResolvedOf, RunOf, Event, BusEvents, BusIds, SourceTold, Announced, BusTypes
<1>8. /\ DecisionOf(c, new) = decision /\ ResolvedOf(c, new) = resolved
  BY <1>4 DEF DecisionOf, ResolvedOf, RunOf
<1>9. RunOf(c, old) \in {c, NoCall}
  BY DEF RunOf
<1>10. \/ Opening(old) /\ old.outbox = <<old.source>>
       \/ Announcing(old) /\ old.outbox = <<decision>>
       \/ Announcing(old) /\ old.outbox = <<decision, resolved>>
       \/ Announcing(old) /\ old.outbox = <<resolved>> /\ Recorded(decision, history)
  BY <1>2, <1>6 DEF CallTold
<1> HIDE DEF decision, resolved
<1>11. /\ Opening(old) => event = old.source /\ rest = <<>> /\ next = old.next
       /\ old.outbox = <<decision>> => event = decision /\ rest = <<>> /\ next = old.next
       /\ old.outbox = <<decision, resolved>> => event = decision /\ rest = <<resolved>> /\ next = "publish"
       /\ old.outbox = <<resolved>> => event = resolved /\ rest = <<>> /\ next = old.next
  <2>1. \A e : old.outbox = <<e>> => event = e /\ rest = <<>> /\ next = old.next
    OBVIOUS
  <2>2. old.outbox = <<decision, resolved>> => event = decision /\ rest = <<resolved>> /\ next = "publish"
    OBVIOUS
  <2> HIDE DEF event, rest, next
  <2>3. Opening(old) => old.outbox = <<old.source>>
    BY <1>2 DEF CallTold
  <2>4. QED
    BY <2>1, <2>2, <2>3
<1> HIDE DEF event, rest, next
<1>12. event \in BusEvents
  BY <1>6, <1>7, <1>10, <1>11 DEF SourceTold
<1>13. /\ longer \in Seq(BusEvents) /\ Len(history) \in Nat
       /\ Len(longer) = Len(history) + 1 /\ longer[Len(history) + 1] = event
       /\ \A i \in 1 .. Len(history) : i \in 1 .. Len(longer) /\ longer[i] = history[i]
       /\ \A i \in 1 .. Len(longer) : i \in 1 .. Len(history) \/ i = Len(history) + 1
       /\ \A id : Published(id, longer) <=> Published(id, history) \/ event.id = id
       /\ \A other : Recorded(other, longer) <=> Recorded(other, history) \/ event = other
  BY <1>2, <1>12, Longer
<1> HIDE DEF longer
\* No call publishes under another's names, and an event is published again only
\* when its subscriber awaits.
<1>14. /\ event.id \in EventIds \cup {c} \cup Announced(c)
       /\ event.id \in EventIds => event = old.source /\ event.type = EventType[event.id]
       /\ event.run # NoCall => event.cause = old.source.id /\ event.run = c
  BY <1>6, <1>7, <1>9, <1>10, <1>11, BusConstants DEF SourceTold, Announced
<1>15. \A q \in Calls \ {c} : event.id \notin Announced(q) \cup {q}
  <2>1. ASSUME NEW q \in Calls, q # c
        PROVE  event.id \notin Announced(q) \cup {q}
    <3>1. /\ <<c, "decision">> \notin {<<q, "decision">>, <<q, "resolved">>}
          /\ <<c, "resolved">> \notin {<<q, "decision">>, <<q, "resolved">>}
      BY <2>1
    <3>2. Announced(q) \cap (Calls \cup EventIds) = {} /\ Announced(c) \cap (Calls \cup EventIds) = {}
      BY BusConstants DEF Announced
    <3>3. Announced(c) \cap Announced(q) = {}
      BY <3>1 DEF Announced
    <3>4. QED
      BY <1>14, <2>1, <3>2, <3>3, BusConstants
  <2>2. QED
    BY <2>1
<1>16. Published(event.id, history) => event.id \in EventIds /\ event.type \in Awaited
  <2>1. CASE Opening(old)
    BY <1>1, <1>2, <1>6, <1>11, <2>1 DEF CallTold, SourceTold, Opening, Publishing
  <2>2. CASE Announcing(old)
    <3>1. /\ old.outbox \in {<<decision>>, <<decision, resolved>>} =>
                 \A id \in Announced(c) : ~Published(id, history)
          /\ old.outbox = <<resolved>> => ~Published(<<c, "resolved">>, history)
      <4>1. decision # resolved /\ <<decision>> # <<resolved>> /\ <<decision, resolved>> # <<resolved>>
        <5>1. Len(<<decision, resolved>>) = 2 /\ Len(<<resolved>>) = 1
              /\ <<decision>>[1] = decision /\ <<resolved>>[1] = resolved
          OBVIOUS
        <5>2. QED
          BY <1>7, <5>1
      <4>2. QED
        BY <1>2, <2>2, <4>1 DEF CallTold, decision, resolved
    <3>2. /\ <<c, "decision">> \in Announced(c) /\ <<c, "resolved">> \in Announced(c)
      BY DEF Announced
    <3>3. ~(Opening(old) /\ Announcing(old))
      BY DEF Opening, Announcing
    <3>4. ~Published(event.id, history)
      BY <1>7, <1>10, <1>11, <2>2, <3>1, <3>2, <3>3
    <3>5. QED
      BY <3>4
  <2>3. QED
    BY <1>6, <2>1, <2>2
<1>17. BusTypeOK'
  <2>1. /\ calls'[c] = new /\ calls' = [q \in Calls |-> calls'[q]]
        /\ \A q \in Calls \ {c} : calls'[q] = calls[q]
    BY <1>1 DEF BusIInv, BusTypeOK
  <2>2. QED
    BY <1>1, <1>5, <1>13, <2>1 DEF BusIInv, BusTypeOK
<1>18. /\ calls'[c] = new /\ \A q \in Calls \ {c} : calls'[q] = calls[q]
  BY <1>1 DEF BusIInv, BusTypeOK
<1>19. next \in {"publish", "reserve", "moderate", "run", "done"}
  BY <1>2, <1>6, <1>10, <1>11 DEF CallTold
<1>20. EventsTold'
  <2>1. ASSUME NEW i \in 1 .. Len(longer)
        PROVE  /\ longer[i].id \in EventIds => longer[i].type = EventType[longer[i].id]
               /\ longer[i].run # NoCall => /\ calls'[longer[i].run].stage # "new"
                                            /\ longer[i].cause = calls'[longer[i].run].source.id
    <3>1. CASE i = Len(history) + 1
      BY <1>4, <1>13, <1>14, <1>18, <1>19, <3>1
    <3>2. CASE i \in 1 .. Len(history)
      <4>1. history[i] \in BusEvents
        BY <1>2, <3>2, ElementOfSeq
      <4>2. history[i].run \in Calls \cup {NoCall}
        BY <4>1 DEF BusEvents
      <4>3. /\ history[i].id \in EventIds => history[i].type = EventType[history[i].id]
            /\ history[i].run # NoCall => /\ calls[history[i].run].stage # "new"
                                          /\ history[i].cause = calls[history[i].run].source.id
        BY <3>2 DEF BusIInv, EventsTold
      <4>4. QED
        BY <1>4, <1>13, <1>18, <1>19, <3>2, <4>2, <4>3
    <3>3. QED
      BY <1>13, <3>1, <3>2
  <2>2. QED
    BY <1>1, <2>1 DEF EventsTold
<1>21. Held'
  <2>1. \A q \in Calls \ {c} : calls'[q].stage \notin {"publish", "reserve", "moderate", "run"}
    BY <1>1, <1>18, BusConstants DEF BusIInv, Held
  <2>2. QED
    BY <1>1, <2>1 DEF Held
<1>22. CallTold(c, new, longer)
  <2>1. SourceTold(c, new)
    BY <1>4, <1>6 DEF SourceTold
  <2>2. CASE Opening(old)
    <3>1. /\ event.id = old.source.id /\ next \in {"reserve", "moderate"}
          /\ Published(new.source.id, longer) /\ old.agent = NoAgent
          /\ \A id \in Announced(c) : ~Published(id, history)
      BY <1>2, <1>4, <1>11, <1>13, <2>2 DEF CallTold, Opening
    <3>2. \A id \in Announced(c) : ~Published(id, longer)
      <4>1. Announced(c) \cap (Calls \cup EventIds) = {}
        BY BusConstants DEF Announced
      <4>2. old.source.id \in Calls \cup EventIds
        BY <1>6 DEF SourceTold
      <4>3. QED
        BY <1>13, <3>1, <4>1, <4>2
    <3>3. ~Publishing(new) /\ ~Opening(new) /\ ~Announcing(new)
      BY <1>4, <3>1 DEF Opening, Announcing, Publishing
    <3>4. QED
      BY <1>4, <2>1, <3>1, <3>2, <3>3 DEF CallTold
  <2>3. CASE Announcing(old)
    <3>1. /\ old.next = "run" <=> old.kind = "start"
          /\ old.next \in {"run", "done"} /\ Published(old.source.id, history)
          /\ Published(new.source.id, longer)
      BY <1>2, <1>4, <1>13, <2>3 DEF CallTold, Announcing
    <3>2. ~Opening(old)
      BY <2>3 DEF Opening, Announcing
    <3>3. CASE old.outbox = <<decision, resolved>>
      <4>1. /\ event = decision /\ new.outbox = <<resolved>> /\ new.stage = "publish"
            /\ Recorded(decision, longer)
        BY <1>4, <1>11, <1>13, <3>3
      <4>2. ~Published(<<c, "resolved">>, longer)
        <5>1. <<decision, resolved>> # <<resolved>>
          <6>1. Len(<<decision, resolved>>) = 2 /\ Len(<<resolved>>) = 1
            OBVIOUS
          <6>2. QED
            BY <6>1
        <5>2. ~Published(<<c, "resolved">>, history)
          BY <1>2, <2>3, <3>3, <5>1 DEF CallTold, Announced, decision, resolved
        <5>3. QED
          BY <1>7, <1>13, <4>1, <5>2
      <4>3. ~Opening(new) /\ Announcing(new)
        BY <1>4, <3>1, <4>1 DEF Opening, Announcing, Publishing
      <4>4. QED
        BY <1>4, <1>8, <2>1, <3>1, <4>1, <4>2, <4>3 DEF CallTold, Publishing
    <3>4. CASE old.outbox # <<decision, resolved>>
      <4>1. /\ next = old.next /\ Recorded(decision, longer)
        BY <1>10, <1>11, <1>13, <3>2, <3>4
      <4>2. ~Publishing(new) /\ ~Opening(new) /\ ~Announcing(new)
        BY <1>4, <3>1, <4>1 DEF Opening, Announcing, Publishing
      <4>3. QED
        BY <1>4, <1>8, <2>1, <3>1, <4>1, <4>2 DEF CallTold
    <3>5. QED
      BY <3>3, <3>4
  <2>4. QED
    BY <1>6, <2>2, <2>3
<1>23. \A q \in Calls : CallTold(q, calls'[q], longer)
  <2>1. ASSUME NEW q \in Calls, q # c
        PROVE  CallTold(q, calls[q], longer)
    <3>1. CallTold(q, calls[q], history) /\ calls[q].stage # "publish"
      BY <1>1, <2>1, BusConstants DEF BusIInv, Held
    <3>2. QED
      BY <1>2, <1>12, <1>15, <2>1, <3>1, OthersTold DEF longer
  <2>2. QED
    BY <1>18, <1>22, <2>1
<1>24. \A q \in Calls : SnapshotTold(q, calls'[q], longer, snapshot'[q])
  <2>1. ASSUME NEW q \in Calls, q # c
        PROVE  SnapshotTold(q, calls[q], longer, snapshot[q])
    <3>1. SnapshotTold(q, calls[q], history, snapshot[q])
      BY DEF BusIInv
    <3>2. QED
      BY <1>2, <1>12, <3>1, SnapshotStays DEF longer
  <2>2. SnapshotTold(c, new, longer, snapshot[c])
    <3>1. new.stage = "done" => new.kind # "start"
      BY <1>2, <1>4, <1>6, <1>11, <1>10 DEF CallTold, Opening, Announcing
    <3>2. QED
      BY <3>1 DEF SnapshotTold
  <2>3. QED
    BY <1>1, <1>18, <2>1, <2>2
<1>25. RecordedOnceUnlessAwaited'
  <2>1. ASSUME NEW i \in 1 .. Len(longer), NEW j \in 1 .. Len(longer), i # j,
               longer[i].id = longer[j].id
        PROVE  longer[i].type \in Awaited
    <3>1. CASE i \in 1 .. Len(history) /\ j \in 1 .. Len(history)
      <4>1. DOMAIN history = 1 .. Len(history)
        BY <1>2, LenProperties
      <4>2. QED
        BY <1>13, <2>1, <3>1, <4>1 DEF BusIInv, RecordedOnceUnlessAwaited
    <3>2. CASE i = Len(history) + 1 /\ j \in 1 .. Len(history)
      BY <1>13, <1>16, <2>1, <3>2 DEF Published
    <3>3. CASE i \in 1 .. Len(history) /\ j = Len(history) + 1
      <4>1. /\ history[i].id = event.id /\ longer[i] = history[i]
            /\ Published(event.id, history)
        BY <1>13, <2>1, <3>3 DEF Published
      <4>2. history[i].type = EventType[event.id]
        BY <1>16, <3>3, <4>1 DEF BusIInv, EventsTold
      <4>3. QED
        BY <1>14, <1>16, <4>1, <4>2
    <3>4. QED
      BY <1>13, <2>1, <3>1, <3>2, <3>3
  <2>2. DOMAIN longer = 1 .. Len(longer)
    BY <1>13, LenProperties
  <2>3. QED
    BY <1>1, <2>1, <2>2 DEF RecordedOnceUnlessAwaited
<1>26. CausesComeFirst'
  <2>1. DOMAIN history = 1 .. Len(history) /\ DOMAIN longer = 1 .. Len(longer)
    BY <1>2, <1>13, LenProperties
  <2>2. ASSUME NEW i \in 1 .. Len(longer)
        PROVE  /\ longer[i].cause # NoEvent => \E j \in 1 .. i - 1 : longer[j].id = longer[i].cause
               /\ longer[i].type = "arbitration_resolved" =>
                     \E j \in 1 .. i - 1 : /\ longer[j].type = "moderator_decision"
                                           /\ longer[j].cause = longer[i].cause
    <3>1. CASE i \in 1 .. Len(history)
      <4>1. \A j \in 1 .. i - 1 : longer[j] = history[j]
        BY <1>13, <3>1
      <4>2. /\ history[i].cause # NoEvent => \E j \in 1 .. i - 1 : history[j].id = history[i].cause
            /\ history[i].type = "arbitration_resolved" =>
                  \E j \in 1 .. i - 1 : /\ history[j].type = "moderator_decision"
                                        /\ history[j].cause = history[i].cause
        BY <2>1, <3>1 DEF BusIInv, CausesComeFirst
      <4>3. QED
        BY <1>13, <3>1, <4>1, <4>2
    <3>2. CASE i = Len(history) + 1
      <4>1. longer[i] = event /\ 1 .. i - 1 = 1 .. Len(history)
        BY <1>13, <3>2
      <4>2. event.cause # NoEvent => Published(event.cause, history)
        BY <1>2, <1>6, <1>7, <1>10, <1>11 DEF CallTold, SourceTold
      <4>3. event.type = "arbitration_resolved" => Recorded(decision, history) /\ event.cause = decision.cause
        BY <1>6, <1>7, <1>10, <1>11 DEF SourceTold
      <4>4. QED
        BY <1>7, <1>13, <4>1, <4>2, <4>3 DEF Published, Recorded
    <3>3. QED
      BY <1>13, <3>1, <3>2
  <2>3. QED
    BY <1>1, <2>1, <2>2 DEF CausesComeFirst
<1>27. QED
  BY <1>1, <1>17, <1>20, <1>21, <1>23, <1>24, <1>25, <1>26 DEF BusIInv

LEMMA BusStep == BusIInv /\ [BusNext]_busVars => BusIInv'
<1> SUFFICES ASSUME BusIInv, [BusNext]_busVars
             PROVE  BusIInv'
  OBVIOUS
<1>1. ASSUME NEW c \in Calls, FromCaller(c)
      PROVE  BusIInv'
  BY <1>1, AcceptKeeps DEF FromCaller
<1>2. ASSUME NEW c \in Calls, FromGateway(c)
      PROVE  BusIInv'
  <2>1. PICK type \in {"risk_breach_detected", "approval_required", "task_created"} :
            AcceptSystemEvent(c, c, type, BusAgents \ {"human"})
    BY <1>2 DEF FromGateway
  <2>2. type \in BusTypes \ {"moderator_decision", "arbitration_resolved"}
    BY DEF BusTypes
  <2>3. QED
    BY <2>1, <2>2, AcceptKeeps
<1>3. ASSUME NEW c \in Calls, FromCron(c)
      PROVE  BusIInv'
  <2>1. "cron_triggered" \in BusTypes \ {"moderator_decision", "arbitration_resolved"}
    BY DEF BusTypes
  <2>2. QED
    BY <1>3, <2>1, AcceptKeeps DEF FromCron
<1>4. ASSUME NEW c \in Calls, ArbitrateConflict(c)
      PROVE  BusIInv'
  BY <1>4, ArbitrateKeeps
<1>5. ASSUME NEW c \in Calls, RecordEvent(c)
      PROVE  BusIInv'
  BY <1>5, RecordKeeps
<1>6. ASSUME NEW c \in Calls, Moderate(c)
      PROVE  BusIInv'
  BY <1>6, ModerateKeeps
<1>7. ASSUME NEW c \in Calls,
             \/ NotifyEventSubscribers(c) \/ Reserve(c) \/ AskTieBreaker(c) \/ Suspend(c) \/ FinishRun(c)
      PROVE  BusIInv'
  BY <1>7, PassingStep
<1>8. CASE UNCHANGED busVars
  BY <1>8 DEF busVars, BusIInv, BusTypeOK, EventsTold, Held, RecordedOnceUnlessAwaited, CausesComeFirst
<1>9. QED
  BY <1>1, <1>2, <1>3, <1>4, <1>5, <1>6, <1>7, <1>8 DEF BusNext

\* Where each call is in what it publishes, and what the history and the traces
\* hold of it, at every moment.
THEOREM BusInvariant == BusSpec => []BusIInv
<1>1. QED
  BY BusInitIInv, BusStep, PTL DEF BusSpec

LEMMA BusIInvHolds == BusIInv => HistoryHolds
<1> SUFFICES ASSUME BusIInv
             PROVE  HistoryHolds
  OBVIOUS
<1>1. ASSUME NEW c \in Calls, calls[c].stage = "done", calls[c].kind = "start"
      PROVE  LET seen == {history[i] : i \in snapshot[c]}
                 root == calls[c].source.id IN
             /\ \A event \in seen :
                   event.id = root \/ event.cause = root \/ TiedByCaller(event, root)
             /\ calls[c].agent # NoAgent =>
                   /\ \E event \in seen : event.id = root
                   /\ \E event \in seen : event.run = c /\ event.cause = root
  <2>1. SnapshotTold(c, calls[c], history, snapshot[c])
    BY DEF BusIInv
  <2>2. QED
    BY <1>1, <2>1 DEF SnapshotTold, Belongs
<1>2. SnapshotTellsItsRun
  BY <1>1 DEF SnapshotTellsItsRun
<1>3. QED
  BY <1>2 DEF BusIInv, HistoryHolds

\* The history of the bus tells what happened, once and in order, and each run its
\* part of it.
THEOREM HistoryIsTold == BusSpec => []HistoryHolds
<1>1. QED
  BY BusInvariant, BusIInvHolds, PTL
==============================================================================
