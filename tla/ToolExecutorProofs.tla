--------------------------- MODULE ToolExecutorProofs ---------------------------
(***************************************************************************)
(* Proofs about ToolExecutor, for any number of steps, commands and        *)
(* retries: the gates hold whatever the threads do, and the budget is      *)
(* exact as long as no two reservations overlap.                           *)
(***************************************************************************)
EXTENDS ToolExecutor, FiniteSetTheorems, TLAPS

Passed == {"checked", "reserving", "handling"}

\* A thread past the gates, and a step whose handler was called, are of a
\* command the gates let through; a step is blocked by a gate and nothing else.
Gated ==
    /\ \A j \in Jobs : job[j] \in Passed => Gate(cmd[j[1]]) = "none"
    /\ \A j \in Jobs : job[j] = "done" /\ Gate(cmd[j[1]]) = "none" =>
                           StatusOf(receipt[j]) # "blocked"
    /\ \A s \in Steps : handled[s] > 0 => Gate(cmd[s]) = "none"
    /\ \A s \in Steps : step[s] = "blocked" => Gate(cmd[s]) # "none"

\* What a thread holds of the budget is current unless reservations overlapped.
Fresh ==
    /\ \A j \in admitted : job[j] \in {"handling", "done"}
    /\ ~raced => \A j \in Reserving : seen[j] = budget /\ Reserving = {j}

\* No command exists for an attempt the step has not come to.
NotAhead ==
    /\ \A j \in Jobs : j[2] > attempt[j[1]] => job[j] = "absent"
    /\ \A s \in Steps : step[s] = "idle" => attempt[s] = 0 /\ job[<<s, 0>>] = "absent"

IInv == TypeOK /\ NotAhead /\ Gated /\ Fresh /\ SettledByItsAttempt /\ SerialBudgetExact

--------------------------------------------------------------------------------

\* There are finitely many commands in a run, so every set of them has a size.
LEMMA JobsFinite ==
    ASSUME NEW S, S \subseteq Jobs
    PROVE  IsFiniteSet(S) /\ Cardinality(S) \in Nat
  <1>1. IsFiniteSet(Attempts)
    BY FS_Interval, ToolAssumption DEF Attempts
  <1>2. IsFiniteSet(Jobs)
    BY <1>1, FS_Product, ToolAssumption DEF Jobs
  <1> QED
    BY <1>2, FS_Subset, FS_CardinalityType

\* One more command among those admitted.
LEMMA OneMore ==
    ASSUME NEW S, S \subseteq Jobs, NEW j \in Jobs, j \notin S
    PROVE  Cardinality(S \cup {j}) = Cardinality(S) + 1
  BY JobsFinite, FS_AddElement

\* A command that passes the gates is duly approved.
LEMMA PassedIsApproved ==
    ASSUME NEW c, Gate(c) = "none"
    PROVE  c.sideEffect =>
              /\ c.state \notin {"rejected", "expired"}
              /\ c.needsApproval => c.approved
              /\ c.needsReason /\ c.approved => c.note
  BY DEF Gate

\* No refusal of the budget and no handler error blocks a step.
LEMMA ErrorsFail ==
    ASSUME NEW error \in OverBudget \cup HandlerErrors \cup {"none", "handler_missing"}
    PROVE  StatusOf(error) # "blocked"
  BY DEF StatusOf, OverBudget, HandlerErrors

\* What an action of the event loop does for step s: it moves s alone, begins
\* no thread but that of its next attempt, and completes or blocks it only on
\* the receipt of the attempt it is at.
Moved(s) ==
    /\ step' \in [Steps -> StepStates]
    /\ attempt' \in [Steps -> Attempts]
    /\ job' \in [Jobs -> JobStates]
    /\ \A q \in Steps : q # s => step'[q] = step[q] /\ attempt'[q] = attempt[q]
    /\ step'[s] # "idle"
    /\ attempt'[s] >= attempt[s]
    /\ step'[s] \in {"completed", "blocked"} =>
          /\ attempt'[s] = attempt[s]
          /\ job[<<s, attempt[s]>>] = "done"
          /\ step'[s] = StatusOf(receipt[<<s, attempt[s]>>])
    /\ \A j \in Jobs : \/ job'[j] = job[j]
                       \/ job[j] = "queued" /\ job'[j] = "cancelled"
                       \/ job[j] = "absent" /\ job'[j] = "queued" /\ j = <<s, attempt'[s]>>

LEMMA SettleMoves ==
    ASSUME TypeOK, NotAhead, NEW s \in Steps, step[s] = "awaiting",
           NEW error \in Errors, NEW threads \in [Jobs -> JobStates],
           Settle(s, error, threads),
           \A j \in Jobs : \/ threads[j] = job[j]
                           \/ job[j] = "queued" /\ threads[j] = "cancelled",
           StatusOf(error) \in {"completed", "blocked"} =>
              job[<<s, attempt[s]>>] = "done" /\ error = receipt[<<s, attempt[s]>>]
    PROVE  Moved(s)
  <1> DEFINE next == <<s, attempt[s] + 1>>
  <1>0. attempt[s] \in Nat /\ RetryBudget \in Nat /\ attempt[s] \in Attempts
    BY ToolAssumption DEF TypeOK, Attempts
  <1>1. CASE Retryable(error) /\ attempt[s] < RetryBudget
    <2>1. attempt[s] + 1 \in Attempts /\ next \in Jobs
      BY <1>0, <1>1 DEF Jobs, Attempts
    <2>2. /\ attempt' = [attempt EXCEPT ![s] = attempt[s] + 1]
          /\ step' = [step EXCEPT ![s] = "awaiting"]
          /\ job' = [threads EXCEPT ![next] = "queued"]
      BY <1>1 DEF Settle, Submit
    <2>3. job[next] = "absent"
      <3>1. next[1] = s /\ next[2] = attempt[s] + 1 /\ attempt[s] + 1 > attempt[s]
        BY <1>0
      <3> QED
        BY <2>1, <3>1 DEF NotAhead
    <2>4. /\ attempt' \in [Steps -> Attempts] /\ attempt'[s] = attempt[s] + 1
          /\ step' \in [Steps -> StepStates] /\ step'[s] = "awaiting"
          /\ \A q \in Steps : q # s => step'[q] = step[q] /\ attempt'[q] = attempt[q]
      BY <2>1, <2>2 DEF TypeOK, StepStates
    <2>5. job' \in [Jobs -> JobStates]
      BY <2>1, <2>2 DEF JobStates
    <2>6. ASSUME NEW j \in Jobs
          PROVE  \/ job'[j] = job[j]
                 \/ job[j] = "queued" /\ job'[j] = "cancelled"
                 \/ job[j] = "absent" /\ job'[j] = "queued" /\ j = <<s, attempt'[s]>>
      <3>1. job'[j] = IF j = next THEN "queued" ELSE threads[j]
        BY <2>2
      <3> QED
        BY <2>3, <2>4, <3>1
    <2> QED
      BY <1>0, <2>4, <2>5, <2>6 DEF Moved
  <1>2. CASE ~(Retryable(error) /\ attempt[s] < RetryBudget)
    <2>1. step' = [step EXCEPT ![s] = StatusOf(error)] /\ job' = threads /\ attempt' = attempt
      BY <1>2 DEF Settle
    <2>2. StatusOf(error) \in {"completed", "failed", "blocked"}
      BY DEF StatusOf
    <2>3. step' \in [Steps -> StepStates] /\ step'[s] = StatusOf(error)
          /\ \A q \in Steps : q # s => step'[q] = step[q]
      BY <2>1, <2>2 DEF TypeOK, StepStates
    <2> QED
      BY <1>0, <2>1, <2>2, <2>3 DEF Moved, TypeOK
  <1> QED
    BY <1>1, <1>2

LEMMA LoopMoves ==
    ASSUME TypeOK, NotAhead, NEW s \in Steps, Begin(s) \/ Answered(s) \/ TimedOut(s)
    PROVE  Moved(s)
  <1>0. attempt[s] \in Attempts /\ <<s, attempt[s]>> \in Jobs
    BY DEF TypeOK, Jobs
  <1>1. CASE Begin(s)
    <2>1. <<s, 0>> \in Jobs /\ 0 \in Attempts /\ attempt[s] = 0 /\ job[<<s, 0>>] = "absent"
      BY <1>1, ToolAssumption DEF Jobs, Attempts, Begin, NotAhead
    <2>2. /\ attempt' = [attempt EXCEPT ![s] = 0]
          /\ step' = [step EXCEPT ![s] = "awaiting"]
          /\ job' = [job EXCEPT ![<<s, 0>>] = "queued"]
      BY <1>1 DEF Begin, Submit
    <2>3. /\ attempt' \in [Steps -> Attempts] /\ attempt'[s] = 0
          /\ step' \in [Steps -> StepStates] /\ step'[s] = "awaiting"
          /\ \A q \in Steps : q # s => step'[q] = step[q] /\ attempt'[q] = attempt[q]
      BY <2>1, <2>2 DEF TypeOK, StepStates
    <2>4. job' \in [Jobs -> JobStates]
          /\ \A j \in Jobs : job'[j] = IF j = <<s, 0>> THEN "queued" ELSE job[j]
      BY <2>1, <2>2 DEF TypeOK, JobStates
    <2> QED
      BY <2>1, <2>3, <2>4 DEF Moved
  <1>2. CASE Answered(s)
    <2> DEFINE error == receipt[<<s, attempt[s]>>]
    <2>1. /\ step[s] = "awaiting" /\ job[<<s, attempt[s]>>] = "done"
          /\ Settle(s, error, job) /\ job \in [Jobs -> JobStates] /\ error \in Errors
      BY <1>0, <1>2 DEF Answered, TypeOK
    <2>2. /\ \A j \in Jobs : \/ job[j] = job[j]
                             \/ job[j] = "queued" /\ job[j] = "cancelled"
          /\ StatusOf(error) \in {"completed", "blocked"} =>
                job[<<s, attempt[s]>>] = "done" /\ error = receipt[<<s, attempt[s]>>]
      BY <2>1
    <2> HIDE DEF error
    <2> QED
      BY <2>1, <2>2, SettleMoves
  <1>3. CASE TimedOut(s)
    <2> DEFINE here == <<s, attempt[s]>>
               threads == [job EXCEPT ![here] = IF @ = "queued" THEN "cancelled" ELSE @]
    <2>1. step[s] = "awaiting" /\ Settle(s, "tool_timeout", threads)
      BY <1>3 DEF TimedOut
    <2>2. /\ threads \in [Jobs -> JobStates]
          /\ \A j \in Jobs : \/ threads[j] = job[j]
                             \/ job[j] = "queued" /\ threads[j] = "cancelled"
      <3>1. \A j \in Jobs : threads[j] = IF j = here /\ job[here] = "queued"
                                        THEN "cancelled" ELSE job[j]
        BY <1>0 DEF TypeOK
      <3>2. threads \in [Jobs -> JobStates]
        BY <1>0 DEF TypeOK, JobStates
      <3> QED
        BY <3>1, <3>2
    <2>3. "tool_timeout" \in Errors /\ StatusOf("tool_timeout") = "failed"
      BY DEF Errors, HandlerErrors, StatusOf
    <2> HIDE DEF threads
    <2> QED
      BY <2>1, <2>2, <2>3, SettleMoves
  <1> QED
    BY <1>1, <1>2, <1>3

\* An action of the event loop keeps every part of the invariant.
LEMMA LoopKeeps ==
    ASSUME IInv, NEW s \in Steps, Begin(s) \/ Answered(s) \/ TimedOut(s)
    PROVE  IInv'
  <1>0. TypeOK /\ NotAhead /\ Gated /\ Fresh /\ SettledByItsAttempt /\ SerialBudgetExact
    BY DEF IInv
  <1>1. Moved(s)
    BY <1>0, LoopMoves
  <1>2. /\ cmd' = cmd /\ budget' = budget /\ seen' = seen /\ admitted' = admitted
        /\ raced' = raced /\ try' = try /\ receipt' = receipt /\ handled' = handled
    BY DEF Begin, Answered, TimedOut, bookkeeping
  <1>3. \A q \in Steps : <<q, attempt[q]>> \in Jobs /\ attempt[q] \in Int /\ attempt'[q] \in Int
    BY <1>0, <1>1, ToolAssumption DEF TypeOK, Moved, Jobs, Attempts
  <1>4. \A j \in Jobs : j[1] \in Steps /\ j[2] \in Int
    BY ToolAssumption DEF Jobs, Attempts
  <1>5. \A j \in Jobs : job'[j] \in Passed \cup {"done"} <=> job[j] \in Passed \cup {"done"}
    BY <1>1 DEF Moved, Passed
  <1>6. \A j \in Jobs : job[j] \in Passed \cup {"done"} => job'[j] = job[j]
    BY <1>1 DEF Moved, Passed
  <1>7. TypeOK'
    BY <1>0, <1>1, <1>2 DEF TypeOK, Moved
  <1>8. NotAhead'
    <2>1. ASSUME NEW j \in Jobs, j[2] > attempt'[j[1]]
          PROVE  job'[j] = "absent"
      <3>1. attempt'[j[1]] >= attempt[j[1]]
        <4>1. CASE j[1] = s
          BY <1>1, <4>1 DEF Moved
        <4>2. CASE j[1] # s
          <5>1. attempt'[j[1]] = attempt[j[1]] /\ attempt[j[1]] \in Int
            BY <1>1, <1>3, <1>4, <4>2 DEF Moved
          <5> QED
            BY <5>1
        <4> QED
          BY <4>1, <4>2
      <3>2. job[j] = "absent"
        <4>1. j[1] \in Steps /\ j[2] \in Int
          BY <1>4
        <4>2. attempt[j[1]] \in Int /\ attempt'[j[1]] \in Int
          BY <1>3, <4>1
        <4>3. j[2] > attempt[j[1]]
          BY <2>1, <3>1, <4>1, <4>2
        <4> QED
          BY <1>0, <4>3 DEF NotAhead
      <3>3. j # <<s, attempt'[s]>>
        BY <1>3, <1>4, <2>1
      <3> QED
        BY <1>1, <3>2, <3>3 DEF Moved
    <2>2. ASSUME NEW q \in Steps, step'[q] = "idle"
          PROVE  attempt'[q] = 0 /\ job'[<<q, 0>>] = "absent"
      <3>1. q # s /\ step[q] = "idle" /\ attempt'[q] = attempt[q]
        BY <1>1, <2>2 DEF Moved
      <3>2. attempt[q] = 0 /\ job[<<q, 0>>] = "absent" /\ <<q, 0>> \in Jobs
        BY <1>0, <1>3, <3>1 DEF NotAhead
      <3>3. <<q, 0>> # <<s, attempt'[s]>>
        BY <3>1
      <3> QED
        BY <1>1, <3>1, <3>2, <3>3 DEF Moved
    <2> QED
      BY <2>1, <2>2 DEF NotAhead
  <1>9. Gated'
    <2>1. ASSUME NEW q \in Steps, step'[q] = "blocked"
          PROVE  Gate(cmd[q]) # "none"
      <3>1. CASE q # s
        BY <1>0, <1>1, <2>1, <3>1 DEF Gated, Moved
      <3>2. CASE q = s
        <4>1. job[<<s, attempt[s]>>] = "done" /\ StatusOf(receipt[<<s, attempt[s]>>]) = "blocked"
          BY <1>1, <2>1, <3>2 DEF Moved
        <4>2. <<s, attempt[s]>>[1] = s
          OBVIOUS
        <4> QED
          BY <1>0, <1>3, <3>2, <4>1, <4>2 DEF Gated
      <3> QED
        BY <3>1, <3>2
    <2> QED
      BY <1>0, <1>2, <1>5, <1>6, <2>1 DEF Gated, Passed
  <1>10. Fresh'
    <2>1. Reserving' = Reserving
      BY <1>5, <1>6 DEF Reserving, Passed
    <2>2. \A j \in admitted : j \in Jobs /\ job'[j] = job[j]
      BY <1>0, <1>6 DEF TypeOK, Fresh, Passed
    <2> QED
      BY <1>0, <1>2, <2>1, <2>2 DEF Fresh
  <1>11. SettledByItsAttempt'
    <2>1. ASSUME NEW q \in Steps, step'[q] = "completed"
          PROVE  job'[<<q, attempt'[q]>>] = "done" /\ receipt[<<q, attempt'[q]>>] = "none"
      <3>1. CASE q # s
        <4>1. step[q] = "completed" /\ attempt'[q] = attempt[q]
          BY <1>1, <2>1, <3>1 DEF Moved
        <4> QED
          BY <1>0, <1>3, <1>6, <4>1 DEF SettledByItsAttempt
      <3>2. CASE q = s
        <4>1. /\ attempt'[s] = attempt[s] /\ job[<<s, attempt[s]>>] = "done"
              /\ StatusOf(receipt[<<s, attempt[s]>>]) = "completed"
          BY <1>1, <2>1, <3>2 DEF Moved
        <4> QED
          BY <1>3, <1>6, <3>2, <4>1 DEF StatusOf
      <3> QED
        BY <3>1, <3>2
    <2> QED
      BY <1>2, <2>1 DEF SettledByItsAttempt
  <1>12. SerialBudgetExact'
    BY <1>0, <1>2 DEF SerialBudgetExact, SideEffects
  <1> QED
    BY <1>7, <1>8, <1>9, <1>10, <1>11, <1>12 DEF IInv

--------------------------------------------------------------------------------

\* A thread at work moves no step, and no job but its own, which had not
\* returned; so it disturbs neither of these.
LEMMA ThreadFrame ==
    ASSUME TypeOK, NotAhead, SettledByItsAttempt, NEW j \in Jobs,
           job[j] \notin {"absent", "done"}, step' = step, attempt' = attempt,
           \A k \in Jobs : k # j => job'[k] = job[k] /\ receipt'[k] = receipt[k]
    PROVE  NotAhead' /\ SettledByItsAttempt'
  <1>1. \A q \in Steps : <<q, attempt[q]>> \in Jobs
    BY DEF TypeOK, Jobs
  <1>2. NotAhead'
    <2>1. \A k \in Jobs : k[2] > attempt[k[1]] => k # j
      BY DEF NotAhead
    <2>2. \A q \in Steps : step[q] = "idle" => <<q, 0>> # j /\ <<q, 0>> \in Jobs
      BY <1>1 DEF NotAhead
    <2> QED
      BY <2>1, <2>2 DEF NotAhead
  <1>3. SettledByItsAttempt'
    BY <1>1 DEF SettledByItsAttempt
  <1> QED
    BY <1>2, <1>3

LEMMA GateErrors == ASSUME NEW c PROVE Gate(c) \in Errors
  BY DEF Gate, PolicyRefusal, Errors, Permission

LEMMA CheckKeeps ==
    ASSUME IInv, NEW j \in Jobs, Check(j)
    PROVE  IInv'
  <1> DEFINE gate == Gate(cmd[j[1]])
  <1>0. TypeOK /\ NotAhead /\ Gated /\ Fresh /\ SettledByItsAttempt /\ SerialBudgetExact
    BY DEF IInv
  <1>1. /\ job[j] = "queued" /\ step' = step /\ attempt' = attempt /\ try' = try
        /\ handled' = handled /\ cmd' = cmd /\ budget' = budget /\ seen' = seen
        /\ admitted' = admitted /\ raced' = raced
    BY DEF Check, bookkeeping
  <1>2. \/ gate = "none" /\ job' = [job EXCEPT ![j] = "checked"] /\ receipt' = receipt
        \/ /\ gate # "none" /\ job' = [job EXCEPT ![j] = "done"]
           /\ receipt' = [receipt EXCEPT ![j] = gate]
    BY DEF Check, Return
  <1>3. \A k \in Jobs : k # j => job'[k] = job[k] /\ receipt'[k] = receipt[k]
    BY <1>0, <1>2 DEF TypeOK
  <1>4. \/ gate = "none" /\ job'[j] = "checked"
        \/ gate # "none" /\ job'[j] = "done" /\ receipt'[j] = gate
    BY <1>0, <1>2 DEF TypeOK
  <1>5. TypeOK'
    <2>1. gate \in Errors
      BY GateErrors
    <2> HIDE DEF gate
    <2>2. job' \in [Jobs -> JobStates] /\ receipt' \in [Jobs -> Errors]
      BY <1>0, <1>2, <2>1, SMTT(30) DEF TypeOK, JobStates
    <2> QED
      BY <1>0, <1>1, <2>2 DEF TypeOK
  <1>6. NotAhead' /\ SettledByItsAttempt'
    BY <1>0, <1>1, <1>3, ThreadFrame
  <1>7. Gated'
    BY <1>0, <1>1, <1>3, <1>4 DEF Gated, Passed
  <1>8. Fresh'
    <2>1. Reserving' = Reserving
      BY <1>1, <1>3, <1>4 DEF Reserving
    <2>2. j \notin admitted /\ admitted \subseteq Jobs
      BY <1>0, <1>1 DEF Fresh, TypeOK
    <2> QED
      BY <1>0, <1>1, <1>3, <2>1, <2>2 DEF Fresh
  <1>9. SerialBudgetExact'
    BY <1>0, <1>1 DEF SerialBudgetExact, SideEffects
  <1> QED
    BY <1>5, <1>6, <1>7, <1>8, <1>9 DEF IInv

LEMMA ReadBudgetKeeps ==
    ASSUME IInv, NEW j \in Jobs, ReadBudget(j)
    PROVE  IInv'
  <1>0. TypeOK /\ NotAhead /\ Gated /\ Fresh /\ SettledByItsAttempt /\ SerialBudgetExact
    BY DEF IInv
  <1>1. /\ job[j] = "checked" /\ step' = step /\ attempt' = attempt /\ try' = try
        /\ handled' = handled /\ cmd' = cmd /\ budget' = budget /\ admitted' = admitted
        /\ receipt' = receipt /\ raced' = (raced \/ Reserving # {})
        /\ job' = [job EXCEPT ![j] = "reserving"] /\ seen' = [seen EXCEPT ![j] = budget]
    BY DEF ReadBudget
  <1>2. /\ \A k \in Jobs : k # j => job'[k] = job[k] /\ receipt'[k] = receipt[k]
        /\ job'[j] = "reserving" /\ seen'[j] = budget
    BY <1>0, <1>1 DEF TypeOK
  <1>3. TypeOK'
    BY <1>0, <1>1 DEF TypeOK, JobStates
  <1>4. NotAhead' /\ SettledByItsAttempt'
    BY <1>0, <1>1, <1>2, ThreadFrame
  <1>5. Gated'
    BY <1>0, <1>1, <1>2 DEF Gated, Passed
  <1>6. Fresh'
    <2>1. Reserving' = Reserving \cup {j}
      BY <1>2 DEF Reserving
    <2>2. j \notin admitted /\ admitted \subseteq Jobs
      BY <1>0, <1>1 DEF Fresh, TypeOK
    <2>3. ~raced' => Reserving' = {j}
      BY <1>1, <2>1
    <2> QED
      BY <1>0, <1>1, <1>2, <2>2, <2>3 DEF Fresh
  <1>7. SerialBudgetExact'
    BY <1>0, <1>1 DEF SerialBudgetExact, SideEffects
  <1> QED
    BY <1>3, <1>4, <1>5, <1>6, <1>7 DEF IInv


\* The budget a thread computes is made of numbers.
LEMMA NextCallsType ==
    ASSUME NEW c, NEW old \in [tool : Nat, side : Nat]
    PROVE  NextCalls(c, old) \in [tool : Nat, side : Nat]
  BY DEF NextCalls

LEMMA RefusalErrors ==
    ASSUME NEW c, NEW old
    PROVE  /\ BudgetRefusal(c, old) \in OverBudget \cup {"none"}
           /\ BudgetRefusal(c, old) \in Errors
  BY DEF BudgetRefusal, OverBudget, Errors

\* A command is granted budget: it counts once among the admitted.
LEMMA GrantExact ==
    ASSUME TypeOK, Fresh, SerialBudgetExact, NEW j \in Jobs, job[j] = "reserving",
           BudgetRefusal(cmd[j[1]], seen[j]) = "none",
           budget' = NextCalls(cmd[j[1]], seen[j]), admitted' = admitted \cup {j},
           cmd' = cmd, raced' = raced
    PROVE  SerialBudgetExact'
  <1> DEFINE c == cmd[j[1]]
  <1> SUFFICES ASSUME ~raced
               PROVE  /\ budget'.tool = Cardinality(admitted') /\ budget'.tool <= ToolLimit
                      /\ budget'.side = Cardinality(SideEffects')
                      /\ budget'.side <= SideLimit
    BY DEF SerialBudgetExact
  <1>1. seen[j] = budget /\ j \notin admitted /\ admitted \subseteq Jobs
    BY DEF Fresh, Reserving, TypeOK
  <1>2. budget.tool = Cardinality(admitted) /\ budget.side = Cardinality(SideEffects)
    BY DEF SerialBudgetExact
  <1>3. budget \in [tool : Nat, side : Nat] /\ ToolLimit \in Nat /\ SideLimit \in Nat
    BY ToolAssumption DEF TypeOK
  <1>4. budget' = [tool |-> budget.tool + 1,
                   side |-> IF c.sideEffect THEN budget.side + 1 ELSE budget.side]
    BY <1>1 DEF NextCalls
  <1>5. Cardinality(admitted') = Cardinality(admitted) + 1
    BY <1>1, OneMore
  <1>6. /\ NextCalls(c, budget).tool <= ToolLimit
        /\ NextCalls(c, budget).side <= SideLimit
    <2>1. NextCalls(c, budget) \in [tool : Nat, side : Nat]
      BY <1>3, NextCallsType
    <2>2. ~(NextCalls(c, budget).tool > ToolLimit) /\ ~(NextCalls(c, budget).side > SideLimit)
      BY <1>1 DEF BudgetRefusal
    <2> QED
      BY <1>3, <2>1, <2>2
  <1>7. budget'.tool <= ToolLimit /\ budget'.side <= SideLimit
    BY <1>1, <1>6
  <1>8. budget'.side = Cardinality(SideEffects')
    <2>1. SideEffects \subseteq Jobs /\ j \notin SideEffects
      BY <1>1 DEF SideEffects
    <2>2. CASE c.sideEffect
      <3>1. SideEffects' = SideEffects \cup {j}
        BY <1>1, <2>2 DEF SideEffects
      <3>2. Cardinality(SideEffects \cup {j}) = Cardinality(SideEffects) + 1
        BY <2>1, OneMore
      <3> QED
        BY <1>2, <1>4, <2>2, <3>1, <3>2
    <2>3. CASE ~c.sideEffect
      <3>1. SideEffects' = SideEffects
        BY <1>1, <2>3 DEF SideEffects
      <3> QED
        BY <1>2, <1>4, <2>3, <3>1
    <2> QED
      BY <2>2, <2>3
  <1> QED
    BY <1>2, <1>4, <1>5, <1>7, <1>8

LEMMA WriteBudgetKeeps ==
    ASSUME IInv, NEW j \in Jobs, WriteBudget(j)
    PROVE  IInv'
  <1> DEFINE c       == cmd[j[1]]
             refusal == BudgetRefusal(c, seen[j])
  <1>0. TypeOK /\ NotAhead /\ Gated /\ Fresh /\ SettledByItsAttempt /\ SerialBudgetExact
    BY DEF IInv
  <1>1. /\ job[j] = "reserving" /\ step' = step /\ attempt' = attempt /\ try' = try
        /\ cmd' = cmd /\ raced' = raced /\ seen' = [seen EXCEPT ![j] = NoCalls]
    BY DEF WriteBudget
  <1>2. j[1] \in Steps /\ Gate(c) = "none"
    BY <1>0, <1>1 DEF Jobs, Gated, Passed
  <1>3. seen' \in [Jobs -> [tool : Nat, side : Nat]]
    BY <1>0, <1>1 DEF TypeOK, NoCalls
  <1>4. ~raced => Reserving = {j}
    BY <1>0, <1>1 DEF Fresh, Reserving
  <1>5. CASE refusal = "none"
    <2>1. /\ budget' = NextCalls(c, seen[j]) /\ admitted' = admitted \cup {j}
          /\ job' = [job EXCEPT ![j] = "handling"] /\ receipt' = receipt
          /\ handled' = [handled EXCEPT ![j[1]] = @ + 1]
      BY <1>5 DEF WriteBudget
    <2>2. /\ \A k \in Jobs : k # j => job'[k] = job[k] /\ receipt'[k] = receipt[k]
          /\ job'[j] = "handling"
      BY <1>0, <2>1 DEF TypeOK
    <2>3. handled' \in [Steps -> Nat]
          /\ \A q \in Steps : handled'[q] > 0 => q = j[1] \/ handled[q] > 0
      BY <1>0, <1>2, <2>1 DEF TypeOK
    <2>4. budget' \in [tool : Nat, side : Nat]
      BY <1>0, <2>1, NextCallsType DEF TypeOK
    <2>5. TypeOK'
      BY <1>0, <1>1, <1>3, <2>1, <2>3, <2>4 DEF TypeOK, JobStates
    <2>6. NotAhead' /\ SettledByItsAttempt'
      BY <1>0, <1>1, <2>2, ThreadFrame
    <2>7. Gated'
      <3>1. \A q \in Steps : handled'[q] > 0 => Gate(cmd[q]) = "none"
        BY <1>0, <1>2, <2>3 DEF Gated
      <3> QED
        BY <1>0, <1>1, <1>2, <2>2, <3>1 DEF Gated, Passed
    <2>8. Fresh'
      <3>1. Reserving' = Reserving \ {j}
        BY <2>2 DEF Reserving
      <3>2. \A k \in admitted' : job'[k] \in {"handling", "done"}
        BY <1>0, <2>1, <2>2 DEF Fresh, TypeOK
      <3> QED
        BY <1>1, <1>4, <3>1, <3>2 DEF Fresh
    <2>9. SerialBudgetExact'
      BY <1>0, <1>1, <1>5, <2>1, GrantExact
    <2> QED
      BY <2>5, <2>6, <2>7, <2>8, <2>9 DEF IInv
  <1>6. CASE refusal # "none"
    <2>1. /\ budget' = budget /\ admitted' = admitted /\ handled' = handled
          /\ job' = [job EXCEPT ![j] = "done"] /\ receipt' = [receipt EXCEPT ![j] = refusal]
      BY <1>6 DEF WriteBudget, Return
    <2>2. refusal \in Errors /\ StatusOf(refusal) # "blocked"
      BY RefusalErrors, ErrorsFail
    <2> HIDE DEF refusal
    <2>3. /\ \A k \in Jobs : k # j => job'[k] = job[k] /\ receipt'[k] = receipt[k]
          /\ job'[j] = "done" /\ receipt'[j] = refusal
      BY <1>0, <2>1 DEF TypeOK
    <2>4. TypeOK'
      BY <1>0, <1>1, <1>3, <2>1, <2>2 DEF TypeOK, JobStates
    <2>5. NotAhead' /\ SettledByItsAttempt'
      BY <1>0, <1>1, <2>3, ThreadFrame
    <2>6. Gated'
      BY <1>0, <1>1, <2>1, <2>2, <2>3 DEF Gated, Passed
    <2>7. Fresh'
      <3>1. Reserving' = Reserving \ {j}
        BY <2>3 DEF Reserving
      <3>2. \A k \in admitted : job'[k] \in {"handling", "done"}
        BY <1>0, <2>3 DEF Fresh, TypeOK
      <3> QED
        BY <1>1, <1>4, <2>1, <3>1, <3>2 DEF Fresh
    <2>8. SerialBudgetExact'
      BY <1>0, <1>1, <2>1 DEF SerialBudgetExact, SideEffects
    <2> QED
      BY <2>4, <2>5, <2>6, <2>7, <2>8 DEF IInv
  <1> QED
    BY <1>5, <1>6

LEMMA HandlerEndsKeeps ==
    ASSUME IInv, NEW j \in Jobs, HandlerEnds(j)
    PROVE  IInv'
  <1>0. TypeOK /\ NotAhead /\ Gated /\ Fresh /\ SettledByItsAttempt /\ SerialBudgetExact
    BY DEF IInv
  <1>1. /\ job[j] = "handling" /\ step' = step /\ attempt' = attempt /\ cmd' = cmd
        /\ budget' = budget /\ seen' = seen /\ admitted' = admitted /\ raced' = raced
    BY DEF HandlerEnds, bookkeeping
  <1>2. j[1] \in Steps /\ Gate(cmd[j[1]]) = "none"
    BY <1>0, <1>1 DEF Jobs, Gated, Passed
  <1>3. try[j] \in Nat /\ RetryBudget \in Nat /\ 0 \in Attempts
    BY <1>0, ToolAssumption DEF TypeOK, Attempts
  <1>4. PICK error \in {"none"} \cup HandlerErrors :
            IF RetryHere(j, error)
            THEN /\ try' = [try EXCEPT ![j] = @ + 1]
                 /\ handled' = [handled EXCEPT ![j[1]] = @ + 1]
                 /\ UNCHANGED <<job, receipt>>
            ELSE /\ Return(j, error)
                 /\ try' = [try EXCEPT ![j] = 0]
                 /\ UNCHANGED handled
    BY DEF HandlerEnds
  <1>5. CASE RetryHere(j, error)
    <2>1. /\ try' = [try EXCEPT ![j] = try[j] + 1] /\ job' = job /\ receipt' = receipt
          /\ handled' = [handled EXCEPT ![j[1]] = handled[j[1]] + 1]
      BY <1>4, <1>5
    <2>2. try[j] + 1 \in Attempts
      BY <1>3, <1>5 DEF RetryHere, Attempts
    <2>3. handled' \in [Steps -> Nat]
          /\ \A q \in Steps : handled'[q] > 0 => q = j[1] \/ handled[q] > 0
      BY <1>0, <1>2, <2>1 DEF TypeOK
    <2>4. TypeOK'
      BY <1>0, <1>1, <2>1, <2>2, <2>3 DEF TypeOK
    <2>5. NotAhead' /\ SettledByItsAttempt'
      BY <1>0, <1>1, <2>1, ThreadFrame
    <2>6. Gated'
      <3>1. \A q \in Steps : handled'[q] > 0 => Gate(cmd[q]) = "none"
        BY <1>0, <1>2, <2>3 DEF Gated
      <3> QED
        BY <1>0, <1>1, <2>1, <3>1 DEF Gated
    <2>7. Fresh' /\ SerialBudgetExact'
      BY <1>0, <1>1, <2>1 DEF Fresh, Reserving, SerialBudgetExact, SideEffects
    <2> QED
      BY <2>4, <2>5, <2>6, <2>7 DEF IInv
  <1>6. CASE ~RetryHere(j, error)
    <2>1. /\ try' = [try EXCEPT ![j] = 0] /\ handled' = handled
          /\ job' = [job EXCEPT ![j] = "done"] /\ receipt' = [receipt EXCEPT ![j] = error]
      BY <1>4, <1>6 DEF Return
    <2>2. error \in Errors /\ StatusOf(error) # "blocked"
      BY <1>4, ErrorsFail DEF Errors
    <2>3. /\ \A k \in Jobs : k # j => job'[k] = job[k] /\ receipt'[k] = receipt[k]
          /\ job'[j] = "done" /\ receipt'[j] = error
      BY <1>0, <2>1 DEF TypeOK
    <2>4. TypeOK'
      BY <1>0, <1>1, <1>3, <2>1, <2>2 DEF TypeOK, JobStates
    <2>5. NotAhead' /\ SettledByItsAttempt'
      BY <1>0, <1>1, <2>3, ThreadFrame
    <2>6. Gated'
      BY <1>0, <1>1, <2>1, <2>2, <2>3 DEF Gated, Passed
    <2>7. Fresh'
      <3>1. Reserving' = Reserving
        BY <1>1, <2>3 DEF Reserving
      <3>2. \A k \in admitted : job'[k] \in {"handling", "done"}
        BY <1>0, <2>3 DEF Fresh, TypeOK
      <3> QED
        BY <1>0, <1>1, <3>1, <3>2 DEF Fresh
    <2>8. SerialBudgetExact'
      BY <1>0, <1>1 DEF SerialBudgetExact, SideEffects
    <2> QED
      BY <2>4, <2>5, <2>6, <2>7, <2>8 DEF IInv
  <1> QED
    BY <1>5, <1>6

--------------------------------------------------------------------------------

LEMMA InitHolds == Init => IInv
  <1> SUFFICES ASSUME Init PROVE IInv
    OBVIOUS
  <1>1. /\ cmd \in [Steps -> Commands] /\ budget = NoCalls /\ admitted = {} /\ raced = FALSE
        /\ step = [s \in Steps |-> "idle"] /\ attempt = [s \in Steps |-> 0]
        /\ job = [j \in Jobs |-> "absent"] /\ try = [j \in Jobs |-> 0]
        /\ seen = [j \in Jobs |-> NoCalls] /\ receipt = [j \in Jobs |-> "none"]
        /\ handled = [s \in Steps |-> 0]
    BY DEF Init
  <1>2. 0 \in Attempts /\ \A s \in Steps : <<s, 0>> \in Jobs
    BY ToolAssumption DEF Attempts, Jobs
  <1>3. TypeOK
    BY <1>1, <1>2 DEF TypeOK, StepStates, JobStates, Errors, NoCalls
  <1>4. NotAhead
    BY <1>1, <1>2 DEF NotAhead
  <1>5. Gated
    BY <1>1 DEF Gated, Passed
  <1>6. Fresh
    BY <1>1 DEF Fresh, Reserving
  <1>7. SettledByItsAttempt
    BY <1>1 DEF SettledByItsAttempt
  <1>8. SerialBudgetExact
    <2>1. SideEffects = {} /\ Cardinality({}) = 0
      BY <1>1, FS_EmptySet DEF SideEffects
    <2> QED
      BY <1>1, <2>1, ToolAssumption DEF SerialBudgetExact, NoCalls
  <1> QED
    BY <1>3, <1>4, <1>5, <1>6, <1>7, <1>8 DEF IInv

LEMMA StepKeeps == IInv /\ [Next]_vars => IInv'
  <1> SUFFICES ASSUME IInv, [Next]_vars PROVE IInv'
    OBVIOUS
  <1>1. ASSUME NEW s \in Steps, Begin(s) \/ Answered(s) \/ TimedOut(s) PROVE IInv'
    BY <1>1, LoopKeeps
  <1>2. ASSUME NEW j \in Jobs, Thread(j) PROVE IInv'
    BY <1>2, CheckKeeps, ReadBudgetKeeps, WriteBudgetKeeps, HandlerEndsKeeps DEF Thread
  <1>3. CASE UNCHANGED vars
    BY <1>3 DEF vars, IInv, TypeOK, NotAhead, Gated, Fresh, Reserving,
                SettledByItsAttempt, SerialBudgetExact, SideEffects
  <1> QED
    BY <1>1, <1>2, <1>3 DEF Next

\* The invariant everything below follows from.
THEOREM Inductive == Spec => []IInv
  BY InitHolds, StepKeeps, PTL DEF Spec

\* Steps, threads, receipts and counters keep the types the code gives them.
THEOREM TypeCorrect == Spec => []TypeOK
  <1>1. IInv => TypeOK
    BY DEF IInv
  <1> QED
    BY <1>1, Inductive, PTL

\* No interleaving of steps, attempts and abandoned threads calls the handler
\* of a side effect without its approval, or of a step that ends blocked.
THEOREM ApprovedOnly == Spec => []EffectsApproved
  <1>1. IInv => EffectsApproved
    <2> SUFFICES ASSUME IInv, NEW s \in Steps, handled[s] > 0
                 PROVE  /\ step[s] # "blocked"
                        /\ cmd[s].sideEffect =>
                              /\ cmd[s].state \notin {"rejected", "expired"}
                              /\ cmd[s].needsApproval => cmd[s].approved
                              /\ cmd[s].needsReason /\ cmd[s].approved => cmd[s].note
      BY DEF EffectsApproved
    <2>1. Gate(cmd[s]) = "none" /\ step[s] # "blocked"
      BY DEF IInv, Gated
    <2> QED
      BY <2>1, PassedIsApproved
  <1> QED
    BY <1>1, Inductive, PTL

\* No late answer of an attempt that timed out completes a step.
THEOREM SettledSafe == Spec => []SettledByItsAttempt
  <1>1. IInv => SettledByItsAttempt
    BY DEF IInv
  <1> QED
    BY <1>1, Inductive, PTL

\* Until two reservations overlap, the counters are exactly the commands that
\* reached a handler, and within the limits of the run.
THEOREM BudgetExact == Spec => []SerialBudgetExact
  <1>1. IInv => SerialBudgetExact
    BY DEF IInv
  <1> QED
    BY <1>1, Inductive, PTL

--------------------------------------------------------------------------------
(* How often a handler is called *)

\* The calls that the commands of a step may yet make, as attempt and try: all of
\* a command that has not come to its handler, the later tries of one that has.
CallsLeft(s) ==
    {c \in Attempts \X Attempts :
        \/ job[<<s, c[1]>>] \in {"absent", "queued", "checked", "reserving"}
        \/ job[<<s, c[1]>>] = "handling" /\ c[2] > try[<<s, c[1]>>]}

\* Calls made and calls left are never more than there are tries of attempts.
CallsAccounted ==
    \A s \in Steps :
        handled[s] + Cardinality(CallsLeft(s)) <= (RetryBudget + 1) * (RetryBudget + 1)

LEMMA CallsFinite ==
    /\ IsFiniteSet(Attempts \X Attempts)
    /\ Cardinality(Attempts \X Attempts) = (RetryBudget + 1) * (RetryBudget + 1)
    /\ \A s \in Steps : IsFiniteSet(CallsLeft(s)) /\ Cardinality(CallsLeft(s)) \in Nat
  <1>1. IsFiniteSet(Attempts) /\ Cardinality(Attempts) = RetryBudget + 1
    BY FS_Interval, ToolAssumption DEF Attempts
  <1>2. /\ IsFiniteSet(Attempts \X Attempts)
        /\ Cardinality(Attempts \X Attempts) = (RetryBudget + 1) * (RetryBudget + 1)
    BY <1>1, FS_Product
  <1>3. ASSUME NEW s \in Steps
        PROVE  IsFiniteSet(CallsLeft(s)) /\ Cardinality(CallsLeft(s)) \in Nat
    <2>1. CallsLeft(s) \in SUBSET (Attempts \X Attempts)
      BY DEF CallsLeft
    <2> QED
      BY <1>2, <2>1, FS_Subset, FS_CardinalityType
  <1> QED
    BY <1>2, <1>3

\* A step whose commands only lose calls keeps its account without a call ...
LEMMA NoCallKeeps ==
    ASSUME NEW s \in Steps, CallsLeft(s)' \subseteq CallsLeft(s)
    PROVE  Cardinality(CallsLeft(s)') \in Nat /\ Cardinality(CallsLeft(s)') <= Cardinality(CallsLeft(s))
  <1>1. IsFiniteSet(CallsLeft(s))
    BY CallsFinite
  <1> QED
    BY <1>1, FS_Subset, FS_CardinalityType

\* ... and with one, when it lost the one that was made.
LEMMA CallKeeps ==
    ASSUME NEW s \in Steps, NEW c \in CallsLeft(s), CallsLeft(s)' \subseteq CallsLeft(s) \ {c}
    PROVE  Cardinality(CallsLeft(s)') \in Nat /\ Cardinality(CallsLeft(s)') + 1 <= Cardinality(CallsLeft(s))
  <1>1. /\ IsFiniteSet(CallsLeft(s)) /\ Cardinality(CallsLeft(s)) \in Nat
        /\ IsFiniteSet(CallsLeft(s) \ {c})
        /\ Cardinality(CallsLeft(s) \ {c}) = Cardinality(CallsLeft(s)) - 1
    BY CallsFinite, FS_RemoveElement
  <1>2. /\ IsFiniteSet(CallsLeft(s)')
        /\ Cardinality(CallsLeft(s)') <= Cardinality(CallsLeft(s) \ {c})
    BY <1>1, FS_Subset
  <1> QED
    BY <1>1, <1>2, FS_CardinalityType

LEMMA LoopCalls ==
    ASSUME IInv, CallsAccounted, NEW s \in Steps, Begin(s) \/ Answered(s) \/ TimedOut(s)
    PROVE  CallsAccounted'
  <1>1. Moved(s)
    BY LoopMoves DEF IInv
  <1>2. try' = try /\ handled' = handled
    BY DEF Begin, Answered, TimedOut
  <1>3. ASSUME NEW q \in Steps PROVE CallsLeft(q)' \subseteq CallsLeft(q)
    <2> SUFFICES ASSUME NEW c \in CallsLeft(q)' PROVE c \in CallsLeft(q)
      OBVIOUS
    <2>1. c \in Attempts \X Attempts /\ <<q, c[1]>> \in Jobs
      BY DEF CallsLeft, Jobs
    <2> QED
      BY <1>1, <1>2, <2>1 DEF CallsLeft, Moved
  <1> QED
    BY <1>2, <1>3, NoCallKeeps, CallsFinite, ToolAssumption DEF CallsAccounted, IInv, TypeOK

LEMMA QuietThreadCalls ==
    ASSUME IInv, CallsAccounted, NEW j \in Jobs, Check(j) \/ ReadBudget(j)
    PROVE  CallsAccounted'
  <1>1. try' = try /\ handled' = handled
    BY DEF Check, ReadBudget
  <1>2. /\ job[j] \in {"queued", "checked"}
        /\ \A k \in Jobs : k # j => job'[k] = job[k]
    BY DEF Check, ReadBudget, Return, IInv, TypeOK
  <1>3. ASSUME NEW q \in Steps PROVE CallsLeft(q)' \subseteq CallsLeft(q)
    <2> SUFFICES ASSUME NEW c \in CallsLeft(q)' PROVE c \in CallsLeft(q)
      OBVIOUS
    <2>1. c \in Attempts \X Attempts /\ <<q, c[1]>> \in Jobs
      BY DEF CallsLeft, Jobs
    <2> QED
      BY <1>1, <1>2, <2>1 DEF CallsLeft
  <1> QED
    BY <1>1, <1>3, NoCallKeeps, CallsFinite, ToolAssumption DEF CallsAccounted, IInv, TypeOK

LEMMA WriteBudgetCalls ==
    ASSUME IInv, CallsAccounted, NEW j \in Jobs, WriteBudget(j)
    PROVE  CallsAccounted'
  <1>1. j[1] \in Steps /\ j[2] \in Attempts /\ j = <<j[1], j[2]>> /\ 0 \in Attempts
    BY ToolAssumption DEF Jobs, Attempts
  <1>2. try' = try /\ try[j] \in Attempts /\ job[j] = "reserving" /\ job \in [Jobs -> JobStates]
    BY DEF WriteBudget, IInv, TypeOK
  <1>3. CASE handled' = handled /\ job' = [job EXCEPT ![j] = "done"]
    <2>1. ASSUME NEW q \in Steps PROVE CallsLeft(q)' \subseteq CallsLeft(q)
      <3> SUFFICES ASSUME NEW c \in CallsLeft(q)' PROVE c \in CallsLeft(q)
        OBVIOUS
      <3>1. c \in Attempts \X Attempts /\ <<q, c[1]>> \in Jobs
        BY DEF CallsLeft, Jobs
      <3> QED
        BY <1>2, <1>3, <3>1 DEF CallsLeft
    <2> QED
      BY <1>3, <2>1, NoCallKeeps, CallsFinite, ToolAssumption DEF CallsAccounted, IInv, TypeOK
  <1>4. CASE handled' = [handled EXCEPT ![j[1]] = @ + 1] /\ job' = [job EXCEPT ![j] = "handling"]
    <2> DEFINE call == <<j[2], 0>>
    <2>1. call \in CallsLeft(j[1])
      BY <1>1, <1>2 DEF CallsLeft
    <2>2. ASSUME NEW q \in Steps, NEW c \in CallsLeft(q)'
          PROVE  c \in CallsLeft(q) /\ (q = j[1] => c # call)
      <3>1. c \in Attempts \X Attempts /\ <<q, c[1]>> \in Jobs
        BY <2>2 DEF CallsLeft, Jobs
      <3>2. CASE <<q, c[1]>> = j
        <4>1. c[2] > try[j] /\ try[j] \in Nat
          BY <1>2, <1>4, <2>2, <3>1, <3>2, ToolAssumption DEF CallsLeft, Attempts
        <4> QED
          BY <1>1, <1>2, <3>1, <3>2, <4>1 DEF CallsLeft
      <3>3. CASE <<q, c[1]>> # j
        <4>1. c \in CallsLeft(q)
          BY <1>2, <1>4, <2>2, <3>1, <3>3 DEF CallsLeft
        <4> QED
          BY <1>1, <3>1, <3>3, <4>1
      <3> QED
        BY <3>2, <3>3
    <2> HIDE DEF call
    <2>3. /\ Cardinality(CallsLeft(j[1])') \in Nat
          /\ Cardinality(CallsLeft(j[1])') + 1 <= Cardinality(CallsLeft(j[1]))
      <3>1. CallsLeft(j[1])' \subseteq CallsLeft(j[1]) \ {call}
        BY <1>1, <2>2
      <3> QED
        BY <1>1, <2>1, <3>1, CallKeeps
    <2>4. ASSUME NEW q \in Steps
          PROVE  /\ Cardinality(CallsLeft(q)') \in Nat
                 /\ Cardinality(CallsLeft(q)') <= Cardinality(CallsLeft(q))
      BY <2>2, NoCallKeeps
    <2> QED
      BY <1>1, <1>4, <2>3, <2>4, CallsFinite, ToolAssumption DEF CallsAccounted, IInv, TypeOK
  <1> QED
    BY <1>3, <1>4 DEF WriteBudget, Return

LEMMA HandlerEndsCalls ==
    ASSUME IInv, CallsAccounted, NEW j \in Jobs, HandlerEnds(j)
    PROVE  CallsAccounted'
  <1>1. j[1] \in Steps /\ j[2] \in Attempts /\ j = <<j[1], j[2]>>
    BY DEF Jobs
  <1>2. /\ try \in [Jobs -> Attempts] /\ try[j] \in Nat /\ job[j] = "handling"
        /\ job \in [Jobs -> JobStates] /\ handled \in [Steps -> Nat]
    BY ToolAssumption DEF HandlerEnds, IInv, TypeOK, Attempts
  <1>3. CASE /\ handled' = handled /\ job' = [job EXCEPT ![j] = "done"]
             /\ \A k \in Jobs : k # j => try'[k] = try[k]
    <2>1. ASSUME NEW q \in Steps PROVE CallsLeft(q)' \subseteq CallsLeft(q)
      <3> SUFFICES ASSUME NEW c \in CallsLeft(q)' PROVE c \in CallsLeft(q)
        OBVIOUS
      <3>1. c \in Attempts \X Attempts /\ <<q, c[1]>> \in Jobs
        BY DEF CallsLeft, Jobs
      <3> QED
        BY <1>2, <1>3, <3>1 DEF CallsLeft
    <2> QED
      BY <1>3, <2>1, NoCallKeeps, CallsFinite, ToolAssumption DEF CallsAccounted, IInv, TypeOK
  <1>4. CASE /\ handled' = [handled EXCEPT ![j[1]] = @ + 1] /\ job' = job
             /\ try' = [try EXCEPT ![j] = @ + 1] /\ try[j] < RetryBudget
    <2> DEFINE call == <<j[2], try[j] + 1>>
    <2>1. call \in CallsLeft(j[1])
      <3>1. try[j] + 1 \in Attempts
        BY <1>2, <1>4, ToolAssumption DEF Attempts
      <3> QED
        BY <1>1, <1>2, <3>1 DEF CallsLeft
    <2>2. ASSUME NEW q \in Steps, NEW c \in CallsLeft(q)'
          PROVE  c \in CallsLeft(q) /\ (q = j[1] => c # call)
      <3>1. c \in Attempts \X Attempts /\ <<q, c[1]>> \in Jobs /\ c[2] \in Nat
        BY <2>2, ToolAssumption DEF CallsLeft, Jobs, Attempts
      <3>2. CASE <<q, c[1]>> = j
        <4>1. c[2] > try[j] + 1
          BY <1>2, <1>4, <2>2, <3>1, <3>2 DEF CallsLeft
        <4> QED
          BY <1>1, <1>2, <3>1, <3>2, <4>1 DEF CallsLeft
      <3>3. CASE <<q, c[1]>> # j
        <4>1. c \in CallsLeft(q)
          BY <1>2, <1>4, <2>2, <3>1, <3>3 DEF CallsLeft
        <4> QED
          BY <1>1, <3>1, <3>3, <4>1
      <3> QED
        BY <3>2, <3>3
    <2> HIDE DEF call
    <2>3. /\ Cardinality(CallsLeft(j[1])') \in Nat
          /\ Cardinality(CallsLeft(j[1])') + 1 <= Cardinality(CallsLeft(j[1]))
      <3>1. CallsLeft(j[1])' \subseteq CallsLeft(j[1]) \ {call}
        BY <1>1, <2>2
      <3> QED
        BY <1>1, <2>1, <3>1, CallKeeps
    <2>4. ASSUME NEW q \in Steps
          PROVE  /\ Cardinality(CallsLeft(q)') \in Nat
                 /\ Cardinality(CallsLeft(q)') <= Cardinality(CallsLeft(q))
      BY <2>2, NoCallKeeps
    <2> QED
      BY <1>1, <1>2, <1>4, <2>3, <2>4, CallsFinite, ToolAssumption DEF CallsAccounted
  <1> QED
    BY <1>2, <1>3, <1>4 DEF HandlerEnds, Return, RetryHere

\* Whatever times out, is retried or runs on abandoned, no step calls its handler
\* more often than its attempts have tries.
THEOREM CallsBounded == Spec => []HandlerCallBound
  <1>1. Init => CallsAccounted
    <2> SUFFICES ASSUME Init, NEW s \in Steps
                 PROVE  handled[s] + Cardinality(CallsLeft(s)) <= (RetryBudget + 1) * (RetryBudget + 1)
      BY DEF CallsAccounted
    <2>1. handled[s] = 0 /\ CallsLeft(s) = Attempts \X Attempts
      BY DEF Init, CallsLeft, Jobs
    <2> QED
      BY <2>1, CallsFinite, ToolAssumption
  <1>2. IInv /\ CallsAccounted /\ [Next]_vars => CallsAccounted'
    <2> SUFFICES ASSUME IInv, CallsAccounted, [Next]_vars PROVE CallsAccounted'
      OBVIOUS
    <2>1. ASSUME NEW s \in Steps, Begin(s) \/ Answered(s) \/ TimedOut(s) PROVE CallsAccounted'
      BY <2>1, LoopCalls
    <2>2. ASSUME NEW j \in Jobs, Thread(j) PROVE CallsAccounted'
      BY <2>2, QuietThreadCalls, WriteBudgetCalls, HandlerEndsCalls DEF Thread
    <2>3. CASE UNCHANGED vars
      BY <2>3 DEF vars, CallsAccounted, CallsLeft
    <2> QED
      BY <2>1, <2>2, <2>3 DEF Next
  <1>3. IInv /\ CallsAccounted => HandlerCallBound
    BY CallsFinite, ToolAssumption DEF CallsAccounted, HandlerCallBound, IInv, TypeOK
  <1> QED
    BY <1>1, <1>2, <1>3, Inductive, PTL DEF Spec

================================================================================
