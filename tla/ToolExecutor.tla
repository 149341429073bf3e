------------------------------ MODULE ToolExecutor ------------------------------
(***************************************************************************)
(* The tool_call steps of one run: NodeExecutor.execute_with_retry on the  *)
(* event loop, and execute_agent_command in a worker thread per attempt.   *)
(* A step that times out drops the thread it waited for, which runs on; so *)
(* commands of several steps, and of several attempts of one step, pass    *)
(* the budget of the run (_RUN_BUDGET_STATE, a dict without a lock) and    *)
(* call their handlers at the same time.                                   *)
(*                                                                         *)
(* A command is what the gates read of it; a receipt is its error.         *)
(***************************************************************************)
EXTENDS Integers, FiniteSets

CONSTANTS
    Steps,        \* the tool_call steps of the run
    Commands,     \* the commands they may build
    RetryBudget,  \* node["retry_budget"], which the command carries as well
    StepTimeout,  \* whether a timeout_ms applies to the step
    ToolLimit,    \* tool_call_limit of the run
    SideLimit     \* side_effect_limit of the run

ASSUME ToolAssumption ==
    /\ IsFiniteSet(Steps)
    /\ RetryBudget \in Nat
    /\ StepTimeout \in BOOLEAN
    /\ ToolLimit \in Nat
    /\ SideLimit \in Nat

ApprovalStates == {"absent", "pending", "approved", "rejected", "expired"}

\* What execute_agent_command looks at: the tool's capability and policy, and
\* the approval in params. handler is whether the allowlist has the action.
CommandType ==
    [role : BOOLEAN, sideEffect : BOOLEAN, severe : BOOLEAN,
     needsApproval : BOOLEAN, needsReason : BOOLEAN,
     approved : BOOLEAN, note : BOOLEAN, state : ApprovalStates, handler : BOOLEAN]

ASSUME CommandAssumption == Commands \subseteq CommandType

Attempts == 0..RetryBudget
Jobs     == Steps \X Attempts    \* the command of an attempt of a step

VARIABLES
    cmd,       \* the command each step builds
    step,      \* "idle", "awaiting" an attempt, or the status it ended with
    attempt,   \* the attempt a step has reached in execute_with_retry
    job,       \* where the thread of a command is
    try,       \* the retries the thread has behind it, while its handler runs
    seen,      \* tool_calls and side_effect_calls as the thread read them, while it holds them
    receipt,   \* the error of the receipt; "none" is success
    budget,    \* _RUN_BUDGET_STATE of the run
    admitted,  \* history: the jobs that were granted budget
    raced,     \* history: two threads were between reading and writing the budget
    handled    \* history: the handler calls made for a step

vars == <<cmd, step, attempt, job, try, seen, receipt, budget, admitted, raced, handled>>
bookkeeping == <<cmd, budget, seen, admitted, raced>>
NoCalls == [tool |-> 0, side |-> 0]

StepStates == {"idle", "awaiting", "completed", "failed", "blocked"}
JobStates  == {"absent", "queued", "cancelled", "checked", "reserving", "handling", "done"}

Permission == {"approval_required", "approval_reason_required", "approval_rejected",
               "approval_expired", "rbac_denied", "policy_denied"}
OverBudget == {"tool_budget_exceeded", "side_effect_budget_exceeded"}
HandlerErrors == {"tool_timeout", "tool_error", "bad_params"}
Errors == {"none", "handler_missing"} \cup Permission \cup OverBudget \cup HandlerErrors

\* _classify_failure
Classification(error) ==
    CASE error = "none"            -> "none"
      [] error \in Permission      -> "permission"
      [] error = "bad_params"      -> "validation"
      [] error = "handler_missing" -> "dependency"
      [] error = "tool_timeout"    -> "timeout"
      [] error \in OverBudget \cup {"tool_error"} -> "runtime"

Retryable(error) == Classification(error) \in {"timeout", "dependency", "runtime"}

\* The status a receipt gives the step.
StatusOf(error) ==
    IF error = "none" THEN "completed"
    ELSE IF error \in {"approval_rejected", "approval_expired", "approval_required"}
         THEN "blocked" ELSE "failed"

Init ==
    /\ cmd \in [Steps -> Commands]
    /\ step = [s \in Steps |-> "idle"]
    /\ attempt = [s \in Steps |-> 0]
    /\ job = [j \in Jobs |-> "absent"]
    /\ try = [j \in Jobs |-> 0]
    /\ seen = [j \in Jobs |-> NoCalls]
    /\ receipt = [j \in Jobs |-> "none"]
    /\ budget = NoCalls
    /\ admitted = {}
    /\ raced = FALSE
    /\ handled = [s \in Steps |-> 0]

--------------------------------------------------------------------------------
(* The gates of execute_agent_command *)

\* By the role, by the tool's own list of agents, and by the severity.
PolicyRefusal(c) ==
    IF ~c.role THEN "rbac_denied"
    ELSE IF c.sideEffect /\ ~c.severe THEN "policy_denied"
    ELSE "none"

\* Mutant: the approved flag is believed before an explicit state is read.
GateByFlag(c) ==
    IF PolicyRefusal(c) # "none" THEN PolicyRefusal(c)
    ELSE IF c.sideEffect /\ c.needsApproval /\ ~c.approved THEN "approval_required"
    ELSE IF c.sideEffect /\ c.needsReason /\ ~c.note THEN "approval_reason_required"
    ELSE IF ~c.handler THEN "handler_missing"
    ELSE "none"

\* First match wins; "none" lets the command on to the budget.
Gate(c) ==
    IF PolicyRefusal(c) # "none" THEN PolicyRefusal(c)
    ELSE IF c.sideEffect /\ c.needsReason /\ c.approved /\ ~c.note THEN "approval_reason_required"
    ELSE IF c.sideEffect /\ c.state = "rejected" THEN "approval_rejected"
    ELSE IF c.sideEffect /\ c.state = "expired" THEN "approval_expired"
    ELSE IF c.sideEffect /\ c.needsApproval /\ ~c.approved THEN "approval_required"
    ELSE IF ~c.handler THEN "handler_missing"
    ELSE "none"

\* What _reserve_budget wants to write, and why it may refuse to.
NextCalls(c, old) ==
    [tool |-> old.tool + 1, side |-> IF c.sideEffect THEN old.side + 1 ELSE old.side]
BudgetRefusal(c, old) ==
    IF NextCalls(c, old).tool > ToolLimit THEN "tool_budget_exceeded"
    ELSE IF NextCalls(c, old).side > SideLimit THEN "side_effect_budget_exceeded"
    ELSE "none"

--------------------------------------------------------------------------------
(* The event loop: execute_with_retry and execute_once *)

\* An attempt of the step hands its command to a worker thread.
Submit(s, a) ==
    /\ attempt' = [attempt EXCEPT ![s] = a]
    /\ step' = [step EXCEPT ![s] = "awaiting"]

Begin(s) ==
    /\ step[s] = "idle"
    /\ Submit(s, 0)
    /\ job' = [job EXCEPT ![<<s, 0>>] = "queued"]
    /\ UNCHANGED <<bookkeeping, try, receipt, handled>>

\* An attempt has ended with error: it is the step's last unless it may be
\* retried; threads is what becomes of the threads meanwhile.
Settle(s, error, threads) ==
    IF Retryable(error) /\ attempt[s] < RetryBudget
    THEN /\ Submit(s, attempt[s] + 1)
         /\ job' = [threads EXCEPT ![<<s, attempt[s] + 1>>] = "queued"]
    ELSE /\ step' = [step EXCEPT ![s] = StatusOf(error)]
         /\ job' = threads
         /\ UNCHANGED attempt

\* Mutant: whichever thread of the step returns is taken for its answer.
AnsweredByAny(s) ==
    /\ step[s] = "awaiting"
    /\ \E a \in Attempts :
          /\ job[<<s, a>>] = "done"
          /\ Settle(s, receipt[<<s, a>>], job)
    /\ UNCHANGED <<bookkeeping, try, receipt, handled>>

\* Mutant: a receipt that reports an error is taken for no answer.
AnsweredBySuccess(s) ==
    /\ step[s] = "awaiting"
    /\ job[<<s, attempt[s]>>] = "done" /\ receipt[<<s, attempt[s]>>] = "none"
    /\ Settle(s, "none", job)
    /\ UNCHANGED <<bookkeeping, try, receipt, handled>>

\* The thread of the attempt the step waits for has returned its receipt.
Answered(s) ==
    /\ step[s] = "awaiting"
    /\ job[<<s, attempt[s]>>] = "done"
    /\ Settle(s, receipt[<<s, attempt[s]>>], job)
    /\ UNCHANGED <<bookkeeping, try, receipt, handled>>

\* wait_for gives up. A thread that has not begun never will; one that has
\* goes on, and nobody reads its receipt.
TimedOut(s) ==
    /\ StepTimeout
    /\ step[s] = "awaiting"
    /\ Settle(s, "tool_timeout",
              [job EXCEPT ![<<s, attempt[s]>>] = IF @ = "queued" THEN "cancelled" ELSE @])
    /\ UNCHANGED <<bookkeeping, try, receipt, handled>>

--------------------------------------------------------------------------------
(* The worker thread: execute_agent_command *)

Return(j, error) ==
    /\ job' = [job EXCEPT ![j] = "done"]
    /\ receipt' = [receipt EXCEPT ![j] = error]

\* The checks up to the handler lookup, which read the command alone.
Check(j) ==
    /\ job[j] = "queued"
    /\ IF Gate(cmd[j[1]]) = "none"
       THEN job' = [job EXCEPT ![j] = "checked"] /\ UNCHANGED receipt
       ELSE Return(j, Gate(cmd[j[1]]))
    /\ UNCHANGED <<bookkeeping, step, attempt, try, handled>>

Reserving == {j \in Jobs : job[j] = "reserving"}

\* _reserve_budget reads the counters of the run ...
ReadBudget(j) ==
    /\ job[j] = "checked"
    /\ job' = [job EXCEPT ![j] = "reserving"]
    /\ seen' = [seen EXCEPT ![j] = budget]
    /\ raced' = (raced \/ Reserving # {})
    /\ UNCHANGED <<cmd, step, attempt, try, receipt, budget, admitted, handled>>

\* ... and writes them back, or refuses, on what it read.
WriteBudget(j) ==
    /\ job[j] = "reserving"
    /\ LET c == cmd[j[1]] IN
       IF BudgetRefusal(c, seen[j]) = "none"
       THEN /\ budget' = NextCalls(c, seen[j])
            /\ admitted' = admitted \cup {j}
            /\ job' = [job EXCEPT ![j] = "handling"]
            /\ handled' = [handled EXCEPT ![j[1]] = @ + 1]
            /\ UNCHANGED receipt
       ELSE /\ Return(j, BudgetRefusal(c, seen[j]))
            /\ UNCHANGED <<budget, admitted, handled>>
    /\ seen' = [seen EXCEPT ![j] = NoCalls]
    /\ UNCHANGED <<cmd, step, attempt, try, raced>>

\* A handler call returned, raised, or was given up; the command tries again
\* on its own while its retry budget lasts. Both retry loops count to the
\* same RetryBudget.
RetryForever(j, error) == Retryable(error)                             \* mutant
RetryHere(j, error)    == Retryable(error) /\ try[j] < RetryBudget
HandlerEnds(j) ==
    /\ job[j] = "handling"
    /\ \E error \in {"none"} \cup HandlerErrors :
          IF RetryHere(j, error)
          THEN /\ try' = [try EXCEPT ![j] = @ + 1]
               /\ handled' = [handled EXCEPT ![j[1]] = @ + 1]
               /\ UNCHANGED <<job, receipt>>
          ELSE /\ Return(j, error)
               /\ try' = [try EXCEPT ![j] = 0]
               /\ UNCHANGED handled
    /\ UNCHANGED <<bookkeeping, step, attempt>>

Thread(j) == Check(j) \/ ReadBudget(j) \/ WriteBudget(j) \/ HandlerEnds(j)

Next ==
    \/ \E s \in Steps : Begin(s) \/ Answered(s) \/ TimedOut(s)
    \/ \E j \in Jobs : Thread(j)

Spec == Init /\ [][Next]_vars

\* Threads are scheduled and every handler call ends, at its timeout_ms if not
\* before; the event loop takes up what has returned. Nothing makes a step's
\* own timeout fire.
FairSpec ==
    /\ Spec
    /\ \A s \in Steps : WF_vars(Begin(s)) /\ WF_vars(Answered(s))
    /\ \A j \in Jobs : WF_vars(Thread(j))

--------------------------------------------------------------------------------
(* Properties *)

\* Every variable keeps the type the code gives it.
TypeOK ==
    /\ cmd \in [Steps -> Commands]
    /\ step \in [Steps -> StepStates]
    /\ attempt \in [Steps -> Attempts]
    /\ job \in [Jobs -> JobStates]
    /\ try \in [Jobs -> Attempts]
    /\ seen \in [Jobs -> [tool : Nat, side : Nat]]
    /\ receipt \in [Jobs -> Errors]
    /\ budget \in [tool : Nat, side : Nat]
    /\ admitted \subseteq Jobs
    /\ raced \in BOOLEAN
    /\ handled \in [Steps -> Nat]

\* Whatever the retries of step and command, a handler is never called for a
\* step that ends blocked, nor for a side effect whose approval is missing,
\* rejected, expired or without the reason its policy asks for.
EffectsApproved ==
    \A s \in Steps : handled[s] > 0 =>
        /\ step[s] # "blocked"
        /\ cmd[s].sideEffect =>
              /\ cmd[s].state \notin {"rejected", "expired"}
              /\ cmd[s].needsApproval => cmd[s].approved
              /\ cmd[s].needsReason /\ cmd[s].approved => cmd[s].note

\* A step completes on the answer of the attempt it is at: the late answer of
\* an attempt that timed out settles nothing.
SettledByItsAttempt ==
    \A s \in Steps : step[s] = "completed" =>
        /\ job[<<s, attempt[s]>>] = "done"
        /\ receipt[<<s, attempt[s]>>] = "none"

\* The two retry loops multiply: a step makes (RetryBudget + 1)^2 handler
\* calls at most, RetryBudget + 1 for each command.
HandlerCallBound ==
    \A s \in Steps : handled[s] <= (RetryBudget + 1) * (RetryBudget + 1)

SideEffects == {j \in admitted : cmd[j[1]].sideEffect}

\* As long as no two reservations overlapped, the counters are exactly the
\* commands that reached a handler, within both limits: what a gate or the
\* budget refuses consumes nothing.
SerialBudgetExact ==
    ~raced =>
        /\ budget.tool = Cardinality(admitted) /\ budget.tool <= ToolLimit
        /\ budget.side = Cardinality(SideEffects) /\ budget.side <= SideLimit

\* A step that has begun ends, even if none of its timeouts fire.
StepSettles == \A s \in Steps : step[s] = "awaiting" ~> step[s] \notin {"idle", "awaiting"}

\* "The tool calls of a run are limited; calls over the budget are refused and
\* do not enter execution."
CallLimit == Cardinality(admitted) <= ToolLimit

================================================================================
