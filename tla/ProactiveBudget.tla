---------------------------- MODULE ProactiveBudget ----------------------------
(***************************************************************************)
(* ProactiveBudgetManager and the life of a system-event run around it     *)
(* (ProactiveBackEndWorkflow.start_from_event).  The manager lives on one  *)
(* event loop and has no await inside, so each of its methods is one step; *)
(* the run around it suspends in the moderator and in _run_internal, and   *)
(* other runs are admitted and released meanwhile.                         *)
(*                                                                         *)
(* A deque of timestamps is a set of runs here: run ids are fresh, a run   *)
(* appears in it at most once, and its timestamp is reservedAt.            *)
(***************************************************************************)
EXTENDS Integers, FiniteSets

CONSTANTS
    Runs,              \* run ids the callers may present
    TokenEstimates,    \* values _estimate_tokens may return
    EventWindow,       \* _event_window_s
    BurstLimit,        \* _event_burst_limit
    MaxConcurrent,     \* _max_concurrent_runs
    TokenWindow,       \* _token_window_s
    TokenBudget,       \* _token_budget
    FailureThreshold,  \* _failure_threshold
    OpenFor,           \* _open_s
    Horizon            \* model bound: the clock stops here

\* positive_env_int refuses zero and negative settings; an estimate is at least 1.
ASSUME BudgetAssumption ==
    /\ IsFiniteSet(Runs)
    /\ TokenEstimates \subseteq Nat \ {0}
    /\ EventWindow \in Nat \ {0}
    /\ BurstLimit \in Nat \ {0}
    /\ MaxConcurrent \in Nat \ {0}
    /\ TokenWindow \in Nat \ {0}
    /\ TokenBudget \in Nat \ {0}
    /\ FailureThreshold \in Nat \ {0}
    /\ OpenFor \in Nat \ {0}
    /\ Horizon \in Nat

VARIABLES
    now,          \* _now_ms()
    phase,        \* where start_from_event is for each run, or how it ended
    reservedAt,   \* the timestamp evaluate_and_reserve stored, or NoTime
    tokens,       \* the estimate stored with it
    events,       \* _event_timestamps
    reservations, \* _token_reservations
    active,       \* _active_runs
    failures,     \* _consecutive_failures
    openUntil     \* _circuit_open_until_ms

vars == <<now, phase, reservedAt, tokens, events, reservations, active, failures, openUntil>>

NoTime == -1

Refusals == {"circuit_breaker_open", "event_burst_limit_exceeded",
             "concurrent_proactive_runs_exceeded",
             "proactive_token_budget_exceeded", "cost_circuit_breaker"}

\* The statuses execution hands to release_run.
RunStatuses == {"completed", "failed", "blocked", "stopped"}

InFlight == {"moderating", "running"}
Phases == {"new", "aborted"} \cup InFlight \cup Refusals \cup RunStatuses

Init ==
    /\ now = 0
    /\ phase = [r \in Runs |-> "new"]
    /\ reservedAt = [r \in Runs |-> NoTime]
    /\ tokens = [r \in Runs |-> 0]
    /\ events = {}
    /\ reservations = {}
    /\ active = {}
    /\ failures = 0
    /\ openUntil = 0

--------------------------------------------------------------------------------
(* The manager *)

\* One of the two loops of _cleanup: what the deque holds afterwards.
KeepRecent(queue, window) == {r \in queue : reservedAt[r] >= now - window}

\* _cleanup forgets an expired circuit together with the failures behind it.
CircuitExpired == openUntil # 0 /\ openUntil <= now
OpenUntilClean == IF CircuitExpired THEN 0 ELSE openUntil
FailuresClean  == IF CircuitExpired THEN 0 ELSE failures

\* The checks of evaluate_and_reserve, made on the cleaned state.
Never == FALSE                                     \* mutant: a check dropped
CircuitOpen == OpenUntilClean > now
BurstFull   == Cardinality(KeepRecent(events, EventWindow)) >= BurstLimit
SlotsFull   == Cardinality(active) >= MaxConcurrent

\* The tokens runs have reserved, each for itself: as many as the sum of the
\* estimates.
TokensOf(runs) == UNION {{r} \X (1..tokens[r]) : r \in runs}
UsedTokens     == Cardinality(TokensOf(KeepRecent(reservations, TokenWindow)))
OverTokensPast(estimate) == UsedTokens > TokenBudget  \* mutant: ignores the estimate
OverTokens(estimate)     == UsedTokens + estimate > TokenBudget

\* Why evaluate_and_reserve refuses: first match wins.
Refusal(estimate, costBlocks) ==
    IF CircuitOpen THEN "circuit_breaker_open"
    ELSE IF BurstFull THEN "event_burst_limit_exceeded"
    ELSE IF SlotsFull THEN "concurrent_proactive_runs_exceeded"
    ELSE IF OverTokens(estimate) THEN "proactive_token_budget_exceeded"
    ELSE IF costBlocks THEN "cost_circuit_breaker"
    ELSE "allowed"

Cleanup ==
    /\ openUntil' = OpenUntilClean
    /\ failures' = FailuresClean

--------------------------------------------------------------------------------
(* start_from_event *)

\* Budget granted: the run suspends in moderator.moderate.
Admit(r, estimate, costBlocks) ==
    /\ phase[r] = "new"
    /\ Refusal(estimate, costBlocks) = "allowed"
    /\ phase' = [phase EXCEPT ![r] = "moderating"]
    /\ reservedAt' = [reservedAt EXCEPT ![r] = now]
    /\ tokens' = [tokens EXCEPT ![r] = estimate]
    /\ events' = KeepRecent(events, EventWindow) \cup {r}
    /\ reservations' = KeepRecent(reservations, TokenWindow) \cup {r}
    /\ active' = active \cup {r}
    /\ Cleanup
    /\ UNCHANGED now

\* Budget refused: the blocked result is recorded and the run released with
\* status "blocked", which pops a run id that was never entered.
Refuse(r, estimate, costBlocks) ==
    /\ phase[r] = "new"
    /\ Refusal(estimate, costBlocks) # "allowed"
    /\ phase' = [phase EXCEPT ![r] = Refusal(estimate, costBlocks)]
    /\ events' = KeepRecent(events, EventWindow)
    /\ reservations' = KeepRecent(reservations, TokenWindow)
    /\ active' = active \ {r}
    /\ Cleanup
    /\ UNCHANGED <<now, reservedAt, tokens>>

\* The moderator returned; _run_internal starts.
Moderated(r) ==
    /\ phase[r] = "moderating"
    /\ phase' = [phase EXCEPT ![r] = "running"]
    /\ UNCHANGED <<now, reservedAt, tokens, events, reservations, active, failures, openUntil>>

\* release_run's bookkeeping of failures. No _cleanup here: a circuit that has
\* expired but was not cleaned yet is reopened by a single further failure.
Release(status) ==
    /\ failures' = IF status = "completed" THEN 0
                   ELSE IF status = "blocked" THEN failures ELSE failures + 1
    /\ openUntil' = IF failures' > failures /\ failures' >= FailureThreshold
                    THEN now + OpenFor ELSE openUntil

\* Mutant: a run that ends blocked on an approval keeps its slot.
FinishKeepsBlocked(r, status) ==
    /\ phase[r] = "running"
    /\ phase' = [phase EXCEPT ![r] = status]
    /\ active' = IF status = "blocked" THEN active ELSE active \ {r}
    /\ Release(status)
    /\ UNCHANGED <<now, reservedAt, tokens, events, reservations>>

\* _run_internal returned and the trace snapshot was written.
Finish(r, status) ==
    /\ phase[r] = "running"
    /\ phase' = [phase EXCEPT ![r] = status]
    /\ active' = active \ {r}
    /\ Release(status)
    /\ UNCHANGED <<now, reservedAt, tokens, events, reservations>>

\* start_from_event left by an exception or a cancellation between the
\* reservation and release_run: the moderator raised, the task was cancelled
\* in an await, or the snapshot file could not be written. Nothing is undone.
Abort(r) ==
    /\ phase[r] \in InFlight
    /\ phase' = [phase EXCEPT ![r] = "aborted"]
    /\ UNCHANGED <<now, reservedAt, tokens, events, reservations, active, failures, openUntil>>

Tick ==
    /\ now < Horizon
    /\ now' = now + 1
    /\ UNCHANGED <<phase, reservedAt, tokens, events, reservations, active, failures, openUntil>>

Evaluate(r) ==
    \E estimate \in TokenEstimates, costBlocks \in BOOLEAN :
        Admit(r, estimate, costBlocks) \/ Refuse(r, estimate, costBlocks)

Step(r) == Moderated(r) \/ \E status \in RunStatuses : Finish(r, status)

Next == Tick \/ \E r \in Runs : Evaluate(r) \/ Step(r) \/ Abort(r)

Spec == Init /\ [][Next]_vars

\* The event loop resumes a suspended run sooner or later.
FairSpec == Spec /\ \A r \in Runs : WF_vars(Step(r))

--------------------------------------------------------------------------------
(* Properties *)

\* Every variable keeps the type __init__ gives it.
TypeOK ==
    /\ now \in Nat
    /\ phase \in [Runs -> Phases]
    /\ reservedAt \in [Runs -> Nat \cup {NoTime}]
    /\ tokens \in [Runs -> Nat]
    /\ events \subseteq Runs
    /\ reservations \subseteq Runs
    /\ active \subseteq Runs
    /\ failures \in Nat
    /\ openUntil \in Nat

ReservedIn(from, to) == {r \in Runs : reservedAt[r] # NoTime /\ reservedAt[r] \in from..to}

\* However admissions, suspensions, releases and aborts interleave, no more
\* runs are under way than PROACTIVE_MAX_CONCURRENT_RUNS.
ConcurrencyBound == Cardinality({r \in Runs : phase[r] \in InFlight}) <= MaxConcurrent

\* No window of _event_window_s, wherever it ends, saw more admissions than
\* the burst limit: pruning the deque never forgets an admission that counts.
BurstBound ==
    \A end \in 0..now : Cardinality(ReservedIn(end - EventWindow, end)) <= BurstLimit

\* The same for the estimated tokens of every token window, which no release
\* gives back.
TokenBound ==
    \A end \in 0..now :
        Cardinality(TokensOf(ReservedIn(end - TokenWindow, end))) <= TokenBudget

\* Between the failure that opened the circuit and the deadline it set, no
\* event became a run.
QuietWhileOpen ==
    openUntil # 0 =>
        \A r \in Runs : reservedAt[r] <= openUntil - OpenFor \/ reservedAt[r] >= openUntil

\* Once open, the circuit stays open to its deadline: runs that were in flight
\* when it opened may push the deadline back, and a success among them does
\* not close it.
CircuitNotShortened == [][openUntil > now => openUntil' >= openUntil]_vars

Policy == INSTANCE AdmissionPolicy WITH admittedAt <- reservedAt, holding <- active

\* The manager, which forgets what is older than its windows, admits no run
\* that a policy with a perfect memory of all admissions would refuse.
ImplementsPolicy == Policy!Spec

\* A run that was granted a slot gives it back unless it is aborted.
SlotReturned ==
    \A r \in Runs : (r \in active) ~> (r \notin active \/ phase[r] = "aborted")

\* "A single failing cron task does not affect the others": a run is refused
\* for concurrency only while that many runs are really under way.
FailureIsolated ==
    [][\A r \in Runs :
          phase[r] = "new" /\ phase'[r] = "concurrent_proactive_runs_exceeded"
              => Cardinality({q \in Runs : phase[q] \in InFlight}) >= MaxConcurrent]_vars

================================================================================
