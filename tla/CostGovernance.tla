---------------------------- MODULE CostGovernance ----------------------------
(***************************************************************************)
(* What limits the use of the model: the tracker with its two windows and     *)
(* alerts, the breaker that looks at it before a proactive run, and the token *)
(* buckets of the governor before a question of an agent.                     *)
(*                                                                         *)
(* Tokens stand for the cost as well: both are sums over the same records.    *)
(* Time goes in units of the cooldown; only the order of the durations counts. *)
(***************************************************************************)
EXTENDS Integers, SequencesExt, FiniteSetsExt

CONSTANTS
    Levels,                 \* BUDGETS: their names in the order of the code
    WindowOf, LimitOf,      \* what each is a budget for
    Window, DailyWindow,    \* the windows of the tracker, an hour and a day
    HourlyAlert, DailyAlert,        \* thresholds of the alerts
    Cooldown,               \* 30 s
    Priorities,             \* the keys of the buckets
    Capacity, Refill,       \* burst, and tokens per unit of time
    MaxUsage,               \* the most tokens of a call
    MaxRecords, CostHorizon \* bounds: the calls that are recorded, the time that passes

ASSUME CostAssumption ==
    /\ Levels \in Seq(ToSet(Levels))
    /\ WindowOf \in [ToSet(Levels) -> Nat] /\ LimitOf \in [ToSet(Levels) -> Nat]
    /\ {Window, DailyWindow, HourlyAlert, DailyAlert, Cooldown, MaxUsage,
        MaxRecords, CostHorizon} \subseteq Nat
    /\ Window <= DailyWindow
    /\ Capacity \in Nat /\ Refill \in Nat

VARIABLES
    clock,                  \* time.time() and time.monotonic(), never 0
    used,                   \* history: every record
    records, daily,         \* the positions of those the tracker has in each window
    hourlyAlert, dailyAlert,
    trippedAt,              \* of each level, or 0
    tripped,
    buckets,                \* of each priority that was seen
    spent, audit            \* history: what each bucket gave, and since when one counts it

costVars == <<clock, records, daily, used, hourlyAlert, dailyAlert, trippedAt, tripped,
              buckets, spent, audit>>
trackerVars == <<records, daily, used, hourlyAlert, dailyAlert>>
breakerVars == <<trippedAt, tripped>>
bucketVars == <<buckets, spent, audit>>

NoBucket == [tokens |-> 0, at |-> -1]

CostInit ==
    /\ clock = 1
    /\ used = <<>> /\ records = {} /\ daily = {}
    /\ hourlyAlert = FALSE /\ dailyAlert = FALSE
    /\ trippedAt = [l \in ToSet(Levels) |-> 0]
    /\ tripped = [l \in ToSet(Levels) |-> FALSE]
    /\ buckets = [p \in Priorities |-> NoBucket]
    /\ spent = [p \in Priorities |-> 0]
    /\ audit = [p \in Priorities |-> [from |-> 1, spent |-> 0]]

(* The tokens of records, each for itself: as many as the sum of _summarize. *)
TokensOf(recs) == UNION {{i} \X (1 .. used[i].tokens) : i \in recs}
Total(recs) == Cardinality(TokensOf(recs))

(* _cleanup_locked: what is older than the window is popped from the front. *)
Recent(recs, window) == {i \in recs : used[i].at >= clock - window}

-----------------------------------------------------------------------------
(* TokenTracker.record and the alerts it checks, under its lock.  Only a record *)
(* sets an alert or takes it back.                                             *)
RecordUsage ==
    \E tokens \in 1 .. MaxUsage :
        /\ Len(used) < MaxRecords
        /\ used' = Append(used, [at |-> clock, tokens |-> tokens])
        /\ records' = Recent(records, Window) \cup {Len(used) + 1}
        /\ daily' = Recent(daily, DailyWindow) \cup {Len(used) + 1}
        /\ hourlyAlert' = (HourlyAlert > 0 /\ Total(records)' > HourlyAlert)
        /\ dailyAlert' = (DailyAlert > 0 /\ Total(daily)' > DailyAlert)
        /\ UNCHANGED <<clock, breakerVars, bucketVars>>

-----------------------------------------------------------------------------
(* CostCircuitBreaker.check.  Every level looks at the summary of the hour.    *)

(* Mutant: a level that tripped is looked at afresh. *)
NeverCooling(l) == FALSE

InCooldown(l) == tripped[l] /\ clock - trippedAt[l] < Cooldown
Exceeded(l, summary) == summary > LimitOf[l]

(* The level that refuses, if one does: the first that cools down or exceeds. *)
Refusing(summary) ==
    {i \in DOMAIN Levels : InCooldown(Levels[i]) \/ Exceeded(Levels[i], summary)}

Check ==
    LET hour == Recent(records, Window)
        refusing == Refusing(Total(hour))
        last == IF refusing = {} THEN Len(Levels) ELSE Min(refusing)
        level == Levels[last] IN
    /\ records' = hour /\ daily' = Recent(daily, DailyWindow)
    /\ tripped' = [l \in ToSet(Levels) |->
         IF \E i \in 1 .. last : Levels[i] = l
         THEN refusing # {} /\ l = level
         ELSE tripped[l]]
    /\ trippedAt' = IF refusing # {} /\ ~InCooldown(level)
                    THEN [trippedAt EXCEPT ![level] = clock] ELSE trippedAt
    /\ UNCHANGED <<clock, used, hourlyAlert, dailyAlert, bucketVars>>

Passes == Refusing(Total(Recent(records, Window))) = {}

-----------------------------------------------------------------------------
(* LLMCostGovernor.allow: a bucket is made full when its priority is first seen. *)

Refilled(bucket) ==
    IF bucket = NoBucket THEN Capacity
    ELSE Min({Capacity, bucket.tokens + (clock - bucket.at) * Refill})

TryConsume(p) ==
    \E need \in 0 .. Capacity + 1 :
        LET tokens == Refilled(buckets[p])
            ok == need <= tokens IN
        /\ buckets' = [buckets EXCEPT ![p] =
             IF need = 0 /\ buckets[p] # NoBucket THEN @
             ELSE [tokens |-> IF ok THEN tokens - need ELSE tokens, at |-> clock]]
        /\ spent' = [spent EXCEPT ![p] = IF ok THEN @ + need ELSE @]
        /\ UNCHANGED <<clock, trackerVars, breakerVars, audit>>

(* One may start to count what a bucket gives at any time. *)
Audit(p) ==
    /\ audit' = [audit EXCEPT ![p] = [from |-> clock, spent |-> spent[p]]]
    /\ UNCHANGED <<clock, trackerVars, breakerVars, buckets, spent>>

TimePasses ==
    /\ clock < CostHorizon
    /\ clock' = clock + 1
    /\ UNCHANGED <<trackerVars, breakerVars, bucketVars>>

(* The tracker with its breaker and the buckets share only the time. *)
UsageNext == RecordUsage \/ Check \/ TimePasses
BucketNext == TimePasses \/ \E p \in Priorities : TryConsume(p) \/ Audit(p)

CostNext == UsageNext \/ BucketNext

CostSpec == CostInit /\ [][CostNext]_costVars

-----------------------------------------------------------------------------
(* From any moment on a bucket gives no more than its capacity and what was     *)
(* refilled since, whatever the calls ask for and however long it was idle      *)
(* (TokenBucket.try_consume).                                                  *)
RateHolds ==
    \A p \in Priorities :
        spent[p] - audit[p].spent <= Capacity + Refill * (clock - audit[p].from)

(* What the breaker promises, though all its levels look at the same hour: a    *)
(* check that passes means that every level whose window the tracker covers is  *)
(* within its limit, and after any level has tripped none passes until its      *)
(* cooldown is over, whatever has left the window by then and whichever level    *)
(* is looked at first (CostCircuitBreaker.check).                               *)
BreakerHolds ==
    \A l \in ToSet(Levels) :
        /\ Passes /\ WindowOf[l] <= Window =>
             Total(Recent(DOMAIN used, WindowOf[l])) <= LimitOf[l]
        /\ trippedAt[l] > 0 /\ clock - trippedAt[l] < Cooldown => ~Passes

(* Neither of the two limits on the use of the model is exceeded. *)
LimitsHold == RateHolds /\ BreakerHolds
=============================================================================
