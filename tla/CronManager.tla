---------------------------- MODULE CronManager ----------------------------
(***************************************************************************)
(* The cron scheduler: tasks written as a description or an expression,     *)
(* the loop that triggers those that are due, and start and stop, which     *)
(* other coroutines may call while the loop or each other are suspended.    *)
(***************************************************************************)
EXTENDS Integers, Sequences, FiniteSets

CONSTANTS
    CronTasks,              \* ids of tasks that may be created
    Loops,                  \* asyncio tasks that may run _schedule_loop
    Descriptions,           \* descriptions of a schedule: phrases, and the number in them
    Expressions,            \* expressions given instead of a description
    Hour, Day, Week,        \* estimated intervals, in ticks of the clock
    MaxConcurrentCrons,
    CronHorizon,            \* the clock stops here
    NotYet, NoLoop

ASSUME CronAssumption ==
    /\ Hour \in Nat \ {0} /\ Day \in Nat /\ Week \in Nat
    /\ Hour <= Day /\ Day <= Week
    /\ MaxConcurrentCrons \in Nat \ {0}
    /\ CronHorizon \in Nat
    /\ NotYet \notin Nat /\ NoLoop \notin Loops

VARIABLES
    cronTasks,      \* _tasks: life, enabled, interval, last trigger
    cronLoops,      \* stage of each loop, what it has still to process, callbacks under way
    running,        \* _running
    handle,         \* _background_task
    stopping,       \* the loops that calls of stop() are awaiting
    cronClock,
    restarted       \* history: a start() came while a stop() was awaiting

cronVars == <<cronTasks, cronLoops, running, handle, stopping, cronClock, restarted>>

-----------------------------------------------------------------------------
(* Schedules.  A description is the set of phrases it contains with the      *)
(* number they mention; an expression has five fields, and a field is         *)
(* everything, every so many, or a list of values and ranges.                *)

AnyValue == [form |-> "any"]
Every(n) == [form |-> "every", step |-> n]
Listed(items) == [form |-> "listed", items |-> items]
At(n) == Listed({<<n>>})
Daily(hour) == <<At(0), hour, AnyValue, AnyValue, AnyValue>>
WorkDays(hour) == <<At(0), hour, AnyValue, AnyValue, Listed({<<1, 5>>})>>
DefaultCron == Daily(At(0))

(* _NL_REGEX_PATTERNS, in order.  Those that need a number come first.       *)
RegexPatterns(n) ==
    << <<"every N minutes", <<Every(n), AnyValue, AnyValue, AnyValue, AnyValue>> >>,
       <<"every N hours", Daily(Every(n))>>,
       <<"day at N", Daily(At(n))>>,
       <<"afternoon at N", Daily(At(IF n < 12 THEN n + 12 ELSE n))>>,
       <<"morning at N", Daily(At(n))>>,
       <<"workday at N", WorkDays(At(n))>>,
       <<"every N days", <<At(0), At(0), Every(n), AnyValue, AnyValue>> >>,
       <<"weekday", <<At(0), At(0), AnyValue, AnyValue, At(1)>> >> >>

(* _NATURAL_LANGUAGE_MAP, in order. *)
KeywordMap ==
    << <<"after close", WorkDays(At(18))>>,
       <<"before open", <<At(30), At(9), AnyValue, AnyValue, Listed({<<1, 5>>})>> >>,
       <<"workday", WorkDays(At(0))>>,
       <<"midnight", Daily(At(0))>>,
       <<"noon", Daily(At(12))>>,
       <<"every day", Daily(At(0))>>,
       <<"every week", <<At(0), At(0), AnyValue, AnyValue, At(0)>> >>,
       <<"half hour", <<Every(30), AnyValue, AnyValue, AnyValue, AnyValue>> >>,
       <<"every hour", Daily(AnyValue)>> >>

FirstMatch(table, phrases) ==
    LET hits == {i \in DOMAIN table : table[i][1] \in phrases} IN
    IF hits = {} THEN <<>> ELSE <<table[CHOOSE i \in hits : \A j \in hits : i <= j][2]>>

NeedsNumber == {RegexPatterns(0)[i][1] : i \in 1 .. 7}

(* parse_natural_language: a number makes the patterns go first. *)
ParseNaturalLanguage(desc) ==
    LET patterns == FirstMatch(RegexPatterns(desc.number), desc.phrases)
        keywords == FirstMatch(KeywordMap, desc.phrases)
        tried == IF desc.phrases \cap NeedsNumber # {} THEN patterns \o keywords
                 ELSE keywords \o patterns IN
    IF tried = <<>> THEN DefaultCron ELSE Head(tried)

(* _FIELD_RANGES: minute, hour, day, month and weekday. *)
FieldRanges == <<0 .. 59, 0 .. 23, 1 .. 31, 1 .. 12, 0 .. 7>>

(* _validate_single_value: a number or the two ends of a range. *)
ValidItem(item, range) == \A i \in DOMAIN item : item[i] \in range

(* _validate_cron_field: a step may be as large as the largest value. *)
ValidField(field, range) ==
    \/ field.form = "any"
    \/ field.form = "every" /\ field.step >= 1 /\ \E top \in range : field.step <= top
    \/ field.form = "listed" /\ \A item \in field.items : ValidItem(item, range)

ValidateCronExpression(expr) ==
    Len(expr) = Len(FieldRanges) /\ \A i \in DOMAIN expr : ValidField(expr[i], FieldRanges[i])

(* _estimate_interval_ms reads two fields: "every five minutes" is hourly, and  *)
(* "every two hours" and "every three days" are daily.                         *)
EstimateInterval(expr) ==
    CASE expr[2] = AnyValue -> Hour
      [] expr[2] # AnyValue /\ expr[5] # AnyValue -> Week
      [] OTHER -> Day

-----------------------------------------------------------------------------
NewTask == [life |-> "new", enabled |-> FALSE, interval |-> 0, last |-> NotYet]
NewLoop == [stage |-> "none", queue |-> {}, inflight |-> {}]

CronInit ==
    /\ cronTasks = [t \in CronTasks |-> NewTask]
    /\ cronLoops = [l \in Loops |-> NewLoop]
    /\ running = FALSE
    /\ handle = NoLoop
    /\ stopping = {}
    /\ cronClock = 0
    /\ restarted = FALSE

Live(t) == cronTasks[t].life = "live"

(* Mutant: due an instant early. *)
IsDueEarly(t) ==
    /\ Live(t)
    /\ cronTasks[t].enabled
    /\ cronTasks[t].last = NotYet \/ cronClock - cronTasks[t].last >= cronTasks[t].interval - 1

(* get_due_tasks: a task never triggered is due at once. *)
IsDue(t) ==
    /\ Live(t)
    /\ cronTasks[t].enabled
    /\ cronTasks[t].last = NotYet \/ cronClock - cronTasks[t].last >= cronTasks[t].interval

(* create_task: an expression, or else the one its description is parsed to; one   *)
(* that is not valid is refused.                                              *)
CreateTask(t) ==
    /\ cronTasks[t].life = "new"
    /\ \E expr \in Expressions \cup {ParseNaturalLanguage(desc) : desc \in Descriptions} :
         /\ ValidateCronExpression(expr)
         /\ cronTasks' = [cronTasks EXCEPT ![t] =
              [life |-> "live", enabled |-> TRUE, last |-> NotYet,
               interval |-> EstimateInterval(expr)]]
    /\ UNCHANGED <<cronLoops, running, handle, stopping, cronClock, restarted>>

(* pause_task and resume_task. *)
SwitchTask(t) ==
    /\ Live(t)
    /\ cronTasks' = [cronTasks EXCEPT ![t].enabled = ~@]
    /\ UNCHANGED <<cronLoops, running, handle, stopping, cronClock, restarted>>

DeleteTask(t) ==
    /\ Live(t)
    /\ cronTasks' = [cronTasks EXCEPT ![t] = [NewTask EXCEPT !.life = "deleted"]]
    /\ UNCHANGED <<cronLoops, running, handle, stopping, cronClock, restarted>>

(* start: a loop that is already running is left alone. *)
StartScheduler(l) ==
    /\ ~running
    /\ cronLoops[l].stage = "none"
    /\ running' = TRUE
    /\ handle' = l
    /\ cronLoops' = [cronLoops EXCEPT ![l].stage = "idle"]
    /\ restarted' = (restarted \/ stopping # {})
    /\ UNCHANGED <<cronTasks, stopping, cronClock>>

(* cancel() on a loop that has not ended. *)
Cancel(l) ==
    IF l = NoLoop \/ cronLoops[l].stage = "dead" THEN cronLoops
    ELSE [cronLoops EXCEPT ![l].stage = "cancelled"]

(* stop up to its await: the loop is cancelled, and does nothing any more. *)
StopScheduler ==
    /\ running
    /\ running' = FALSE
    /\ stopping' = stopping \cup ({handle} \ {NoLoop})
    /\ cronLoops' = Cancel(handle)
    /\ UNCHANGED <<cronTasks, handle, cronClock, restarted>>

(* The cancelled loop ends, with the callbacks it was awaiting. *)
LoopCancelled(l) ==
    /\ cronLoops[l].stage = "cancelled"
    /\ cronLoops' = [cronLoops EXCEPT ![l] = [NewLoop EXCEPT !.stage = "dead"]]
    /\ UNCHANGED <<cronTasks, running, handle, stopping, cronClock, restarted>>

(* stop after its await: it forgets the loop, whichever it is by now. *)
StopReturns(l) ==
    /\ l \in stopping
    /\ cronLoops[l].stage = "dead"
    /\ stopping' = stopping \ {l}
    /\ handle' = NoLoop
    /\ UNCHANGED <<cronTasks, cronLoops, running, cronClock, restarted>>

(* One turn of _schedule_loop, after its sleep: the due tasks are collected once. *)
ScheduleTick(l) ==
    LET due == {t \in CronTasks : IsDue(t)} IN
    /\ cronLoops[l].stage = "idle"
    /\ cronLoops' = [cronLoops EXCEPT ![l] =
         [@ EXCEPT !.queue = IF running THEN due ELSE {},
                   !.stage = CASE ~running -> "dead"
                               [] running /\ due = {} -> "idle"
                               [] OTHER -> "tick"]]
    /\ UNCHANGED <<cronTasks, running, handle, stopping, cronClock, restarted>>

(* Mutant: the trigger is not noted. *)
MarkNothing(t) == cronTasks

(* mark_triggered, which knows nothing of a task that was deleted meanwhile. *)
MarkTriggered(t) ==
    IF Live(t) THEN [cronTasks EXCEPT ![t].last = cronClock] ELSE cronTasks

(* A task gets the semaphore, is marked, and its callback begins. *)
ProcessTask(l, t) ==
    /\ cronLoops[l].stage = "tick"
    /\ t \in cronLoops[l].queue
    /\ Cardinality(cronLoops[l].inflight) < MaxConcurrentCrons
    /\ cronTasks' = MarkTriggered(t)
    /\ cronLoops' = [cronLoops EXCEPT ![l].queue = @ \ {t}, ![l].inflight = @ \cup {t}]
    /\ UNCHANGED <<running, handle, stopping, cronClock, restarted>>

(* A callback returns or raises, which is logged; the last one ends the turn. *)
CallbackReturns(l, t) ==
    /\ cronLoops[l].stage = "tick"
    /\ t \in cronLoops[l].inflight
    /\ cronLoops' = [cronLoops EXCEPT ![l] =
         [@ EXCEPT !.inflight = cronLoops[l].inflight \ {t},
                   !.stage = IF cronLoops[l].queue = {} /\ cronLoops[l].inflight = {t}
                             THEN "idle" ELSE "tick"]]
    /\ UNCHANGED <<cronTasks, running, handle, stopping, cronClock, restarted>>

CronTick ==
    /\ cronClock < CronHorizon
    /\ cronClock' = cronClock + 1
    /\ UNCHANGED <<cronTasks, cronLoops, running, handle, stopping, restarted>>

LoopStep(l) ==
    \/ LoopCancelled(l) \/ ScheduleTick(l)
    \/ \E t \in CronTasks : ProcessTask(l, t) \/ CallbackReturns(l, t)

CronNext ==
    \/ \E t \in CronTasks : CreateTask(t) \/ SwitchTask(t) \/ DeleteTask(t)
    \/ \E l \in Loops : StartScheduler(l) \/ LoopStep(l) \/ StopReturns(l)
    \/ StopScheduler
    \/ CronTick

(* The event loop runs what is ready, sleeps end and callbacks return; nobody *)
(* must start or stop the scheduler or change a task.                         *)
CronFairness ==
    \A l \in Loops :
        /\ WF_cronVars(StopReturns(l))
        /\ WF_cronVars(LoopCancelled(l) \/ ScheduleTick(l))
        /\ \A t \in CronTasks : /\ WF_cronVars(ProcessTask(l, t))
                               /\ WF_cronVars(CallbackReturns(l, t))

CronSpec == CronInit /\ [][CronNext]_cronVars
FairCronSpec == CronSpec /\ CronFairness

-----------------------------------------------------------------------------
(* Two triggers of a task are an interval apart, however long the turns of   *)
(* the loop take and whatever is paused or resumed in between.  Only a start  *)
(* in the middle of a stop, which leaves two loops, breaks it (_tick).        *)
SpacedTriggers ==
    \A t \in CronTasks :
        cronTasks'[t].last # cronTasks[t].last /\ {cronTasks[t].last, cronTasks'[t].last} \subseteq Nat
          /\ ~restarted => cronClock - cronTasks[t].last >= cronTasks[t].interval

(* The loop that runs is the one stop() would cancel, so that after a stop()  *)
(* none is left.  A start() in the middle of a stop() loses its own loop.     *)
LoopIsHeld ==
    \A l \in Loops :
        cronLoops[l].stage \in {"idle", "tick"} /\ ~restarted =>
            running /\ handle = l

(* One loop at most, and it keeps the intervals. *)
LoopKeepsTime == [][LoopIsHeld' /\ SpacedTriggers]_cronVars

(* A task that is due is triggered, unless it is paused or deleted or the     *)
(* scheduler is stopped: other tasks and slow callbacks only delay it.         *)
DueIsTriggered ==
    \A t \in CronTasks :
        IsDue(t) /\ running ~> ~IsDue(t) \/ ~running
=============================================================================
