----------------------------- MODULE MemoryStore -----------------------------
(***************************************************************************)
(* The memory of the runs: lists in Redis with a length, a time to live and *)
(* a cleanup, an index in the process, a table behind both, and the contexts *)
(* of the runs with their index by event.                                    *)
(*                                                                         *)
(* One call of Redis is one step; between two of them everything else on the *)
(* loop may run, a day may pass, the process may restart and Redis may lose  *)
(* what it has.  A call that fails ends its operation: the workflow logs it  *)
(* and goes on.                                                             *)
(***************************************************************************)
EXTENDS Integers, SequencesExt

CONSTANTS
    MemoryRuns,             \* runs; run r belongs to the event EventOf[r]
    EventOf,
    Days,                   \* the time that may pass
    MaxListLen,             \* 2000 in the code
    MemoryBounds            \* each with its number of runs, of entries and of restarts

ASSUME MemoryAssumption ==
    /\ DOMAIN EventOf = MemoryRuns
    /\ {Days, MaxListLen} \subseteq Nat
    /\ MemoryBounds \subseteq [runs : Nat, entries : Nat, faults : Nat]

(* KIND_TO_TTL_TIER, for the kinds that are written and one that stays. *)
TierOf == [working_memory |-> "ephemeral", private_task_state |-> "ephemeral",
           plan |-> "ephemeral", approval |-> "ephemeral", intent_disambiguation |-> "short_term",
           final |-> "short_term", fact |-> "long_term"]

(* TTL_SECONDS: a day and a week, in units that keep their order.  A tier      *)
(* without a limit takes the default of a list, a day.                         *)
Ttl == [ephemeral |-> 1, short_term |-> 2]
DefaultTtl == 1
SecondsOf(kind) == IF TierOf[kind] = "long_term" THEN DefaultTtl ELSE Ttl[TierOf[kind]]

IsIndexed(kind) == kind \in {"plan", "final", "fact"}
ShouldPersist(kind) == TierOf[kind] = "long_term"
IsExpired(entry, day) ==
    TierOf[entry.kind] # "long_term" /\ day >= entry.born + Ttl[TierOf[entry.kind]]

Keys == {"shared", "private"}
KeyOf(kind) == IF kind = "private_task_state" THEN "private" ELSE "shared"

VARIABLES
    memoryBound,            \* the bound of this behaviour
    now,
    lists, expires,         \* Redis: the entries of a key, newest first; the day it goes
    summaries, contexts,    \* Redis: runs with a summary, with a context
    eventIndex,             \* Redis: the runs an event's index names
    index,                  \* the SemanticIndexer of the process
    made,                   \* the number of entries that were made
    table, persisting,      \* rows, and entries on their way to the table
    memoryRuns,             \* each run: its stage, its operation, the entry it pushes
    cleaner, restoring,     \* cleanup_expired and restore_from_persistence
    faults, redisLost       \* history

memoryVars == <<memoryBound, now, lists, expires, summaries, contexts, eventIndex, index, made,
                table, persisting, memoryRuns, cleaner, restoring, faults, redisLost>>
redisVars == <<lists, expires, summaries, contexts, eventIndex>>

None == [id |-> 0]
NoCleaner == [keys |-> {}, key |-> "none", doomed |-> <<>>, day |-> 0]

MemoryInit ==
    /\ memoryBound \in MemoryBounds
    /\ now = 0 /\ made = 0 /\ faults = 0 /\ redisLost = FALSE
    /\ lists = [k \in Keys |-> <<>>] /\ expires = [k \in Keys |-> 0]
    /\ summaries = {} /\ contexts = {} /\ index = {} /\ table = {} /\ persisting = {}
    /\ eventIndex = [e \in {EventOf[r] : r \in MemoryRuns} |-> {}]
    /\ memoryRuns = [r \in MemoryRuns |-> [stage |-> "new", todo |-> <<>>, entry |-> None]]
    /\ cleaner = NoCleaner /\ restoring = {}

(* append_to_list: LPUSH, LTRIM and EXPIRE in one pipeline. *)
AppendToList(entry, ttl) ==
    LET key == KeyOf(entry.kind)
        pushed == <<entry>> \o lists[key] IN
    /\ lists' = [lists EXCEPT ![key] = SubSeq(pushed, 1, IF Len(pushed) < MaxListLen
                                                         THEN Len(pushed) ELSE MaxListLen)]
    /\ expires' = [expires EXCEPT ![key] = now + ttl]

-----------------------------------------------------------------------------
(* What a run writes *)

(* Mutant: the index names the run before its context is there. *)
OperationIndexFirst ==
    [intents   |-> <<"intent_disambiguation">>, plan |-> <<"plan">>,
     working   |-> <<"working_memory", "private_task_state">>, learned |-> <<"fact">>,
     artifacts |-> <<"summary", "final">>, approval |-> <<"approval">>,
     approvals |-> <<"approval", "approval">>, context |-> <<"event_index", "context">>]

(* The operations of the workflow on the memory: what each writes, in order.  A  *)
(* run has at most two approvals on record here.                                *)
Operation ==
    [intents   |-> <<"intent_disambiguation">>,                     \* persist_intent_memory
     plan      |-> <<"plan">>,                                      \* persist_plan_memory
     working   |-> <<"working_memory", "private_task_state">>,      \* record_working_memory
     learned   |-> <<"fact">>,                                      \* append by any other caller
     artifacts |-> <<"summary", "final">>,                          \* persist_run_artifacts
     approval  |-> <<"approval">>,                                  \* persist_approval_memory
     approvals |-> <<"approval", "approval">>,
     context   |-> <<"context", "event_index">>]                    \* save_run_context

(* The stages an operation belongs to and leads to.  Intents are kept if there   *)
(* are several, approvals if there are any.                                     *)
Stages ==
    {<<"new", "intents", "planning">>, <<"new", "plan", "executing">>,
     <<"planning", "plan", "executing">>, <<"executing", "working", "executing">>,
     <<"executing", "learned", "executing">>, <<"executing", "artifacts", "finalizing">>,
     <<"finalizing", "approval", "saving">>, <<"finalizing", "approvals", "saving">>,
     <<"finalizing", "context", "over">>, <<"saving", "context", "over">>}

IsAppend(todo) == todo # <<>> /\ Head(todo) \in DOMAIN TierOf

(* A run goes on to the next call of Redis.  append has given its entry an id,  *)
(* a time and a tier before it awaits the call.                                *)
Proceed(r, stage, todo) ==
    /\ IsAppend(todo) => made < memoryBound.entries
    /\ made' = IF IsAppend(todo) THEN made + 1 ELSE made
    /\ memoryRuns' = [memoryRuns EXCEPT ![r] =
         [stage |-> stage, todo |-> todo,
          entry |-> IF IsAppend(todo)
                    THEN [id |-> made + 1, run |-> r, kind |-> Head(todo), born |-> now,
                          restored |-> FALSE]
                    ELSE None]]

(* The runs that have started, and the others while the bound allows one more. *)
Writers == {r \in MemoryRuns : memoryRuns[r].stage # "new"}
MayWrite(r) == r \in Writers \/ Cardinality(Writers) < memoryBound.runs

Start(r) ==
    /\ memoryRuns[r].todo = <<>> /\ MayWrite(r)
    /\ \E stage \in Stages :
         memoryRuns[r].stage = stage[1] /\ Proceed(r, stage[3], Operation[stage[2]])
    /\ UNCHANGED <<memoryBound, now, redisVars, index, table, persisting, cleaner, restoring,
                   faults, redisLost>>

(* A run that waits for an approval keeps no summary. *)
AwaitApproval(r) ==
    /\ memoryRuns[r].todo = <<>> /\ memoryRuns[r].stage = "executing"
    /\ Proceed(r, "finalizing", <<>>)
    /\ UNCHANGED <<memoryBound, now, redisVars, index, table, persisting, cleaner, restoring,
                   faults, redisLost>>

(* append: the pipeline, then the index, and the task that persists. *)
Push(r) ==
    LET run == memoryRuns[r] IN
    /\ IsAppend(run.todo)
    /\ AppendToList(run.entry, SecondsOf(run.entry.kind))
    /\ index' = IF IsIndexed(run.entry.kind) THEN index \cup {run.entry} ELSE index
    /\ persisting' = IF ShouldPersist(run.entry.kind) THEN persisting \cup {run.entry}
                     ELSE persisting
    /\ Proceed(r, run.stage, Tail(run.todo))
    /\ UNCHANGED <<memoryBound, now, summaries, contexts, eventIndex, table, cleaner, restoring,
                   faults, redisLost>>

(* upsert_run_summary and the two calls of save_run_context. *)
WriteHash(r, write) ==
    LET run == memoryRuns[r] IN
    /\ run.todo # <<>> /\ Head(run.todo) = write
    /\ summaries' = IF write = "summary" THEN summaries \cup {r} ELSE summaries
    /\ contexts' = IF write = "context" THEN contexts \cup {r} ELSE contexts
    /\ eventIndex' = IF write = "event_index"
                     THEN [eventIndex EXCEPT ![EventOf[r]] = @ \cup {r}] ELSE eventIndex
    /\ Proceed(r, run.stage, Tail(run.todo))
    /\ UNCHANGED <<memoryBound, now, lists, expires, index, table, persisting, cleaner,
                   restoring, faults, redisLost>>

(* The call of Redis fails: the rest of the operation is left out. *)
WriteFails(r) ==
    /\ memoryRuns[r].todo # <<>>
    /\ Proceed(r, memoryRuns[r].stage, <<>>)
    /\ UNCHANGED <<memoryBound, now, redisVars, index, table, persisting, cleaner, restoring,
                   faults, redisLost>>

(* The background task of persist_memory_entry, which logs a failure.  A row   *)
(* does not keep what its entry had beside its kind.                           *)
Persisted(entry) ==
    /\ entry \in persisting
    /\ persisting' = persisting \ {entry}
    /\ \/ table' = table \cup {entry}
       \/ UNCHANGED table
    /\ UNCHANGED <<memoryBound, now, redisVars, index, made, memoryRuns, cleaner, restoring,
                   faults, redisLost>>

-----------------------------------------------------------------------------
(* cleanup_expired *)

StartCleaning ==
    /\ cleaner = NoCleaner
    /\ cleaner' = [NoCleaner EXCEPT !.keys = Keys, !.day = now]
    /\ UNCHANGED <<memoryBound, now, redisVars, index, made, table, persisting, memoryRuns,
                   restoring, faults, redisLost>>

(* Mutant: whatever has a limit. *)
DoomedEarly(list, day) ==
    [i \in {i \in DOMAIN list : TierOf[list[i].kind] # "long_term"} |-> list[i]]

(* The entries to remove, each at the place it was read from. *)
Doomed(list, day) == [i \in {i \in DOMAIN list : IsExpired(list[i], day)} |-> list[i]]

(* The next key is read: the shared one first. *)
Scan(key) ==
    /\ key \in cleaner.keys /\ cleaner.doomed = <<>>
    /\ key = "private" => "shared" \notin cleaner.keys
    /\ cleaner' = [cleaner EXCEPT !.keys = @ \ {key}, !.key = key,
                                  !.doomed = Doomed(lists[key], cleaner.day)]
    /\ UNCHANGED <<memoryBound, now, redisVars, index, made, table, persisting, memoryRuns,
                   restoring, faults, redisLost>>

(* LREM removes the first element with the value of the entry, if one is left; *)
(* a list that is empty is no longer a key.                                    *)
RemoveNext ==
    LET places == DOMAIN cleaner.doomed
        entry == cleaner.doomed[Min(places)] IN
    /\ cleaner.doomed # <<>>
    /\ lists' = [lists EXCEPT ![cleaner.key] = RemoveFirst(@, entry)]
    /\ cleaner' = [cleaner EXCEPT !.doomed = Restrict(@, places \ {Min(places)})]
    /\ UNCHANGED <<memoryBound, now, expires, summaries, contexts, eventIndex, index, made,
                   table, persisting, memoryRuns, restoring, faults, redisLost>>

Cleaned ==
    /\ cleaner # NoCleaner /\ cleaner.keys = {} /\ cleaner.doomed = <<>>
    /\ cleaner' = NoCleaner
    /\ UNCHANGED <<memoryBound, now, redisVars, index, made, table, persisting, memoryRuns,
                   restoring, faults, redisLost>>

-----------------------------------------------------------------------------
(* restore_from_persistence: the rows are read, and pushed newest first. *)

StartRestore ==
    /\ restoring = {} /\ table # {} /\ faults > 0
    /\ restoring' = table
    /\ UNCHANGED <<memoryBound, now, redisVars, index, made, table, persisting, memoryRuns,
                   cleaner, faults, redisLost>>

RestoreNext ==
    \E entry \in restoring :
        LET restored == [entry EXCEPT !.restored = TRUE] IN
        /\ \A other \in restoring : other.born <= entry.born
        /\ AppendToList(restored, DefaultTtl)
        /\ index' = IF IsIndexed(entry.kind)
                    THEN {old \in index : old.id # entry.id} \cup {restored} ELSE index
        /\ restoring' = restoring \ {entry}
        /\ UNCHANGED <<memoryBound, now, summaries, contexts, eventIndex, made, table,
                       persisting, memoryRuns, cleaner, faults, redisLost>>

-----------------------------------------------------------------------------
(* A day passes; a key that is due is gone. *)
DayPasses ==
    /\ now < Days
    /\ now' = now + 1
    /\ lists' = [k \in Keys |-> IF expires[k] <= now' THEN <<>> ELSE lists[k]]
    /\ UNCHANGED <<memoryBound, expires, summaries, contexts, eventIndex, index, made, table,
                   persisting, memoryRuns, cleaner, restoring, faults, redisLost>>

(* The process restarts: its runs, its tasks and its index are lost. *)
ProcessRestarts ==
    /\ faults < memoryBound.faults /\ faults' = faults + 1
    /\ index' = {} /\ persisting' = {} /\ cleaner' = NoCleaner /\ restoring' = {}
    /\ memoryRuns' = [r \in MemoryRuns |->
         IF memoryRuns[r].stage = "new" THEN memoryRuns[r]
         ELSE [stage |-> "over", todo |-> <<>>, entry |-> None]]
    /\ UNCHANGED <<memoryBound, now, redisVars, made, table, redisLost>>

(* Redis restarts without what it had. *)
RedisRestarts ==
    /\ faults < memoryBound.faults /\ faults' = faults + 1
    /\ redisLost' = TRUE
    /\ lists' = [k \in Keys |-> <<>>]
    /\ summaries' = {} /\ contexts' = {} /\ eventIndex' = [e \in DOMAIN eventIndex |-> {}]
    /\ UNCHANGED <<memoryBound, now, expires, index, made, table, persisting, memoryRuns,
                   cleaner, restoring>>

MemoryNext ==
    \/ \E r \in MemoryRuns :
         \/ Start(r) \/ AwaitApproval(r) \/ Push(r) \/ WriteFails(r)
         \/ \E write \in {"summary", "context", "event_index"} : WriteHash(r, write)
    \/ \E entry \in persisting : Persisted(entry)
    \/ StartCleaning \/ (\E key \in Keys : Scan(key)) \/ RemoveNext \/ Cleaned
    \/ StartRestore \/ RestoreNext
    \/ DayPasses \/ ProcessRestarts \/ RedisRestarts

MemorySpec == MemoryInit /\ [][MemoryNext]_memoryVars

-----------------------------------------------------------------------------
(* What cleanup_expired removes has expired, although it removes by value what  *)
(* it read before other entries were pushed, trimmed or restored.              *)
CleanupSparesTheLive ==
    [][cleaner.doomed # <<>> /\ cleaner' \notin {cleaner, NoCleaner} =>
         \A k \in Keys : \A entry \in ToSet(lists[k]) \ ToSet(lists'[k]) : IsExpired(entry, now)
      ]_memoryVars

(* A run an event's index names has its context, wherever the process stops    *)
(* between the two calls of save_run_context; only a loss of Redis in between   *)
(* leaves a name without one (get_context_by_event).                           *)
ContextsFound ==
    ~redisLost => \A e \in DOMAIN eventIndex : eventIndex[e] \subseteq contexts
=============================================================================
