---------------------------- MODULE MemoryReading ----------------------------
(***************************************************************************)
(* What the readers of the memory are given: the hits of a plan, what a      *)
(* resumed run takes along, and the memory page of a task.                   *)
(*                                                                         *)
(* All of them read the lists as the runs, the cleanup, a restore and the    *)
(* restarts have left them: newest push first, perhaps out of order, perhaps *)
(* with an entry twice, and with the entries of every run.  The runs belong   *)
(* to one session, and "private" is the list of one agent.                   *)
(***************************************************************************)
EXTENDS MemoryStore, OrderedItems

CONSTANTS
    HitLimit,               \* the hits of a plan, 5
    PageLimit               \* the items of a page, 30 unless the caller says

ASSUME ReadingAssumption == {HitLimit, PageLimit} \subseteq Nat \ {0}

First(n, seq) == SubSeq(seq, 1, IF Len(seq) < n THEN Len(seq) ELSE n)
AtLeast(least, n) == IF n < least THEN least ELSE n
AtMost(most, n) == IF n > most THEN most ELSE n
Ids(entries) == {entries[i].id : i \in DOMAIN entries}

(* list_recent: twice the limit is read, whoever wrote it, and then filtered. *)
ListRecent(key, runs, kinds, limit) ==
    LET read == First(2 * limit, lists[key]) IN
    First(limit, ItemsAt(read, {i \in DOMAIN read : read[i].run \in runs /\ read[i].kind \in kinds}))

DedupeMemoryHits(hits) ==
    ItemsAt(hits, {i \in DOMAIN hits : \A j \in 1 .. (i - 1) : hits[j].id # hits[i].id})

-----------------------------------------------------------------------------
(* retrieve_for_planning *)

RecentLimit == AtLeast(1, HitLimit - (IF HitLimit <= 2 THEN 1 ELSE 2))
RecentHits ==
    ListRecent("shared", MemoryRuns, {"plan", "final", "intent_disambiguation", "approval"},
               RecentLimit)

(* Mutant: the index is asked for as many as a plan may have. *)
SemanticLimitWhole(recent) == HitLimit

SemanticLimit(recent) == AtLeast(1, HitLimit - AtMost(RecentLimit, Len(recent)))

(* What the index may find: it forgets nothing until the process ends, and what  *)
(* has any likeness to the question, and how much, is open.                     *)
SearchSemantic(limit) == {found \in SUBSET index : Cardinality(found) <= limit}

Candidates(recent, found) ==
    First(AtLeast(6, 2 * HitLimit), DedupeMemoryHits(recent \o SetToSeq(found)))

(* annotate_memory_hits_for_planning scores the candidates; those below the      *)
(* threshold are not given to the plan.                                         *)
HitsOf(candidates, relevant) ==
    First(HitLimit, ItemsAt(candidates, {i \in DOMAIN candidates : candidates[i].id \in relevant}))

-----------------------------------------------------------------------------
(* Reading back one run *)

(* The board reads twice as many entries as it shows, and at least 20. *)
SharedBoard(runs, limit) ==
    First(limit, ListRecent("shared", runs, DOMAIN TierOf, AtLeast(20, 2 * limit)))
PrivateState(runs, limit) == ListRecent("private", runs, DOMAIN TierOf, limit)

(* build_resume_payload: nothing without the context of the run. *)
ResumedShared == 50
ResumedBoard == 30
ResumedPrivate == 10

ResumePayload(r) ==
    IF r \notin contexts THEN None
    ELSE [run     |-> r,
          memory  |-> ListRecent("shared", {r}, DOMAIN TierOf, ResumedShared),
          board   |-> SharedBoard({r}, ResumedBoard),
          private |-> PrivateState({r}, ResumedPrivate),
          summary |-> r \in summaries]

(* retrieve_for_planning: what a plan is given.  It asks for the run of the task,  *)
(* which no task names, and so reads what all runs of the session have written;   *)
(* private memory unless the task says it is disabled.                            *)
PlanningMemory(found, relevant, private) ==
    [hits     |-> HitsOf(Candidates(RecentHits, found), relevant),
     board    |-> SharedBoard(MemoryRuns, AtLeast(6, 2 * HitLimit)),
     private  |-> IF private THEN PrivateState(MemoryRuns, 3) ELSE <<>>]

(* What it is given when that fails. *)
DegradedMemory == [hits |-> <<>>, board |-> <<>>, private |-> <<>>]

(* merge_resume_memory_into_planning_memory: the memory of the resumed run is    *)
(* added to the hits as it is; its board replaces that of the plan unless it is   *)
(* empty, and its private memory always does, being a record of every agent.     *)
WithResume(planning, request, private) ==
    IF request = None THEN planning
    ELSE [planning EXCEPT
            !.hits    = @ \o request.memory,
            !.board   = IF request.board = <<>> THEN @ ELSE request.board,
            !.private = IF private THEN request.private ELSE @]

(* apply_resume_context puts what was resumed into the task, and                *)
(* extend_orchestrator_context and the executors hand it on, whatever            *)
(* private_memory_enabled says: what the orchestrator and the agents are given.   *)
ContextOf(planning, request, private) ==
    [planning |-> WithResume(planning, request, private), resumed |-> request]

(* _map_memory_entry: texts apart, what an item of a page says. *)
Item(entry) ==
    [id |-> entry.id, run |-> entry.run, createdAt |-> entry.born,
     scope |-> IF KeyOf(entry.kind) = "private" THEN "private" ELSE "shared",
     changeType |-> IF entry.kind \in {"working_memory", "private_task_state"}
                    THEN "updated" ELSE "created"]

PrivateLimit == AtLeast(2, AtMost(6, PageLimit))

(* The entries of both lists, each of them once. *)
EntriesOfBoth(runs) ==
    LET entries == DedupeMemoryHits(ListRecent("shared", runs, DOMAIN TierOf, PageLimit)
                                    \o PrivateState(runs, PrivateLimit)) IN
    [i \in DOMAIN entries |-> Item(entries[i])]

(* _collect_memory_items: newest first, as many as a page takes. *)
CollectMemoryItems(runs) ==
    LET items == EntriesOfBoth(runs) IN
    First(PageLimit, SortedBy(items, [i \in DOMAIN items |-> 0 - items[i].createdAt]))

-----------------------------------------------------------------------------
(* A plan is given each memory once, within its limit, and every one that is      *)
(* relevant among what was read: the hits the index returns beside the recent     *)
(* ones never push one of those out, although both may hold the same entry and    *)
(* a restored list holds it twice (retrieve_for_planning).                        *)
RelevantReachThePlan ==
    LET recent == RecentHits IN
    \A found \in SearchSemantic(SemanticLimit(recent)) :
      LET candidates == Candidates(recent, found)
          read == Ids(recent) \cup {entry.id : entry \in found} IN
      \A relevant \in SUBSET read :
        LET hits == HitsOf(candidates, relevant) IN
        /\ Len(hits) <= HitLimit /\ Cardinality(Ids(hits)) = Len(hits)
        /\ HitLimit > 1 => Ids(hits) = relevant

OwnPlaces(r, key) == {i \in DOMAIN lists[key] : lists[key][i].run = r}
OwnIds(r, key) == {lists[key][i].id : i \in OwnPlaces(r, key)}

(* Twice the limit is the whole list, and the run has no more in it than the limit. *)
AllRead(r, key, limit) == Len(lists[key]) <= 2 * limit /\ Cardinality(OwnPlaces(r, key)) <= limit

(* The page of a task shows entries of its run only, each once and newest first,  *)
(* whatever a restore or another run pushed; while the lists are no longer than   *)
(* what is read and the run has no more than a page shows, all that the run has   *)
(* in them is there, and so it is of what a resumed run is given                  *)
(* (_collect_memory_items, build_resume_payload).                                *)
ReadersSeeTheRun ==
    \A r \in MemoryRuns :
      LET page == CollectMemoryItems({r})
          own == OwnIds(r, "shared") \cup OwnIds(r, "private") IN
      /\ \A i \in DOMAIN page : page[i].run = r
      /\ \A i, j \in DOMAIN page : i < j => /\ page[i].id # page[j].id
                                            /\ page[i].createdAt >= page[j].createdAt
      /\ AllRead(r, "shared", PageLimit) /\ AllRead(r, "private", PrivateLimit)
         /\ Cardinality(own) <= PageLimit => Ids(page) = own
      /\ r \in contexts /\ AllRead(r, "shared", ResumedShared) /\ AllRead(r, "private", ResumedPrivate) =>
           Ids(ResumePayload(r).memory \o ResumePayload(r).private) = own

(* What a plan was given, what it and the run are given with what was resumed. *)
Remembers(r, private, plan) ==
    LET given  == ContextOf(plan, ResumePayload(r), private)
        merged == given.planning
        shared == OwnIds(r, "shared")
        Of(entries) == {entries[i].run : i \in DOMAIN entries} IN
    /\ Ids(plan.hits) \subseteq Ids(merged.hits)
    /\ AllRead(r, "shared", ResumedShared) => shared \subseteq Ids(merged.hits)
    /\ AllRead(r, "shared", ResumedBoard) /\ shared # {} => Ids(merged.board) = shared
    /\ \/ Of(merged.board) \subseteq {r}
       \/ merged.board = plan.board /\ given.resumed.board = <<>>
    /\ IF private THEN Of(merged.private) \subseteq {r} ELSE merged.private = <<>>
    /\ Of(given.resumed.private) \subseteq {r}
    /\ AllRead(r, "private", ResumedPrivate) =>
         Ids(given.resumed.private) = OwnIds(r, "private")

(* A resumed run remembers: what its plan was given without the resume it still    *)
(* is, also if that is nothing because the memory failed, and while all is read,   *)
(* all that the resumed run has is there too, among the hits and, up to what a      *)
(* board shows, on the board.  Of another run there is something on the board only  *)
(* if the resumed run has nothing to show, and nothing in the private memory.  With *)
(* private memory disabled the plan shows none; what was resumed holds the private  *)
(* memory of that run all the same (merge_resume_memory_into_planning_memory,       *)
(* apply_resume_context).                                                          *)
ResumedPlansRemember ==
    \A r \in contexts, private \in BOOLEAN :
      \A plan \in {DegradedMemory, PlanningMemory({}, Ids(RecentHits), private)} :
        Remembers(r, private, plan)

(* Neither planning nor reading back is misled by how the lists were written. *)
ReadersAreServed == RelevantReachThePlan /\ ReadersSeeTheRun /\ ResumedPlansRemember
=============================================================================
