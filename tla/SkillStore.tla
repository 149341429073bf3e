----------------------------- MODULE SkillStore -----------------------------
(***************************************************************************)
(* Skills: the store with its two indexes and its table, the runs that      *)
(* inject skills, rate them, revise them and propose new ones, the governor *)
(* that archives them, and a restart.                                       *)
(*                                                                         *)
(* Everything runs on one event loop.  A write changes the store at once;   *)
(* with a vector store it then awaits an embedding before it is indexed, and *)
(* without one it is indexed in the same step.  Rows are written to the      *)
(* table by background tasks, which may fail and end in any order: any of    *)
(* the versions handed to them may be the one that stays.                    *)
(***************************************************************************)
EXTENDS Naturals, Sequences, FiniteSets

CONSTANTS
    Skills,                 \* ids of skills that may be created
    SkillRuns,              \* runs of the workflow
    ArchiveBelow,           \* 0.15, in units of the delta of a use
    DeprecateBelow,         \* 0.3: also the least confidence of an injection
    Proposable,             \* 0.85: the least confidence of a proposal
    Top,                    \* 1.0
    Seeded,                 \* skills that earlier runs may have left
    SkillBounds             \* each with its number of runs, of retrievals of a run, and
                            \* of passes of the governor, deletions and restarts

ASSUME SkillAssumption ==
    /\ {ArchiveBelow, DeprecateBelow, Proposable, Top} \subseteq Nat
    /\ SkillBounds \subseteq [runs : Nat, retrievals : Nat, disturbances : Nat]
    /\ ArchiveBelow <= DeprecateBelow /\ DeprecateBelow <= Proposable /\ Proposable <= Top
    /\ Seeded \subseteq Skills
    /\ IsFiniteSet(SkillRuns)

VARIABLES
    chroma,         \* whether the store has a vector store and an LLM client
    store,          \* _store
    vectors,        \* the ids that have a vector
    copies,         \* the SemanticIndexer: the skill as it was when indexed
    writing,        \* the write of each actor that awaits its embedding
    rows,           \* the versions of a skill that its row may hold
    skillRuns,      \* the progress of each run
    governor,       \* the pass of the governor
    bounds, disturbances,           \* the bounds of this behaviour
    embedFailed, restarted          \* history

skillVars == <<chroma, store, vectors, copies, writing, rows, skillRuns, governor,
               bounds, disturbances, embedFailed, restarted>>

Actors == SkillRuns \cup {"governor", "restore"}

NoSkill == [status |-> "none", conf |-> 0, usage |-> 0, revs |-> {}]
Deleted == [NoSkill EXCEPT !.status = "deleted"]
InMemory(skill) == skill.status \notin {"none", "deleted"}
Exists(s) == InMemory(store[s])

NoWrite == [skill |-> "none", version |-> NoSkill, persist |-> FALSE]
NewRun == [stage |-> "new", left |-> <<>>, tracked |-> <<>>, retrievals |-> 0,
           success |-> FALSE, rated |-> {}]
NoPass == [task |-> "none", left |-> {}, status |-> [s \in Skills |-> "none"],
           conf |-> [s \in Skills |-> 0], skill |-> "none", dups |-> {}, archived |-> {}]

NewSkill(conf) == [NoSkill EXCEPT !.status = "active", !.conf = conf]

SkillInit ==
    /\ chroma \in BOOLEAN
    /\ store = [s \in Skills |-> IF s \in Seeded THEN NewSkill(DeprecateBelow) ELSE NoSkill]
    /\ vectors = IF chroma THEN Seeded ELSE {}
    /\ copies = IF chroma THEN [s \in Skills |-> NoSkill] ELSE store
    /\ writing = [a \in Actors |-> NoWrite]
    /\ rows = [s \in Skills |-> IF Exists(s) THEN {store[s]} ELSE {}]
    /\ skillRuns = [r \in SkillRuns |-> NewRun]
    /\ governor = NoPass
    /\ bounds \in SkillBounds
    /\ disturbances = 0 /\ embedFailed = FALSE /\ restarted = FALSE

Idle(a) == writing[a] = NoWrite

(* _build_skill_row: a confidence of nothing becomes 0.5, which is enough for  *)
(* an injection and not for a proposal.                                        *)
Row(version) == [version EXCEPT !.conf = IF @ = 0 THEN DeprecateBelow ELSE @]

(* create, update, update_confidence: the store changes now.  Only create and *)
(* update persist; the row has the version that was written.                  *)
Write(a, s, version, persist) ==
    /\ store' = [store EXCEPT ![s] = version]
    /\ IF chroma
       THEN /\ writing' = [writing EXCEPT ![a] =
                             [skill |-> s, version |-> version, persist |-> persist]]
            /\ UNCHANGED <<copies, rows>>
       ELSE /\ copies' = [copies EXCEPT ![s] = version]
            /\ rows' = IF persist THEN [rows EXCEPT ![s] = @ \cup {Row(version)}] ELSE rows
            /\ UNCHANGED writing
    /\ UNCHANGED <<bounds, chroma, vectors>>

NoStoreChange == UNCHANGED <<bounds, chroma, store, vectors, copies, writing, rows>>

(* _index_skill, when the embedding is back or has failed: a failure leaves   *)
(* the older vector, and puts the skill into the other index.                 *)
Indexed(a) ==
    LET w == writing[a] IN
    /\ ~Idle(a)
    /\ \/ vectors' = vectors \cup {w.skill} /\ UNCHANGED <<copies, embedFailed>>
       \/ /\ copies' = [copies EXCEPT ![w.skill] = w.version]
          /\ embedFailed' = TRUE
          /\ UNCHANGED vectors
    /\ rows' = IF w.persist THEN [rows EXCEPT ![w.skill] = @ \cup {Row(w.version)}] ELSE rows
    /\ writing' = [writing EXCEPT ![a] = NoWrite]
    /\ UNCHANGED <<bounds, chroma, store, skillRuns, governor, disturbances, restarted>>

-----------------------------------------------------------------------------
(* Retrieval *)

Fit(skill) == skill.status = "active" /\ skill.conf >= DeprecateBelow

(* _semantic_search: with vectors the skill is read from the store again, the *)
(* fallback returns the copy.                                                 *)
Visible(fallback) ==
    IF fallback THEN {<<s, copies[s]>> : s \in {t \in Skills : InMemory(copies[t])}}
    ELSE {<<s, store[s]>> : s \in {t \in vectors : Exists(t)}}

(* Mutant: the hits of the search are taken as they are. *)
InjectableUnchecked(fallback) == {hit[1] : hit \in Visible(fallback)}

(* search and the injector's keyword supplement: the semantic hits that are   *)
(* fit, and from the store any that is.                                       *)
Injectable(fallback) ==
    {hit[1] : hit \in {h \in Visible(fallback) : Fit(h[2])}} \cup {s \in Skills : Fit(store[s])}

(* The query is embedded unless there is no vector store, which may fail. *)
FallsBack(fallback) ==
    /\ ~chroma => fallback
    /\ embedFailed' = (embedFailed \/ (chroma /\ fallback))

(* Mutant: every retrieval is tracked. *)
TrackEvery(tracked, s) == Append(tracked, s)

TrackUsage(tracked, s) ==
    IF \E i \in DOMAIN tracked : tracked[i] = s THEN tracked ELSE Append(tracked, s)

Begun == {r \in SkillRuns : skillRuns[r].stage # "new"}
MayRun(r) == r \in Begun \/ Cardinality(Begun) < bounds.runs

(* One more skill of those a retrieval injects is tracked; ranking and limits *)
(* decide which.                                                              *)
Inject(r) ==
    /\ skillRuns[r].stage \in {"new", "running"}
    /\ MayRun(r)
    /\ skillRuns[r].retrievals < bounds.retrievals
    /\ \E fallback \in BOOLEAN :
         /\ FallsBack(fallback)
         /\ \E s \in Injectable(fallback) :
              skillRuns' = [skillRuns EXCEPT ![r].stage = "running",
                              ![r].retrievals = @ + 1,
                              ![r].tracked = TrackUsage(@, s)]
    /\ NoStoreChange
    /\ UNCHANGED <<governor, disturbances, restarted>>

-----------------------------------------------------------------------------
(* run_finalization_stage *)

(* The run succeeded when it was executed to the end and the critic agreed.    *)
(* Whether it said ok, raised issues and is confident are independent of that. *)
Finish(r) ==
    /\ skillRuns[r].stage \in {"new", "running"}
    /\ MayRun(r)
    /\ \E success \in BOOLEAN :
         skillRuns' = [skillRuns EXCEPT ![r] =
            [@ EXCEPT !.stage = "rating", !.left = skillRuns[r].tracked, !.success = success]]
    /\ NoStoreChange
    /\ UNCHANGED <<governor, disturbances, embedFailed, restarted>>

StatusOf(conf, status) ==
    CASE conf < ArchiveBelow -> "archived"
      [] conf >= ArchiveBelow /\ conf < DeprecateBelow -> "deprecated"
      [] OTHER -> status

LowerConfidence(conf) == IF conf = 0 THEN 0 ELSE conf - 1
RaiseConfidence(conf) == IF conf = Top THEN Top ELSE conf + 1

UpdateConfidence(skill, success) ==
    LET conf == IF success THEN RaiseConfidence(skill.conf) ELSE LowerConfidence(skill.conf) IN
    [skill EXCEPT !.conf = conf, !.usage = @ + 1, !.status = StatusOf(conf, @)]

(* update_after_execution, the next tracked skill; one that is gone is left out. *)
Rate(r) ==
    LET run == skillRuns[r]
        s == Head(run.left) IN
    /\ run.stage = "rating" /\ run.left # <<>> /\ Idle(r)
    /\ skillRuns' = [skillRuns EXCEPT ![r].left = Tail(@),
                                      ![r].rated = IF Exists(s) THEN @ \cup {s} ELSE @]
    /\ IF Exists(s) THEN Write(r, s, UpdateConfidence(store[s], run.success), FALSE)
       ELSE NoStoreChange
    /\ UNCHANGED <<governor, disturbances, embedFailed, restarted>>

(* clear_tracking; without a complaint of the critic nothing is revised. *)
Rated(r) ==
    /\ skillRuns[r].stage = "rating" /\ skillRuns[r].left = <<>> /\ Idle(r)
    /\ \E complaint \in BOOLEAN :
         skillRuns' = [skillRuns EXCEPT ![r].stage = "revising",
                         ![r].left = IF complaint THEN skillRuns[r].tracked ELSE <<>>]
    /\ NoStoreChange
    /\ UNCHANGED <<governor, disturbances, embedFailed, restarted>>

Revised(skill, r) == [skill EXCEPT !.revs = @ \cup {r}]

(* check_and_propose_revision and apply_revision: what is read is written in  *)
(* the same step.                                                             *)
ApplyRevision(r) ==
    LET s == Head(skillRuns[r].left) IN
    /\ skillRuns[r].stage = "revising" /\ skillRuns[r].left # <<>> /\ Idle(r)
    /\ skillRuns' = [skillRuns EXCEPT ![r].left = Tail(@)]
    /\ IF Exists(s) THEN Write(r, s, Revised(store[s], r), TRUE) ELSE NoStoreChange
    /\ UNCHANGED <<governor, disturbances, embedFailed, restarted>>

(* The update of a similar skill: the history is the one of the hit. *)
ProposedOver(hit, existing, conf, r) ==
    [existing EXCEPT !.conf = conf, !.revs = hit.revs \cup {r}]

(* propose of a run the critic is not sure about, or that only failed writes. *)
NothingProposed(r) ==
    /\ skillRuns[r].stage = "revising" /\ skillRuns[r].left = <<>> /\ Idle(r)
    /\ skillRuns' = [skillRuns EXCEPT ![r].stage = "over"]
    /\ NoStoreChange
    /\ UNCHANGED <<governor, disturbances, embedFailed, restarted>>

(* propose of any other: the summary and the embedding have been awaited; the  *)
(* best hit of any status is updated, and without one a skill is created.      *)
Propose(r) ==
    /\ skillRuns[r].stage = "revising" /\ skillRuns[r].left = <<>> /\ Idle(r)
    /\ skillRuns' = [skillRuns EXCEPT ![r].stage = "over"]
    /\ \E fallback \in BOOLEAN, conf \in Proposable .. Top :
         /\ FallsBack(fallback)
         /\ \/ \E hit \in Visible(fallback) :
                 /\ Exists(hit[1])
                 /\ Write(r, hit[1], ProposedOver(hit[2], store[hit[1]], conf, r), TRUE)
            \/ \E s \in Skills : store[s] = NoSkill /\ Write(r, s, NewSkill(conf), TRUE)
    /\ UNCHANGED <<governor, disturbances, restarted>>

-----------------------------------------------------------------------------
(* The governor *)

Disturb == disturbances < bounds.disturbances /\ disturbances' = disturbances + 1

(* The status a cleanup gives a skill, or the one it has. *)
CleanStatus(skill, expired) ==
    CASE skill.conf < ArchiveBelow \/ (expired /\ skill.conf < DeprecateBelow) -> "archived"
      [] expired /\ skill.conf >= DeprecateBelow /\ skill.status = "active" -> "deprecated"
      [] OTHER -> skill.status

(* cleanup_stale_skills lists copies of the skills, and what it will make of   *)
(* each is settled by them and the time now.                                   *)
StartCleanup ==
    /\ governor.task = "none" /\ Disturb
    /\ \E expired \in SUBSET {s \in Skills : Exists(s)} :
         LET due == {s \in Skills : Exists(s) /\ CleanStatus(store[s], s \in expired) # store[s].status} IN
         governor' = [NoPass EXCEPT !.task = "cleanup", !.left = due,
                        !.status = [s \in Skills |-> IF s \in due THEN CleanStatus(store[s], s \in expired)
                                                     ELSE "none"]]
    /\ NoStoreChange
    /\ UNCHANGED <<skillRuns, embedFailed, restarted>>

(* The next skill of a cleanup; an update of a skill that is gone raises. *)
Clean(s) ==
    /\ governor.task = "cleanup" /\ Idle("governor") /\ s \in governor.left
    /\ governor' = [governor EXCEPT !.left = @ \ {s}, !.status[s] = "none"]
    /\ IF Exists(s)
       THEN Write("governor", s, [store[s] EXCEPT !.status = governor.status[s]], TRUE)
       ELSE NoStoreChange
    /\ UNCHANGED <<skillRuns, disturbances, embedFailed, restarted>>

(* merge_duplicate_skills compares copies of the active skills, in turn, with  *)
(* what is similar to them now.                                                *)
StartMerge ==
    /\ governor.task = "none" /\ Disturb
    /\ LET active == {s \in Skills : store[s].status = "active"} IN
       governor' = [NoPass EXCEPT !.task = "merge", !.left = active,
                      !.conf = [s \in Skills |-> IF s \in active THEN store[s].conf ELSE 0]]
    /\ NoStoreChange
    /\ UNCHANGED <<skillRuns, embedFailed, restarted>>

(* find_similar: hits of any status.  A skill archived by this pass is skipped. *)
FindDuplicates(s) ==
    /\ governor.task = "merge" /\ governor.skill = "none" /\ Idle("governor")
    /\ s \in governor.left
    /\ \E fallback \in BOOLEAN :
         /\ FallsBack(fallback)
         /\ s \notin governor.archived
         /\ \E dups \in SUBSET {<<hit[1], hit[2].conf>> : hit \in Visible(fallback)} :
              governor' = [governor EXCEPT !.left = @ \ {s}, !.skill = s,
                             !.dups = {dup \in dups : dup[1] # s}]
    /\ NoStoreChange
    /\ UNCHANGED <<skillRuns, disturbances, restarted>>

(* The less confident of the two is archived, the skill itself on a tie. *)
Loser(s, conf, dup) == IF dup[2] >= conf THEN s ELSE dup[1]

Merge ==
    \E dup \in governor.dups :
        LET lost == Loser(governor.skill, governor.conf[governor.skill], dup)
            archives == dup[1] \notin governor.archived /\ Exists(lost) IN
        /\ governor.task = "merge" /\ Idle("governor")
        /\ governor' = [governor EXCEPT !.dups = @ \ {dup},
                          !.archived = IF archives THEN @ \cup {lost} ELSE @]
        /\ IF archives
           THEN Write("governor", lost, [store[lost] EXCEPT !.status = "archived"], TRUE)
           ELSE NoStoreChange
        /\ UNCHANGED <<skillRuns, disturbances, embedFailed, restarted>>

(* The next skill, or the end of the pass. *)
NextSkill ==
    /\ governor.task # "none" /\ governor.dups = {} /\ Idle("governor")
    /\ \/ governor.skill # "none" /\ governor' = [governor EXCEPT !.skill = "none"]
       \/ /\ governor.skill = "none"
          /\ governor.left \subseteq governor.archived
          /\ governor' = NoPass
    /\ NoStoreChange
    /\ UNCHANGED <<skillRuns, disturbances, embedFailed, restarted>>

-----------------------------------------------------------------------------
(* delete removes the skill from memory and from the indexes, not its row. *)
Delete(s) ==
    /\ Exists(s) /\ Disturb
    /\ store' = [store EXCEPT ![s] = Deleted]
    /\ copies' = [copies EXCEPT ![s] = NoSkill]
    /\ vectors' = vectors \ {s}
    /\ UNCHANGED <<bounds, chroma, writing, rows, skillRuns, governor, embedFailed, restarted>>

(* The process ends: its memory, its tasks and its runs are lost. *)
Restart ==
    /\ Disturb
    /\ store' = [s \in Skills |-> IF store[s] = NoSkill THEN NoSkill ELSE Deleted]
    /\ copies' = [s \in Skills |-> NoSkill]
    /\ writing' = [a \in Actors |-> NoWrite]
    /\ skillRuns' = [r \in SkillRuns |-> IF skillRuns[r].stage = "new" THEN NewRun
                                         ELSE [NewRun EXCEPT !.stage = "over"]]
    /\ governor' = NoPass
    /\ restarted' = TRUE
    /\ UNCHANGED <<bounds, chroma, vectors, rows, embedFailed>>

(* restore_from_persistence, the next row. *)
Restore(s) ==
    /\ restarted /\ Idle("restore")
    /\ store[s] = Deleted
    /\ \E version \in rows[s] : Write("restore", s, version, FALSE)
    /\ UNCHANGED <<skillRuns, governor, disturbances, embedFailed, restarted>>

RunStep(r) == Inject(r) \/ Finish(r) \/ Rate(r) \/ Rated(r) \/ ApplyRevision(r)
              \/ NothingProposed(r) \/ Propose(r)

SkillNext ==
    \/ \E r \in SkillRuns : RunStep(r)
    \/ \E a \in Actors : Indexed(a)
    \/ \E s \in Skills : Clean(s) \/ FindDuplicates(s) \/ Delete(s) \/ Restore(s)
    \/ StartCleanup \/ StartMerge \/ Merge \/ NextSkill \/ Restart

SkillSpec == SkillInit /\ [][SkillNext]_skillVars

-----------------------------------------------------------------------------
(* No skill is active with a confidence below the threshold of deprecation,   *)
(* in memory or in a row, although the governor decides on old copies,     *)
(* proposals raise the confidence of retired skills and a restart brings back  *)
(* what was last persisted (update_confidence, SkillGovernor, restore).        *)
LowIsRetired ==
    \A s \in Skills : \A skill \in {store[s]} \cup rows[s] :
        skill.status = "active" => skill.conf >= DeprecateBelow

(* A run that used a skill counts once for it, and every run counts, however   *)
(* often the run retrieved it and whoever else writes it meanwhile             *)
(* (track_usage, update_after_execution).                                      *)
UsesCountedOnce ==
    ~restarted =>
      /\ \A s \in Skills :
           Exists(s) => store[s].usage = Cardinality({r \in SkillRuns : s \in skillRuns[r].rated})
      /\ \A r \in SkillRuns : skillRuns[r].stage \in {"revising", "over"} =>
           \A i \in DOMAIN skillRuns[r].tracked :
               Exists(skillRuns[r].tracked[i]) => skillRuns[r].tracked[i] \in skillRuns[r].rated

(* A revision that was applied stays in the history of the skill, as long as   *)
(* no embedding failed: then a proposal may start from an older copy.          *)
RevisionsKept ==
    \A s \in Skills :
        Exists(s) /\ InMemory(store'[s]) /\ ~embedFailed' /\ ~restarted'
          => store[s].revs \subseteq store'[s].revs

(* What is injected is a skill of the store that is active and confident at    *)
(* that moment; again unless an embedding failed, which leaves two indexes     *)
(* that disagree (search, _supplement_with_keyword_fallback).                  *)
InjectedAreFit ==
    \A r \in SkillRuns :
        Len(skillRuns'[r].tracked) > Len(skillRuns[r].tracked) /\ ~embedFailed'
          => Fit(store[skillRuns'[r].tracked[Len(skillRuns'[r].tracked)]])

(* No step loses a revision, injects a skill that is unfit or leaves a low one active. *)
SkillsStaySound == [][RevisionsKept /\ InjectedAreFit /\ LowIsRetired']_skillVars
=============================================================================
