----------------------------- MODULE MessageBus -----------------------------
(***************************************************************************)
(* Events on the message bus: how a system event is accepted, moderated and *)
(* recorded (start_from_event), and how a conflict is arbitrated.           *)
(*                                                                         *)
(* All calls share one event loop.  A call keeps the loop until it suspends, *)
(* so `holder' is the call that is being run.  publish_event suspends only  *)
(* inside a subscriber that awaits (Awaited), and appends to the history    *)
(* after its subscribers have returned.                                     *)
(***************************************************************************)
EXTENDS Naturals, Sequences, FiniteSets

CONSTANTS
    Calls,          \* calls of start_from_event and of arbitrate_conflict
    EventIds,       \* ids of events that callers bring, and may bring again
    EventType,      \* the type of each of them
    EventLinks,     \* the events that each of them says it belongs to
    Conflicts,      \* the conflict types a refinement detects
    Awaited,        \* event types with a subscriber that awaits
    AgentOrder,     \* names of the agents, in alphabetical order
    CandidateSets,  \* sets of agents that may stand for election
    NoCall, NoEvent, NoAgent

BusAgents == {AgentOrder[i] : i \in DOMAIN AgentOrder}
BusTypes == {"task_created", "tool_failed", "tool_finished", "risk_breach_detected",
             "approval_required", "human_feedback_received", "cron_triggered",
             "conflict_detected", "moderator_decision", "arbitration_resolved", "invalid"}

ASSUME BusAssumption ==
    /\ EventType \in [EventIds -> BusTypes \ {"moderator_decision", "arbitration_resolved"}]
    /\ EventLinks \in [EventIds -> [correlation : EventIds \cup {NoEvent},
                                   mentions : SUBSET EventIds]]
    /\ Calls \cap EventIds = {}
    /\ \A c \in Calls : {<<c, "decision">>, <<c, "resolved">>} \cap (Calls \cup EventIds) = {}
    /\ CandidateSets \subseteq SUBSET BusAgents
    /\ NoCall \notin Calls
    /\ NoEvent \notin Calls \cup EventIds
    /\ NoAgent \notin BusAgents

VARIABLES
    history,        \* _events: what was published, in the order of recording
    calls,          \* the progress of each call
    holder,         \* the call the event loop is running, or NoCall
    snapshot        \* positions of the history in the run trace of each call

busVars == <<history, calls, holder, snapshot>>

(* An event an agent or caller brings has an id of its own; the bus gives   *)
(* one to what the gateway, cron and the moderator emit, which is named     *)
(* here after the call that emits it.                                       *)
Event(id, type, cause, run) == [id |-> id, type |-> type, cause |-> cause, run |-> run]

NewCall == [kind |-> "none", stage |-> "new", source |-> Event(NoEvent, "invalid", NoEvent, NoCall),
            candidates |-> {}, conflict |-> "", outbox |-> <<>>, next |-> "done",
            agent |-> NoAgent]

BusInit ==
    /\ history = <<>>
    /\ calls = [c \in Calls |-> NewCall]
    /\ holder = NoCall
    /\ snapshot = [c \in Calls |-> {}]

KnownEvent(id) == \E i \in DOMAIN history : history[i].id = id

(* correlation_id: a caller's event brings its own, and the moderator hands   *)
(* on that of the event it decides about, or that event's id.                *)
CorrelationOf(event) ==
    CASE event.id \in EventIds -> EventLinks[event.id].correlation
      [] /\ event.id \notin EventIds /\ event.cause \in EventIds
         /\ EventLinks[event.cause].correlation # NoEvent -> EventLinks[event.cause].correlation
      [] OTHER -> event.cause

(* causation_id and payload.event_id of an event that a caller brings; the    *)
(* moderator puts the id of the event it decides about into both (cause).     *)
MentionsOf(event) == IF event.id \in EventIds THEN EventLinks[event.id].mentions ELSE {}

(* _is_related_event: what carries the id of the run, the root event, and     *)
(* what correlates with it, was caused by it or mentions it.                  *)
IsRelated(event, root, run) ==
    \/ event.run = run
    \/ event.id = root
    \/ CorrelationOf(event) = root
    \/ event.cause = root
    \/ root \in MentionsOf(event)

Related(c) == {i \in DOMAIN history : IsRelated(history[i], calls[c].source.id, c)}

-----------------------------------------------------------------------------
(* The moderator *)

FirstAgent(S) == AgentOrder[CHOOSE i \in DOMAIN AgentOrder :
                            AgentOrder[i] \in S /\ \A j \in 1 .. i - 1 : AgentOrder[j] \notin S]

(* The preferences of _apply_rules for an event type and a conflict type,   *)
(* in the order they are tried; <<>> when no rule applies.                  *)
Preferred(type, conflict) ==
    CASE type = "approval_required" \/ conflict = "approval_priority_conflict" -> <<"human", "critic">>
      [] type = "risk_breach_detected" -> <<"risk_analyst", "critic">>
      [] type = "tool_failed" -> <<"system_engineer", "critic">>
      [] type = "task_created" -> <<"orchestrator">>
      [] type = "human_feedback_received" -> <<"critic", "orchestrator">>
      [] conflict = "tool_selection_conflict" -> <<"system_engineer">>
      [] conflict = "conclusion_conflict" -> <<"critic">>
      [] OTHER -> <<>>

(* The agents a decision may go to.  Without a rule the tie breaker, when   *)
(* there is one, may name any candidate, and the first one is the fallback. *)
PreferAgent(prefs, cands) ==
    LET usable == {i \in DOMAIN prefs : prefs[i] \in cands} IN
    IF usable = {} THEN FirstAgent(cands)
    ELSE prefs[CHOOSE i \in usable : \A j \in usable : i <= j]

Selectable(type, conflict, cands) ==
    IF cands = {} THEN {"human"}
    ELSE IF Preferred(type, conflict) = <<>> /\ Cardinality(cands) > 1 THEN cands
    ELSE {PreferAgent(Preferred(type, conflict), cands)}

(* detect_conflict and _map_conflict_event. *)
ConflictEvent(conflict) ==
    CASE conflict = "approval_priority_conflict" -> "approval_required"
      [] conflict = "tool_selection_conflict" -> "tool_finished"
      [] OTHER -> "conflict_detected"

-----------------------------------------------------------------------------
(* start_from_event up to the lookup in the history: an invalid event ends  *)
(* the call, a known one is not published again but goes on.                *)
AcceptSystemEvent(c, id, type, cands) ==
    LET event == Event(id, type, NoEvent, NoCall) IN
    /\ holder = NoCall
    /\ calls[c].stage = "new"
    /\ calls' = [calls EXCEPT ![c] =
         [@ EXCEPT !.kind = "start", !.source = event, !.candidates = cands, !.next = "reserve",
                   !.outbox = IF KnownEvent(id) THEN <<>> ELSE <<event>>,
                   !.stage = CASE type = "invalid" -> "done"
                               [] type # "invalid" /\ KnownEvent(id) -> "reserve"
                               [] OTHER -> "publish"]]
    /\ holder' = IF type = "invalid" THEN NoCall ELSE c
    /\ snapshot' = IF type # "invalid" THEN snapshot
                   ELSE [snapshot EXCEPT ![c] =
                           {i \in DOMAIN history : IsRelated(history[i], id, c)}]
    /\ UNCHANGED history

FromCaller(c) ==
    \E id \in EventIds, cands \in CandidateSets :
        AcceptSystemEvent(c, id, EventType[id], cands)

(* The gateway and cron make an event with an id of its own. *)
FromGateway(c) ==
    \E type \in {"risk_breach_detected", "approval_required", "task_created"} :
        AcceptSystemEvent(c, c, type, BusAgents \ {"human"})

FromCron(c) == AcceptSystemEvent(c, c, "cron_triggered", BusAgents \ {"human"})

(* arbitrate_conflict: publishes the conflict's event and asks the moderator. *)
ArbitrateConflict(c) ==
    /\ holder = NoCall
    /\ calls[c].stage = "new"
    /\ \E conflict \in Conflicts, cands \in CandidateSets \ {{}} :
         LET event == Event(c, ConflictEvent(conflict), NoEvent, NoCall) IN
         calls' = [calls EXCEPT ![c] =
            [@ EXCEPT !.kind = "arbitrate", !.source = event, !.candidates = cands,
                      !.conflict = conflict, !.outbox = <<event>>, !.stage = "publish",
                      !.next = "moderate"]]
    /\ holder' = c
    /\ UNCHANGED <<history, snapshot>>

(* publish_event: the subscribers are notified first ...                    *)
NotifyEventSubscribers(c) ==
    /\ holder = c
    /\ calls[c].stage = "publish"
    /\ Head(calls[c].outbox).type \in Awaited
    /\ calls' = [calls EXCEPT ![c].stage = "notified"]
    /\ holder' = NoCall
    /\ UNCHANGED <<history, snapshot>>

(* ... and the event is recorded when they have returned, whatever they raise. *)
RecordEvent(c) ==
    /\ \/ holder = c /\ calls[c].stage = "publish" /\ Head(calls[c].outbox).type \notin Awaited
       \/ holder = NoCall /\ calls[c].stage = "notified"
    /\ history' = Append(history, Head(calls[c].outbox))
    /\ calls' = [calls EXCEPT ![c].outbox = Tail(@),
                              ![c].stage = IF Len(calls[c].outbox) = 1 THEN calls[c].next
                                           ELSE "publish"]
    /\ holder' = c
    /\ UNCHANGED snapshot

(* evaluate_and_reserve, whose verdict is ProactiveBudget's subject. *)
Reserve(c) ==
    /\ holder = c
    /\ calls[c].stage = "reserve"
    /\ \/ /\ calls' = [calls EXCEPT ![c].stage = "moderate"]
          /\ UNCHANGED <<holder, snapshot>>
       \/ /\ calls' = [calls EXCEPT ![c].stage = "done"]
          /\ snapshot' = [snapshot EXCEPT ![c] = Related(c)]
          /\ holder' = NoCall
    /\ UNCHANGED history

(* A tie breaker is asked over the network. *)
AskTieBreaker(c) ==
    /\ holder = c
    /\ calls[c].stage = "moderate"
    /\ Cardinality(Selectable(calls[c].source.type, calls[c].conflict, calls[c].candidates)) > 1
    /\ calls' = [calls EXCEPT ![c].stage = "tie"]
    /\ holder' = NoCall
    /\ UNCHANGED <<history, snapshot>>

(* What is decided now: the tie breaker's answer when it was asked, else the *)
(* rule's agent or the first candidate.                                     *)
Choices(call) ==
    LET usable == Selectable(call.source.type, call.conflict, call.candidates) IN
    IF call.stage = "tie" \/ Cardinality(usable) = 1 THEN usable ELSE {FirstAgent(usable)}

(* Mutant: the resolution before the decision. *)
AnnouncedBackwards(decision, resolved, conflict) ==
    IF conflict = "" THEN <<decision>> ELSE <<resolved, decision>>

(* The events that announce a decision: the resolution of a conflict comes last. *)
Announcements(decision, resolved, conflict) ==
    IF conflict = "" THEN <<decision>> ELSE <<decision, resolved>>

(* moderate: the decision and its announcements. *)
Moderate(c) ==
    LET call == calls[c]
        run == IF call.kind = "start" THEN c ELSE NoCall
        decision == Event(<<c, "decision">>, "moderator_decision", call.source.id, run)
        resolved == Event(<<c, "resolved">>, "arbitration_resolved", call.source.id, run) IN
    /\ \/ holder = c /\ call.stage = "moderate"
       \/ holder = NoCall /\ call.stage = "tie"
    /\ \E a \in Choices(call) :
         calls' = [calls EXCEPT ![c].agent = a, ![c].stage = "publish",
                     ![c].outbox = Announcements(decision, resolved, call.conflict),
                     ![c].next = IF call.kind = "start" THEN "run" ELSE "done"]
    /\ holder' = c
    /\ UNCHANGED <<history, snapshot>>

(* The run suspends; arbitrate_conflict returns. *)
Suspend(c) ==
    /\ holder = c
    /\ calls[c].stage \in {"run", "done"}
    /\ calls' = [calls EXCEPT ![c].stage = IF @ = "run" THEN "running" ELSE @]
    /\ holder' = NoCall
    /\ UNCHANGED <<history, snapshot>>

(* The run has returned: its trace is put together and its slot released. *)
FinishRun(c) ==
    /\ holder = NoCall
    /\ calls[c].stage = "running"
    /\ calls' = [calls EXCEPT ![c].stage = "done"]
    /\ snapshot' = [snapshot EXCEPT ![c] = Related(c)]
    /\ UNCHANGED <<history, holder>>

BusNext ==
    \E c \in Calls :
        \/ FromCaller(c) \/ FromGateway(c) \/ FromCron(c) \/ ArbitrateConflict(c)
        \/ NotifyEventSubscribers(c) \/ RecordEvent(c) \/ Reserve(c)
        \/ AskTieBreaker(c) \/ Moderate(c) \/ Suspend(c) \/ FinishRun(c)

BusSpec == BusInit /\ [][BusNext]_busVars

-----------------------------------------------------------------------------
(* An event id is in the history once, although its lookup and its recording *)
(* are apart: only a subscriber that awaits can let a second delivery in      *)
(* between (_accept_system_event, publish_event).                             *)
RecordedOnceUnlessAwaited ==
    \A i, j \in DOMAIN history :
        i # j /\ history[i].id = history[j].id => history[i].type \in Awaited

(* The history can be replayed: a moderator's event comes after the event    *)
(* that caused it, and an arbitration after its own decision, however the     *)
(* calls interleave.                                                          *)
CausesComeFirst ==
    \A i \in DOMAIN history :
        /\ history[i].cause # NoEvent =>
              \E j \in 1 .. i - 1 : history[j].id = history[i].cause
        /\ history[i].type = "arbitration_resolved" =>
              \E j \in 1 .. i - 1 : /\ history[j].type = "moderator_decision"
                                    /\ history[j].cause = history[i].cause

(* What the caller of an event, or of the event it was caused by, tied to the  *)
(* root.                                                                     *)
TiedByCaller(event, root) ==
    \E id \in EventIds \cap {event.id, event.cause} :
        \/ EventLinks[id].correlation = root
        \/ id = event.id /\ root \in EventLinks[id].mentions

(* The run trace of a run holds its event and the decision that routed it,    *)
(* and of other events only what their callers tied to it, although           *)
(* deliveries of one event share it (get_related_event_history).              *)
SnapshotTellsItsRun ==
    \A c \in Calls :
        calls[c].stage = "done" /\ calls[c].kind = "start" =>
            LET seen == {history[i] : i \in snapshot[c]}
                root == calls[c].source.id IN
            /\ \A event \in seen :
                  event.id = root \/ event.cause = root \/ TiedByCaller(event, root)
            /\ calls[c].agent # NoAgent =>
                  /\ \E event \in seen : event.id = root
                  /\ \E event \in seen : event.run = c /\ event.cause = root

(* The history tells what happened, once and in order, and a run its part of it. *)
HistoryHolds == RecordedOnceUnlessAwaited /\ CausesComeFirst /\ SnapshotTellsItsRun
=============================================================================
