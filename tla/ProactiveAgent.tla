---------------------------- MODULE ProactiveAgent ----------------------------
(***************************************************************************)
(* The background monitor of one BaseProactiveAgent: perceive, deliberate, *)
(* act, clean up, sleep.  The loop suspends in three places only: in the   *)
(* worker thread that collects the signals, in start_from_event for the    *)
(* intention being executed, and in its sleep.  From the thread's answer   *)
(* to the first start_from_event nothing else runs, so that is one step;   *)
(* the agent's other callers, and the cancellation by stop, come in        *)
(* between.                                                                *)
(*                                                                         *)
(* A belief is known by its place in the order of add_belief, and what an  *)
(* alert says is its source, its severity and the subjects it is about (a  *)
(* signal's metric and value; the primary signals of an escalation).       *)
(***************************************************************************)
EXTENDS Integers, FiniteSets, Sequences, FiniteSetsExt, Functions

CONSTANTS
    Subjects,    \* what a signal can report: a metric with a value
    SeverityOf,  \* the severity the filter rules give to each subject
    Roles,       \* kinds of agent: which beliefs _perceive_environment makes
    Window,      \* _deliberate looks at this many of the latest beliefs
    MaxAge,      \* clock steps a processed belief is kept
    MaxBatch,    \* model bound: signals collected in one round
    MaxBeliefs   \* model bound: beliefs ever added

\* watcher: intent, orchestrator and critic agents, which record each signal;
\* engineer: records the escalation only; analyst: the signals, then it.
AgentRoles == {"watcher", "engineer", "analyst"}

Severities == {"info", "warning", "critical"}

ASSUME AgentAssumption ==
    /\ SeverityOf \in [Subjects -> Severities]
    /\ Roles \subseteq AgentRoles
    /\ Window \in Nat \ {0}
    /\ MaxAge \in Nat
    /\ MaxBatch \in Nat
    /\ MaxBeliefs \in Nat

VARIABLES
    role,        \* the agent's class
    issued,      \* how many beliefs were ever added
    beliefs,     \* _beliefs, by number
    intentions,  \* _intentions, each with its place in the list
    monitor,     \* where _monitor_loop is suspended; "absent" if no task
    current,     \* the intention start_from_event is running for, or 0
    todo         \* the rest of the pending intentions _act has listed

vars == <<role, issued, beliefs, intentions, monitor, current, todo>>

Sources == {"signal", "escalation", "task"}

Statuses == {"pending", "executing", "completed", "failed"}

Belief == [source : Sources, severity : Severities \cup {"none"},
           about : SUBSET Subjects, processed : BOOLEAN, age : 0..MaxAge]

Alert == [source : Sources, severity : Severities \cup {"none"}, about : SUBSET Subjects]

Intention == [no : Nat \ {0}, source : Nat, alert : Alert, status : Statuses]

Init ==
    /\ role \in Roles
    /\ issued = 0
    /\ beliefs = [n \in {} |-> n]
    /\ intentions = {}
    /\ monitor = "absent"
    /\ current = 0
    /\ todo = {}

-------------------------------------------------------------------------------
(* Beliefs. *)

NewBelief(source, severity, about) ==
    [source |-> source, severity |-> severity, about |-> about,
     processed |-> FALSE, age |-> 0]

\* add_belief for each element of notes, in order.
AddBeliefs(notes) ==
    [n \in DOMAIN beliefs \cup (issued + 1)..(issued + Len(notes)) |->
        IF n <= issued THEN beliefs[n] ELSE notes[n - issued]]

Batches == UNION {[1..n -> Subjects] : n \in 0..MaxBatch}

\* One belief per filtered signal, the informative ones included.
Recorded(batch) ==
    IF role = "engineer" THEN <<>>
    ELSE [k \in 1..Len(batch) |-> NewBelief("signal", SeverityOf[batch[k]], {batch[k]})]

OfSeverity(batch, severity) == {s \in Range(batch) : SeverityOf[s] = severity}

\* EscalationManager.escalate: one event of the highest severity in the batch.
Escalated(batch) ==
    LET highest == IF OfSeverity(batch, "critical") # {} THEN "critical" ELSE "warning"
        primary == OfSeverity(batch, highest)
    IN  IF role = "watcher" \/ primary = {} THEN <<>>
        ELSE <<NewBelief("escalation", highest, primary)>>

\* The escalation is recorded after the signals it sums up.
Perceived(batch) == Recorded(batch) \o Escalated(batch)

\* mutant: the slice takes the oldest beliefs
Oldest(held) == {n \in DOMAIN held : Cardinality({m \in DOMAIN held : m < n}) < Window}

\* get_beliefs()[-5:]
Recent(held) == {n \in DOMAIN held : Cardinality({m \in DOMAIN held : m > n}) < Window}

\* A belief from perception that deserves an alert.
Actionable(belief) == belief.source # "task" /\ belief.severity \in {"warning", "critical"}

ToAlert(held) == {n \in Recent(held) : ~held[n].processed /\ Actionable(held[n])}

\* mutant: beliefs as before RFC-006, never marked
MarkNothing(held) == held

MarkProcessed(held) ==
    [n \in DOMAIN held |->
        IF n \in ToAlert(held) THEN [held[n] EXCEPT !.processed = TRUE, !.age = 0]
        ELSE held[n]]

CleanupBeliefs(held) ==
    Restrict(held, {n \in DOMAIN held : ~(held[n].processed /\ held[n].age >= MaxAge)})

-------------------------------------------------------------------------------
(* Intentions. *)

AlertOf(belief) ==
    [source |-> belief.source, severity |-> belief.severity, about |-> belief.about]

Pending(list) == {i \in list : i.status = "pending"}

\* add_intention returns the pending intention with the same content if there is one.
IsPending(alert) == \E i \in Pending(intentions) : i.alert = alert

\* The beliefs for which _deliberate makes a new intention: the first of each content.
Fresh(held) ==
    {n \in ToAlert(held) :
        /\ ~IsPending(AlertOf(held[n]))
        /\ \A m \in ToAlert(held) : AlertOf(held[m]) = AlertOf(held[n]) => n <= m}

Deliberated(held) ==
    intentions \cup
    {[no     |-> Cardinality(intentions) + Cardinality({m \in Fresh(held) : m <= n}),
      source |-> n, alert |-> AlertOf(held[n]), status |-> "pending"] : n \in Fresh(held)}

\* update_intention_status
SetStatus(list, number, status) ==
    {IF i.no = number THEN [i EXCEPT !.status = status] ELSE i : i \in list}

-------------------------------------------------------------------------------
(* The monitor. *)

\* _act takes the next listed intention up to the await in start_from_event; when
\* none is left the round ends with the cleanup and the sleep.
Proceed(list, left, held) ==
    \/ /\ left # {}
       /\ current' = Min(left)
       /\ intentions' = SetStatus(list, Min(left), "executing")
       /\ todo' = left \ {Min(left)}
       /\ beliefs' = held
       /\ monitor' = "acting"
    \/ /\ left = {}
       /\ current' = 0
       /\ intentions' = list
       /\ todo' = {}
       /\ beliefs' = CleanupBeliefs(held)
       /\ monitor' = "sleeping"

StartBackgroundMonitor ==
    /\ monitor = "absent"
    /\ monitor' = "perceiving"
    /\ UNCHANGED <<role, issued, beliefs, intentions, current, todo>>

\* cancel and await: CancelledError leaves the loop from wherever it is suspended,
\* past the except Exception of _act.
StopBackgroundMonitor ==
    /\ monitor # "absent"
    /\ monitor' = "absent"
    /\ current' = 0
    /\ todo' = {}
    /\ UNCHANGED <<role, issued, beliefs, intentions>>

\* The thread has answered: new beliefs, _deliberate, and _act up to its first await.
\* A failed collection is an empty batch.
Perceive(batch) ==
    LET notes == Perceived(batch)
        held  == AddBeliefs(notes)
        list  == Deliberated(held)
    IN  /\ monitor = "perceiving"
        /\ issued + Len(notes) <= MaxBeliefs
        /\ issued' = issued + Len(notes)
        /\ Proceed(list, {i.no : i \in Pending(list)}, MarkProcessed(held))
        /\ UNCHANGED role

\* mutant: a failed delivery is put back for another try
SettleRetrying(outcome) ==
    /\ monitor = "acting"
    /\ LET status == IF outcome = "failed" THEN "pending" ELSE outcome
       IN  Proceed(SetStatus(intentions, current, status), todo, beliefs)
    /\ UNCHANGED <<role, issued>>

\* start_from_event returns, whatever became of the event, or raises.
Settle(outcome) ==
    /\ monitor = "acting"
    /\ Proceed(SetStatus(intentions, current, outcome), todo, beliefs)
    /\ UNCHANGED <<role, issued>>

Wake ==
    /\ monitor = "sleeping"
    /\ monitor' = "perceiving"
    /\ UNCHANGED <<role, issued, beliefs, intentions, current, todo>>

\* recognize, orchestrate or review, called for a task, adds a belief of its own.
TaskBelief ==
    /\ role = "watcher"
    /\ issued < MaxBeliefs
    /\ issued' = issued + 1
    /\ beliefs' = AddBeliefs(<<NewBelief("task", "none", {})>>)
    /\ UNCHANGED <<role, intentions, monitor, current, todo>>

Older(belief) ==
    IF belief.processed /\ belief.age < MaxAge THEN [belief EXCEPT !.age = @ + 1] ELSE belief

\* The clock _cleanup_beliefs compares processed_at with.
Tick ==
    /\ \E n \in DOMAIN beliefs : beliefs[n].processed /\ beliefs[n].age < MaxAge
    /\ beliefs' = [n \in DOMAIN beliefs |-> Older(beliefs[n])]
    /\ UNCHANGED <<role, issued, intentions, monitor, current, todo>>

\* The monitor's own steps; exactly one kind is enabled while it runs.
MonitorStep ==
    \/ \E batch \in Batches : Perceive(batch)
    \/ \E outcome \in {"completed", "failed"} : Settle(outcome)
    \/ Wake

Next ==
    \/ StartBackgroundMonitor
    \/ StopBackgroundMonitor
    \/ MonitorStep
    \/ TaskBelief
    \/ Tick

Spec == Init /\ [][Next]_vars

\* The event loop runs what is ready: the thread answers, the event's run ends
\* and the sleep is over some time.  Nobody has to start, stop or call the agent.
FairSpec == Spec /\ WF_vars(MonitorStep)

-------------------------------------------------------------------------------
(* Properties. *)

\* The state is well formed: beliefs are numbered in order, and the two lists of
\* base.py hold entries with these fields.
TypeOK ==
    /\ role \in Roles
    /\ issued \in Nat
    /\ DOMAIN beliefs \subseteq 1..issued
    /\ beliefs \in [DOMAIN beliefs -> Belief]
    /\ intentions \subseteq Intention
    /\ IsFiniteSet(intentions)
    /\ monitor \in {"absent", "perceiving", "acting", "sleeping"}
    /\ current \in Nat
    /\ todo \subseteq Nat \ {0}

\* A belief makes at most one intention in its life, whatever is stopped, started,
\* cleaned up or heard of again (FR-12: the same belief is not turned into an
\* intention twice).
OneAlertPerBelief ==
    \A i, j \in intentions : i.source = j.source => i = j

\* A belief marked as processed has been turned into an alert, its own or an equal
\* one: the mark, which lets _cleanup_beliefs forget it, never hides a signal that
\* nobody was told of, whatever else was in the window.
AlertBehindMark ==
    \A n \in DOMAIN beliefs :
        beliefs[n].processed => \E i \in intentions : i.alert = AlertOf(beliefs[n])

\* An escalation is never left unheard between two steps, however many signals it
\* sums up: it is the last belief of its round, and no other belief can come
\* between it and _deliberate.
EscalationsHeard ==
    \A n \in DOMAIN beliefs : beliefs[n].source = "escalation" => beliefs[n].processed

\* A signal that calls for an alert and has none was crowded out by a whole window
\* of beliefs added after it: a round that fits the window loses nothing, and what
\* tasks add in the meantime does not matter.
UnheardWereCrowded ==
    \A n \in DOMAIN beliefs :
        Actionable(beliefs[n]) /\ ~beliefs[n].processed => issued - n >= Window

\* The alerts waiting when a monitor runs are all executed and settled unless it is
\* stopped: a restarted monitor takes up what the stopped one left pending, and
\* neither new signals nor failed deliveries keep a round from ending.
AlertsSettle ==
    (monitor # "absent" /\ Pending(intentions) # {})
        ~> (monitor = "absent" \/ (Pending(intentions) = {} /\ current = 0))

\* What RFC-006 promises of repeated signals: the same anomaly, seen again in later
\* rounds, is delivered to the workflow once.
SignalDeliveredOnce ==
    \A i, j \in intentions :
        (i.status = "completed" /\ j.status = "completed" /\ i.alert = j.alert) => i = j
===============================================================================
