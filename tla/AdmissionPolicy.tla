---------------------------- MODULE AdmissionPolicy ----------------------------
(***************************************************************************)
(* What the proactive budget promises its callers, with nothing of how it  *)
(* keeps books: it remembers for ever when every run was admitted, and     *)
(* admits a run only if the sliding window that ends now has room and a    *)
(* slot is free.  ProactiveBudget.tla, which forgets old admissions, is    *)
(* shown to implement this module.                                         *)
(***************************************************************************)
EXTENDS Integers, FiniteSets

CONSTANTS
    Runs,            \* identities of the system-event runs
    EventWindow,     \* length of the sliding window
    BurstLimit,      \* admissions the window may hold
    MaxConcurrent,   \* slots
    NoTime           \* "never admitted"

VARIABLES
    now,             \* the clock
    admittedAt,      \* when each run was admitted, or NoTime
    holding          \* runs that hold a slot

vars == <<now, admittedAt, holding>>

InWindow(from, to) ==
    {r \in Runs : admittedAt[r] # NoTime /\ admittedAt[r] \in from..to}

Init ==
    /\ now = 0
    /\ admittedAt = [r \in Runs |-> NoTime]
    /\ holding = {}

Tick == now' = now + 1 /\ UNCHANGED <<admittedAt, holding>>

Admit(r) ==
    /\ admittedAt[r] = NoTime
    /\ Cardinality(InWindow(now - EventWindow, now)) < BurstLimit
    /\ Cardinality(holding) < MaxConcurrent
    /\ admittedAt' = [admittedAt EXCEPT ![r] = now]
    /\ holding' = holding \cup {r}
    /\ UNCHANGED now

Release(r) ==
    /\ r \in holding
    /\ holding' = holding \ {r}
    /\ UNCHANGED <<now, admittedAt>>

Next == Tick \/ \E r \in Runs : Admit(r) \/ Release(r)

Spec == Init /\ [][Next]_vars

================================================================================
