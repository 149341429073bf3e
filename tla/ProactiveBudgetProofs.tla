------------------------- MODULE ProactiveBudgetProofs -------------------------
(***************************************************************************)
(* Proofs about ProactiveBudget, for every set of runs and every setting   *)
(* of the limits.  The bounds do not follow from themselves: what makes    *)
(* them inductive is that the books agree with the runs (Slots) and that   *)
(* pruning keeps every admission the current windows cover (Remembered,    *)
(* RememberedTokens).                                                      *)
(***************************************************************************)
EXTENDS ProactiveBudget, FiniteSetTheorems, TLAPS

\* A slot is held exactly by the runs between reservation and release.
Slots == active = {r \in Runs : phase[r] \in InFlight \cup {"aborted"}}

\* Timestamps are in the past, and a run that has not asked has none.
Stamped ==
    \A r \in Runs : /\ reservedAt[r] <= now
                    /\ phase[r] = "new" => reservedAt[r] = NoTime

\* Each deque holds every admission inside its window that ends now.
Remembered       == ReservedIn(now - EventWindow, now) \subseteq events
RememberedTokens == ReservedIn(now - TokenWindow, now) \subseteq reservations

\* No deadline lies further ahead than one opening of the circuit.
Deadline == openUntil <= now + OpenFor

IInv ==
    /\ TypeOK
    /\ Slots
    /\ Stamped
    /\ Deadline
    /\ Remembered
    /\ RememberedTokens
    /\ Cardinality(active) <= MaxConcurrent
    /\ BurstBound
    /\ TokenBound
    /\ QuietWhileOpen

\* What each clause of cleaning and of the refusal chain gives a step.
LEMMA CleanTypes ==
    ASSUME TypeOK
    PROVE  OpenUntilClean \in Nat /\ FailuresClean \in Nat
BY DEF TypeOK, OpenUntilClean, FailuresClean, CircuitExpired

LEMMA AllowedMeans ==
    ASSUME NEW estimate, NEW costBlocks, Refusal(estimate, costBlocks) = "allowed"
    PROVE  ~CircuitOpen /\ ~BurstFull /\ ~SlotsFull /\ ~OverTokens(estimate)
BY DEF Refusal

LEMMA RefusalIsRefusal ==
    ASSUME NEW estimate, NEW costBlocks, Refusal(estimate, costBlocks) # "allowed"
    PROVE  Refusal(estimate, costBlocks) \in Refusals
BY DEF Refusal, Refusals

--------------------------------------------------------------------------------
\* Type correctness: the type invariant of every run of the manager.
THEOREM TypeCorrect == Spec => []TypeOK
<1>1. Init => TypeOK
  BY DEF Init, TypeOK, Phases, NoTime
<1>2. TypeOK /\ [Next]_vars => TypeOK'
  <2> SUFFICES ASSUME TypeOK, [Next]_vars PROVE TypeOK'
    OBVIOUS
  <2>1. CASE Tick
    BY <2>1 DEF Tick, TypeOK
  <2>2. ASSUME NEW r \in Runs, NEW estimate \in TokenEstimates, NEW costBlocks \in BOOLEAN,
               Admit(r, estimate, costBlocks)
        PROVE  TypeOK'
    BY <2>2, BudgetAssumption, CleanTypes
       DEF Admit, Cleanup, TypeOK, Phases, InFlight, KeepRecent
  <2>3. ASSUME NEW r \in Runs, NEW estimate \in TokenEstimates, NEW costBlocks \in BOOLEAN,
               Refuse(r, estimate, costBlocks)
        PROVE  TypeOK'
    BY <2>3, CleanTypes, RefusalIsRefusal DEF Refuse, Cleanup, TypeOK, Phases, KeepRecent
  <2>4. ASSUME NEW r \in Runs, Moderated(r) PROVE TypeOK'
    BY <2>4 DEF Moderated, TypeOK, Phases, InFlight
  <2>5. ASSUME NEW r \in Runs, NEW status \in RunStatuses, Finish(r, status) PROVE TypeOK'
    <3>1. phase' \in [Runs -> Phases] /\ active' \subseteq Runs
      BY <2>5 DEF Finish, TypeOK, Phases
    <3>2. failures' \in Nat /\ openUntil' \in Nat
      BY <2>5, BudgetAssumption DEF Finish, Release, TypeOK
    <3>3. QED
      BY <2>5, <3>1, <3>2 DEF Finish, TypeOK
  <2>6. ASSUME NEW r \in Runs, Abort(r) PROVE TypeOK'
    BY <2>6 DEF Abort, TypeOK, Phases
  <2>7. CASE UNCHANGED vars
    BY <2>7 DEF vars, TypeOK
  <2>8. QED
    BY <2>1, <2>2, <2>3, <2>4, <2>5, <2>6, <2>7 DEF Next, Evaluate, Step
<1>3. QED
  BY <1>1, <1>2, PTL DEF Spec

--------------------------------------------------------------------------------
(* The step lemma of the inductive invariant, one per action that disturbs it. *)

LEMMA RunsFinite ==
    ASSUME NEW S \in SUBSET Runs
    PROVE  IsFiniteSet(S) /\ Cardinality(S) \in Nat
BY BudgetAssumption, FS_Subset, FS_CardinalityType

LEMMA OneMore ==
    ASSUME NEW S, IsFiniteSet(S), NEW x
    PROVE  /\ IsFiniteSet(S \cup {x})
           /\ Cardinality(S) \in Nat /\ Cardinality(S \cup {x}) \in Nat
           /\ Cardinality(S \cup {x}) <= Cardinality(S) + 1
<1>1. Cardinality(S) \in Nat /\ IsFiniteSet(S \cup {x})
  BY FS_AddElement, FS_CardinalityType
<1>2. Cardinality(S \cup {x}) = Cardinality(S) \/ Cardinality(S \cup {x}) = Cardinality(S) + 1
  BY FS_AddElement
<1>3. QED
  BY <1>1, <1>2

\* The admissions of the window that ends now are all in the pruned deque.
LEMMA RecentInDeque ==
    ASSUME TypeOK, Remembered, Stamped
    PROVE  ReservedIn(now - EventWindow, now) \subseteq KeepRecent(events, EventWindow)
BY DEF TypeOK, Remembered, Stamped, ReservedIn, KeepRecent, NoTime

LEMMA RecentReserved ==
    ASSUME TypeOK, RememberedTokens, Stamped
    PROVE  ReservedIn(now - TokenWindow, now) \subseteq KeepRecent(reservations, TokenWindow)
BY DEF TypeOK, RememberedTokens, Stamped, ReservedIn, KeepRecent, NoTime

\* The tokens of finitely many runs are finitely many ...
LEMMA TokensFinite ==
    ASSUME TypeOK, NEW S \in SUBSET Runs
    PROVE  IsFiniteSet(TokensOf(S)) /\ Cardinality(TokensOf(S)) \in Nat
<1> DEFINE Own(r) == {r} \X (1..tokens[r])
           f      == [r \in S |-> Own(r)]
           Groups == {Own(r) : r \in S}
<1>1. IsFiniteSet(S)
  BY RunsFinite
<1>2. f \in Surjection(S, Groups)
  BY DEF Surjection
<1>3. IsFiniteSet(Groups)
  BY <1>1, <1>2, FS_Surjection
<1>4. ASSUME NEW r \in S PROVE IsFiniteSet(Own(r))
  <2>1. tokens[r] \in Nat
    BY DEF TypeOK
  <2>2. IsFiniteSet({r})
    BY FS_Singleton
  <2>3. IsFiniteSet(1..tokens[r])
    BY <2>1, FS_Interval, 1 \in Int, tokens[r] \in Int
  <2>4. QED
    BY <2>2, <2>3, FS_Product
<1>5. IsFiniteSet(UNION Groups)
  BY <1>3, <1>4, FS_UNION
<1>6. QED
  BY <1>5, FS_CardinalityType DEF TokensOf

\* ... and a run that joins them brings its estimate.
LEMMA TokensJoin ==
    ASSUME TypeOK, NEW S \in SUBSET Runs, NEW r \in Runs, NEW estimate \in Nat,
           tokens' = [tokens EXCEPT ![r] = estimate]
    PROVE  /\ IsFiniteSet(TokensOf(S) \cup ({r} \X (1..estimate)))
           /\ Cardinality(TokensOf(S) \cup ({r} \X (1..estimate)))
                <= Cardinality(TokensOf(S)) + estimate
<1> DEFINE New == {r} \X (1..estimate)
<1>1. IsFiniteSet({r}) /\ Cardinality({r}) = 1
  BY FS_Singleton
<1>2. IsFiniteSet(1..estimate) /\ Cardinality(1..estimate) = estimate
  BY FS_Interval
<1>3. IsFiniteSet(New) /\ Cardinality(New) = 1 * estimate
  BY <1>1, <1>2, FS_Product
<1>4. IsFiniteSet(TokensOf(S)) /\ Cardinality(TokensOf(S)) \in Nat
  BY TokensFinite
<1>5. /\ IsFiniteSet(TokensOf(S) \cup New)
      /\ Cardinality(TokensOf(S) \cup New)
           = Cardinality(TokensOf(S)) + Cardinality(New) - Cardinality(TokensOf(S) \cap New)
  BY <1>3, <1>4, FS_Union
<1>6. Cardinality(TokensOf(S) \cap New) \in Nat
  BY <1>4, FS_Subset, FS_CardinalityType
<1>7. QED
  BY <1>3, <1>4, <1>5, <1>6

\* Admitting one more run into a window that is not full keeps it legal, and
\* no other window sees the new timestamp.
LEMMA AdmitKeepsBurst ==
    ASSUME IInv, NEW r \in Runs, NEW estimate, NEW costBlocks,
           Admit(r, estimate, costBlocks)
    PROVE  BurstBound'
<1> DEFINE W(end) == ReservedIn(end - EventWindow, end)
<1> USE DEF IInv
<1>1. reservedAt \in [Runs -> Nat \cup {NoTime}] /\ now \in Nat /\ now' = now
      /\ reservedAt' = [reservedAt EXCEPT ![r] = now] /\ reservedAt[r] = NoTime
  BY DEF Admit, TypeOK, Stamped
<1>2. SUFFICES ASSUME NEW end \in 0..now
               PROVE  Cardinality(W(end)') <= BurstLimit
  BY <1>1 DEF BurstBound
<1>3. CASE end = now
  <2>1. Cardinality(KeepRecent(events, EventWindow)) < BurstLimit
    <3>1. ~BurstFull
      BY AllowedMeans DEF Admit
    <3>2. Cardinality(KeepRecent(events, EventWindow)) \in Nat
      BY RunsFinite DEF KeepRecent, TypeOK
    <3>3. QED
      BY <3>1, <3>2, BudgetAssumption DEF BurstFull
  <2>2. W(now)' \subseteq KeepRecent(events, EventWindow) \cup {r}
    BY <1>1, RecentInDeque, BudgetAssumption DEF ReservedIn, NoTime
  <2>3. KeepRecent(events, EventWindow) \in SUBSET Runs
    BY DEF KeepRecent, TypeOK
  <2>4. /\ IsFiniteSet(KeepRecent(events, EventWindow) \cup {r})
        /\ Cardinality(KeepRecent(events, EventWindow) \cup {r})
             <= Cardinality(KeepRecent(events, EventWindow)) + 1
    BY <2>3, RunsFinite, OneMore
  <2>5. Cardinality(W(now)') <= Cardinality(KeepRecent(events, EventWindow) \cup {r})
    BY <2>2, <2>4, FS_Subset
  <2>6. /\ Cardinality(W(now)') \in Nat
        /\ Cardinality(KeepRecent(events, EventWindow) \cup {r}) \in Nat
        /\ Cardinality(KeepRecent(events, EventWindow)) \in Nat
    BY <2>2, <2>3, <2>4, FS_Subset, FS_CardinalityType, RunsFinite
  <2>7. Cardinality(W(now)') <= BurstLimit
    BY <2>1, <2>4, <2>5, <2>6, BudgetAssumption
  <2>8. W(end)' = W(now)'
    BY <1>1, <1>3 DEF ReservedIn
  <2>9. QED
    BY <2>7, <2>8
<1>4. CASE end # now
  <2>1. W(end)' = W(end)
    BY <1>1, <1>4 DEF ReservedIn, NoTime
  <2>2. QED
    BY <2>1 DEF BurstBound
<1>5. QED
  BY <1>3, <1>4

\* The same for the tokens: the run brings an estimate that still fits.
LEMMA AdmitKeepsTokens ==
    ASSUME IInv, TypeOK', NEW r \in Runs, NEW estimate \in TokenEstimates, NEW costBlocks,
           Admit(r, estimate, costBlocks)
    PROVE  TokenBound'
<1> DEFINE W(end) == ReservedIn(end - TokenWindow, end)
           Kept   == KeepRecent(reservations, TokenWindow)
           New    == {r} \X (1..estimate)
<1> USE DEF IInv
<1>1. /\ reservedAt \in [Runs -> Nat \cup {NoTime}] /\ now \in Nat /\ now' = now
      /\ reservedAt' = [reservedAt EXCEPT ![r] = now] /\ reservedAt[r] = NoTime
      /\ tokens \in [Runs -> Nat] /\ tokens' = [tokens EXCEPT ![r] = estimate]
      /\ estimate \in Nat
  BY BudgetAssumption DEF Admit, TypeOK, Stamped
<1>2. SUFFICES ASSUME NEW end \in 0..now
               PROVE  Cardinality(TokensOf(W(end))') <= TokenBudget
  BY <1>1 DEF TokenBound
<1>3. CASE end = now
  <2>1. Kept \in SUBSET Runs
    BY DEF KeepRecent, TypeOK
  <2>2. Cardinality(TokensOf(Kept)) + estimate <= TokenBudget
    <3>1. ~OverTokens(estimate)
      BY AllowedMeans DEF Admit
    <3>2. Cardinality(TokensOf(Kept)) \in Nat
      BY <2>1, TokensFinite
    <3>3. QED
      BY <1>1, <3>1, <3>2, BudgetAssumption DEF OverTokens, UsedTokens
  <2>3. W(now)' \subseteq Kept \cup {r}
    BY <1>1, RecentReserved, BudgetAssumption DEF ReservedIn, NoTime
  <2>4. TokensOf(W(now))' \subseteq TokensOf(Kept) \cup New
    <3> SUFFICES ASSUME NEW q \in W(now)', NEW x \in {q} \X (1..tokens'[q])
                 PROVE  x \in TokensOf(Kept) \cup New
      BY DEF TokensOf
    <3>1. CASE q = r
      BY <1>1, <3>1
    <3>2. CASE q # r
      <4>1. q \in Kept /\ tokens'[q] = tokens[q]
        BY <1>1, <2>1, <2>3, <3>2
      <4>2. QED
        BY <4>1 DEF TokensOf
    <3>3. QED
      BY <3>1, <3>2
  <2>5. /\ IsFiniteSet(TokensOf(Kept) \cup New)
        /\ Cardinality(TokensOf(Kept) \cup New) <= Cardinality(TokensOf(Kept)) + estimate
        /\ Cardinality(TokensOf(Kept)) \in Nat
        /\ Cardinality(TokensOf(Kept) \cup New) \in Nat
    BY <1>1, <2>1, TokensFinite, TokensJoin, FS_CardinalityType
  <2>6. /\ Cardinality(TokensOf(W(now))') \in Nat
        /\ Cardinality(TokensOf(W(now))') <= Cardinality(TokensOf(Kept) \cup New)
    BY <2>4, <2>5, FS_Subset, FS_CardinalityType
  <2>7. Cardinality(TokensOf(W(now))') <= TokenBudget
    BY <1>1, <2>2, <2>5, <2>6, BudgetAssumption
  <2>8. TokensOf(W(end))' = TokensOf(W(now))'
    BY <1>1, <1>3 DEF ReservedIn, TokensOf
  <2>9. QED
    BY <2>7, <2>8
<1>4. CASE end # now
  <2>1. W(end)' = W(end) /\ r \notin W(end)
    BY <1>1, <1>4 DEF ReservedIn, NoTime
  <2>2. \A q \in W(end) : tokens'[q] = tokens[q]
    BY <1>1, <2>1 DEF ReservedIn
  <2>3. TokensOf(W(end))' = TokensOf(W(end))
    BY <2>1, <2>2 DEF TokensOf
  <2>4. QED
    BY <2>3 DEF TokenBound
<1>5. QED
  BY <1>3, <1>4

LEMMA AdmitStep ==
    ASSUME IInv, TypeOK', NEW r \in Runs, NEW estimate \in TokenEstimates,
           NEW costBlocks \in BOOLEAN, Admit(r, estimate, costBlocks)
    PROVE  IInv'
<1> USE DEF IInv
<1>1. ~CircuitOpen /\ ~SlotsFull
  BY AllowedMeans DEF Admit
<1>2. Slots'
  BY DEF Admit, Slots, TypeOK, InFlight
<1>3. Stamped'
  BY DEF Admit, Stamped, TypeOK
<1>4. Remembered'
  BY RecentInDeque, BudgetAssumption DEF Admit, Remembered, ReservedIn, TypeOK, NoTime
<1>5. Cardinality(active') <= MaxConcurrent
  <2>1. IsFiniteSet(active) /\ Cardinality(active) \in Nat /\ Cardinality(active) < MaxConcurrent
    BY <1>1, RunsFinite, BudgetAssumption DEF SlotsFull, TypeOK
  <2>2. /\ Cardinality(active \cup {r}) <= Cardinality(active) + 1
        /\ Cardinality(active \cup {r}) \in Nat
    BY <2>1, OneMore
  <2>3. QED
    BY <2>1, <2>2, BudgetAssumption DEF Admit
<1>6. BurstBound'
  BY AdmitKeepsBurst
<1>7. QuietWhileOpen' /\ Deadline'
  BY <1>1, BudgetAssumption
     DEF Admit, Cleanup, CircuitOpen, OpenUntilClean, CircuitExpired,
         QuietWhileOpen, Deadline, TypeOK
<1>8. RememberedTokens'
  BY RecentReserved, BudgetAssumption DEF Admit, RememberedTokens, ReservedIn, TypeOK, NoTime
<1>9. TokenBound'
  BY AdmitKeepsTokens
<1>10. QED
  BY <1>2, <1>3, <1>4, <1>5, <1>6, <1>7, <1>8, <1>9

LEMMA RefuseStep ==
    ASSUME IInv, TypeOK', NEW r \in Runs, NEW estimate \in TokenEstimates,
           NEW costBlocks \in BOOLEAN, Refuse(r, estimate, costBlocks)
    PROVE  IInv' /\ active' = active
<1> USE DEF IInv
<1>1. r \notin active /\ active' = active
  BY DEF Refuse, Slots, InFlight
<1>2. Refusal(estimate, costBlocks) \in Refusals
  BY RefusalIsRefusal DEF Refuse
<1>3. Slots'
  BY <1>1, <1>2 DEF Refuse, Slots, TypeOK, InFlight, Refusals
<1>4. Stamped'
  BY <1>2 DEF Refuse, Stamped, TypeOK, Refusals
<1>5. Remembered'
  BY RecentInDeque DEF Refuse, Remembered, ReservedIn
<1>9. RememberedTokens'
  BY RecentReserved DEF Refuse, RememberedTokens, ReservedIn
<1>6. BurstBound' /\ TokenBound'
  BY DEF Refuse, BurstBound, TokenBound, TokensOf, ReservedIn
<1>7. QuietWhileOpen' /\ Deadline'
  BY BudgetAssumption
     DEF Refuse, Cleanup, OpenUntilClean, CircuitExpired, QuietWhileOpen, Deadline, TypeOK
<1>8. QED
  BY <1>1, <1>3, <1>4, <1>5, <1>6, <1>7, <1>9

LEMMA TickStep ==
    ASSUME IInv, TypeOK', Tick
    PROVE  IInv'
<1> USE DEF IInv
<1>1. Slots' /\ QuietWhileOpen' /\ Deadline'
  BY BudgetAssumption DEF Tick, Slots, QuietWhileOpen, Deadline, TypeOK
<1>4. Stamped'
  BY DEF Tick, Stamped, TypeOK, NoTime
<1>2. Remembered' /\ RememberedTokens'
  BY BudgetAssumption DEF Tick, Remembered, RememberedTokens, ReservedIn, Stamped, TypeOK
<1>3. BurstBound'
  <2>1. SUFFICES ASSUME NEW end \in 0..now'
                 PROVE  Cardinality(ReservedIn(end - EventWindow, end)) <= BurstLimit
    BY DEF BurstBound, Tick, ReservedIn
  <2>2. CASE end \in 0..now
    BY <2>2 DEF BurstBound
  <2>3. CASE end = now + 1
    \* Nobody has been admitted at now + 1 yet.
    <3>1. ReservedIn(end - EventWindow, end) \subseteq ReservedIn(now - EventWindow, now)
      BY <2>3, BudgetAssumption DEF ReservedIn, Stamped, TypeOK
    <3>2. ReservedIn(now - EventWindow, now) \in SUBSET Runs
      BY DEF ReservedIn
    <3>3. now \in 0..now
      BY DEF TypeOK
    <3>4. Cardinality(ReservedIn(now - EventWindow, now)) <= BurstLimit
      BY <3>3 DEF BurstBound
    <3>5. Cardinality(ReservedIn(end - EventWindow, end))
            <= Cardinality(ReservedIn(now - EventWindow, now))
      BY <3>1, <3>2, RunsFinite, FS_Subset
    <3>6. Cardinality(ReservedIn(end - EventWindow, end)) \in Nat
          /\ Cardinality(ReservedIn(now - EventWindow, now)) \in Nat
      BY <3>1, <3>2, RunsFinite
    <3>7. QED
      BY <3>4, <3>5, <3>6, BudgetAssumption
  <2>4. QED
    BY <2>2, <2>3 DEF Tick, TypeOK
<1>5. TokenBound'
  <2>1. SUFFICES ASSUME NEW end \in 0..now'
                 PROVE  Cardinality(TokensOf(ReservedIn(end - TokenWindow, end))) <= TokenBudget
    BY DEF TokenBound, Tick, TokensOf, ReservedIn
  <2>2. CASE end \in 0..now
    BY <2>2 DEF TokenBound
  <2>3. CASE end = now + 1
    <3> DEFINE Later == ReservedIn(end - TokenWindow, end)
               Last  == ReservedIn(now - TokenWindow, now)
    <3>1. Later \subseteq Last
      BY <2>3, BudgetAssumption DEF ReservedIn, Stamped, TypeOK
    <3>2. Last \in SUBSET Runs
      BY DEF ReservedIn
    <3>3. now \in 0..now
      BY DEF TypeOK
    <3>4. Cardinality(TokensOf(Last)) <= TokenBudget
      BY <3>3 DEF TokenBound
    <3>5. TokensOf(Later) \subseteq TokensOf(Last)
      BY <3>1 DEF TokensOf
    <3>6. IsFiniteSet(TokensOf(Last)) /\ Cardinality(TokensOf(Last)) \in Nat
      BY <3>2, TokensFinite
    <3>7. /\ Cardinality(TokensOf(Later)) \in Nat
          /\ Cardinality(TokensOf(Later)) <= Cardinality(TokensOf(Last))
      BY <3>5, <3>6, FS_Subset, FS_CardinalityType
    <3>8. QED
      BY <3>4, <3>6, <3>7, BudgetAssumption
  <2>4. QED
    BY <2>2, <2>3 DEF Tick, TypeOK
<1>6. QED
  BY <1>1, <1>2, <1>3, <1>4, <1>5 DEF Tick

\* A run's own steps touch neither the timestamps nor the deque.
LEMMA RunStep ==
    ASSUME IInv, TypeOK', NEW r \in Runs,
           \/ Moderated(r)
           \/ Abort(r)
           \/ \E status \in RunStatuses : Finish(r, status)
    PROVE  IInv'
<1> USE DEF IInv
<1>1. UNCHANGED <<now, reservedAt, tokens, events, reservations>> /\ phase[r] # "new" /\ phase'[r] # "new"
      /\ \A q \in Runs \ {r} : phase'[q] = phase[q]
  BY DEF Moderated, Abort, Finish, InFlight, RunStatuses, TypeOK
<1>2. Stamped' /\ Remembered' /\ RememberedTokens' /\ BurstBound' /\ TokenBound'
  BY <1>1 DEF Stamped, Remembered, RememberedTokens, BurstBound, TokenBound, TokensOf, ReservedIn
<1>3. Slots'
  BY DEF Moderated, Abort, Finish, Slots, InFlight, RunStatuses, TypeOK
<1>4. Cardinality(active') <= MaxConcurrent
  <2>1. active' \subseteq active
    BY DEF Moderated, Abort, Finish
  <2>2. Cardinality(active') <= Cardinality(active)
        /\ Cardinality(active') \in Nat /\ Cardinality(active) \in Nat
    BY <2>1, RunsFinite, FS_Subset DEF TypeOK
  <2>3. QED
    BY <2>2, BudgetAssumption
<1>5. QuietWhileOpen' /\ Deadline'
  <2>1. openUntil' = openUntil \/ openUntil' = now + OpenFor
    BY DEF Moderated, Abort, Finish, Release
  <2>2. CASE openUntil' = openUntil
    BY <1>1, <2>2 DEF QuietWhileOpen, Deadline
  <2>3. CASE openUntil' = now + OpenFor
    BY <1>1, <2>3, BudgetAssumption DEF QuietWhileOpen, Deadline, Stamped, TypeOK, NoTime
  <2>4. QED
    BY <2>1, <2>2, <2>3
<1>6. QED
  BY <1>2, <1>3, <1>4, <1>5

--------------------------------------------------------------------------------
\* The books agree with the runs, pruning forgets nothing that counts, and the
\* three limits hold, in every reachable state.
THEOREM Inductive == Spec => []IInv
<1>1. Init => IInv
  <2> SUFFICES ASSUME Init PROVE IInv
    OBVIOUS
  <2>1. TypeOK /\ Slots /\ Stamped /\ QuietWhileOpen /\ Deadline
    BY BudgetAssumption DEF Init, Deadline, TypeOK, Slots, Stamped, QuietWhileOpen, Phases, InFlight, NoTime
  <2>2. \A end \in Nat : ReservedIn(end - EventWindow, end) = {}
    BY DEF Init, ReservedIn
  <2>6. \A end \in Nat : ReservedIn(end - TokenWindow, end) = {}
    BY DEF Init, ReservedIn
  <2>3. Remembered /\ BurstBound
    BY <2>2, FS_EmptySet, BudgetAssumption DEF Init, Remembered, BurstBound
  <2>7. TokensOf({}) = {}
    BY DEF TokensOf
  <2>8. RememberedTokens /\ TokenBound
    BY <2>6, <2>7, FS_EmptySet, BudgetAssumption DEF Init, RememberedTokens, TokenBound
  <2>4. Cardinality(active) <= MaxConcurrent
    BY FS_EmptySet, BudgetAssumption DEF Init
  <2>5. QED
    BY <2>1, <2>3, <2>4, <2>8 DEF IInv
<1>2. TypeOK' /\ IInv /\ [Next]_vars => IInv'
  <2> SUFFICES ASSUME TypeOK', IInv, [Next]_vars PROVE IInv'
    OBVIOUS
  <2>1. CASE Tick
    BY <2>1, TickStep
  <2>2. ASSUME NEW r \in Runs, Evaluate(r) PROVE IInv'
    BY <2>2, AdmitStep, RefuseStep DEF Evaluate
  <2>3. ASSUME NEW r \in Runs, Step(r) \/ Abort(r) PROVE IInv'
    BY <2>3, RunStep DEF Step
  <2>4. CASE UNCHANGED vars
    BY <2>4 DEF vars, IInv, TypeOK, Slots, Stamped, Deadline, Remembered, BurstBound,
                RememberedTokens, TokenBound, TokensOf, ReservedIn, QuietWhileOpen
  <2>5. QED
    BY <2>1, <2>2, <2>3, <2>4 DEF Next
<1>3. QED
  BY <1>1, <1>2, TypeCorrect, PTL DEF Spec

\* However runs interleave and abort, at most MaxConcurrent are under way.
THEOREM ConcurrencySafe == Spec => []ConcurrencyBound
<1>1. IInv => ConcurrencyBound
  <2> SUFFICES ASSUME IInv PROVE ConcurrencyBound
    OBVIOUS
  <2> DEFINE Live == {r \in Runs : phase[r] \in InFlight}
  <2>1. Live \subseteq active
    BY DEF IInv, Slots
  <2>2. Cardinality(Live) <= Cardinality(active)
        /\ Cardinality(Live) \in Nat /\ Cardinality(active) \in Nat
    BY <2>1, RunsFinite, FS_Subset DEF IInv, TypeOK
  <2>3. QED
    BY <2>2, BudgetAssumption DEF IInv, ConcurrencyBound
<1>2. QED
  BY <1>1, Inductive, PTL

\* Every sliding window of events respects the burst limit.
THEOREM BurstSafe == Spec => []BurstBound
<1>1. IInv => BurstBound
  BY DEF IInv
<1>2. QED
  BY <1>1, Inductive, PTL

\* Every sliding window of reservations stays within the token budget, although
\* the manager forgets the reservations that are older than the window.
THEOREM TokensSafe == Spec => []TokenBound
<1>1. IInv => TokenBound
  BY DEF IInv
<1>2. QED
  BY <1>1, Inductive, PTL

\* No event becomes a run between a trip of the circuit and its deadline.
THEOREM CircuitQuiet == Spec => []QuietWhileOpen
<1>1. IInv => QuietWhileOpen
  BY DEF IInv
<1>2. QED
  BY <1>1, Inductive, PTL

\* An open circuit never closes before its deadline, nor is the deadline moved
\* forward.
THEOREM CircuitHolds == Spec => CircuitNotShortened
<1>1. IInv /\ [Next]_vars => [openUntil > now => openUntil' >= openUntil]_vars
  <2> SUFFICES ASSUME IInv, [Next]_vars, openUntil > now
               PROVE  openUntil' >= openUntil \/ UNCHANGED vars
    OBVIOUS
  <2> USE BudgetAssumption DEF IInv, TypeOK, Deadline
  <2>1. ASSUME NEW r \in Runs, Evaluate(r) PROVE openUntil' = openUntil
    BY <2>1 DEF Evaluate, Admit, Refuse, Cleanup, OpenUntilClean, CircuitExpired
  <2>2. ASSUME NEW r \in Runs, Step(r) PROVE openUntil' >= openUntil
    BY <2>2 DEF Step, Moderated, Finish, Release
  <2>3. QED
    BY <2>1, <2>2 DEF Next, Tick, Abort
<1>2. QED
  BY <1>1, Inductive, PTL DEF Spec, CircuitNotShortened

--------------------------------------------------------------------------------
\* The pruned bookkeeping implements the policy that never forgets: every step
\* of the manager is a step of AdmissionPolicy or leaves its state alone.
THEOREM Refinement == Spec => ImplementsPolicy
<1>1. Init => Policy!Init
  BY DEF Init, Policy!Init
<1>2. IInv /\ [Next]_vars => [Policy!Next]_(Policy!vars)
  <2> SUFFICES ASSUME IInv, [Next]_vars PROVE [Policy!Next]_(Policy!vars)
    OBVIOUS
  <2> USE DEF Policy!vars
  <2>1. CASE Tick
    BY <2>1 DEF Tick, Policy!Next, Policy!Tick
  <2>2. ASSUME NEW r \in Runs, NEW estimate \in TokenEstimates, NEW costBlocks \in BOOLEAN,
               Admit(r, estimate, costBlocks)
        PROVE  Policy!Admit(r)
    <3> DEFINE Window == ReservedIn(now - EventWindow, now)
               Deque  == KeepRecent(events, EventWindow)
    <3>1. reservedAt[r] = NoTime /\ ~BurstFull /\ ~SlotsFull
      BY <2>2, AllowedMeans DEF Admit, IInv, Stamped
    <3>2. Deque \in SUBSET Runs /\ Window \subseteq Deque
      BY RecentInDeque DEF IInv, TypeOK, KeepRecent
    <3>3. Cardinality(Window) <= Cardinality(Deque)
          /\ Cardinality(Window) \in Nat /\ Cardinality(Deque) \in Nat
      BY <3>2, RunsFinite, FS_Subset
    <3>4. Cardinality(Window) < BurstLimit
      BY <3>1, <3>3, BudgetAssumption DEF BurstFull
    <3>5. Cardinality(active) < MaxConcurrent
      BY <3>1, RunsFinite, BudgetAssumption DEF SlotsFull, IInv, TypeOK
    <3>6. Policy!InWindow(now - EventWindow, now) = Window
      BY DEF Policy!InWindow, ReservedIn
    <3>7. Cardinality(Policy!InWindow(now - EventWindow, now)) < BurstLimit
      BY <3>4, <3>6
    <3>8. /\ reservedAt' = [reservedAt EXCEPT ![r] = now]
          /\ active' = active \cup {r}
          /\ UNCHANGED now
      BY <2>2 DEF Admit
    <3>9. \A S : Policy!Cardinality(S) = Cardinality(S)
      BY DEF Cardinality, Policy!Cardinality
    <3>10. QED
      BY <3>1, <3>5, <3>7, <3>8, <3>9 DEF Policy!Admit
  <2>3. ASSUME NEW r \in Runs, NEW estimate \in TokenEstimates, NEW costBlocks \in BOOLEAN,
               Refuse(r, estimate, costBlocks)
        PROVE  UNCHANGED Policy!vars
    BY <2>3 DEF Refuse, IInv, Slots, InFlight
  <2>4. ASSUME NEW r \in Runs, NEW status \in RunStatuses, Finish(r, status)
        PROVE  Policy!Release(r)
    BY <2>4 DEF Finish, Policy!Release, IInv, Slots, InFlight
  <2>5. ASSUME NEW r \in Runs, Moderated(r) \/ Abort(r)
        PROVE  UNCHANGED Policy!vars
    BY <2>5 DEF Moderated, Abort
  <2>6. CASE UNCHANGED vars
    BY <2>6 DEF vars
  <2>7. QED
    BY <2>1, <2>2, <2>3, <2>4, <2>5, <2>6 DEF Next, Evaluate, Step, Policy!Next
<1>3. QED
  BY <1>1, <1>2, Inductive, PTL DEF Spec, ImplementsPolicy, Policy!Spec

================================================================================
