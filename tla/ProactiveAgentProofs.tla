------------------------- MODULE ProactiveAgentProofs -------------------------
(***************************************************************************)
(* Proofs about ProactiveAgent, for any subjects, window, retention and    *)
(* batch size.  What is to be shown of the two lists is one predicate of   *)
(* them, Lists, which every piece of a round (recording, deliberating,     *)
(* executing, cleaning up) is shown to keep by a lemma of its own.  It     *)
(* adds to the checked properties that a belief with an intention is       *)
(* marked for as long as it is held: that is why it gets no second one.    *)
(***************************************************************************)
EXTENDS ProactiveAgent, FiniteSetTheorems, WellFoundedInduction, TLAPS

ListTypes(list, held, k) ==
    /\ k \in Nat
    /\ DOMAIN held \subseteq 1..k
    /\ held \in [DOMAIN held -> Belief]
    /\ list \subseteq Intention
    /\ IsFiniteSet(list)

\* An intention comes from a numbered belief, which is marked while it is held.
SourcesMarked(list, held, k) ==
    \A i \in list :
        /\ i.source \in 1..k
        /\ i.source \in DOMAIN held => held[i.source].processed

Once(list) == \A i, j \in list : i.source = j.source => i = j

Told(list, held) ==
    \A n \in DOMAIN held : held[n].processed => \E i \in list : i.alert = AlertOf(held[n])

Heard(held) == \A n \in DOMAIN held : held[n].source = "escalation" => held[n].processed

Crowded(held, k) ==
    \A n \in DOMAIN held : Actionable(held[n]) /\ ~held[n].processed => k - n >= Window

Lists(list, held, k) ==
    /\ ListTypes(list, held, k)
    /\ SourcesMarked(list, held, k)
    /\ Once(list)
    /\ Told(list, held)
    /\ Heard(held)
    /\ Crowded(held, k)

Control ==
    /\ role \in Roles
    /\ monitor \in {"absent", "perceiving", "acting", "sleeping"}
    /\ current \in Nat
    /\ todo \subseteq Nat \ {0}

IInv == Control /\ Lists(intentions, beliefs, issued)

-------------------------------------------------------------------------------
(* Sets of numbers *)

\* Min of a set of numbers is its least element (the intervals below the
\* numbers are finite sets, and inclusion of finite sets is well-founded).
LEMMA MinFacts ==
    ASSUME NEW S, S \subseteq Nat, S # {}
    PROVE  Min(S) \in S /\ \A y \in S : Min(S) <= y
  <1> DEFINE Below(x) == 0..(x - 1)
             order == StrictSubsetOrdering(Nat)
             initial == {Below(x) : x \in S}
  <1>1. IsWellFoundedOn(order, FiniteSubsetsOf(Nat))
    BY FS_StrictSubsetOrderingWellFounded
  <1>2. initial \subseteq FiniteSubsetsOf(Nat) /\ initial # {}
    <2>1. ASSUME NEW x \in S PROVE Below(x) \in FiniteSubsetsOf(Nat)
      <3>1. IsFiniteSet(0..(x - 1))
        BY FS_Interval
      <3> QED
        BY <3>1 DEF FiniteSubsetsOf
    <2> QED
      BY <2>1
  <1> HIDE DEF order, initial
  <1>3. PICK t \in initial : \A u \in initial : ~(<<u, t>> \in order)
    BY <1>1, <1>2, WFMin
  <1>4. PICK x \in S : t = Below(x)
    BY DEF initial
  <1>5. ASSUME NEW y \in S PROVE x <= y
    <2> SUFFICES ASSUME y < x PROVE FALSE
      OBVIOUS
    <2>1. Below(y) \subseteq Below(x) /\ y \in Below(x) /\ y \notin Below(y)
      OBVIOUS
    <2>2. <<Below(y), Below(x)>> \in order
      BY <2>1 DEF order, StrictSubsetOrdering
    <2> QED
      BY <1>3, <1>4, <2>2 DEF initial
  <1> QED
    BY <1>5 DEF Min

-------------------------------------------------------------------------------
(* The pieces of a round *)

\* update_intention_status changes the status and nothing else.
LEMMA StatusKeeps ==
    ASSUME NEW list, NEW held, NEW k, Lists(list, held, k),
           NEW number, NEW status \in Statuses
    PROVE  Lists(SetStatus(list, number, status), held, k)
  <1> DEFINE new(i) == IF i.no = number THEN [i EXCEPT !.status = status] ELSE i
             after == SetStatus(list, number, status)
  <1>1. \A i \in list :
            /\ new(i) \in Intention
            /\ new(i).source = i.source
            /\ new(i).alert = i.alert
    BY DEF Lists, ListTypes, Intention
  <1>2. after = {new(i) : i \in list}
    BY DEF SetStatus
  <1>3. \A j \in after : \E i \in list : j = new(i)
    BY <1>2
  <1>4. ListTypes(after, held, k)
    <2>1. after \subseteq Intention
      BY <1>1, <1>3
    <2>2. IsFiniteSet(after)
      <3> DEFINE f == [i \in list |-> new(i)]
      <3>1. f \in Surjection(list, after)
        BY <1>2 DEF Surjection
      <3> HIDE DEF f
      <3> QED
        BY <3>1, FS_Surjection DEF Lists, ListTypes
    <2> QED
      BY <2>1, <2>2 DEF Lists, ListTypes
  <1> HIDE DEF new, after
  <1>5. SourcesMarked(after, held, k)
    BY <1>1, <1>3 DEF Lists, SourcesMarked
  <1>6. Once(after)
    <2> SUFFICES ASSUME NEW i \in after, NEW j \in after, i.source = j.source PROVE i = j
      BY DEF Once
    <2>1. PICK p \in list : i = new(p)
      BY <1>3
    <2>2. PICK q \in list : j = new(q)
      BY <1>3
    <2>3. p = q
      BY <1>1, <2>1, <2>2 DEF Lists, Once
    <2> QED
      BY <2>1, <2>2, <2>3
  <1>7. Told(after, held)
    <2> SUFFICES ASSUME NEW n \in DOMAIN held, held[n].processed
                 PROVE  \E j \in after : j.alert = AlertOf(held[n])
      BY DEF Told
    <2>1. PICK i \in list : i.alert = AlertOf(held[n])
      BY DEF Lists, Told
    <2> QED
      BY <1>1, <1>2, <2>1
  <1> QED
    BY <1>4, <1>5, <1>6, <1>7 DEF Lists, after

\* _cleanup_beliefs takes nothing away that is not marked.
LEMMA CleanupKeeps ==
    ASSUME NEW list, NEW held, NEW k, Lists(list, held, k)
    PROVE  Lists(list, CleanupBeliefs(held), k)
  <1>1. /\ DOMAIN CleanupBeliefs(held) \subseteq DOMAIN held
        /\ \A n \in DOMAIN CleanupBeliefs(held) : CleanupBeliefs(held)[n] = held[n]
        /\ CleanupBeliefs(held) = [n \in DOMAIN CleanupBeliefs(held) |-> held[n]]
    BY DEF CleanupBeliefs, Restrict
  <1> HIDE DEF CleanupBeliefs
  <1> QED
    BY <1>1 DEF Lists, ListTypes, SourcesMarked, Told, Heard, Crowded

\* _act and the end of a round keep what holds of the lists they work on.
LEMMA ProceedKeeps ==
    ASSUME NEW list, NEW left, NEW held, Lists(list, held, issued'),
           role' \in Roles, left \subseteq Nat \ {0}, Proceed(list, left, held)
    PROVE  IInv'
  <1>1. CASE left # {}
    <2>1. /\ current' = Min(left)
          /\ intentions' = SetStatus(list, Min(left), "executing")
          /\ todo' = left \ {Min(left)}
          /\ beliefs' = held
          /\ monitor' = "acting"
      BY <1>1 DEF Proceed
    <2>2. Min(left) \in Nat
      BY <1>1, MinFacts
    <2>3. Lists(SetStatus(list, Min(left), "executing"), held, issued')
      BY StatusKeeps DEF Statuses
    <2> QED
      BY <2>1, <2>2, <2>3 DEF IInv, Control
  <1>2. CASE left = {}
    <2>1. /\ current' = 0
          /\ intentions' = list
          /\ todo' = {}
          /\ beliefs' = CleanupBeliefs(held)
          /\ monitor' = "sleeping"
      BY <1>2 DEF Proceed
    <2>2. Lists(list, CleanupBeliefs(held), issued')
      BY CleanupKeeps
    <2> QED
      BY <2>1, <2>2 DEF IInv, Control
  <1> QED
    BY <1>1, <1>2

-------------------------------------------------------------------------------
(* Recording and deliberating *)

\* What a round records: fresh beliefs, of which only the last can be an escalation,
\* which always calls for an alert.
LEMMA PerceivedFacts ==
    ASSUME Control, NEW batch \in Batches
    PROVE  /\ Perceived(batch) \in Seq(Belief)
           /\ \A k \in 1..Len(Perceived(batch)) :
                 /\ ~Perceived(batch)[k].processed
                 /\ Perceived(batch)[k].source = "escalation" =>
                       k = Len(Perceived(batch)) /\ Actionable(Perceived(batch)[k])
  <1> USE AgentAssumption
  <1>1. batch \in Seq(Subjects)
    BY DEF Batches
  <1>2. \A k \in 1..Len(batch) : batch[k] \in Subjects
    BY <1>1
  <1>3. /\ Recorded(batch) \in Seq(Belief)
        /\ \A k \in 1..Len(Recorded(batch)) :
              ~Recorded(batch)[k].processed /\ Recorded(batch)[k].source = "signal"
    <2>1. \A s \in Subjects : NewBelief("signal", SeverityOf[s], {s}) \in Belief
      BY DEF NewBelief, Belief, Sources, Severities
    <2> QED
      BY <1>1, <1>2, <2>1 DEF Recorded, NewBelief
  <1>4. /\ Escalated(batch) \in Seq(Belief)
        /\ Len(Escalated(batch)) \in {0, 1}
        /\ \A k \in 1..Len(Escalated(batch)) :
              ~Escalated(batch)[k].processed /\ Actionable(Escalated(batch)[k])
    <2> DEFINE highest == IF OfSeverity(batch, "critical") # {} THEN "critical" ELSE "warning"
               primary == OfSeverity(batch, highest)
               event == NewBelief("escalation", highest, primary)
    <2>1. primary \subseteq Subjects
      BY <1>1, <1>2 DEF OfSeverity, Range
    <2>2. event \in Belief /\ ~event.processed /\ Actionable(event)
      BY <2>1 DEF NewBelief, Belief, Sources, Severities, Actionable
    <2>3. Escalated(batch) = <<>> \/ Escalated(batch) = <<event>>
      BY DEF Escalated
    <2> HIDE DEF event
    <2>4. CASE Escalated(batch) = <<>>
      BY <2>4
    <2>5. CASE Escalated(batch) = <<event>>
      BY <2>2, <2>5
    <2> QED
      BY <2>3, <2>4, <2>5
  <1> DEFINE r == Recorded(batch)
             e == Escalated(batch)
  <1>5. Perceived(batch) = r \o e
    BY DEF Perceived
  <1> HIDE DEF r, e
  <1>6. r \in Seq(Belief) /\ e \in Seq(Belief)
    BY <1>3, <1>4 DEF r, e
  <1>7. \A k \in 1..Len(r \o e) :
            \/ k \in 1..Len(r) /\ (r \o e)[k] = r[k]
            \/ k - Len(r) \in 1..Len(e) /\ (r \o e)[k] = e[k - Len(r)]
    BY <1>6
  <1>8. Len(r \o e) = Len(r) + Len(e)
    BY <1>6
  <1> QED
    BY <1>3, <1>4, <1>5, <1>6, <1>7, <1>8 DEF r, e

\* add_belief appends: what was held is unchanged and the new ones come after it.
LEMMA AddFacts ==
    ASSUME IInv, NEW notes \in Seq(Belief)
    PROVE  LET held == AddBeliefs(notes)
           IN  /\ issued + Len(notes) \in Nat
               /\ DOMAIN held = DOMAIN beliefs \cup (issued + 1)..(issued + Len(notes))
               /\ DOMAIN held \subseteq 1..(issued + Len(notes))
               /\ held \in [DOMAIN held -> Belief]
               /\ \A n \in DOMAIN beliefs : n \in DOMAIN held /\ n <= issued /\ held[n] = beliefs[n]
               /\ \A n \in DOMAIN held :
                     \/ n \in DOMAIN beliefs
                     \/ n > issued /\ n - issued \in 1..Len(notes) /\ held[n] = notes[n - issued]
  <1> DEFINE held == AddBeliefs(notes)
  <1>1. issued \in Nat /\ DOMAIN beliefs \subseteq 1..issued /\ beliefs \in [DOMAIN beliefs -> Belief]
    BY DEF IInv, Lists, ListTypes
  <1>2. Len(notes) \in Nat /\ \A k \in 1..Len(notes) : notes[k] \in Belief
    OBVIOUS
  <1>3. DOMAIN held = DOMAIN beliefs \cup (issued + 1)..(issued + Len(notes))
    BY DEF AddBeliefs
  <1>4. \A n \in DOMAIN held : held[n] = IF n <= issued THEN beliefs[n] ELSE notes[n - issued]
    BY DEF AddBeliefs
  <1>5. held = [n \in DOMAIN held |-> held[n]]
    BY DEF AddBeliefs
  <1> HIDE DEF held
  <1>6. \A n \in DOMAIN held :
            \/ n \in DOMAIN beliefs
            \/ n > issued /\ n - issued \in 1..Len(notes) /\ held[n] = notes[n - issued]
    BY <1>1, <1>2, <1>3, <1>4
  <1>7. \A n \in DOMAIN beliefs : n \in DOMAIN held /\ n <= issued /\ held[n] = beliefs[n]
    BY <1>1, <1>3, <1>4
  <1>8. DOMAIN held \subseteq 1..(issued + Len(notes))
    BY <1>1, <1>2, <1>3
  <1>9. \A n \in DOMAIN held : held[n] \in Belief
    BY <1>1, <1>2, <1>6, <1>7
  <1> QED
    BY <1>1, <1>2, <1>3, <1>5, <1>6, <1>7, <1>8, <1>9 DEF held

\* _deliberate, from the beliefs of a round to the intentions and marks it leaves.
LEMMA DeliberateKeeps ==
    ASSUME IInv, NEW batch \in Batches
    PROVE  LET held == AddBeliefs(Perceived(batch))
           IN  Lists(Deliberated(held), MarkProcessed(held), issued + Len(Perceived(batch)))
  <1> USE AgentAssumption
  <1> DEFINE notes == Perceived(batch)
             held == AddBeliefs(notes)
             k == issued + Len(notes)
             marked == MarkProcessed(held)
             list == Deliberated(held)
             record(n) == [no     |-> Cardinality(intentions) + Cardinality({m \in Fresh(held) : m <= n}),
                           source |-> n, alert |-> AlertOf(held[n]), status |-> "pending"]
             added == {record(n) : n \in Fresh(held)}
  <1>1. /\ notes \in Seq(Belief)
        /\ \A j \in 1..Len(notes) :
              /\ ~notes[j].processed
              /\ notes[j].source = "escalation" => j = Len(notes) /\ Actionable(notes[j])
    BY PerceivedFacts DEF IInv
  <1>2. /\ k \in Nat
        /\ DOMAIN held \subseteq 1..k
        /\ held \in [DOMAIN held -> Belief]
        /\ \A n \in DOMAIN beliefs : n \in DOMAIN held /\ n <= issued /\ held[n] = beliefs[n]
        /\ \A n \in DOMAIN held :
              \/ n \in DOMAIN beliefs
              \/ n > issued /\ n - issued \in 1..Len(notes) /\ held[n] = notes[n - issued]
    BY <1>1, AddFacts
  <1>3. /\ issued \in Nat
        /\ Lists(intentions, beliefs, issued)
        /\ intentions \subseteq Intention
        /\ IsFiniteSet(intentions)
    BY DEF IInv, Lists, ListTypes
  <1>4. /\ DOMAIN marked = DOMAIN held
        /\ \A n \in DOMAIN held :
              marked[n] = IF n \in ToAlert(held) THEN [held[n] EXCEPT !.processed = TRUE, !.age = 0]
                          ELSE held[n]
        /\ marked = [n \in DOMAIN held |-> marked[n]]
    BY DEF MarkProcessed
  <1>5. list = intentions \cup added
    BY DEF Deliberated
  <1> HIDE DEF notes, held, k, marked, list, added
  <1>6. Fresh(held) \subseteq ToAlert(held) /\ ToAlert(held) \subseteq DOMAIN held
    BY DEF Fresh, ToAlert, Recent
  <1>7. \A n \in DOMAIN held :
            /\ marked[n] \in Belief
            /\ marked[n].source = held[n].source
            /\ AlertOf(marked[n]) = AlertOf(held[n])
            /\ Actionable(marked[n]) <=> Actionable(held[n])
            /\ marked[n].processed <=> (n \in ToAlert(held) \/ held[n].processed)
    <2> SUFFICES ASSUME NEW n \in DOMAIN held
                 PROVE  /\ marked[n] \in Belief
                        /\ marked[n].source = held[n].source
                        /\ AlertOf(marked[n]) = AlertOf(held[n])
                        /\ Actionable(marked[n]) <=> Actionable(held[n])
                        /\ marked[n].processed <=> (n \in ToAlert(held) \/ held[n].processed)
      OBVIOUS
    <2>1. held[n] \in Belief
      BY <1>2
    <2>2. CASE n \in ToAlert(held)
      <3>1. marked[n] = [held[n] EXCEPT !.processed = TRUE, !.age = 0]
        BY <1>4, <2>2
      <3>2. /\ marked[n].source = held[n].source
            /\ marked[n].severity = held[n].severity
            /\ marked[n].about = held[n].about
            /\ marked[n].processed
        BY <2>1, <3>1 DEF Belief
      <3>3. marked[n] \in Belief
        <4>1. marked[n] = [source |-> held[n].source, severity |-> held[n].severity,
                           about |-> held[n].about, processed |-> TRUE, age |-> 0]
          BY <2>1, <3>1 DEF Belief
        <4>2. 0 \in 0..MaxAge
          OBVIOUS
        <4> QED
          BY <2>1, <4>1, <4>2 DEF Belief
      <3> QED
        BY <2>2, <3>2, <3>3 DEF AlertOf, Actionable
    <2>3. CASE n \notin ToAlert(held)
      BY <1>4, <2>1, <2>3
    <2> QED
      BY <2>2, <2>3
  <1>8. /\ Cardinality(intentions) \in Nat
        /\ IsFiniteSet(DOMAIN held)
        /\ IsFiniteSet(Fresh(held))
    <2> k \in Int
      BY <1>2
    <2>1. IsFiniteSet(1..k)
      BY FS_Interval
    <2>2. IsFiniteSet(DOMAIN held)
      BY <1>2, <2>1, FS_Subset
    <2>3. IsFiniteSet(Fresh(held))
      BY <1>6, <2>2, FS_Subset
    <2> QED
      BY <1>3, <2>2, <2>3, FS_CardinalityType
  <1>9. \A n \in Fresh(held) :
            /\ record(n) \in Intention
            /\ record(n).source = n
            /\ record(n).alert = AlertOf(held[n])
    <2> SUFFICES ASSUME NEW n \in Fresh(held) PROVE record(n) \in Intention
      OBVIOUS
    <2> DEFINE S == {m \in Fresh(held) : m <= n}
    <2>1. IsFiniteSet(S) /\ Cardinality(S) \in Nat
      BY <1>8, FS_Subset, FS_CardinalityType
    <2>2. n \in S /\ n \in Nat
      BY <1>2, <1>6
    <2>3. Cardinality(S) # 0
      BY <2>1, <2>2, FS_EmptySet
    <2>4. AlertOf(held[n]) \in Alert
      BY <1>2, <1>6 DEF AlertOf, Alert, Belief
    <2> HIDE DEF S
    <2>5. Cardinality(intentions) + Cardinality(S) \in Nat \ {0}
      BY <1>8, <2>1, <2>3
    <2> QED
      BY <2>2, <2>4, <2>5 DEF Intention, Statuses, S
  <1>10. \A i \in added : \E n \in Fresh(held) : i = record(n)
    BY DEF added
  <1>11. \A n \in Fresh(held) : record(n) \in added
    BY DEF added
  <1>12. IsFiniteSet(added)
    <2> DEFINE f == [n \in Fresh(held) |-> record(n)]
    <2>1. f \in Surjection(Fresh(held), added)
      BY DEF Surjection, added
    <2> HIDE DEF f
    <2> QED
      BY <1>8, <2>1, FS_Surjection
  <1> HIDE DEF record
  <1>13. ListTypes(list, marked, k)
    <2>1. list \subseteq Intention
      BY <1>3, <1>5, <1>9, <1>10
    <2>2. IsFiniteSet(list)
      BY <1>3, <1>5, <1>12, FS_Union
    <2> QED
      BY <1>2, <1>4, <1>7, <2>1, <2>2 DEF ListTypes
  <1>14. SourcesMarked(list, marked, k)
    <2> SUFFICES ASSUME NEW i \in list
                 PROVE  /\ i.source \in 1..k
                        /\ i.source \in DOMAIN marked => marked[i.source].processed
      BY DEF SourcesMarked
    <2>1. CASE i \in intentions
      <3>1. /\ i.source \in 1..issued
            /\ i.source \in DOMAIN beliefs => beliefs[i.source].processed
        BY <1>3, <2>1 DEF Lists, SourcesMarked
      <3>2. issued <= k
        BY <1>1, <1>3 DEF k
      <3>3. ASSUME i.source \in DOMAIN held PROVE held[i.source].processed
        BY <1>2, <1>3, <3>1, <3>3
      <3>4. i.source \in 1..k
        BY <1>2, <1>3, <3>1, <3>2
      <3>5. i.source \in DOMAIN marked => marked[i.source].processed
        BY <1>4, <1>7, <3>3
      <3> QED
        BY <3>4, <3>5
    <2>2. CASE i \in added
      <3>1. i.source \in ToAlert(held) /\ i.source \in DOMAIN held
        BY <1>6, <1>9, <1>10, <2>2
      <3> QED
        BY <1>2, <1>7, <3>1
    <2> QED
      BY <1>5, <2>1, <2>2
  <1>15. Once(list)
    <2>1. \A i \in intentions : \A n \in Fresh(held) : i.source # n
      <3> SUFFICES ASSUME NEW i \in intentions, i.source \in Fresh(held) PROVE FALSE
        OBVIOUS
      <3>1. ~held[i.source].processed /\ i.source \in DOMAIN held
        BY <1>6 DEF Fresh, ToAlert
      <3>2. /\ i.source \in 1..issued
            /\ i.source \in DOMAIN beliefs => beliefs[i.source].processed
        BY <1>3 DEF Lists, SourcesMarked
      <3> QED
        BY <1>2, <1>3, <3>1, <3>2
    <2>2. \A i, j \in intentions : i.source = j.source => i = j
      BY <1>3 DEF Lists, Once
    <2> QED
      BY <1>5, <1>9, <1>10, <2>1, <2>2 DEF Once
  <1>16. Told(list, marked)
    <2> SUFFICES ASSUME NEW n \in DOMAIN held, marked[n].processed
                 PROVE  \E i \in list : i.alert = AlertOf(held[n])
      BY <1>4, <1>7 DEF Told
    <2>1. CASE n \in ToAlert(held) /\ IsPending(AlertOf(held[n]))
      BY <1>5, <2>1 DEF IsPending, Pending
    <2>2. CASE n \in ToAlert(held) /\ ~IsPending(AlertOf(held[n]))
      <3> DEFINE same == {m \in ToAlert(held) : AlertOf(held[m]) = AlertOf(held[n])}
      <3>1. same \subseteq Nat /\ same # {}
        BY <1>2, <1>6, <2>2
      <3>2. PICK m \in same : \A l \in same : m <= l
        BY <3>1, MinFacts
      <3>3. m \in Fresh(held) /\ AlertOf(held[m]) = AlertOf(held[n])
        BY <2>2, <3>2 DEF Fresh
      <3> QED
        BY <1>5, <1>9, <1>11, <3>3
    <2>3. CASE n \notin ToAlert(held)
      <3>1. held[n].processed
        BY <1>7, <2>3
      <3>2. n \in DOMAIN beliefs /\ held[n] = beliefs[n]
        BY <1>1, <1>2, <3>1
      <3> QED
        BY <1>3, <1>5, <3>1, <3>2 DEF Lists, Told
    <2> QED
      BY <2>1, <2>2, <2>3
  <1>17. Heard(marked)
    <2> SUFFICES ASSUME NEW n \in DOMAIN held, held[n].source = "escalation",
                        ~held[n].processed
                 PROVE  n \in ToAlert(held)
      BY <1>4, <1>7 DEF Heard
    <2>1. n \notin DOMAIN beliefs
      BY <1>2, <1>3 DEF Lists, Heard
    <2>2. n = k /\ Actionable(held[n])
      BY <1>1, <1>2, <1>3, <2>1 DEF k
    <2>3. {m \in DOMAIN held : m > n} = {}
      BY <1>2, <2>2
    <2>4. Cardinality({m \in DOMAIN held : m > n}) < Window
      BY <2>3, FS_EmptySet
    <2> QED
      BY <2>2, <2>4 DEF ToAlert, Recent
  <1>18. Crowded(marked, k)
    <2> SUFFICES ASSUME NEW n \in DOMAIN held, Actionable(held[n]), ~marked[n].processed
                 PROVE  k - n >= Window
      BY <1>4, <1>7 DEF Crowded
    <2> DEFINE later == {m \in DOMAIN held : m > n}
    <2>1. ~(Cardinality(later) < Window)
      BY <1>7 DEF ToAlert, Recent
    <2>2. n \in 1..k /\ later \subseteq (n + 1)..k
      BY <1>2
    <2> n + 1 \in Int /\ k \in Int
      BY <1>2, <2>2
    <2>3. IsFiniteSet((n + 1)..k) /\ Cardinality((n + 1)..k) = k - n
      BY <2>2, FS_Interval
    <2>4. Cardinality(later) \in Nat /\ Cardinality(later) <= k - n
      BY <2>2, <2>3, FS_Subset, FS_CardinalityType
    <2> HIDE DEF later
    <2> QED
      BY <1>2, <2>1, <2>2, <2>4
  <1> QED
    BY <1>13, <1>14, <1>15, <1>16, <1>17, <1>18 DEF Lists, list, marked, k, notes, held

-------------------------------------------------------------------------------
(* The invariant *)

\* The two lists are empty at first.
LEMMA InitHolds == Init => IInv
  <1> SUFFICES ASSUME Init PROVE IInv
    OBVIOUS
  <1>1. Control
    BY DEF Init, Control
  <1>2. DOMAIN beliefs = {} /\ beliefs = [n \in DOMAIN beliefs |-> beliefs[n]]
    BY DEF Init
  <1>3. intentions = {} /\ issued = 0 /\ IsFiniteSet(intentions)
    BY FS_EmptySet DEF Init
  <1> QED
    BY <1>1, <1>2, <1>3 DEF IInv, Lists, ListTypes, SourcesMarked, Once, Told, Heard, Crowded

\* A task's belief is not of the kind that calls for an alert.
LEMMA TaskBeliefKeeps == ASSUME IInv, TaskBelief PROVE IInv'
  <1> USE AgentAssumption
  <1> DEFINE note == NewBelief("task", "none", {})
             held == AddBeliefs(<<note>>)
             k == issued + 1
  <1>1. note \in Belief /\ note.source = "task" /\ ~note.processed
    BY DEF NewBelief, Belief, Sources
  <1>2. /\ beliefs' = held /\ issued' = k /\ intentions' = intentions
        /\ monitor' = monitor /\ current' = current /\ todo' = todo /\ role' = role
    BY DEF TaskBelief
  <1>3. issued \in Nat /\ Lists(intentions, beliefs, issued)
    BY DEF IInv, Lists, ListTypes
  <1> HIDE DEF note, held
  <1>4. <<note>> \in Seq(Belief) /\ Len(<<note>>) = 1 /\ <<note>>[1] = note
    BY <1>1
  <1>5. /\ DOMAIN held \subseteq 1..k
        /\ held \in [DOMAIN held -> Belief]
        /\ \A n \in DOMAIN beliefs : n \in DOMAIN held /\ n <= issued /\ held[n] = beliefs[n]
        /\ \A n \in DOMAIN held :
              \/ n \in DOMAIN beliefs
              \/ n > issued /\ n - issued \in 1..1 /\ held[n] = <<note>>[n - issued]
    BY <1>4, AddFacts DEF held
  <1>6. \A n \in DOMAIN held : n \in DOMAIN beliefs \/ (n = k /\ held[n] = note)
    BY <1>3, <1>4, <1>5
  <1>7. ListTypes(intentions, held, k)
    BY <1>3, <1>5 DEF Lists, ListTypes
  <1>8. SourcesMarked(intentions, held, k)
    <2> SUFFICES ASSUME NEW i \in intentions
                 PROVE  /\ i.source \in 1..k
                        /\ i.source \in DOMAIN held => held[i.source].processed
      BY DEF SourcesMarked
    <2>1. /\ i.source \in 1..issued
          /\ i.source \in DOMAIN beliefs => beliefs[i.source].processed
      BY <1>3 DEF Lists, SourcesMarked
    <2> QED
      BY <1>3, <1>5, <1>6, <2>1
  <1>9. Once(intentions) /\ Told(intentions, held) /\ Heard(held)
    BY <1>1, <1>3, <1>5, <1>6 DEF Lists, Once, Told, Heard
  <1>10. Crowded(held, k)
    <2> SUFFICES ASSUME NEW n \in DOMAIN held, Actionable(held[n]), ~held[n].processed
                 PROVE  k - n >= Window
      BY DEF Crowded
    <2>1. n \in DOMAIN beliefs /\ held[n] = beliefs[n]
      BY <1>1, <1>5, <1>6 DEF Actionable
    <2>2. issued - n >= Window /\ n \in Nat
      BY <1>3, <2>1 DEF Lists, ListTypes, Crowded
    <2> QED
      BY <1>3, <2>2
  <1>11. Lists(intentions, held, k)
    BY <1>7, <1>8, <1>9, <1>10 DEF Lists
  <1> HIDE DEF k
  <1> QED
    BY <1>2, <1>11 DEF IInv, Control

\* Time changes ages only.
LEMMA TickKeeps == ASSUME IInv, Tick PROVE IInv'
  <1> USE AgentAssumption
  <1>1. /\ DOMAIN beliefs' = DOMAIN beliefs
        /\ \A n \in DOMAIN beliefs : beliefs'[n] = Older(beliefs[n])
        /\ beliefs' = [n \in DOMAIN beliefs |-> beliefs'[n]]
    BY DEF Tick
  <1>2. /\ intentions' = intentions /\ issued' = issued /\ role' = role
        /\ monitor' = monitor /\ current' = current /\ todo' = todo
    BY DEF Tick
  <1>3. \A b \in Belief :
            /\ Older(b) \in Belief
            /\ Older(b).source = b.source
            /\ Older(b).severity = b.severity
            /\ Older(b).about = b.about
            /\ Older(b).processed = b.processed
    BY DEF Older, Belief
  <1>4. \A n \in DOMAIN beliefs :
            /\ beliefs'[n] \in Belief
            /\ beliefs'[n].source = beliefs[n].source
            /\ AlertOf(beliefs'[n]) = AlertOf(beliefs[n])
            /\ Actionable(beliefs'[n]) <=> Actionable(beliefs[n])
            /\ beliefs'[n].processed = beliefs[n].processed
    BY <1>1, <1>3 DEF IInv, Lists, ListTypes, AlertOf, Actionable
  <1>5. ListTypes(intentions', beliefs', issued')
    BY <1>1, <1>2, <1>4 DEF IInv, Lists, ListTypes
  <1>6. /\ SourcesMarked(intentions', beliefs', issued')
        /\ Once(intentions')
        /\ Told(intentions', beliefs')
        /\ Heard(beliefs')
        /\ Crowded(beliefs', issued')
    BY <1>1, <1>2, <1>4 DEF IInv, Lists, SourcesMarked, Once, Told, Heard, Crowded
  <1> QED
    BY <1>2, <1>5, <1>6 DEF IInv, Control, Lists

\* Every step keeps the invariant: the lists change in Perceive and Settle, by the
\* pieces above, in TaskBelief and in Tick.
LEMMA StepHolds == IInv /\ [Next]_vars => IInv'
  <1> SUFFICES ASSUME IInv, [Next]_vars PROVE IInv'
    OBVIOUS
  <1>1. CASE StartBackgroundMonitor
    BY <1>1 DEF StartBackgroundMonitor, IInv, Control
  <1>2. CASE StopBackgroundMonitor
    BY <1>2 DEF StopBackgroundMonitor, IInv, Control
  <1>3. ASSUME NEW batch \in Batches, Perceive(batch) PROVE IInv'
    <2> DEFINE held == AddBeliefs(Perceived(batch))
               list == Deliberated(held)
               left == {i.no : i \in Pending(list)}
    <2>1. Lists(list, MarkProcessed(held), issued + Len(Perceived(batch)))
      BY DeliberateKeeps
    <2>2. /\ issued' = issued + Len(Perceived(batch))
          /\ Proceed(list, left, MarkProcessed(held))
          /\ role' = role
      BY <1>3 DEF Perceive
    <2>3. left \subseteq Nat \ {0}
      BY <2>1 DEF Lists, ListTypes, Intention, Pending
    <2>4. role' \in Roles
      BY <2>2 DEF IInv, Control
    <2> HIDE DEF held, list, left
    <2> QED
      BY <2>1, <2>2, <2>3, <2>4, ProceedKeeps
  <1>4. ASSUME NEW outcome \in {"completed", "failed"}, Settle(outcome) PROVE IInv'
    <2>1. Lists(SetStatus(intentions, current, outcome), beliefs, issued)
      BY StatusKeeps DEF IInv, Statuses
    <2>2. /\ Proceed(SetStatus(intentions, current, outcome), todo, beliefs)
          /\ issued' = issued /\ role' = role
      BY <1>4 DEF Settle
    <2>3. role' \in Roles /\ todo \subseteq Nat \ {0}
      BY <2>2 DEF IInv, Control
    <2> QED
      BY <2>1, <2>2, <2>3, ProceedKeeps
  <1>5. CASE Wake
    BY <1>5 DEF Wake, IInv, Control
  <1>6. CASE TaskBelief
    BY <1>6, TaskBeliefKeeps
  <1>7. CASE Tick
    BY <1>7, TickKeeps
  <1>8. CASE UNCHANGED vars
    BY <1>8 DEF vars, IInv, Control
  <1> QED
    BY <1>1, <1>2, <1>3, <1>4, <1>5, <1>6, <1>7, <1>8 DEF Next, MonitorStep

\* The two lists stay in step with each other in every reachable state.
THEOREM Inductive == Spec => []IInv
  BY InitHolds, StepHolds, PTL DEF Spec

\* The agent's state keeps its shape.
THEOREM TypeCorrect == Spec => []TypeOK
  <1>1. IInv => TypeOK
    BY DEF IInv, Control, Lists, ListTypes, TypeOK
  <1> QED
    BY <1>1, Inductive, PTL

\* A belief is turned into an intention at most once (_deliberate, add_intention).
THEOREM AlertedOnce == Spec => []OneAlertPerBelief
  <1>1. IInv => OneAlertPerBelief
    BY DEF IInv, Lists, Once, OneAlertPerBelief
  <1> QED
    BY <1>1, Inductive, PTL

\* What is marked as processed was turned into an alert (_deliberate).
THEOREM MarksHonest == Spec => []AlertBehindMark
  <1>1. IInv => AlertBehindMark
    BY DEF IInv, Lists, Told, AlertBehindMark
  <1> QED
    BY <1>1, Inductive, PTL

\* Escalations are heard in the round that makes them (_perceive_environment).
THEOREM EscalationsSafe == Spec => []EscalationsHeard
  <1>1. IInv => EscalationsHeard
    BY DEF IInv, Lists, Heard, EscalationsHeard
  <1> QED
    BY <1>1, Inductive, PTL

\* Only a full window of later beliefs keeps a signal from being heard (_deliberate).
THEOREM LossExplained == Spec => []UnheardWereCrowded
  <1>1. IInv => UnheardWereCrowded
    BY DEF IInv, Lists, Crowded, UnheardWereCrowded
  <1> QED
    BY <1>1, Inductive, PTL
===============================================================================
