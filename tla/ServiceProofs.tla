---------------------------- MODULE ServiceProofs ----------------------------
(***************************************************************************)
(* Proofs about the services that outlive a run, for every value of their    *)
(* constants.  The components share no state; each has a section of its own. *)
(***************************************************************************)
EXTENDS MemoryReading, LlmClient, CostGovernance, SkillStore, SessionSegments,
        Perception, FiniteSetTheorems, SequenceTheorems, WellFoundedInduction, TLAPS

-----------------------------------------------------------------------------
NatLess == {pair \in Nat \X Nat : pair[1] < pair[2]}

LEMMA NatLessIsWellFounded == IsWellFoundedOn(NatLess, Nat)
<1>1. IsWellFoundedOn({pair \in Nat \X Nat : pair[1] < pair[2]}, Nat)
  BY NatLessThanWellFounded DEF OpToRel
<1>2. QED
  BY <1>1 DEF NatLess

\* The smallest of some numbers is one of them.
LEMMA Smallest ==
    ASSUME NEW S \in SUBSET Nat, S # {}
    PROVE  Min(S) \in S /\ \A i \in S : Min(S) <= i
<1>2. PICK m \in S : \A i \in S : <<i, m>> \notin NatLess
  BY WFMin, NatLessIsWellFounded
<1>3. ASSUME NEW i \in S PROVE m <= i
  <2>1. i \in Nat /\ m \in Nat /\ <<i, m>> \in Nat \X Nat /\ <<i, m>> \notin NatLess
    BY <1>2
  <2>2. ~(<<i, m>>[1] < <<i, m>>[2])
    BY <2>1, Zenon DEF NatLess
  <2>3. QED
    BY <2>1, <2>2
<1>4. QED
  BY <1>3 DEF Min

-----------------------------------------------------------------------------
(* Lists by the places of their items. *)

\* Places in a sort: one for each item, in the order of the keys.
LEMMA PlacesOrdered ==
    ASSUME NEW places \in SUBSET Nat, IsFiniteSet(places), NEW key \in [places -> Int]
    PROVE  /\ \A i \in places : PlaceOf(key, i) \in 1 .. Cardinality(places)
           /\ \A i, j \in places : Precedes(key, i, j) => PlaceOf(key, i) < PlaceOf(key, j)
           /\ \A k \in 1 .. Cardinality(places) : \E i \in places : PlaceOf(key, i) = k
<1> DEFINE upTo(i) == {j \in places : ~Precedes(key, i, j)}
           all == Cardinality(places)
           at == [i \in places |-> PlaceOf(key, i)]
<1>1. all \in Nat /\ IsFiniteSet(1 .. all) /\ Cardinality(1 .. all) = all
  <2>1. all \in Nat /\ all \in Int /\ 1 \in Int
    BY FS_CardinalityType
  <2> HIDE DEF all
  <2>2. IsFiniteSet(1 .. all) /\ Cardinality(1 .. all) = IF 1 > all THEN 0 ELSE all - 1 + 1
    BY <2>1, FS_Interval
  <2>3. QED
    BY <2>1, <2>2
<1>2. \A i \in places : key[i] \in Int /\ i \in Nat
  OBVIOUS
<1>3. ASSUME NEW i \in places
      PROVE  /\ IsFiniteSet(upTo(i)) /\ at[i] = Cardinality(upTo(i)) /\ at[i] \in 1 .. all
             /\ Cardinality(upTo(i)) \in Nat
  <2>1. IsFiniteSet(upTo(i)) /\ Cardinality(upTo(i)) <= all
    BY FS_Subset, upTo(i) \in SUBSET places
  <2>2. i \in upTo(i)
    BY <1>2 DEF Precedes
  <2>3. Cardinality(upTo(i)) \in Nat
    BY <2>1, FS_CardinalityType
  <2>4. Cardinality(upTo(i)) # 0
    BY <2>1, <2>2, FS_EmptySet
  <2>5. at[i] = Cardinality(upTo(i))
    BY DEF PlaceOf
  <2> HIDE DEF all, upTo, at
  <2>6. QED
    BY <1>1, <2>1, <2>3, <2>4, <2>5
<1>4. ASSUME NEW i \in places, NEW j \in places, Precedes(key, i, j) PROVE at[i] < at[j]
  <2>1. upTo(i) \in SUBSET upTo(j) /\ upTo(i) # upTo(j)
    <3>1. j \in upTo(j) /\ j \notin upTo(i)
      BY <1>2, <1>4 DEF Precedes
    <3>2. \A k \in places : ~Precedes(key, i, k) => ~Precedes(key, j, k)
      BY <1>2, <1>4 DEF Precedes
    <3>3. QED
      BY <3>1, <3>2
  <2> HIDE DEF upTo, at, all
  <2>2. Cardinality(upTo(i)) <= Cardinality(upTo(j)) /\ Cardinality(upTo(i)) # Cardinality(upTo(j))
    BY <1>3, <2>1, FS_Subset
  <2>3. QED
    BY <1>3, <2>2
<1>5. ASSUME NEW i \in places, NEW j \in places, i # j PROVE at[i] # at[j]
  <2>1. Precedes(key, i, j) \/ Precedes(key, j, i)
    BY <1>2, <1>5 DEF Precedes
  <2>2. at[i] \in Nat /\ at[j] \in Nat
    BY <1>3
  <2> HIDE DEF at
  <2>3. QED
    BY <1>4, <2>1, <2>2
<1>6. at \in Injection(places, 1 .. all)
  <2>1. at \in [places -> 1 .. all]
    BY <1>3
  <2>2. \A i, j \in places : at[i] = at[j] => i = j
    BY <1>5
  <2>3. DOMAIN at = places
    OBVIOUS
  <2> HIDE DEF at, all
  <2>4. QED
    BY <2>1, <2>2, <2>3 DEF Injection, IsInjective
<1>7. \A k \in 1 .. all : \E i \in places : at[i] = k
  <2> HIDE DEF at, upTo
  <2>1. Cardinality(places) = Cardinality(1 .. all)
    BY <1>1
  <2>2. at \in Surjection(places, 1 .. all)
    BY <1>1, <1>6, <2>1, FS_Injection
  <2>3. QED
    BY <2>2 DEF Surjection
<1>8. \A i \in places : at[i] = PlaceOf(key, i)
  OBVIOUS
<1> HIDE DEF at
<1>9. QED
  BY <1>3, <1>4, <1>7, <1>8

\* What a sort gives: the items that have a key, each once, in the order of the keys.
SortsBy(at, sorted, items, key, places) ==
    /\ Cardinality(places) \in Nat
    /\ at \in [1 .. Cardinality(places) -> places]
    /\ sorted = [k \in 1 .. Cardinality(places) |-> items[at[k]]]
    /\ \A i \in places : \E k \in 1 .. Cardinality(places) : at[k] = i
    /\ \A k, l \in 1 .. Cardinality(places) : k < l => Precedes(key, at[k], at[l])

\* A sort does.
LEMMA Sorts ==
    ASSUME NEW places \in SUBSET Nat, IsFiniteSet(places), NEW key \in [places -> Int], NEW items
    PROVE  \E at : SortsBy(at, SortedBy(items, key), items, key, places)
<1> DEFINE ids == 1 .. Cardinality(places)
           at == [k \in ids |-> CHOOSE i \in places : PlaceOf(key, i) = k]
<1>1. /\ \A i \in places : PlaceOf(key, i) \in ids
      /\ \A i, j \in places : Precedes(key, i, j) => PlaceOf(key, i) < PlaceOf(key, j)
      /\ \A k \in ids : \E i \in places : PlaceOf(key, i) = k
  BY PlacesOrdered
<1>2. \A k \in ids : at[k] \in places /\ PlaceOf(key, at[k]) = k
  BY <1>1
<1>3. SortedBy(items, key) = [k \in ids |-> items[at[k]]]
  BY DEF SortedBy
<1>4. \A i \in places : key[i] \in Int /\ i \in Nat
  OBVIOUS
<1>5. at \in [ids -> places]
  BY <1>2
<1>6. Cardinality(places) \in Nat /\ \A k \in ids : k \in Nat
  BY FS_CardinalityType
<1> HIDE DEF at, ids
<1>7. ASSUME NEW i \in places, NEW j \in places, PlaceOf(key, i) <= PlaceOf(key, j), i # j
      PROVE  Precedes(key, i, j)
  <2>1. ~Precedes(key, j, i)
    BY <1>1, <1>6, <1>7
  <2>2. QED
    BY <1>4, <1>7, <2>1 DEF Precedes
<1>8. ASSUME NEW k \in ids, NEW l \in ids, k < l PROVE Precedes(key, at[k], at[l])
  <2>1. /\ at[k] \in places /\ PlaceOf(key, at[k]) = k /\ at[l] \in places /\ PlaceOf(key, at[l]) = l
        /\ k \in Nat /\ l \in Nat
    BY <1>2, <1>6
  <2>2. at[k] # at[l] /\ PlaceOf(key, at[k]) <= PlaceOf(key, at[l])
    BY <1>8, <2>1
  <2>3. QED
    BY <1>7, <2>1, <2>2
<1>9. \A i \in places : \E k \in ids : at[k] = i
  <2>1. ASSUME NEW i \in places PROVE at[PlaceOf(key, i)] = i
    <3>1. PlaceOf(key, i) \in ids
      BY <1>1
    <3>2. at[PlaceOf(key, i)] \in places /\ PlaceOf(key, at[PlaceOf(key, i)]) = PlaceOf(key, i)
      BY <1>2, <3>1
    <3>3. ASSUME NEW j \in places, PlaceOf(key, j) = PlaceOf(key, i) PROVE j = i
      <4>1. ~Precedes(key, i, j) /\ ~Precedes(key, j, i)
        <5>1. /\ Precedes(key, i, j) => PlaceOf(key, i) < PlaceOf(key, j)
              /\ Precedes(key, j, i) => PlaceOf(key, j) < PlaceOf(key, i)
          BY <1>1
        <5>2. PlaceOf(key, i) \in Nat
          BY <1>1, <1>6
        <5>3. QED
          BY <3>3, <5>1, <5>2
      <4>2. QED
        BY <1>4, <4>1 DEF Precedes
    <3>4. QED
      BY <3>2, <3>3
  <2>2. QED
    BY <1>1, <2>1
<1>10. SortsBy(at, SortedBy(items, key), items, key, places)
  BY <1>3, <1>5, <1>6, <1>8, <1>9 DEF ids, SortsBy
<1>11. QED
  BY <1>10

\* A list that is in order stays as it is.
LEMMA SortKeeps ==
    ASSUME NEW n \in Nat, NEW key \in [1 .. n -> Nat],
           \A i, j \in 1 .. n : i < j => key[i] < key[j], NEW items
    PROVE  SortedBy(items, key) = [k \in 1 .. n |-> items[k]]
<1>1. ASSUME NEW i \in 1 .. n PROVE PlaceOf(key, i) = i
  <2>1. \A j \in 1 .. n : ~Precedes(key, i, j) <=> j <= i
    BY \A j \in 1 .. n : key[j] \in Nat DEF Precedes
  <2>2. {j \in DOMAIN key : ~Precedes(key, i, j)} = 1 .. i
    BY <2>1
  <2>3. Cardinality(1 .. i) = i
    BY FS_Interval, 1 \in Int, i \in Int
  <2>4. QED
    BY <2>2, <2>3 DEF PlaceOf
<1>2. \A k \in 1 .. n : (CHOOSE i \in 1 .. n : PlaceOf(key, i) = k) = k
  BY <1>1
<1>3. DOMAIN key = 1 .. n /\ Cardinality(1 .. n) = n
  BY FS_Interval, 1 \in Int, n \in Int
<1>4. SortedBy(items, key) = [k \in 1 .. n |-> items[CHOOSE i \in 1 .. n : PlaceOf(key, i) = k]]
  BY <1>3 DEF SortedBy
<1>5. QED
  BY <1>2, <1>4

\* A part of a list.
LEMMA PartOf ==
    ASSUME NEW S, NEW list \in Seq(S), NEW first \in Nat \ {0}, NEW last \in Nat,
           first <= last + 1, last <= Len(list)
    PROVE  LET part == SubSeq(list, first, last) IN
           /\ part \in Seq(S) /\ Len(part) = last + 1 - first
           /\ \A k \in 1 .. last + 1 - first : part[k] = list[first + k - 1]
<1>1. Len(list) \in Nat /\ list \in [1 .. Len(list) -> S]
  BY LenProperties
<1>2. \A i \in first .. last : list[i] \in S
  BY <1>1
<1>3. first \in Int /\ last \in Int
  OBVIOUS
<1>4. QED
  BY <1>2, <1>3, SubSeqProperties

\* The items at some places are those, and no two of one place.
LEMMA ItemsAtTells ==
    ASSUME NEW S, NEW list \in Seq(S), NEW places \in SUBSET DOMAIN list
    PROVE  LET picked == ItemsAt(list, places) IN
           /\ picked \in Seq(S) /\ Len(picked) = Cardinality(places)
           /\ Cardinality(places) \in Nat /\ Cardinality(places) <= Len(list)
           /\ \A k \in DOMAIN picked : \E i \in places : picked[k] = list[i]
           /\ \A i \in places : \E k \in DOMAIN picked : picked[k] = list[i]
           /\ \A k, l \in DOMAIN picked :
                k # l => \E i, j \in places : i # j /\ picked[k] = list[i] /\ picked[l] = list[j]
<1> DEFINE all == Cardinality(places)
           key == [i \in places |-> 0]
           picked == ItemsAt(list, places)
<1>1. IsFiniteSet(DOMAIN list) /\ Cardinality(DOMAIN list) = Len(list) /\ DOMAIN list \in SUBSET Nat
  <2>1. DOMAIN list = 1 .. Len(list) /\ Len(list) \in Nat /\ 1 \in Int /\ Len(list) \in Int
    BY LenProperties
  <2>2. IsFiniteSet(1 .. Len(list))
        /\ Cardinality(1 .. Len(list)) = IF 1 > Len(list) THEN 0 ELSE Len(list) - 1 + 1
    BY <2>1, FS_Interval
  <2>3. QED
    BY <2>1, <2>2
<1>2. IsFiniteSet(places) /\ all <= Len(list) /\ places \in SUBSET Nat
  BY <1>1, FS_Subset
<1>3. PICK at : SortsBy(at, SortedBy(list, key), list, key, places)
  <2>1. key \in [places -> Int]
    OBVIOUS
  <2> HIDE DEF key
  <2>2. QED
    BY <1>2, <2>1, Sorts
<1>4. /\ all \in Nat /\ at \in [1 .. all -> places]
      /\ picked = [k \in 1 .. all |-> list[at[k]]]
      /\ \A i \in places : \E k \in 1 .. all : at[k] = i
      /\ \A k, l \in 1 .. all : k < l => Precedes(key, at[k], at[l])
  BY <1>3 DEF SortsBy, ItemsAt
<1>5. \A k, l \in 1 .. all : k < l => at[k] < at[l]
  BY <1>2, <1>4 DEF Precedes
<1>6. \A i \in places : list[i] \in S
  BY LenProperties
<1> HIDE DEF all, key, picked
<1>7. picked \in [1 .. all -> S]
  BY <1>4, <1>6
<1>8. picked \in Seq(S) /\ Len(picked) = all /\ DOMAIN picked = 1 .. all
  BY <1>4, <1>7
<1>9. \A k \in 1 .. all : at[k] \in places /\ picked[k] = list[at[k]] /\ at[k] \in Nat
  BY <1>2, <1>4
<1>10. ASSUME NEW k \in 1 .. all, NEW l \in 1 .. all, k # l PROVE at[k] # at[l]
  <2>1. k < l \/ l < k
    BY <1>4, <1>10
  <2>2. QED
    BY <1>5, <1>9, <2>1
<1>11. \A i \in places : \E k \in 1 .. all : picked[k] = list[i]
  BY <1>4, <1>9
<1>12. \A k, l \in 1 .. all :
         k # l => \E i, j \in places : i # j /\ picked[k] = list[i] /\ picked[l] = list[j]
  BY <1>9, <1>10
<1>13. QED
  BY <1>2, <1>4, <1>8, <1>9, <1>11, <1>12, ZenonT(30) DEF all, picked

\* The first items of a list.
LEMMA FirstTakes ==
    ASSUME NEW S, NEW list \in Seq(S), NEW n \in Nat
    PROVE  /\ First(n, list) \in Seq(S)
           /\ Len(First(n, list)) = IF Len(list) < n THEN Len(list) ELSE n
           /\ Len(First(n, list)) <= Len(list)
           /\ \A k \in DOMAIN First(n, list) : k \in DOMAIN list /\ First(n, list)[k] = list[k]
           /\ Len(list) <= n => First(n, list) = list
<1> DEFINE m == Len(list)
           size == IF m < n THEN m ELSE n
           first == First(n, list)
<1>1. m \in Nat /\ DOMAIN list = 1 .. m /\ list \in [1 .. m -> S]
  BY LenProperties
<1>3. first = SubSeq(list, 1, size)
  BY DEF First
<1> HIDE DEF m, first
<1>2. size \in Nat /\ size <= m /\ (m <= n => size = m)
  BY <1>1
<1> HIDE DEF size
<1>4. first \in Seq(S) /\ Len(first) = size /\ \A k \in 1 .. size : first[k] = list[k]
  <2>1. 1 \in Nat \ {0} /\ 1 <= size + 1 /\ size <= Len(list)
    BY <1>2 DEF m
  <2>2. /\ first \in Seq(S) /\ Len(first) = size + 1 - 1
        /\ \A k \in 1 .. size + 1 - 1 : first[k] = list[1 + k - 1]
    BY <1>2, <1>3, <2>1, PartOf
  <2>3. size + 1 - 1 = size /\ \A k \in 1 .. size : 1 + k - 1 = k
    BY <1>2
  <2>4. QED
    BY <2>2, <2>3
<1>5. DOMAIN first = 1 .. size
  BY <1>4, LenProperties
<1>6. \A k \in 1 .. size : k \in DOMAIN list
  BY <1>1, <1>2
<1>7. m <= n => first = list
  BY <1>1, <1>2, <1>4, <1>5
<1>8. QED
  BY <1>2, <1>4, <1>5, <1>6, <1>7 DEF m, size, first

-----------------------------------------------------------------------------
(* The resolver of the process.  What makes the property inductive is that,  *)
(* as long as a call only ends while its own client has the resolver, the    *)
(* replacements form one chain: from the client that is installed now,       *)
(* through what each saved, down to the real resolver, and no two clients    *)
(* saved the same one.  A client that is left behind stays in that chain.    *)

AskForms == [stage : {"new", "attempt", "posted", "pause", "closing", "over"},
             form : {"chat", "direct", "embedding"}, prompt : Prompts \cup {"none"},
             exact : BOOLEAN, jsonMode : BOOLEAN, attempt : Nat, try : Nat,
             outcome : Answers \cup {"none", "JSON_MODE", "error", "cancelled"},
             result : {"none", "raised", "fallback", "answer", "cancelled"}]

LlmTypeOK ==
    /\ asks \in [Asks -> AskForms]
    /\ resolver \in Asks \cup {"real"}
    /\ saved \in [Asks -> Asks \cup {"real", "none"}]

\* Only a call between its first request and its end has replaced the resolver,
\* or one that is over and was stranded.
Replacing(a) ==
    \/ UnderWay(a)
    \/ a \in stranded /\ asks[a].stage = "over"
PatchedUnderWay == \A a \in Asks : saved[a] # "none" => Replacing(a)

ResolversChained ==
    /\ resolver \in Asks => saved[resolver] # "none"
    /\ \A a \in Asks :
         saved[a] \in Asks => /\ saved[saved[a]] # "none"
                              /\ saved[a] # resolver
                              /\ \A b \in Asks \ {a} : saved[b] # saved[a]

LlmIInv ==
    /\ LlmTypeOK
    /\ PatchedUnderWay
    /\ ~crossed => ResolversChained

LEMMA OverForm ==
    ASSUME NEW result \in {"none", "raised", "fallback", "answer", "cancelled"}
    PROVE  Over(result) \in AskForms /\ Over(result).stage = "over"
BY DEF Over, NewAsk, AskForms

\* What an answer or an error makes of a question is a question that is over
\* or waits for its next attempt.
LEMMA ParsedForm ==
    ASSUME NEW ask \in AskForms, NEW answer
    PROVE  Parsed(ask, answer) \in AskForms /\ CallFailed(ask, answer) \in AskForms
<1>1. ASSUME NEW question \in AskForms, NEW text
      PROVE  Parsed(question, text) \in AskForms
  <2>1. question.attempt + 1 \in Nat
    BY DEF AskForms
  <2>2. [question EXCEPT !.stage = "attempt", !.attempt = @ + 1, !.try = 0, !.outcome = "none"]
          \in AskForms
    BY <2>1 DEF AskForms
  <2>3. QED
    BY <2>2, OverForm DEF Parsed
<1>2. (ask.jsonMode /\ answer # "JSON_MODE") \in BOOLEAN
  OBVIOUS
<1>3. [ask EXCEPT !.jsonMode = @ /\ answer # "JSON_MODE"] \in AskForms
  BY <1>2 DEF AskForms
<1>4. QED
  BY <1>1, <1>3 DEF CallFailed

LEMMA SettledForm ==
    ASSUME NEW ask \in AskForms
    PROVE  Settled(ask) \in AskForms
BY ParsedForm, OverForm DEF Settled

LEMMA DecidedForm ==
    ASSUME NEW ask \in AskForms, NEW outcome \in Answers \cup {"JSON_MODE", "error", "cancelled"}
    PROVE  Decided(ask, outcome) \in AskForms /\ Decided(ask, outcome).stage = "closing"
BY DEF Decided, AskForms

LEMMA OnlyOneAsks ==
    ASSUME LlmTypeOK, NEW a \in Asks, NEW ask \in AskForms,
           asks' = [asks EXCEPT ![a] = ask]
    PROVE  /\ asks' \in [Asks -> AskForms]
           /\ asks'[a] = ask
           /\ \A b \in Asks \ {a} : asks'[b] = asks[b]
BY DEF LlmTypeOK

\* A question that takes its next step without touching the resolver.
LEMMA QuietAsk ==
    ASSUME LlmIInv, NEW a \in Asks, NEW ask \in AskForms,
           asks' = [asks EXCEPT ![a] = ask], UNCHANGED dnsVars, stranded \subseteq stranded',
           \/ saved[a] = "none" \/ ask.stage \in {"posted", "pause", "closing"}
           \/ ask.stage = "over" /\ a \in stranded'
    PROVE  LlmIInv'
<1>1. LlmTypeOK' /\ (~crossed' => ResolversChained')
  BY OnlyOneAsks DEF LlmIInv, LlmTypeOK, ResolversChained, dnsVars
<1>2. ASSUME NEW b \in Asks, saved'[b] # "none" PROVE Replacing(b)'
  <2>1. saved' = saved
    BY DEF dnsVars
  <2>2. Replacing(b)
    BY <1>2, <2>1 DEF LlmIInv, PatchedUnderWay
  <2>3. CASE b = a
    BY <1>2, <2>1, <2>3, OnlyOneAsks DEF LlmIInv, Replacing, UnderWay
  <2>4. CASE b # a
    BY <2>2, <2>4, OnlyOneAsks DEF LlmIInv, Replacing, UnderWay
  <2>5. QED
    BY <2>3, <2>4
<1>3. QED
  BY <1>1, <1>2 DEF LlmIInv, PatchedUnderWay

\* The first request of a call puts its client in front of the chain, where it
\* stays if the call leaves for want of a key ...
LEMMA PatchAsk ==
    ASSUME LlmIInv, NEW a \in Asks, NEW ask \in AskForms,
           asks' = [asks EXCEPT ![a] = ask], ApplyDnsPatch(a),
           asks[a].stage \in {"new", "attempt"}, stranded \subseteq stranded',
           \/ ask.stage = "posted"
           \/ ask.stage = "over" /\ (FixedIp => a \in stranded')
    PROVE  LlmIInv'
<1> USE DEF LlmIInv, LlmTypeOK
<1>a. saved[a] = "none"
  BY DEF PatchedUnderWay, Replacing, UnderWay
<1>1. CASE ~FixedIp
  BY <1>1, <1>a, QuietAsk DEF ApplyDnsPatch
<1>2. CASE FixedIp
  <2>1. /\ resolver' = a /\ saved' = [saved EXCEPT ![a] = resolver] /\ crossed' = crossed
        /\ saved[a] = "none"
    BY <1>2, <1>a DEF ApplyDnsPatch
  <2>2. LlmTypeOK'
    BY <2>1, OnlyOneAsks, LlmAssumption
  <2>5. ASSUME NEW b \in Asks, saved'[b] # "none" PROVE Replacing(b)'
    <3>1. CASE b = a
      BY <1>2, <3>1, OnlyOneAsks DEF Replacing, UnderWay
    <3>2. CASE b # a
      BY <2>1, <2>5, <3>2, OnlyOneAsks DEF PatchedUnderWay, Replacing, UnderWay
    <3>3. QED
      BY <3>1, <3>2
  <2>3. ASSUME ResolversChained PROVE ResolversChained'
    <3>1. resolver # a /\ \A b \in Asks : saved[b] # a
      BY <2>1, <2>3 DEF ResolversChained
    <3>2. resolver' \in Asks => saved'[resolver'] # "none"
      BY <2>1, LlmAssumption
    <3>3. ASSUME NEW b \in Asks, saved'[b] \in Asks
          PROVE  /\ saved'[saved'[b]] # "none"
                 /\ saved'[b] # resolver'
                 /\ \A c \in Asks \ {b} : saved'[c] # saved'[b]
      BY <2>1, <2>3, <3>1, <3>3, LlmAssumption DEF ResolversChained
    <3>4. QED
      BY <3>2, <3>3 DEF ResolversChained
  <2>4. QED
    BY <2>1, <2>2, <2>3, <2>5 DEF PatchedUnderWay
<1>3. QED
  BY <1>1, <1>2

LEMMA PostKeeps ==
    ASSUME LlmIInv, NEW a \in Asks, NEW ask \in AskForms, Post(a, ask),
           asks[a].stage \in {"new", "attempt"}
    PROVE  LlmIInv'
<1> DEFINE posted == [ask EXCEPT !.stage = "posted"]
<1>1. posted \in AskForms /\ posted.stage = "posted"
  BY DEF AskForms
<1>2. CASE asks' = [asks EXCEPT ![a] = posted] /\ stranded' = stranded
  <2>1. ApplyDnsPatch(a)
    BY DEF Post
  <2> HIDE DEF posted
  <2>2. QED
    BY <1>1, <1>2, <2>1, PatchAsk
<1>3. CASE /\ asks' = [asks EXCEPT ![a] = Over("raised")]
           /\ stranded' = IF FixedIp THEN stranded \cup {a} ELSE stranded
  <2>1. ApplyDnsPatch(a)
    BY DEF Post
  <2>2. Over("raised") \in AskForms /\ Over("raised").stage = "over"
    BY OverForm
  <2>3. QED
    BY <1>3, <2>1, <2>2, PatchAsk
<1>4. QED
  BY <1>2, <1>3 DEF Post

\* ... and its end takes it away again, if it is the client in front.
LEMMA RestoreAsk ==
    ASSUME LlmIInv, NEW a \in Asks, NEW ask \in AskForms, stranded' = stranded,
           asks' = [asks EXCEPT ![a] = ask], RestoreDns(a)
    PROVE  LlmIInv'
<1> USE DEF LlmIInv, LlmTypeOK
<1>1. CASE saved[a] = "none"
  BY <1>1, QuietAsk DEF RestoreDns
<1>2. CASE saved[a] # "none"
  <2>1. /\ resolver' = saved[a] /\ saved' = [saved EXCEPT ![a] = "none"]
        /\ crossed' = (crossed \/ resolver # a)
    BY <1>2 DEF RestoreDns
  <2>2. LlmTypeOK'
    BY <1>2, <2>1, OnlyOneAsks
  <2>5. ASSUME NEW b \in Asks, saved'[b] # "none" PROVE Replacing(b)'
    <3>1. b # a /\ saved[b] # "none"
      BY <2>1, <2>5
    <3>2. QED
      BY <3>1, OnlyOneAsks DEF PatchedUnderWay, Replacing, UnderWay
  <2>3. ASSUME ~crossed' PROVE ResolversChained'
    <3>1. resolver = a /\ ResolversChained
      BY <2>1, <2>3
    <3>2. resolver' \in Asks => saved'[resolver'] # "none"
      BY <2>1, <3>1 DEF ResolversChained
    <3>3. ASSUME NEW b \in Asks, saved'[b] \in Asks
          PROVE  /\ saved'[saved'[b]] # "none"
                 /\ saved'[b] # resolver'
                 /\ \A c \in Asks \ {b} : saved'[c] # saved'[b]
      BY <1>2, <2>1, <3>1, <3>3, LlmAssumption DEF ResolversChained
    <3>4. QED
      BY <3>2, <3>3 DEF ResolversChained
  <2>4. QED
    BY <2>2, <2>3, <2>5 DEF PatchedUnderWay
<1>3. QED
  BY <1>1, <1>2

LEMMA LlmStep ==
    ASSUME LlmIInv, NEW a \in Asks,
           \/ Refused(a) \/ Ask(a) \/ CallDirectly(a) \/ Embed(a)
           \/ AskStep(a) \/ AskCancelled(a)
    PROVE  LlmIInv'
<1>1. asks \in [Asks -> AskForms] /\ asks[a] \in AskForms
  BY DEF LlmIInv, LlmTypeOK
<1>2. asks[a].stage \in {"new", "attempt"} => saved[a] = "none"
  BY DEF LlmIInv, PatchedUnderWay, Replacing, UnderWay
<1>3. CASE Refused(a)
  <2>1. PICK result \in {"raised", "fallback"} : asks' = [asks EXCEPT ![a] = Over(result)]
    BY <1>3 DEF Refused
  <2>2. QED
    BY <1>2, <1>3, <2>1, OverForm, QuietAsk DEF Refused
<1>4. CASE Ask(a)
  <2>1. PICK form \in [prompt : Prompts, exact : BOOLEAN] :
            asks' = [asks EXCEPT ![a] = Asked(asks[a], form)]
    BY <1>1, <1>4 DEF Ask
  <2>2. Asked(asks[a], form) \in AskForms
    BY <1>1 DEF Asked, AskForms
  <2>3. asks[a].stage = "new" /\ UNCHANGED <<dnsVars, stranded>>
    BY <1>4 DEF Ask
  <2>4. QED
    BY <1>2, <2>1, <2>2, <2>3, QuietAsk
<1>5. CASE CallDirectly(a)
  <2>1. [asks[a] EXCEPT !.form = "direct", !.jsonMode = FALSE] \in AskForms
    BY <1>1 DEF AskForms
  <2>2. QED
    BY <1>5, <2>1, PostKeeps DEF CallDirectly
<1>6. CASE Embed(a)
  <2> DEFINE ask == [asks[a] EXCEPT !.form = "embedding", !.jsonMode = FALSE]
  <2>1. ask \in AskForms /\ ask.stage = asks[a].stage
    BY <1>1 DEF AskForms
  <2>2. /\ ask.stage = "new"
        /\ \/ asks' = [asks EXCEPT ![a] = Over("raised")] /\ UNCHANGED <<dnsVars, stranded>>
           \/ Post(a, ask)
    BY <1>6 DEF Embed
  <2> HIDE DEF ask
  <2>3. QED
    BY <1>2, <2>1, <2>2, OverForm, QuietAsk, PostKeeps
<1>7. CASE Call(a)
  <2>1. asks[a].stage = "attempt"
    BY <1>7 DEF Call
  <2>2. \/ /\ \E answer : asks' = [asks EXCEPT ![a] = Parsed(asks[a], answer)]
           /\ UNCHANGED <<dnsVars, stranded>>
        \/ Post(a, asks[a])
    BY <1>7 DEF Call
  <2>3. QED
    BY <1>1, <1>2, <2>1, <2>2, ParsedForm, QuietAsk, PostKeeps
<1>8. CASE Answered(a) \/ Embedded(a)
  <2>1. PICK answer \in Answers : asks' = [asks EXCEPT ![a] = Decided(asks[a], answer)]
    BY <1>1, <1>8 DEF Answered, Embedded, Answers
  <2>2. UNCHANGED <<dnsVars, stranded>>
    BY <1>8 DEF Answered, Embedded
  <2>3. QED
    BY <1>1, <2>1, <2>2, DecidedForm, QuietAsk
<1>9. CASE TryFails(a)
  <2> DEFINE paused == [asks[a] EXCEPT !.stage = "pause", !.try = @ + 1]
  <2>1. asks[a].try + 1 \in Nat
    BY <1>1 DEF AskForms
  <2>2. paused \in AskForms /\ paused.stage = "pause"
    BY <1>1, <2>1 DEF AskForms
  <2>3. \/ asks' = [asks EXCEPT ![a] = paused]
        \/ \E outcome \in {"JSON_MODE", "error"} : asks' = [asks EXCEPT ![a] = Decided(asks[a], outcome)]
    BY <1>1, <1>9 DEF TryFails
  <2>4. UNCHANGED <<dnsVars, stranded>>
    BY <1>9 DEF TryFails
  <2> HIDE DEF paused
  <2>5. QED
    BY <1>1, <2>2, <2>3, <2>4, DecidedForm, QuietAsk
<1>10. CASE TryAgain(a)
  <2> DEFINE posted == [asks[a] EXCEPT !.stage = "posted"]
  <2>1. posted \in AskForms /\ posted.stage = "posted"
    BY <1>1 DEF AskForms
  <2>2. asks' = [asks EXCEPT ![a] = posted] /\ UNCHANGED <<dnsVars, stranded>>
    BY <1>1, <1>10 DEF TryAgain
  <2> HIDE DEF posted
  <2>3. QED
    BY <2>1, <2>2, QuietAsk
<1>11. CASE Closed(a)
  <2>1. asks' = [asks EXCEPT ![a] = Settled(asks[a])] /\ RestoreDns(a) /\ stranded' = stranded
    BY <1>1, <1>11 DEF Closed
  <2>2. QED
    BY <1>1, <2>1, SettledForm, RestoreAsk
<1>12. CASE AskCancelled(a)
  <2>1. UNCHANGED dnsVars
    BY <1>12 DEF AskCancelled
  <2>2. CASE asks' = [asks EXCEPT ![a] = Decided(asks[a], "cancelled")] /\ stranded' = stranded
    BY <1>1, <2>1, <2>2, DecidedForm, QuietAsk
  <2>3. CASE /\ asks' = [asks EXCEPT ![a] = Over("cancelled")]
             /\ stranded' = IF saved[a] # "none" THEN stranded \cup {a} ELSE stranded
    BY <2>1, <2>3, OverForm, QuietAsk
  <2>4. QED
    BY <1>1, <1>12, <2>2, <2>3 DEF AskCancelled
<1>13. QED
  BY <1>3, <1>4, <1>5, <1>6, <1>7, <1>8, <1>9, <1>10, <1>11, <1>12 DEF AskStep

\* With any number of calls that begin, retry, fail, are cancelled and end in
\* nested order, the process gets its own resolver back unless a call left before
\* it restored it, and at any time a name can be resolved.
THEOREM DnsRestored == LlmSpec => []DnsRestoredUnlessLeft
<1>1. LlmInit => LlmIInv
  BY LlmAssumption
     DEF LlmInit, LlmIInv, LlmTypeOK, PatchedUnderWay, ResolversChained, NewAsk, AskForms
<1>2. LlmIInv /\ [LlmNext]_llmVars => LlmIInv'
  <2>1. ASSUME LlmIInv, UNCHANGED llmVars PROVE LlmIInv'
    BY <2>1 DEF LlmIInv, LlmTypeOK, PatchedUnderWay, Replacing, UnderWay, ResolversChained, llmVars
  <2>2. QED
    BY <2>1, LlmStep DEF LlmNext
<1>3. LlmIInv => DnsRestoredUnlessLeft
  <2> SUFFICES ASSUME LlmIInv, ~crossed PROVE DnsRestoredUnlessLeft
    BY DEF DnsRestoredUnlessLeft
  <2>1. \A a \in Asks : saved[a] # "none" => UnderWay(a) \/ a \in stranded
    BY DEF LlmIInv, PatchedUnderWay, Replacing
  <2>2. resolver # "real" => resolver \in Asks /\ saved[resolver] # "none"
    BY DEF LlmIInv, LlmTypeOK, ResolversChained
  <2>3. \A a \in Asks : saved[a] \in Asks => saved[saved[a]] # "none"
    BY DEF LlmIInv, ResolversChained
  <2>4. QED
    BY <2>1, <2>2, <2>3 DEF DnsRestoredUnlessLeft
<1>4. QED
  BY <1>1, <1>2, <1>3, PTL DEF LlmSpec

-----------------------------------------------------------------------------
(* The memory of the runs.  The index of an event is written right after the   *)
(* context it names, by the same operation: what remains to be shown is that   *)
(* every other step keeps that order, wherever an operation stops.             *)

\* What is left of an operation of the workflow on the memory.
Todos == {<<>>, <<"plan">>, <<"working_memory", "private_task_state">>, <<"private_task_state">>,
          <<"summary", "final">>, <<"final">>, <<"context", "event_index">>, <<"event_index">>,
          <<"fact">>, <<"intent_disambiguation">>, <<"approval">>, <<"approval", "approval">>}

RunsHaveWork ==
    /\ memoryRuns = [r \in MemoryRuns |-> memoryRuns[r]]
    /\ \A r \in MemoryRuns : memoryRuns[r].todo \in Todos

\* The index that is written next is preceded by its context.
ContextsPrecede ==
    /\ eventIndex \in [{EventOf[r] : r \in MemoryRuns} -> SUBSET MemoryRuns]
    /\ ~redisLost =>
         /\ \A e \in DOMAIN eventIndex : eventIndex[e] \subseteq contexts
         /\ \A r \in MemoryRuns : memoryRuns[r].todo = <<"event_index">> => r \in contexts

MemoryIInv == RunsHaveWork /\ ContextsPrecede

LEMMA TodoShrinks ==
    ASSUME NEW todo \in Todos, todo # <<>>
    PROVE  /\ Tail(todo) \in Todos
           /\ Tail(todo) = <<"event_index">> => Head(todo) = "context"
           /\ Head(todo) = "event_index" => todo = <<"event_index">>
           /\ IsAppend(todo) => Head(todo) \notin {"context", "event_index"}
<1>1. \/ todo \in {<<"plan">>, <<"private_task_state">>, <<"final">>, <<"event_index">>, <<"fact">>,
                  <<"intent_disambiguation">>, <<"approval">>}
      \/ todo = <<"approval", "approval">>
      \/ todo = <<"working_memory", "private_task_state">>
      \/ todo = <<"summary", "final">>
      \/ todo = <<"context", "event_index">>
  BY DEF Todos
<1>2. IsAppend(todo) => Head(todo) \notin {"context", "event_index"}
  BY DEF IsAppend, TierOf
<1>3. CASE todo \in {<<"plan">>, <<"private_task_state">>, <<"final">>, <<"event_index">>, <<"fact">>,
                    <<"intent_disambiguation">>, <<"approval">>}
  <2>4. PICK call : todo = <<call>>
    BY <1>3
  <2>1. Tail(todo) = <<>> /\ (Head(todo) = "event_index" => todo = <<"event_index">>)
    BY <2>4
  <2>2. <<>> # <<"event_index">> /\ <<>> \in Todos
    BY DEF Todos
  <2>3. QED
    BY <1>2, <2>1, <2>2
<1>4. CASE todo = <<"working_memory", "private_task_state">>
  <2>1. Tail(todo) = <<"private_task_state">> /\ Head(todo) = "working_memory"
    BY <1>4
  <2>2. QED
    BY <1>2, <2>1 DEF Todos
<1>5. CASE todo = <<"summary", "final">>
  <2>1. Tail(todo) = <<"final">> /\ Head(todo) = "summary"
    BY <1>5
  <2>2. QED
    BY <1>2, <2>1 DEF Todos
<1>6. CASE todo = <<"context", "event_index">>
  <2>1. Tail(todo) = <<"event_index">> /\ Head(todo) = "context"
    BY <1>6
  <2>2. QED
    BY <1>2, <2>1 DEF Todos
<1>8. CASE todo = <<"approval", "approval">>
  <2>1. Tail(todo) = <<"approval">> /\ Head(todo) = "approval"
    BY <1>8
  <2>2. QED
    BY <1>2, <2>1 DEF Todos
<1>7. QED
  BY <1>1, <1>3, <1>4, <1>5, <1>6, <1>8

\* An operation of the workflow starts with its first call.
LEMMA OperationStarts ==
    ASSUME NEW stage \in Stages
    PROVE  Operation[stage[2]] \in Todos \ {<<"event_index">>}
<1>1. stage[2] \in {"intents", "plan", "working", "learned", "artifacts", "approval", "approvals",
                   "context"}
  BY DEF Stages
<1>2. /\ Operation["intents"] = <<"intent_disambiguation">>
      /\ Operation["plan"] = <<"plan">>
      /\ Operation["working"] = <<"working_memory", "private_task_state">>
      /\ Operation["learned"] = <<"fact">>
      /\ Operation["artifacts"] = <<"summary", "final">>
      /\ Operation["approval"] = <<"approval">>
      /\ Operation["approvals"] = <<"approval", "approval">>
      /\ Operation["context"] = <<"context", "event_index">>
  BY DEF Operation
<1>3. /\ {<<"intent_disambiguation">>, <<"plan">>, <<"fact">>, <<"approval">>,
          <<"working_memory", "private_task_state">>, <<"summary", "final">>,
          <<"approval", "approval">>, <<"context", "event_index">>} \subseteq Todos
      /\ <<"plan">> # <<"event_index">> /\ <<"fact">> # <<"event_index">>
      /\ <<"intent_disambiguation">> # <<"event_index">> /\ <<"approval">> # <<"event_index">>
  BY DEF Todos
<1>4. /\ <<"working_memory", "private_task_state">> # <<"event_index">>
      /\ <<"summary", "final">> # <<"event_index">>
      /\ <<"approval", "approval">> # <<"event_index">>
      /\ <<"context", "event_index">> # <<"event_index">>
  OBVIOUS
<1>5. QED
  BY <1>1, <1>2, <1>3, <1>4

LEMMA ProceedWork ==
    ASSUME RunsHaveWork, NEW r \in MemoryRuns, NEW stage, NEW todo \in Todos,
           Proceed(r, stage, todo)
    PROVE  /\ RunsHaveWork'
           /\ memoryRuns'[r].todo = todo
           /\ \A q \in MemoryRuns \ {r} : memoryRuns'[q] = memoryRuns[q]
BY DEF RunsHaveWork, Proceed

\* A run that goes on without a call that writes a context or an index.
LEMMA ProceedKeeps ==
    ASSUME MemoryIInv, NEW r \in MemoryRuns, NEW stage, NEW todo \in Todos \ {<<"event_index">>},
           Proceed(r, stage, todo), UNCHANGED <<eventIndex, contexts, redisLost>>
    PROVE  MemoryIInv'
BY ProceedWork DEF MemoryIInv, ContextsPrecede

LEMMA WriteHashKeeps ==
    ASSUME MemoryIInv, NEW r \in MemoryRuns, NEW write \in {"summary", "context", "event_index"},
           WriteHash(r, write)
    PROVE  MemoryIInv'
<1> DEFINE todo == memoryRuns[r].todo
<1>1. /\ todo \in Todos /\ todo # <<>> /\ Head(todo) = write
      /\ Proceed(r, memoryRuns[r].stage, Tail(todo))
      /\ redisLost' = redisLost
  BY DEF WriteHash, MemoryIInv, RunsHaveWork
<1>2. /\ Tail(todo) \in Todos
      /\ Tail(todo) = <<"event_index">> => write = "context"
      /\ write = "event_index" => todo = <<"event_index">>
  BY <1>1, TodoShrinks
<1>3. /\ RunsHaveWork'
      /\ memoryRuns'[r].todo = Tail(todo)
      /\ \A q \in MemoryRuns \ {r} : memoryRuns'[q] = memoryRuns[q]
  BY <1>1, <1>2, ProceedWork DEF MemoryIInv
<1>4. CASE write = "summary"
  <2>1. contexts' = contexts /\ eventIndex' = eventIndex
    BY <1>4 DEF WriteHash
  <2>2. QED
    BY <1>1, <1>2, <1>3, <1>4, <2>1 DEF MemoryIInv, ContextsPrecede
<1>5. CASE write = "context"
  <2>1. contexts' = contexts \cup {r} /\ eventIndex' = eventIndex
    BY <1>5 DEF WriteHash
  <2>2. QED
    BY <1>1, <1>3, <2>1 DEF MemoryIInv, ContextsPrecede
<1>6. CASE write = "event_index"
  <2>1. contexts' = contexts /\ eventIndex' = [eventIndex EXCEPT ![EventOf[r]] = @ \cup {r}]
    BY <1>6 DEF WriteHash
  <2>2. ~redisLost => r \in contexts
    BY <1>2, <1>6 DEF MemoryIInv, ContextsPrecede
  <2>3. ContextsPrecede'
    BY <1>1, <1>2, <1>3, <1>6, <2>1, <2>2 DEF MemoryIInv, ContextsPrecede
  <2>4. QED
    BY <1>3, <2>3 DEF MemoryIInv
<1>7. QED
  BY <1>4, <1>5, <1>6

\* Nothing but the runs, and the loss of what Redis holds, touches contexts or
\* their index.
LEMMA OthersKeep ==
    ASSUME MemoryIInv, UNCHANGED <<memoryRuns, eventIndex, contexts, redisLost>>
    PROVE  MemoryIInv'
BY DEF MemoryIInv, RunsHaveWork, ContextsPrecede

LEMMA MemoryStep ==
    ASSUME MemoryIInv, MemoryNext
    PROVE  MemoryIInv'
<1>1. ASSUME NEW r \in MemoryRuns, Start(r) PROVE MemoryIInv'
  <2>1. PICK stage \in Stages : Proceed(r, stage[3], Operation[stage[2]])
    BY <1>1 DEF Start
  <2>2. QED
    BY <1>1, <2>1, OperationStarts, ProceedKeeps DEF Start, redisVars
<1>2. ASSUME NEW r \in MemoryRuns, AwaitApproval(r) \/ WriteFails(r) PROVE MemoryIInv'
  <2>1. <<>> \in Todos \ {<<"event_index">>}
    BY DEF Todos
  <2>2. /\ \E stage : Proceed(r, stage, <<>>)
        /\ UNCHANGED <<eventIndex, contexts, redisLost>>
    BY <1>2 DEF AwaitApproval, WriteFails, redisVars
  <2>3. QED
    BY <2>1, <2>2, ProceedKeeps
<1>3. ASSUME NEW r \in MemoryRuns, Push(r) PROVE MemoryIInv'
  <2>1. /\ IsAppend(memoryRuns[r].todo)
        /\ Proceed(r, memoryRuns[r].stage, Tail(memoryRuns[r].todo))
        /\ UNCHANGED <<eventIndex, contexts, redisLost>>
    BY <1>3 DEF Push
  <2>2. memoryRuns[r].todo \in Todos /\ memoryRuns[r].todo # <<>>
    BY <2>1 DEF MemoryIInv, RunsHaveWork, IsAppend
  <2>3. Tail(memoryRuns[r].todo) \in Todos \ {<<"event_index">>}
    BY <2>1, <2>2, TodoShrinks
  <2>4. QED
    BY <2>1, <2>3, ProceedKeeps
<1>4. ASSUME NEW r \in MemoryRuns, NEW write \in {"summary", "context", "event_index"},
             WriteHash(r, write)
      PROVE  MemoryIInv'
  BY <1>4, WriteHashKeeps
<1>5. ASSUME NEW entry \in persisting, Persisted(entry) PROVE MemoryIInv'
  BY <1>5, OthersKeep DEF Persisted, redisVars
<1>6. CASE StartCleaning \/ (\E key \in Keys : Scan(key)) \/ RemoveNext \/ Cleaned
  BY <1>6, OthersKeep DEF StartCleaning, Scan, RemoveNext, Cleaned, redisVars
<1>7. CASE StartRestore \/ RestoreNext \/ DayPasses
  BY <1>7, OthersKeep DEF StartRestore, RestoreNext, DayPasses, redisVars
<1>8. CASE ProcessRestarts
  <2>1. /\ memoryRuns' = [r \in MemoryRuns |->
             IF memoryRuns[r].stage = "new" THEN memoryRuns[r]
             ELSE [stage |-> "over", todo |-> <<>>, entry |-> None]]
        /\ UNCHANGED <<eventIndex, contexts, redisLost>>
    BY <1>8 DEF ProcessRestarts, redisVars
  <2>2. <<>> \in Todos /\ <<>> # <<"event_index">>
    BY DEF Todos
  <2>3. QED
    BY <2>1, <2>2 DEF MemoryIInv, RunsHaveWork, ContextsPrecede
<1>9. CASE RedisRestarts
  <2>1. /\ redisLost' = TRUE /\ memoryRuns' = memoryRuns
        /\ eventIndex' = [e \in DOMAIN eventIndex |-> {}]
    BY <1>9 DEF RedisRestarts
  <2>2. QED
    BY <2>1 DEF MemoryIInv, RunsHaveWork, ContextsPrecede
<1>10. QED
  BY <1>1, <1>2, <1>3, <1>4, <1>5, <1>6, <1>7, <1>8, <1>9 DEF MemoryNext

\* Wherever a run, the process or a call of Redis stops, a run that an event's
\* index names has its context, unless Redis lost what it held.
THEOREM ContextsStay == MemorySpec => []ContextsFound
<1>1. MemoryInit => MemoryIInv
  <2>1. <<>> \in Todos /\ <<>> # <<"event_index">>
    BY DEF Todos
  <2>2. QED
    BY <2>1 DEF MemoryInit, MemoryIInv, RunsHaveWork, ContextsPrecede
<1>2. MemoryIInv /\ [MemoryNext]_memoryVars => MemoryIInv'
  <2>1. ASSUME MemoryIInv, UNCHANGED memoryVars PROVE MemoryIInv'
    BY <2>1, OthersKeep DEF memoryVars
  <2>2. QED
    BY <2>1, MemoryStep
<1>3. MemoryIInv => ContextsFound
  BY DEF MemoryIInv, ContextsPrecede, ContextsFound
<1>4. QED
  BY <1>1, <1>2, <1>3, PTL DEF MemorySpec
-----------------------------------------------------------------------------
(* The cleanup.  It removes by value, days after it read: its entries stay     *)
(* expired because what it found is, at a day that has come, and no entry that *)
(* is written later changes when it was born.                                  *)

Entries == [id : Nat, run : MemoryRuns, kind : DOMAIN TierOf, born : Nat, restored : BOOLEAN]

EntriesFormed ==
    /\ made \in Nat
    /\ lists \in [Keys -> Seq(Entries)]
    /\ table \cup persisting \cup restoring \subseteq Entries
    /\ memoryRuns = [r \in MemoryRuns |-> memoryRuns[r]]
    /\ \A r \in MemoryRuns : IsAppend(memoryRuns[r].todo) => memoryRuns[r].entry \in Entries

\* What the cleanup still has to remove, it found expired.
DoomedExpired ==
    /\ now \in Nat
    /\ cleaner = [keys |-> cleaner.keys, key |-> cleaner.key, doomed |-> cleaner.doomed,
                  day |-> cleaner.day]
    /\ cleaner.day \in Nat /\ cleaner.day <= now
    /\ cleaner.doomed = [i \in DOMAIN cleaner.doomed |-> cleaner.doomed[i]]
    /\ DOMAIN cleaner.doomed \subseteq Nat
    /\ \A i \in DOMAIN cleaner.doomed :
         cleaner.doomed[i] \in Entries /\ IsExpired(cleaner.doomed[i], cleaner.day)

CleanupIInv == EntriesFormed /\ DoomedExpired

LEMMA StaysExpired ==
    ASSUME NEW entry \in Entries, NEW day \in Nat, NEW later \in Nat, day <= later,
           IsExpired(entry, day)
    PROVE  IsExpired(entry, later)
<1>1. entry.kind \in DOMAIN TierOf /\ entry.born \in Nat
  BY DEF Entries
<1>2. TierOf[entry.kind] \in {"ephemeral", "short_term", "long_term"}
  BY <1>1 DEF TierOf
<1>3. TierOf[entry.kind] \in {"ephemeral", "short_term"}
  BY <1>2 DEF IsExpired
<1>4. Ttl[TierOf[entry.kind]] \in Nat
  BY <1>3 DEF Ttl
<1>5. day >= entry.born + Ttl[TierOf[entry.kind]]
  BY DEF IsExpired
<1>6. later >= entry.born + Ttl[TierOf[entry.kind]]
  BY <1>1, <1>4, <1>5
<1>7. QED
  BY <1>3, <1>6 DEF IsExpired

\* Two steps of a pipeline keep a list of entries one.
LEMMA AppendForms ==
    ASSUME EntriesFormed, NEW entry \in Entries, NEW ttl, MemoryAssumption,
           AppendToList(entry, ttl)
    PROVE  lists' \in [Keys -> Seq(Entries)]
<1> DEFINE key == KeyOf(entry.kind)
           pushed == <<entry>> \o lists[key]
           kept == SubSeq(pushed, 1, IF Len(pushed) < MaxListLen THEN Len(pushed) ELSE MaxListLen)
<1>1. key \in Keys
  BY DEF KeyOf, Keys
<1>2. lists[key] \in Seq(Entries) /\ <<entry>> \in Seq(Entries)
  BY <1>1 DEF EntriesFormed
<1>3. pushed \in Seq(Entries) /\ Len(pushed) \in Nat
  BY <1>2, ConcatProperties, LenProperties
<1>4. MaxListLen \in Nat
  BY DEF MemoryAssumption
<1>5. kept \in Seq(Entries)
  <2>1. ASSUME NEW n \in Nat, n <= Len(pushed) PROVE SubSeq(pushed, 1, n) \in Seq(Entries)
    BY <1>3, <2>1, SubSeqProperties, ElementOfSeq
  <2>2. QED
    BY <1>3, <1>4, <2>1
<1>6. lists' = [lists EXCEPT ![key] = kept]
  BY DEF AppendToList
<1>7. QED
  BY <1>1, <1>5, <1>6 DEF EntriesFormed

LEMMA ProceedForms ==
    ASSUME EntriesFormed, now \in Nat, NEW r \in MemoryRuns, NEW stage, NEW todo,
           Proceed(r, stage, todo)
    PROVE  /\ made' \in Nat
           /\ memoryRuns' = [q \in MemoryRuns |-> memoryRuns'[q]]
           /\ \A q \in MemoryRuns :
                IsAppend(memoryRuns'[q].todo) => memoryRuns'[q].entry \in Entries
<1>1. made + 1 \in Nat /\ made' \in Nat
  BY DEF EntriesFormed, Proceed
<1> DEFINE new == [stage |-> stage, todo |-> todo,
                   entry |-> IF IsAppend(todo)
                             THEN [id |-> made + 1, run |-> r, kind |-> Head(todo), born |-> now,
                                   restored |-> FALSE]
                             ELSE None]
<1>2. memoryRuns' = [memoryRuns EXCEPT ![r] = new]
  BY DEF Proceed
<1>3. IsAppend(todo) => Head(todo) \in DOMAIN TierOf
  BY DEF IsAppend
<1>4. new.todo = todo /\ (IsAppend(todo) => new.entry \in Entries)
  BY <1>1, <1>3 DEF Entries
<1>5. memoryRuns'[r] = new /\ \A q \in MemoryRuns \ {r} : memoryRuns'[q] = memoryRuns[q]
  BY <1>2 DEF EntriesFormed
<1> HIDE DEF new
<1>6. QED
  BY <1>1, <1>2, <1>4, <1>5 DEF EntriesFormed

\* What is removed by value is the value that was read.
LEMMA OnlyTheFirstGoes ==
    ASSUME NEW list \in Seq(Entries), NEW entry
    PROVE  /\ RemoveFirst(list, entry) \in Seq(Entries)
           /\ ToSet(list) \ ToSet(RemoveFirst(list, entry)) \subseteq {entry}
<1>1. CASE \E i \in 1 .. Len(list) : list[i] = entry
  <2> DEFINE at == {i \in 1 .. Len(list) : list[i] = entry}
             before == SubSeq(list, 1, Min(at) - 1)
             after == SubSeq(list, Min(at) + 1, Len(list))
  <2>1. Min(at) \in 1 .. Len(list) /\ list[Min(at)] = entry
    <3>1. at \in SUBSET Nat /\ at # {}
      BY <1>1
    <3>2. Min(at) \in at
      BY <3>1, Smallest
    <3>3. QED
      BY <3>2
  <2>2. SelectInSeq(list, LAMBDA v : v = entry) = Min(at)
    BY <1>1 DEF SelectInSeq
  <2>3. RemoveFirst(list, entry) = before \o after
    BY <1>1, <2>2 DEF RemoveFirst, RemoveAt
  <2> HIDE DEF at
  <2>4. /\ before \in Seq(Entries) /\ Len(before) = Min(at) - 1
        /\ \A i \in 1 .. Min(at) - 1 : before[i] = list[i]
    BY <2>1
  <2>5. /\ after \in Seq(Entries) /\ Len(after) = Len(list) - Min(at)
        /\ \A i \in 1 .. Len(list) - Min(at) : after[i] = list[Min(at) + i]
    BY <2>1
  <2>6. /\ before \o after \in Seq(Entries) /\ Len(before \o after) = Len(list) - 1
        /\ \A i \in 1 .. Len(list) - 1 :
             (before \o after)[i] = IF i < Min(at) THEN list[i] ELSE list[i + 1]
    <3> HIDE DEF before, after
    <3>1. QED
      BY <2>1, <2>4, <2>5, ConcatProperties, SMTT(30)
  <2> HIDE DEF before, after
  <2>7. ASSUME NEW i \in 1 .. Len(list), list[i] # entry
        PROVE  \E j \in 1 .. Len(before \o after) : (before \o after)[j] = list[i]
    <3>1. CASE i < Min(at)
      <4>1. i \in 1 .. Len(list) - 1
        BY <2>1, <3>1
      <4>2. (before \o after)[i] = list[i]
        BY <2>6, <3>1, <4>1
      <4>3. QED
        BY <2>6, <4>1, <4>2
    <3>2. CASE i > Min(at)
      <4>1. i - 1 \in 1 .. Len(list) - 1 /\ ~(i - 1 < Min(at)) /\ (i - 1) + 1 = i
        BY <2>1, <3>2
      <4>2. (before \o after)[i - 1] = list[i]
        BY <2>6, <4>1
      <4>3. QED
        BY <2>6, <4>1, <4>2
    <3>3. QED
      BY <2>1, <2>7, <3>1, <3>2
  <2>8. DOMAIN list = 1 .. Len(list) /\ DOMAIN (before \o after) = 1 .. Len(before \o after)
    BY <2>6, LenProperties
  <2>9. ASSUME NEW x \in ToSet(list), x # entry PROVE x \in ToSet(before \o after)
    <3>1. PICK i \in 1 .. Len(list) : x = list[i]
      BY <2>8 DEF ToSet
    <3>2. PICK j \in 1 .. Len(before \o after) : (before \o after)[j] = list[i]
      BY <2>7, <2>9, <3>1
    <3>3. QED
      BY <2>8, <3>1, <3>2 DEF ToSet
  <2>10. QED
    BY <2>3, <2>6, <2>9
<1>2. CASE ~ \E i \in 1 .. Len(list) : list[i] = entry
  BY <1>2 DEF RemoveFirst
<1>3. QED
  BY <1>1, <1>2

LEMMA CleanupStep ==
    ASSUME CleanupIInv, MemoryNext, MemoryAssumption
    PROVE  CleanupIInv'
<1>1. ASSUME NEW r \in MemoryRuns, NEW stage, NEW todo, Proceed(r, stage, todo),
             UNCHANGED <<now, cleaner, lists, table, persisting, restoring>>
      PROVE  CleanupIInv'
  BY <1>1, ProceedForms DEF CleanupIInv, EntriesFormed, DoomedExpired
<1>2. ASSUME NEW r \in MemoryRuns, Start(r) \/ AwaitApproval(r) \/ WriteFails(r)
      PROVE  CleanupIInv'
  <2>1. /\ \E stage, todo : Proceed(r, stage, todo)
        /\ UNCHANGED <<now, cleaner, lists, table, persisting, restoring>>
    BY <1>2 DEF Start, AwaitApproval, WriteFails, redisVars
  <2>2. QED
    BY <1>1, <2>1
<1>3. ASSUME NEW r \in MemoryRuns, NEW write, WriteHash(r, write) PROVE CleanupIInv'
  BY <1>1, <1>3 DEF WriteHash
<1>4. ASSUME NEW r \in MemoryRuns, Push(r) PROVE CleanupIInv'
  <2> DEFINE entry == memoryRuns[r].entry
  <2>1. /\ IsAppend(memoryRuns[r].todo) /\ AppendToList(entry, SecondsOf(entry.kind))
        /\ persisting' \subseteq persisting \cup {entry}
        /\ Proceed(r, memoryRuns[r].stage, Tail(memoryRuns[r].todo))
        /\ UNCHANGED <<now, table, cleaner, restoring>>
    BY <1>4 DEF Push
  <2>2. entry \in Entries
    BY <2>1 DEF CleanupIInv, EntriesFormed
  <2>3. lists' \in [Keys -> Seq(Entries)]
    BY <2>1, <2>2, AppendForms DEF CleanupIInv
  <2>4. DoomedExpired'
    BY <2>1 DEF CleanupIInv, DoomedExpired
  <2>5. EntriesFormed'
    BY <2>1, <2>2, <2>3, ProceedForms DEF CleanupIInv, EntriesFormed, DoomedExpired
  <2>6. QED
    BY <2>4, <2>5 DEF CleanupIInv
<1>5. ASSUME NEW entry \in persisting, Persisted(entry) PROVE CleanupIInv'
  BY <1>5 DEF Persisted, redisVars, CleanupIInv, EntriesFormed, DoomedExpired
<1>6. CASE StartCleaning \/ Cleaned
  <2>1. /\ cleaner' \in {NoCleaner, [NoCleaner EXCEPT !.keys = Keys, !.day = now]}
        /\ UNCHANGED <<now, lists, made, table, persisting, memoryRuns, restoring>>
    BY <1>6 DEF StartCleaning, Cleaned, redisVars
  <2>2. PICK keys, day : /\ cleaner' = [keys |-> keys, key |-> "none", doomed |-> <<>>, day |-> day]
                         /\ day \in {0, now}
    BY <2>1 DEF NoCleaner
  <2>3. <<>> = [i \in DOMAIN <<>> |-> <<>>[i]] /\ DOMAIN <<>> = {}
    OBVIOUS
  <2>4. /\ now' \in Nat /\ cleaner'.day \in Nat /\ cleaner'.day <= now'
        /\ cleaner'.doomed = <<>>
    BY <2>1, <2>2 DEF CleanupIInv, DoomedExpired
  <2>5. cleaner' = [keys |-> cleaner'.keys, key |-> cleaner'.key, doomed |-> cleaner'.doomed,
                    day |-> cleaner'.day]
    BY <2>2
  <2>6. DoomedExpired'
    BY <2>3, <2>4, <2>5 DEF DoomedExpired
  <2>7. QED
    BY <2>1, <2>6 DEF CleanupIInv, EntriesFormed
<1>7. ASSUME NEW key \in Keys, Scan(key) PROVE CleanupIInv'
  <2> DEFINE found == Doomed(lists[key], cleaner.day)
  <2>1. /\ cleaner' = [cleaner EXCEPT !.keys = @ \ {key}, !.key = key, !.doomed = found]
        /\ UNCHANGED <<now, lists, made, table, persisting, memoryRuns, restoring>>
    BY <1>7 DEF Scan, redisVars
  <2>2. lists[key] \in Seq(Entries) /\ DOMAIN lists[key] \subseteq Nat
    BY DEF CleanupIInv, EntriesFormed
  <2>3. /\ found = [i \in DOMAIN found |-> found[i]] /\ DOMAIN found \subseteq Nat
        /\ \A i \in DOMAIN found : found[i] \in Entries /\ IsExpired(found[i], cleaner.day)
    BY <2>2, ElementOfSeq DEF Doomed
  <2> HIDE DEF found
  <2>4. cleaner' = [keys |-> cleaner.keys \ {key}, key |-> key, doomed |-> found, day |-> cleaner.day]
    BY <2>1 DEF CleanupIInv, DoomedExpired
  <2>5. DoomedExpired'
    BY <2>1, <2>3, <2>4 DEF CleanupIInv, DoomedExpired
  <2>6. QED
    BY <2>1, <2>5 DEF CleanupIInv, EntriesFormed
<1>8. CASE RemoveNext
  <2> DEFINE places == DOMAIN cleaner.doomed
             entry == cleaner.doomed[Min(places)]
             rest == Restrict(cleaner.doomed, places \ {Min(places)})
  <2>1. /\ lists' = [lists EXCEPT ![cleaner.key] = RemoveFirst(@, entry)]
        /\ cleaner' = [cleaner EXCEPT !.doomed = rest]
        /\ UNCHANGED <<now, made, table, persisting, memoryRuns, restoring>>
    BY <1>8 DEF RemoveNext
  <2>2. /\ rest = [i \in DOMAIN rest |-> rest[i]] /\ DOMAIN rest \subseteq places
        /\ \A i \in DOMAIN rest : rest[i] = cleaner.doomed[i]
    BY DEF Restrict
  <2>3. \A k \in Keys : RemoveFirst(lists[k], entry) \in Seq(Entries)
    BY OnlyTheFirstGoes DEF CleanupIInv, EntriesFormed
  <2> HIDE DEF entry, rest
  <2>4. lists' \in [Keys -> Seq(Entries)]
    BY <2>1, <2>3 DEF CleanupIInv, EntriesFormed
  <2>5. cleaner' = [keys |-> cleaner.keys, key |-> cleaner.key, doomed |-> rest, day |-> cleaner.day]
    BY <2>1 DEF CleanupIInv, DoomedExpired
  <2>6. DoomedExpired'
    BY <2>1, <2>2, <2>5 DEF CleanupIInv, DoomedExpired
  <2>7. QED
    BY <2>1, <2>4, <2>6 DEF CleanupIInv, EntriesFormed
<1>9. CASE StartRestore
  BY <1>9 DEF StartRestore, redisVars, CleanupIInv, EntriesFormed, DoomedExpired
<1>10. CASE RestoreNext
  <2>1. PICK entry \in restoring :
          /\ AppendToList([entry EXCEPT !.restored = TRUE], DefaultTtl)
          /\ restoring' = restoring \ {entry}
          /\ UNCHANGED <<now, made, table, persisting, memoryRuns, cleaner>>
    BY <1>10 DEF RestoreNext
  <2>2. [entry EXCEPT !.restored = TRUE] \in Entries
    <3>1. entry \in Entries
      BY <2>1 DEF CleanupIInv, EntriesFormed
    <3>2. QED
      BY <3>1 DEF Entries
  <2>3. lists' \in [Keys -> Seq(Entries)]
    BY <2>1, <2>2, AppendForms DEF CleanupIInv
  <2>4. QED
    BY <2>1, <2>3 DEF CleanupIInv, EntriesFormed, DoomedExpired
<1>11. CASE DayPasses
  <2>1. /\ now' = now + 1 /\ now' \in Nat /\ cleaner.day <= now'
        /\ UNCHANGED <<made, table, persisting, memoryRuns, restoring, cleaner>>
    BY <1>11 DEF DayPasses, CleanupIInv, DoomedExpired
  <2>2. lists' = [k \in Keys |-> IF expires[k] <= now' THEN <<>> ELSE lists[k]]
    BY <1>11 DEF DayPasses
  <2>3. lists' \in [Keys -> Seq(Entries)]
    BY <2>2, EmptySeq DEF CleanupIInv, EntriesFormed
  <2>4. QED
    BY <2>1, <2>3 DEF CleanupIInv, EntriesFormed, DoomedExpired
<1>12. CASE ProcessRestarts
  <2>1. /\ cleaner' = NoCleaner /\ persisting' = {} /\ restoring' = {}
        /\ memoryRuns' = [r \in MemoryRuns |->
             IF memoryRuns[r].stage = "new" THEN memoryRuns[r]
             ELSE [stage |-> "over", todo |-> <<>>, entry |-> None]]
        /\ UNCHANGED <<now, lists, made, table>>
    BY <1>12 DEF ProcessRestarts, redisVars
  <2>2. <<>> = [i \in DOMAIN <<>> |-> <<>>[i]] /\ DOMAIN <<>> = {}
    OBVIOUS
  <2>3. DoomedExpired'
    BY <2>1, <2>2 DEF CleanupIInv, DoomedExpired, NoCleaner
  <2>4. ~IsAppend(<<>>)
    BY DEF IsAppend
  <2>5. EntriesFormed'
    BY <2>1, <2>4 DEF CleanupIInv, EntriesFormed
  <2>6. QED
    BY <2>3, <2>5 DEF CleanupIInv
<1>13. CASE RedisRestarts
  <2>1. /\ lists' = [k \in Keys |-> <<>>]
        /\ UNCHANGED <<now, made, table, persisting, memoryRuns, restoring, cleaner>>
    BY <1>13 DEF RedisRestarts
  <2>2. QED
    BY <2>1, EmptySeq DEF CleanupIInv, EntriesFormed, DoomedExpired
<1>14. QED
  BY <1>2, <1>3, <1>4, <1>5, <1>6, <1>7, <1>8, <1>9, <1>10, <1>11, <1>12, <1>13 DEF MemoryNext

\* A step of a cleanup that has entries to remove removes one of them.
LEMMA CleanupRemoves ==
    ASSUME CleanupIInv, MemoryNext, cleaner.doomed # <<>>, cleaner' \notin {cleaner, NoCleaner}
    PROVE  \A k \in Keys : \A entry \in ToSet(lists[k]) \ ToSet(lists'[k]) : IsExpired(entry, now)
<1>1. RemoveNext
  <2>1. NoCleaner.doomed = <<>>
    BY DEF NoCleaner
  <2>2. ~StartCleaning /\ ~Cleaned /\ ~ProcessRestarts /\ \A key : ~Scan(key)
    BY <2>1 DEF StartCleaning, Cleaned, ProcessRestarts, Scan
  <2>3. /\ ~StartRestore /\ ~RestoreNext /\ ~DayPasses /\ ~RedisRestarts
        /\ \A entry : ~Persisted(entry)
    BY DEF StartRestore, RestoreNext, DayPasses, RedisRestarts, Persisted
  <2>4. \A r : /\ ~Start(r) /\ ~AwaitApproval(r) /\ ~Push(r) /\ ~WriteFails(r)
               /\ \A write : ~WriteHash(r, write)
    BY DEF Start, AwaitApproval, Push, WriteFails, WriteHash
  <2>5. QED
    BY <2>2, <2>3, <2>4 DEF MemoryNext
<1> DEFINE places == DOMAIN cleaner.doomed
           entry == cleaner.doomed[Min(places)]
<1>2. lists' = [lists EXCEPT ![cleaner.key] = RemoveFirst(@, entry)]
  BY <1>1 DEF RemoveNext
<1>3. places # {}
  <2>1. SUFFICES ASSUME places = {} PROVE FALSE
    OBVIOUS
  <2>2. cleaner.doomed = [i \in 1 .. 0 |-> cleaner.doomed[i]]
    BY <2>1 DEF CleanupIInv, DoomedExpired
  <2>3. cleaner.doomed \in Seq({}) /\ Len(cleaner.doomed) = 0
    BY <2>2
  <2>4. QED
    BY <2>3, EmptySeq
<1>4. entry \in Entries /\ IsExpired(entry, cleaner.day)
  <2>1. places \in SUBSET Nat
    BY DEF CleanupIInv, DoomedExpired
  <2>2. Min(places) \in places
    BY <1>3, <2>1, Smallest
  <2>3. QED
    BY <2>2 DEF CleanupIInv, DoomedExpired
<1> HIDE DEF entry
<1>5. IsExpired(entry, now)
  BY <1>4, StaysExpired DEF CleanupIInv, DoomedExpired
<1>6. ASSUME NEW k \in Keys PROVE ToSet(lists[k]) \ ToSet(lists'[k]) \subseteq {entry}
  <2>1. lists[k] \in Seq(Entries) /\ lists'[k] \in {lists[k], RemoveFirst(lists[k], entry)}
    BY <1>2 DEF CleanupIInv, EntriesFormed
  <2>2. QED
    BY <2>1, OnlyTheFirstGoes
<1>7. QED
  BY <1>5, <1>6

LEMMA CleanupBegins == MemoryInit => CleanupIInv
<1>1. ~IsAppend(<<>>) /\ DOMAIN <<>> = {} /\ <<>> = [i \in DOMAIN <<>> |-> <<>>[i]]
  BY DEF IsAppend
<1>2. QED
  BY <1>1, EmptySeq DEF MemoryInit, CleanupIInv, EntriesFormed, DoomedExpired, NoCleaner

LEMMA CleanupGoesOn == CleanupIInv /\ [MemoryNext]_memoryVars => CleanupIInv'
<1>1. ASSUME CleanupIInv, UNCHANGED memoryVars PROVE CleanupIInv'
  BY <1>1 DEF memoryVars, CleanupIInv, EntriesFormed, DoomedExpired
<1>2. QED
  BY <1>1, CleanupStep, MemoryAssumption

\* The cleanup removes nothing that has not expired, whatever is pushed, trimmed
\* or restored, and however many days pass, between its reading and its removing.
THEOREM TheLiveStay == MemorySpec => CleanupSparesTheLive
<1>1. CleanupIInv /\ [MemoryNext]_memoryVars =>
        [cleaner.doomed # <<>> /\ cleaner' \notin {cleaner, NoCleaner} =>
           \A k \in Keys : \A entry \in ToSet(lists[k]) \ ToSet(lists'[k]) : IsExpired(entry, now)
        ]_memoryVars
  BY CleanupRemoves
<1>2. QED
  BY <1>1, CleanupBegins, CleanupGoesOn, PTL DEF MemorySpec, CleanupSparesTheLive

-----------------------------------------------------------------------------
(* The readers.  They are right about any lists of entries and any finite index: *)
(* what is read is some of the items, in their order, each id once.             *)

\* No two items of a list have one id.
ApartIds(entries) == \A i, j \in DOMAIN entries : i # j => entries[i].id # entries[j].id

\* Then it has as many ids as items.
LEMMA IdsCounted ==
    ASSUME NEW S, NEW list \in Seq(S), ApartIds(list)
    PROVE  Cardinality(Ids(list)) = Len(list)
<1> DEFINE n == Len(list)
           at == [i \in 1 .. n |-> list[i].id]
<1>1. n \in Nat /\ DOMAIN list = 1 .. n
  BY LenProperties
<1>2. IsFiniteSet(1 .. n) /\ Cardinality(1 .. n) = n
  <2>1. n \in Int /\ 1 \in Int
    BY <1>1
  <2>2. IsFiniteSet(1 .. n) /\ Cardinality(1 .. n) = IF 1 > n THEN 0 ELSE n - 1 + 1
    BY <2>1, FS_Interval
  <2>3. QED
    BY <1>1, <2>2
<1>3. at \in Bijection(1 .. n, Ids(list))
  <2>1. at \in [1 .. n -> Ids(list)] /\ \A id \in Ids(list) : \E i \in 1 .. n : at[i] = id
    BY <1>1 DEF Ids
  <2>2. \A i, j \in 1 .. n : at[i] = at[j] => i = j
    BY <1>1 DEF ApartIds
  <2>3. DOMAIN at = 1 .. n
    OBVIOUS
  <2> HIDE DEF at, n
  <2>4. QED
    BY <2>1, <2>2, <2>3 DEF Bijection, Injection, Surjection, IsInjective
<1> HIDE DEF at, n
<1>4. QED
  BY <1>2, <1>3, FS_Bijection DEF n, ExistsBijection

\* What is left of some hits has each id once.
LEMMA DedupeTells ==
    ASSUME NEW S, NEW hits \in Seq(S)
    PROVE  LET kept == DedupeMemoryHits(hits) IN
           /\ kept \in Seq(S) /\ Len(kept) <= Len(hits)
           /\ \A k \in DOMAIN kept : \E i \in DOMAIN hits : kept[k] = hits[i]
           /\ ApartIds(kept) /\ Ids(kept) = Ids(hits)
<1> DEFINE places == {i \in DOMAIN hits : \A j \in 1 .. (i - 1) : hits[j].id # hits[i].id}
           kept == DedupeMemoryHits(hits)
<1>1. DOMAIN hits = 1 .. Len(hits) /\ Len(hits) \in Nat
  BY LenProperties
<1>2. kept = ItemsAt(hits, places) /\ places \in SUBSET DOMAIN hits
  BY DEF DedupeMemoryHits
<1>3. \A i, j \in places : i # j => hits[i].id # hits[j].id
  <2>1. ASSUME NEW i \in places, NEW j \in places, i < j PROVE hits[i].id # hits[j].id
    <3>1. i \in 1 .. (j - 1)
      BY <1>1, <2>1
    <3>2. QED
      BY <3>1
  <2>2. ASSUME NEW i \in places, NEW j \in places, i # j PROVE i < j \/ j < i
    BY <1>1, <2>2
  <2>3. QED
    BY <2>1, <2>2
<1>4. ASSUME NEW i \in DOMAIN hits PROVE \E j \in places : hits[j].id = hits[i].id
  <2> DEFINE same == {j \in DOMAIN hits : hits[j].id = hits[i].id}
  <2>1. same \in SUBSET Nat /\ i \in same
    BY <1>1
  <2> HIDE DEF same
  <2>2. Min(same) \in same /\ \A j \in same : Min(same) <= j
    BY <2>1, Smallest
  <2>3. ASSUME NEW j \in 1 .. (Min(same) - 1) PROVE hits[j].id # hits[Min(same)].id
    <3>1. Min(same) \in DOMAIN hits /\ hits[Min(same)].id = hits[i].id
      BY <2>2 DEF same
    <3>2. j \in DOMAIN hits /\ ~(Min(same) <= j)
      BY <1>1, <3>1
    <3>3. j \notin same
      BY <2>2, <3>2
    <3>4. QED
      BY <3>1, <3>2, <3>3 DEF same
  <2>4. Min(same) \in DOMAIN hits /\ hits[Min(same)].id = hits[i].id
    BY <2>2 DEF same
  <2>5. Min(same) \in places
    BY <2>3, <2>4
  <2>6. QED
    BY <2>4, <2>5
<1> HIDE DEF places
<1>5. /\ kept \in Seq(S) /\ Len(kept) <= Len(hits)
      /\ \A k \in DOMAIN kept : \E i \in places : kept[k] = hits[i]
      /\ \A i \in places : \E k \in DOMAIN kept : kept[k] = hits[i]
      /\ \A k, l \in DOMAIN kept :
           k # l => \E i, j \in places : i # j /\ kept[k] = hits[i] /\ kept[l] = hits[j]
  BY <1>2, ItemsAtTells
<1> HIDE DEF kept
<1>6. ASSUME NEW k \in DOMAIN kept, NEW l \in DOMAIN kept, k # l PROVE kept[k].id # kept[l].id
  <2>1. PICK i \in places, j \in places : i # j /\ kept[k] = hits[i] /\ kept[l] = hits[j]
    BY <1>5, <1>6
  <2>2. QED
    BY <1>3, <2>1
<1>7. \A k \in DOMAIN kept : \E i \in DOMAIN hits : kept[k] = hits[i]
  BY <1>2, <1>5
<1>8. \A i \in DOMAIN hits : \E k \in DOMAIN kept : kept[k].id = hits[i].id
  <2>1. ASSUME NEW i \in DOMAIN hits PROVE \E k \in DOMAIN kept : kept[k].id = hits[i].id
    <3>1. PICK j \in places : hits[j].id = hits[i].id
      BY <1>4
    <3>2. PICK k \in DOMAIN kept : kept[k] = hits[j]
      BY <1>5
    <3>3. QED
      BY <3>1, <3>2
  <2>2. QED
    BY <2>1
<1>9. Ids(kept) = Ids(hits)
  BY <1>7, <1>8 DEF Ids
<1>10. QED
  BY <1>5, <1>6, <1>7, <1>9 DEF kept, ApartIds

ReadersIInv ==
    /\ lists \in [Keys -> Seq(Entries)]
    /\ index \in SUBSET Entries /\ IsFiniteSet(index)

LEMMA ReadingLimits ==
    ASSUME ReadingAssumption
    PROVE  /\ HitLimit \in Nat \ {0} /\ PageLimit \in Nat \ {0}
           /\ RecentLimit \in Nat \ {0} /\ PrivateLimit \in Nat
           /\ HitLimit > 1 => RecentLimit < HitLimit
           /\ HitLimit = 1 => RecentLimit = 1
           /\ AtLeast(6, 2 * HitLimit) \in Nat /\ AtLeast(6, 2 * HitLimit) >= HitLimit
<1>1. HitLimit \in Nat \ {0} /\ PageLimit \in Nat \ {0}
  BY DEF ReadingAssumption
<1>2. QED
  BY <1>1 DEF RecentLimit, PrivateLimit, AtLeast, AtMost

\* What list_recent returns is of the runs and kinds asked for, and no more than that.
LEMMA ListRecentTells ==
    ASSUME lists \in [Keys -> Seq(Entries)], NEW key \in Keys, NEW runs, NEW kinds,
           NEW limit \in Nat
    PROVE  LET recent == ListRecent(key, runs, kinds, limit) IN
           /\ recent \in Seq(Entries) /\ Len(recent) <= limit
           /\ \A k \in DOMAIN recent :
                recent[k].run \in runs /\ \E i \in DOMAIN lists[key] : recent[k] = lists[key][i]
<1> DEFINE read == First(2 * limit, lists[key])
           places == {i \in DOMAIN read : read[i].run \in runs /\ read[i].kind \in kinds}
           some == ItemsAt(read, places)
           recent == ListRecent(key, runs, kinds, limit)
<1>1. lists[key] \in Seq(Entries) /\ 2 * limit \in Nat
  OBVIOUS
<1>2. read \in Seq(Entries) /\ \A i \in DOMAIN read : i \in DOMAIN lists[key] /\ read[i] = lists[key][i]
  BY <1>1, FirstTakes
<1>3. recent = First(limit, some) /\ places \in SUBSET DOMAIN read
  BY DEF ListRecent
<1>4. \A i \in places : read[i].run \in runs /\ \E j \in DOMAIN lists[key] : read[i] = lists[key][j]
  BY <1>2
<1> HIDE DEF read, places, some, recent
<1>5. some \in Seq(Entries) /\ \A k \in DOMAIN some : \E i \in places : some[k] = read[i]
  BY <1>2, <1>3, ItemsAtTells DEF some
<1>6. /\ recent \in Seq(Entries) /\ Len(recent) \in Nat
      /\ Len(recent) = IF Len(some) < limit THEN Len(some) ELSE limit
      /\ \A k \in DOMAIN recent : k \in DOMAIN some /\ recent[k] = some[k]
  BY <1>3, <1>5, FirstTakes, LenProperties
<1>7. Len(recent) <= limit
  BY <1>5, <1>6, LenProperties
<1>8. QED
  BY <1>4, <1>5, <1>6, <1>7 DEF recent

\* While all of it is read, it is all that the run has in the list, and no more.
LEMMA AllIsRead ==
    ASSUME lists \in [Keys -> Seq(Entries)], NEW key \in Keys, NEW r, NEW limit \in Nat,
           AllRead(r, key, limit)
    PROVE  /\ Ids(ListRecent(key, {r}, DOMAIN TierOf, limit)) = OwnIds(r, key)
           /\ Len(ListRecent(key, {r}, DOMAIN TierOf, limit)) = Cardinality(OwnPlaces(r, key))
<1> DEFINE list == lists[key]
           places == OwnPlaces(r, key)
           some == ItemsAt(list, places)
<1>1. list \in Seq(Entries) /\ 2 * limit \in Nat /\ Len(list) <= 2 * limit /\ Cardinality(places) <= limit
  BY DEF AllRead
<1>2. First(2 * limit, list) = list
  BY <1>1, FirstTakes
<1>3. \A i \in DOMAIN list : list[i] \in Entries
  BY <1>1, LenProperties
<1>4. \A i \in DOMAIN list : list[i].kind \in DOMAIN TierOf
  BY <1>3 DEF Entries
<1>5. places = {i \in DOMAIN list : list[i].run \in {r} /\ list[i].kind \in DOMAIN TierOf}
  BY <1>4 DEF OwnPlaces
<1>6. places \in SUBSET DOMAIN list /\ OwnIds(r, key) = {list[i].id : i \in places}
  BY DEF OwnPlaces, OwnIds
<1>7. ListRecent(key, {r}, DOMAIN TierOf, limit) = First(limit, some)
  BY <1>2, <1>5 DEF ListRecent
<1> HIDE DEF list, places, some
<1>8. /\ some \in Seq(Entries) /\ Len(some) = Cardinality(places)
      /\ \A k \in DOMAIN some : \E i \in places : some[k] = list[i]
      /\ \A i \in places : \E k \in DOMAIN some : some[k] = list[i]
  BY <1>1, <1>6, ItemsAtTells DEF some
<1>9. First(limit, some) = some
  BY <1>1, <1>8, FirstTakes
<1>10. {some[k].id : k \in DOMAIN some} = {list[i].id : i \in places}
  BY <1>8
<1>11. Cardinality(places) = Cardinality(OwnPlaces(r, key))
  BY DEF places
<1>12. QED
  BY <1>6, <1>7, <1>8, <1>9, <1>10, <1>11 DEF Ids

\* What the index finds, as a list.
LEMMA FoundListed ==
    ASSUME NEW S, NEW found \in SUBSET S, IsFiniteSet(found)
    PROVE  /\ SetToSeq(found) \in Seq(S) /\ Len(SetToSeq(found)) = Cardinality(found)
           /\ {SetToSeq(found)[i] : i \in DOMAIN SetToSeq(found)} = found
<1> DEFINE n == Cardinality(found)
           Orders(f) == f \in [1 .. n -> found] /\ IsInjective(f)
<1>1. n \in Nat
  BY FS_CardinalityType
<1>2. IsFiniteSet(1 .. n) /\ Cardinality(1 .. n) = n
  <2>1. n \in Int /\ 1 \in Int
    BY <1>1
  <2> HIDE DEF n
  <2>2. IsFiniteSet(1 .. n) /\ Cardinality(1 .. n) = IF 1 > n THEN 0 ELSE n - 1 + 1
    BY <2>1, FS_Interval
  <2>3. QED
    BY <1>1, <2>2
<1>3. PICK g : g \in Bijection(1 .. n, found)
  BY FS_CountingElements, FS_NatBijection DEF ExistsBijection
<1>4. Orders(g)
  BY <1>3 DEF Bijection, Injection, IsInjective
<1>5. SetToSeq(found) = CHOOSE f \in [1 .. n -> found] : IsInjective(f)
  BY DEF SetToSeq
<1>6. Orders(SetToSeq(found))
  BY <1>4, <1>5
<1> DEFINE seq == SetToSeq(found)
<1>7. seq \in [1 .. n -> found] /\ IsInjective(seq)
  BY <1>6
<1> HIDE DEF seq
<1>8. DOMAIN seq = 1 .. n /\ seq \in Seq(S) /\ Len(seq) = n
  <2>1. seq \in [1 .. n -> S]
    BY <1>7
  <2> HIDE DEF n
  <2>2. QED
    BY <1>1, <2>1
<1>9. \A x \in found : \E i \in 1 .. n : seq[i] = x
  <2>1. seq \in Injection(1 .. n, found)
    BY <1>7, <1>8 DEF Injection, IsInjective
  <2>2. Cardinality(found) = Cardinality(1 .. n)
    BY <1>2
  <2>3. seq \in Surjection(1 .. n, found)
    <3> HIDE DEF n
    <3>1. QED
      BY <1>2, <2>1, <2>2, FS_Injection
  <2>4. QED
    BY <2>3 DEF Surjection
<1>10. {seq[i] : i \in DOMAIN seq} = found
  BY <1>7, <1>8, <1>9
<1>11. QED
  BY <1>8, <1>10 DEF seq

\* The ids of two lists one after the other.
LEMMA IdsOfBoth ==
    ASSUME NEW S, NEW one \in Seq(S), NEW other \in Seq(S)
    PROVE  /\ one \o other \in Seq(S) /\ Len(one \o other) = Len(one) + Len(other)
           /\ Ids(one \o other) = Ids(one) \cup Ids(other)
           /\ \A k \in DOMAIN (one \o other) : \/ \E i \in DOMAIN one : (one \o other)[k] = one[i]
                                              \/ \E i \in DOMAIN other : (one \o other)[k] = other[i]
<1> DEFINE m == Len(one)
           n == Len(other)
           both == one \o other
<1>1. m \in Nat /\ n \in Nat /\ DOMAIN one = 1 .. m /\ DOMAIN other = 1 .. n
  BY LenProperties
<1>2. /\ both \in Seq(S) /\ Len(both) = m + n
      /\ \A k \in 1 .. m + n : both[k] = IF k <= m THEN one[k] ELSE other[k - m]
  BY ConcatProperties
<1>3. DOMAIN both = 1 .. m + n
  BY <1>2, LenProperties
<1> HIDE DEF m, n, both
<1>4. ASSUME NEW k \in DOMAIN both
      PROVE  \/ \E i \in DOMAIN one : both[k] = one[i]
             \/ \E i \in DOMAIN other : both[k] = other[i]
  <2>1. CASE k <= m
    <3>1. k \in DOMAIN one /\ both[k] = one[k]
      BY <1>1, <1>2, <1>3, <2>1
    <3>2. QED
      BY <3>1
  <2>2. CASE ~(k <= m)
    <3>1. k - m \in DOMAIN other /\ both[k] = other[k - m]
      BY <1>1, <1>2, <1>3, <2>2
    <3>2. QED
      BY <3>1
  <2>3. QED
    BY <2>1, <2>2
<1>5. ASSUME NEW i \in DOMAIN one PROVE i \in DOMAIN both /\ both[i] = one[i]
  BY <1>1, <1>2, <1>3
<1>6. ASSUME NEW i \in DOMAIN other PROVE i + m \in DOMAIN both /\ both[i + m] = other[i]
  <2>1. i + m \in 1 .. m + n /\ ~(i + m <= m) /\ (i + m) - m = i
    BY <1>1
  <2>2. QED
    BY <1>2, <1>3, <2>1
<1>7. Ids(both) = Ids(one) \cup Ids(other)
  BY <1>4, <1>5, <1>6 DEF Ids
<1>8. QED
  BY <1>2, <1>4, <1>7 DEF m, n, both

\* The hits of a plan are the relevant ones among what was read, each once.
LEMMA HitsAreRelevant ==
    ASSUME ReadersIInv, ReadingAssumption
    PROVE  RelevantReachThePlan
<1> DEFINE recent == RecentHits
<1>1. /\ HitLimit \in Nat \ {0} /\ RecentLimit \in Nat \ {0}
      /\ HitLimit > 1 => RecentLimit < HitLimit
      /\ HitLimit = 1 => RecentLimit = 1
      /\ AtLeast(6, 2 * HitLimit) \in Nat /\ AtLeast(6, 2 * HitLimit) >= HitLimit
  BY ReadingLimits
<1>2. recent \in Seq(Entries) /\ Len(recent) <= RecentLimit /\ Len(recent) \in Nat
  <2>1. "shared" \in Keys /\ RecentLimit \in Nat
    BY <1>1 DEF Keys
  <2>2. QED
    BY <2>1, ListRecentTells, LenProperties DEF ReadersIInv, RecentHits
<1>3. SemanticLimit(recent) \in Nat /\ (HitLimit > 1 => Len(recent) + SemanticLimit(recent) <= HitLimit)
  <2> HIDE DEF recent
  <2> DEFINE size == Len(recent)
             first == RecentLimit
  <2>1. size \in Nat /\ first \in Nat /\ size <= first
    BY <1>1, <1>2
  <2>2. SemanticLimit(recent) = AtLeast(1, HitLimit - AtMost(first, size))
    BY DEF SemanticLimit
  <2>3. HitLimit > 1 => first < HitLimit
    BY <1>1
  <2> HIDE DEF size, first
  <2>4. AtMost(first, size) = size
    BY <2>1 DEF AtMost
  <2>5. SemanticLimit(recent) = IF HitLimit - size < 1 THEN 1 ELSE HitLimit - size
    BY <2>2, <2>4 DEF AtLeast
  <2>6. SemanticLimit(recent) \in Nat /\ (HitLimit > 1 => size + SemanticLimit(recent) <= HitLimit)
    BY <1>1, <2>1, <2>3, <2>5
  <2>7. QED
    BY <2>6 DEF size
<1> HIDE DEF recent
<1>4. ASSUME NEW found \in SearchSemantic(SemanticLimit(recent)),
             NEW relevant \in SUBSET (Ids(recent) \cup {entry.id : entry \in found})
      PROVE  LET hits == HitsOf(Candidates(recent, found), relevant) IN
             /\ Len(hits) <= HitLimit /\ Cardinality(Ids(hits)) = Len(hits)
             /\ HitLimit > 1 => Ids(hits) = relevant
  <2> DEFINE more == SetToSeq(found)
             both == recent \o more
             once == DedupeMemoryHits(both)
             most == AtLeast(6, 2 * HitLimit)
             candidates == Candidates(recent, found)
             places == {i \in DOMAIN candidates : candidates[i].id \in relevant}
             some == ItemsAt(candidates, places)
             hits == HitsOf(candidates, relevant)
  <2>1. found \in SUBSET Entries /\ IsFiniteSet(found) /\ Cardinality(found) <= SemanticLimit(recent)
    BY FS_Subset DEF SearchSemantic, ReadersIInv
  <2>2. /\ more \in Seq(Entries) /\ Len(more) = Cardinality(found) /\ Cardinality(found) \in Nat
        /\ {more[i] : i \in DOMAIN more} = found
    BY <2>1, FoundListed, FS_CardinalityType
  <2>3. Ids(more) = {entry.id : entry \in found}
    <3> HIDE DEF more
    <3>1. QED
      BY <2>2 DEF Ids
  <2> HIDE DEF more
  <2>4. /\ both \in Seq(Entries) /\ Len(both) = Len(recent) + Len(more)
        /\ Ids(both) = Ids(recent) \cup Ids(more)
    <3>1. recent \in Seq(Entries) /\ more \in Seq(Entries)
      BY <1>2, <2>2
    <3>2. QED
      BY <3>1, IdsOfBoth
  <2>5. HitLimit > 1 => Len(both) <= HitLimit
    BY <1>1, <1>2, <1>3, <2>1, <2>2, <2>4
  <2> HIDE DEF both
  <2>6. once \in Seq(Entries) /\ Len(once) <= Len(both) /\ ApartIds(once) /\ Ids(once) = Ids(both)
    BY <2>4, DedupeTells
  <2>7. candidates = First(most, once) /\ most \in Nat /\ most >= HitLimit
    BY <1>1 DEF Candidates, both, more
  <2> HIDE DEF once, candidates, most
  <2>8. /\ candidates \in Seq(Entries)
        /\ \A k \in DOMAIN candidates : k \in DOMAIN once /\ candidates[k] = once[k]
        /\ Len(once) <= most => candidates = once
    BY <2>6, <2>7, FirstTakes
  <2>9. ApartIds(candidates)
    BY <2>6, <2>8 DEF ApartIds
  <2>10. HitLimit > 1 => Ids(candidates) = Ids(both) /\ Len(candidates) <= HitLimit
    <3>1. Len(once) \in Nat /\ Len(both) \in Nat
      BY <2>4, <2>6, LenProperties
    <3>2. HitLimit > 1 => Len(once) <= HitLimit /\ Len(once) <= most
      BY <1>1, <2>5, <2>6, <2>7, <3>1
    <3>3. QED
      BY <2>6, <2>8, <3>2
  <2>11. hits = First(HitLimit, some) /\ places \in SUBSET DOMAIN candidates
    BY DEF HitsOf
  <2>12. \A i \in places : candidates[i].id \in relevant
    OBVIOUS
  <2>13. \A i \in DOMAIN candidates : candidates[i].id \in relevant => i \in places
    OBVIOUS
  <2> HIDE DEF places, hits, some
  <2>14. /\ some \in Seq(Entries) /\ Len(some) <= Len(candidates)
         /\ \A k \in DOMAIN some : \E i \in places : some[k] = candidates[i]
         /\ \A i \in places : \E k \in DOMAIN some : some[k] = candidates[i]
         /\ \A k, l \in DOMAIN some :
              k # l => \E i, j \in places : i # j /\ some[k] = candidates[i] /\ some[l] = candidates[j]
    BY <2>8, <2>11, ItemsAtTells DEF some
  <2>15. ApartIds(some)
    <3>1. ASSUME NEW k \in DOMAIN some, NEW l \in DOMAIN some, k # l PROVE some[k].id # some[l].id
      <4>1. PICK i \in places, j \in places : i # j /\ some[k] = candidates[i] /\ some[l] = candidates[j]
        BY <2>14, <3>1
      <4>2. QED
        BY <2>9, <2>11, <4>1 DEF ApartIds
    <3>2. QED
      BY <3>1 DEF ApartIds
  <2>16. /\ hits \in Seq(Entries) /\ Len(hits) = IF Len(some) < HitLimit THEN Len(some) ELSE HitLimit
         /\ \A k \in DOMAIN hits : k \in DOMAIN some /\ hits[k] = some[k]
         /\ Len(some) <= HitLimit => hits = some
    BY <1>1, <2>11, <2>14, FirstTakes
  <2>17. Len(hits) <= HitLimit
    BY <1>1, <2>14, <2>16, LenProperties
  <2>18. ApartIds(hits)
    BY <2>15, <2>16 DEF ApartIds
  <2>19. Cardinality(Ids(hits)) = Len(hits)
    BY <2>16, <2>18, IdsCounted
  <2>20. ASSUME HitLimit > 1 PROVE Ids(hits) = relevant
    <3>1. hits = some
      <4>1. Len(some) \in Nat /\ Len(candidates) \in Nat
        BY <2>8, <2>14, LenProperties
      <4>2. QED
        BY <1>1, <2>10, <2>14, <2>16, <2>20, <4>1
    <3>2. ASSUME NEW k \in DOMAIN some PROVE some[k].id \in relevant
      BY <2>12, <2>14
    <3>3. ASSUME NEW id \in relevant PROVE \E k \in DOMAIN some : some[k].id = id
      <4>1. id \in Ids(candidates)
        BY <2>3, <2>4, <2>10, <2>20
      <4>2. PICK i \in DOMAIN candidates : candidates[i].id = id
        BY <4>1 DEF Ids
      <4>3. QED
        BY <2>13, <2>14, <4>2
    <3>4. QED
      BY <3>1, <3>2, <3>3 DEF Ids
  <2>21. QED
    BY <2>17, <2>19, <2>20 DEF hits, candidates
<1>5. QED
  BY <1>4 DEF RelevantReachThePlan, recent

PageEntries == [id : Nat, run : MemoryRuns, createdAt : Nat, scope : {"private", "shared"},
                changeType : {"updated", "created"}]

\* What a page shows of both lists: entries of the run, each once.
LEMMA BothOnce ==
    ASSUME ReadersIInv, ReadingAssumption, NEW r
    PROVE  LET items == EntriesOfBoth({r}) IN
           /\ items \in Seq(PageEntries) /\ ApartIds(items)
           /\ \A k \in DOMAIN items : items[k].run = r
           /\ AllRead(r, "shared", PageLimit) /\ AllRead(r, "private", PrivateLimit) =>
                Ids(items) = OwnIds(r, "shared") \cup OwnIds(r, "private")
<1> DEFINE shared == ListRecent("shared", {r}, DOMAIN TierOf, PageLimit)
           private == PrivateState({r}, PrivateLimit)
           both == shared \o private
           once == DedupeMemoryHits(both)
           items == EntriesOfBoth({r})
<1>1. lists \in [Keys -> Seq(Entries)] /\ "shared" \in Keys /\ "private" \in Keys
      /\ PageLimit \in Nat /\ PrivateLimit \in Nat
  BY ReadingLimits DEF ReadersIInv, Keys
<1>2. shared \in Seq(Entries) /\ \A k \in DOMAIN shared : shared[k].run = r
  BY <1>1, ListRecentTells
<1>3. private \in Seq(Entries) /\ \A k \in DOMAIN private : private[k].run = r
  BY <1>1, ListRecentTells DEF PrivateState
<1>4. AllRead(r, "shared", PageLimit) => Ids(shared) = OwnIds(r, "shared")
  BY <1>1, AllIsRead
<1>5. AllRead(r, "private", PrivateLimit) => Ids(private) = OwnIds(r, "private")
  BY <1>1, AllIsRead DEF PrivateState
<1> HIDE DEF shared, private
<1>6. /\ both \in Seq(Entries) /\ Ids(both) = Ids(shared) \cup Ids(private)
      /\ \A k \in DOMAIN both : \/ \E i \in DOMAIN shared : both[k] = shared[i]
                                \/ \E i \in DOMAIN private : both[k] = private[i]
  <2>1. shared \in Seq(Entries) /\ private \in Seq(Entries)
    BY <1>2, <1>3
  <2>2. shared \o private \in Seq(Entries)
    BY <2>1, IdsOfBoth
  <2>3. Ids(shared \o private) = Ids(shared) \cup Ids(private)
    BY <2>1, IdsOfBoth
  <2>4. \A k \in DOMAIN (shared \o private) :
          \/ \E i \in DOMAIN shared : (shared \o private)[k] = shared[i]
          \/ \E i \in DOMAIN private : (shared \o private)[k] = private[i]
    BY <2>1, IdsOfBoth
  <2>5. both = shared \o private
    OBVIOUS
  <2> HIDE DEF both
  <2>6. QED
    BY <2>2, <2>3, <2>4, <2>5
<1>7. \A k \in DOMAIN both : both[k].run = r
  BY <1>2, <1>3, <1>6
<1> HIDE DEF both
<1>8. /\ once \in Seq(Entries) /\ ApartIds(once) /\ Ids(once) = Ids(both)
      /\ \A k \in DOMAIN once : \E i \in DOMAIN both : once[k] = both[i]
  BY <1>6, DedupeTells
<1>9. items = [k \in DOMAIN once |-> Item(once[k])]
  BY DEF EntriesOfBoth, once, both, shared, private
<1> HIDE DEF once, items
<1>10. DOMAIN once = 1 .. Len(once) /\ Len(once) \in Nat /\ \A k \in DOMAIN once : once[k] \in Entries
  BY <1>8, LenProperties
<1>11. ASSUME NEW k \in DOMAIN once
       PROVE  items[k] \in PageEntries /\ items[k].id = once[k].id /\ items[k].run = once[k].run
  <2>1. once[k] \in Entries /\ items[k] = Item(once[k])
    BY <1>9, <1>10
  <2>2. once[k].id \in Nat /\ once[k].run \in MemoryRuns /\ once[k].born \in Nat
    BY <2>1 DEF Entries
  <2>3. QED
    BY <2>1, <2>2 DEF Item, PageEntries
<1>12. items \in [1 .. Len(once) -> PageEntries] /\ DOMAIN items = DOMAIN once
  BY <1>9, <1>10, <1>11
<1>13. items \in Seq(PageEntries)
  BY <1>10, <1>12
<1>14. ApartIds(items)
  BY <1>8, <1>11, <1>12 DEF ApartIds
<1>15. \A k \in DOMAIN items : items[k].run = r
  <2>1. \A k \in DOMAIN once : once[k].run = r
    BY <1>7, <1>8
  <2>2. QED
    BY <1>11, <1>12, <2>1
<1>16. Ids(items) = Ids(once)
  BY <1>11, <1>12 DEF Ids
<1>17. QED
  BY <1>4, <1>5, <1>6, <1>8, <1>13, <1>14, <1>15, <1>16 DEF items

\* A page is those of its entries that were made last.
LEMMA PagesInOrder ==
    ASSUME ReadersIInv, ReadingAssumption, NEW r
    PROVE  LET page == CollectMemoryItems({r})
               own == OwnIds(r, "shared") \cup OwnIds(r, "private") IN
           /\ \A i \in DOMAIN page : page[i].run = r
           /\ \A i, j \in DOMAIN page : i < j => /\ page[i].id # page[j].id
                                                 /\ page[i].createdAt >= page[j].createdAt
           /\ AllRead(r, "shared", PageLimit) /\ AllRead(r, "private", PrivateLimit)
              /\ Cardinality(own) <= PageLimit => Ids(page) = own
<1> DEFINE items == EntriesOfBoth({r})
           n == Len(items)
           key == [i \in DOMAIN items |-> 0 - items[i].createdAt]
           sorted == SortedBy(items, key)
           page == CollectMemoryItems({r})
           own == OwnIds(r, "shared") \cup OwnIds(r, "private")
           all == AllRead(r, "shared", PageLimit) /\ AllRead(r, "private", PrivateLimit)
<1>1. /\ items \in Seq(PageEntries) /\ ApartIds(items)
      /\ \A k \in DOMAIN items : items[k].run = r
      /\ all => Ids(items) = own
  BY BothOnce
<1>2. page = First(PageLimit, sorted)
  BY DEF CollectMemoryItems
<1> HIDE DEF items, page, own, all
<1>3. n \in Nat /\ DOMAIN items = 1 .. n /\ \A i \in 1 .. n : items[i] \in PageEntries
  BY <1>1, LenProperties
<1>4. \A i \in 1 .. n : items[i].createdAt \in Nat
  BY <1>3 DEF PageEntries
<1>5. key \in [1 .. n -> Int] /\ \A i \in 1 .. n : key[i] = 0 - items[i].createdAt
  BY <1>3, <1>4
<1>6. IsFiniteSet(1 .. n) /\ Cardinality(1 .. n) = n
  <2>1. n \in Int /\ 1 \in Int
    BY <1>3
  <2>2. IsFiniteSet(1 .. n) /\ Cardinality(1 .. n) = IF 1 > n THEN 0 ELSE n - 1 + 1
    BY <2>1, FS_Interval
  <2>3. QED
    BY <1>3, <2>2
<1> HIDE DEF n, key
<1>7. PICK at : SortsBy(at, sorted, items, key, 1 .. n)
  <2>1. 1 .. n \in SUBSET Nat
    BY <1>3
  <2>2. QED
    BY <1>5, <1>6, <2>1, Sorts
<1> HIDE DEF sorted
<1>8. /\ at \in [1 .. n -> 1 .. n]
      /\ sorted = [k \in 1 .. n |-> items[at[k]]]
      /\ \A i \in 1 .. n : \E k \in 1 .. n : at[k] = i
      /\ \A k, l \in 1 .. n : k < l => Precedes(key, at[k], at[l])
  BY <1>6, <1>7 DEF SortsBy
<1>9. /\ sorted \in Seq(PageEntries) /\ Len(sorted) = n /\ DOMAIN sorted = 1 .. n
  <2>1. sorted \in [1 .. n -> PageEntries]
    BY <1>3, <1>8
  <2>2. QED
    BY <1>3, <2>1
<1>10. ASSUME NEW k \in 1 .. n, NEW l \in 1 .. n, k < l
       PROVE  sorted[k].id # sorted[l].id /\ sorted[k].createdAt >= sorted[l].createdAt
  <2>1. at[k] \in 1 .. n /\ at[l] \in 1 .. n /\ Precedes(key, at[k], at[l])
    BY <1>8, <1>10
  <2>2. sorted[k] = items[at[k]] /\ sorted[l] = items[at[l]]
    BY <1>8
  <2>3. key[at[k]] = 0 - items[at[k]].createdAt /\ key[at[l]] = 0 - items[at[l]].createdAt
    BY <1>5, <2>1
  <2>4. items[at[k]].createdAt \in Nat /\ items[at[l]].createdAt \in Nat
    BY <1>4, <2>1
  <2>5. at[k] # at[l] /\ items[at[k]].createdAt >= items[at[l]].createdAt
    <3>1. key[at[k]] < key[at[l]] \/ (key[at[k]] = key[at[l]] /\ at[k] < at[l])
      BY <2>1 DEF Precedes
    <3>2. at[k] \in Nat /\ at[l] \in Nat
      BY <1>3, <2>1
    <3>3. at[k] # at[l]
      BY <2>3, <2>4, <3>1, <3>2
    <3>4. items[at[k]].createdAt >= items[at[l]].createdAt
      BY <2>3, <2>4, <3>1
    <3>5. QED
      BY <3>3, <3>4
  <2>6. QED
    BY <1>1, <1>3, <2>1, <2>2, <2>5 DEF ApartIds
<1>11. PageLimit \in Nat
  BY ReadingLimits
<1>12. /\ page \in Seq(PageEntries)
       /\ \A k \in DOMAIN page : k \in DOMAIN sorted /\ page[k] = sorted[k]
       /\ n <= PageLimit => page = sorted
  BY <1>2, <1>9, <1>11, FirstTakes
<1>13. ASSUME NEW k \in DOMAIN page PROVE page[k].run = r
  <2>1. k \in 1 .. n /\ page[k] = sorted[k]
    BY <1>9, <1>12
  <2>2. at[k] \in DOMAIN items /\ sorted[k] = items[at[k]]
    BY <1>3, <1>8, <2>1
  <2>3. QED
    BY <1>1, <2>1, <2>2
<1>14. Ids(sorted) = Ids(items)
  BY <1>3, <1>8, <1>9 DEF Ids
<1>15. all /\ Cardinality(own) <= PageLimit => Ids(page) = own
  <2>1. Cardinality(Ids(items)) = n
    BY <1>1, IdsCounted DEF n
  <2>2. QED
    BY <1>1, <1>12, <1>14, <2>1
<1>16. QED
  BY <1>9, <1>10, <1>12, <1>13, <1>15 DEF all, own, page

LEMMA HitsTyped ==
    ASSUME ReadersIInv, ReadingAssumption, NEW relevant
    PROVE  HitsOf(Candidates(RecentHits, {}), relevant) \in Seq(Entries)
<1> DEFINE none == SetToSeq({})
           once == DedupeMemoryHits(RecentHits \o none)
           candidates == Candidates(RecentHits, {})
           places == {i \in DOMAIN candidates : candidates[i].id \in relevant}
<1>1. /\ HitLimit \in Nat /\ RecentLimit \in Nat /\ AtLeast(6, 2 * HitLimit) \in Nat
  BY ReadingLimits
<1>2. RecentHits \in Seq(Entries)
  BY <1>1, ListRecentTells DEF ReadersIInv, RecentHits, Keys
<1>3. none \in Seq(Entries)
  <2>1. {} \in SUBSET Entries /\ IsFiniteSet({})
    BY FS_EmptySet
  <2>2. QED
    BY <2>1, FoundListed
<1>4. once \in Seq(Entries)
  <2>1. RecentHits \o none \in Seq(Entries)
    BY <1>2, <1>3, IdsOfBoth
  <2>2. QED
    BY <2>1, DedupeTells
<1>5. candidates \in Seq(Entries)
  <2>1. candidates = First(AtLeast(6, 2 * HitLimit), once)
    BY DEF Candidates
  <2>2. QED
    BY <1>1, <1>4, <2>1, FirstTakes
<1> HIDE DEF candidates
<1>6. ItemsAt(candidates, places) \in Seq(Entries)
  BY <1>5, ItemsAtTells, places \in SUBSET DOMAIN candidates
<1>7. HitsOf(candidates, relevant) = First(HitLimit, ItemsAt(candidates, places))
  BY DEF HitsOf
<1> HIDE DEF places
<1>8. QED
  BY <1>1, <1>6, <1>7, FirstTakes DEF candidates

\* What a resumed run is given of its lists.
LEMMA PayloadTells ==
    ASSUME ReadersIInv, NEW r
    PROVE  /\ ListRecent("shared", {r}, DOMAIN TierOf, ResumedShared) \in Seq(Entries)
           /\ PrivateState({r}, ResumedPrivate) \in Seq(Entries)
           /\ AllRead(r, "shared", ResumedShared) =>
                Ids(ListRecent("shared", {r}, DOMAIN TierOf, ResumedShared)) = OwnIds(r, "shared")
           /\ AllRead(r, "private", ResumedPrivate) =>
                Ids(PrivateState({r}, ResumedPrivate)) = OwnIds(r, "private")
<1>1. lists \in [Keys -> Seq(Entries)] /\ "shared" \in Keys /\ "private" \in Keys
      /\ ResumedShared \in Nat /\ ResumedPrivate \in Nat
  BY DEF ReadersIInv, Keys, ResumedShared, ResumedPrivate
<1> HIDE DEF ResumedShared, ResumedPrivate
<1>2. QED
  BY <1>1, ListRecentTells, AllIsRead DEF PrivateState

\* The entries of a board, and those of a private memory, are of one run.
LEMMA OfOneRun ==
    ASSUME ReadersIInv, NEW r, NEW limit \in Nat
    PROVE  /\ \A i \in DOMAIN SharedBoard({r}, limit) : SharedBoard({r}, limit)[i].run = r
           /\ \A i \in DOMAIN PrivateState({r}, limit) : PrivateState({r}, limit)[i].run = r
<1> DEFINE read == ListRecent("shared", {r}, DOMAIN TierOf, AtLeast(20, 2 * limit))
           board == SharedBoard({r}, limit)
           private == PrivateState({r}, limit)
<1>1. lists \in [Keys -> Seq(Entries)] /\ "shared" \in Keys /\ "private" \in Keys
      /\ AtLeast(20, 2 * limit) \in Nat
  BY DEF ReadersIInv, Keys, AtLeast
<1>2. read \in Seq(Entries) /\ \A k \in DOMAIN read : read[k].run = r
  BY <1>1, ListRecentTells
<1>3. board = First(limit, read)
  BY DEF SharedBoard
<1> HIDE DEF read, board
<1>4. \A k \in DOMAIN board : k \in DOMAIN read /\ board[k] = read[k]
  BY <1>2, <1>3, FirstTakes
<1>5. \A k \in DOMAIN private : private[k].run = r
  BY <1>1, ListRecentTells DEF PrivateState
<1>6. QED
  BY <1>2, <1>4, <1>5 DEF board

\* A board that shows thirty shows all of a run that has no more.
LEMMA BoardTells ==
    ASSUME ReadersIInv, NEW r, AllRead(r, "shared", ResumedBoard)
    PROVE  Ids(SharedBoard({r}, ResumedBoard)) = OwnIds(r, "shared")
<1> DEFINE n == Cardinality(OwnPlaces(r, "shared"))
           read == ListRecent("shared", {r}, DOMAIN TierOf, 60)
<1>1. lists \in [Keys -> Seq(Entries)] /\ "shared" \in Keys /\ lists["shared"] \in Seq(Entries)
  BY DEF ReadersIInv, Keys
<1>2. Len(lists["shared"]) \in Nat /\ Len(lists["shared"]) <= 60 /\ n <= 30
  BY <1>1, LenProperties DEF AllRead, ResumedBoard
<1>3. n \in Nat
  <2>1. OwnPlaces(r, "shared") \in SUBSET DOMAIN lists["shared"]
    BY DEF OwnPlaces
  <2> DEFINE places == OwnPlaces(r, "shared")
  <2> HIDE DEF places
  <2>2. /\ ItemsAt(lists["shared"], places) \in Seq(Entries)
        /\ Len(ItemsAt(lists["shared"], places)) = Cardinality(places)
    BY <1>1, <2>1, ItemsAtTells DEF places
  <2>3. Cardinality(places) \in Nat
    BY <2>2, LenProperties
  <2>4. QED
    BY <2>3 DEF places
<1> HIDE DEF n
<1>4. AllRead(r, "shared", 60)
  BY <1>2, <1>3 DEF AllRead, n
<1>5. read \in Seq(Entries)
  BY <1>1, ListRecentTells, 60 \in Nat
<1>6. Ids(read) = OwnIds(r, "shared") /\ Len(read) = n
  BY <1>1, <1>4, AllIsRead, 60 \in Nat DEF n
<1>7. SharedBoard({r}, ResumedBoard) = First(30, read)
  BY DEF SharedBoard, ResumedBoard, AtLeast
<1> HIDE DEF read
<1>8. First(30, read) = read
  BY <1>2, <1>3, <1>5, <1>6, FirstTakes
<1>9. QED
  BY <1>6, <1>7, <1>8

LEMMA ReadersSee ==
    ASSUME ReadersIInv, ReadingAssumption
    PROVE  ReadersSeeTheRun
<1>1. ASSUME NEW r \in contexts, AllRead(r, "shared", ResumedShared), AllRead(r, "private", ResumedPrivate)
      PROVE  Ids(ResumePayload(r).memory \o ResumePayload(r).private)
               = OwnIds(r, "shared") \cup OwnIds(r, "private")
  <2> DEFINE memory == ListRecent("shared", {r}, DOMAIN TierOf, ResumedShared)
             private == PrivateState({r}, ResumedPrivate)
  <2>1. ResumePayload(r).memory = memory /\ ResumePayload(r).private = private
    BY DEF ResumePayload
  <2>2. /\ memory \in Seq(Entries) /\ private \in Seq(Entries)
        /\ Ids(memory) = OwnIds(r, "shared") /\ Ids(private) = OwnIds(r, "private")
    BY <1>1, PayloadTells
  <2> HIDE DEF memory, private
  <2>3. QED
    BY <2>1, <2>2, IdsOfBoth
<1>2. QED
  BY <1>1, PagesInOrder DEF ReadersSeeTheRun

\* Whatever the plan was given.
LEMMA ResumeAdds ==
    ASSUME ReadersIInv, NEW r \in contexts, NEW private \in BOOLEAN,
           NEW hits \in Seq(Entries), NEW board, NEW others, private \/ others = <<>>
    PROVE  Remembers(r, private, [hits |-> hits, board |-> board, private |-> others])
<1> DEFINE plan == [hits |-> hits, board |-> board, private |-> others]
           request == ResumePayload(r)
           given == ContextOf(plan, request, private)
           merged == given.planning
           memory == ListRecent("shared", {r}, DOMAIN TierOf, ResumedShared)
           own == PrivateState({r}, ResumedPrivate)
           kept == SharedBoard({r}, ResumedBoard)
           Of(entries) == {entries[i].run : i \in DOMAIN entries}
<1>1. request = [run |-> r, memory |-> memory, board |-> kept, private |-> own,
                 summary |-> r \in summaries]
  BY DEF ResumePayload
<1>2. request # None
  <2>1. "run" \in DOMAIN request /\ "run" \notin DOMAIN None
    BY <1>1 DEF None
  <2>2. QED
    BY <2>1
<1>3. given = [planning |-> WithResume(plan, request, private), resumed |-> request]
  BY DEF ContextOf
<1>4. WithResume(plan, request, private) =
        [plan EXCEPT !.hits = @ \o request.memory,
                     !.board = IF request.board = <<>> THEN @ ELSE request.board,
                     !.private = IF private THEN request.private ELSE @]
  BY <1>2 DEF WithResume
<1> HIDE DEF memory, own, kept, request
<1>5. /\ plan.hits = hits /\ plan.board = board /\ merged.hits = hits \o memory
      /\ merged.board = (IF kept = <<>> THEN board ELSE kept)
      /\ merged.private = IF private THEN own ELSE others
      /\ given.resumed.board = kept /\ given.resumed.private = own
  <2>1. WithResume(plan, request, private) =
          [hits |-> hits \o memory, board |-> IF kept = <<>> THEN board ELSE kept,
           private |-> IF private THEN own ELSE others]
    BY <1>1, <1>4
  <2>2. given.planning = WithResume(plan, request, private) /\ given.resumed = request
    BY <1>3
  <2>3. request.board = kept /\ request.private = own
    BY <1>1
  <2>4. plan.hits = hits /\ plan.board = board
    OBVIOUS
  <2> HIDE DEF given, plan
  <2>5. /\ merged.hits = hits \o memory
        /\ merged.board = (IF kept = <<>> THEN board ELSE kept)
        /\ merged.private = IF private THEN own ELSE others
    BY <2>1, <2>2
  <2>6. QED
    BY <2>2, <2>3, <2>4, <2>5
<1>6. /\ \A i \in DOMAIN kept : kept[i].run = r
      /\ \A i \in DOMAIN own : own[i].run = r
  BY OfOneRun, ResumedBoard \in Nat, ResumedPrivate \in Nat
     DEF kept, own, ResumedBoard, ResumedPrivate
<1>7. /\ memory \in Seq(Entries)
      /\ AllRead(r, "shared", ResumedShared) => Ids(memory) = OwnIds(r, "shared")
      /\ AllRead(r, "private", ResumedPrivate) => Ids(own) = OwnIds(r, "private")
  BY PayloadTells DEF memory, own
<1>8. Ids(hits \o memory) = Ids(hits) \cup Ids(memory)
  BY <1>7, IdsOfBoth
<1>9. AllRead(r, "shared", ResumedBoard) => Ids(kept) = OwnIds(r, "shared")
  BY BoardTells DEF kept
<1> HIDE DEF plan, given
<1>10. AllRead(r, "shared", ResumedBoard) /\ OwnIds(r, "shared") # {} =>
         Ids(merged.board) = OwnIds(r, "shared")
  <2>1. Ids(<<>>) = {}
    BY DEF Ids
  <2>2. QED
    BY <1>5, <1>9, <2>1
<1>11. \/ Of(merged.board) \subseteq {r}
       \/ merged.board = plan.board /\ given.resumed.board = <<>>
  BY <1>5, <1>6
<1>12. IF private THEN Of(merged.private) \subseteq {r} ELSE merged.private = <<>>
  BY <1>5, <1>6
<1>13. Of(given.resumed.private) \subseteq {r}
  BY <1>5, <1>6
<1>14. /\ Ids(plan.hits) \subseteq Ids(merged.hits)
       /\ AllRead(r, "shared", ResumedShared) => OwnIds(r, "shared") \subseteq Ids(merged.hits)
       /\ AllRead(r, "private", ResumedPrivate) =>
            Ids(given.resumed.private) = OwnIds(r, "private")
  BY <1>5, <1>7, <1>8
<1>15. Remembers(r, private, plan)
  BY <1>10, <1>11, <1>12, <1>13, <1>14 DEF Remembers, given, request
<1>16. QED
  BY <1>15 DEF plan

LEMMA ResumedRemember ==
    ASSUME ReadersIInv, ReadingAssumption
    PROVE  ResumedPlansRemember
<1>1. ASSUME NEW r \in contexts, NEW private \in BOOLEAN
      PROVE  /\ Remembers(r, private, DegradedMemory)
             /\ Remembers(r, private, PlanningMemory({}, Ids(RecentHits), private))
  <2>1. Remembers(r, private, DegradedMemory)
    BY <1>1, ResumeAdds, EmptySeq DEF DegradedMemory
  <2> DEFINE hits == HitsOf(Candidates(RecentHits, {}), Ids(RecentHits))
             board == SharedBoard(MemoryRuns, AtLeast(6, 2 * HitLimit))
             others == IF private THEN PrivateState(MemoryRuns, 3) ELSE <<>>
  <2>2. hits \in Seq(Entries)
    BY HitsTyped
  <2>3. private \/ others = <<>>
    OBVIOUS
  <2>4. PlanningMemory({}, Ids(RecentHits), private)
          = [hits |-> hits, board |-> board, private |-> others]
    BY DEF PlanningMemory
  <2> HIDE DEF hits, board, others
  <2>5. Remembers(r, private, [hits |-> hits, board |-> board, private |-> others])
    BY <1>1, <2>2, <2>3, ResumeAdds
  <2>6. QED
    BY <2>1, <2>4, <2>5
<1>2. QED
  BY <1>1 DEF ResumedPlansRemember

\* The readers are right about every state with such lists and index.
LEMMA ReadersAreRight ==
    ASSUME ReadersIInv, ReadingAssumption
    PROVE  ReadersAreServed
BY HitsAreRelevant, ReadersSee, ResumedRemember DEF ReadersAreServed

\* What is indexed was pushed, or is restored from the table.
LEMMA IndexStep ==
    ASSUME ReadersIInv, CleanupIInv, MemoryNext
    PROVE  index' \in SUBSET Entries /\ IsFiniteSet(index')
<1>1. CASE UNCHANGED index
  BY <1>1 DEF ReadersIInv
<1>2. ASSUME NEW r \in MemoryRuns, Push(r)
      PROVE  index' \in SUBSET Entries /\ IsFiniteSet(index')
  <2>1. memoryRuns[r].entry \in Entries
    BY <1>2 DEF Push, CleanupIInv, EntriesFormed
  <2>2. index' \in {index, index \cup {memoryRuns[r].entry}}
    BY <1>2 DEF Push
  <2>3. IsFiniteSet(index) /\ index \in SUBSET Entries
    BY DEF ReadersIInv
  <2>4. IsFiniteSet(index \cup {memoryRuns[r].entry})
    BY <2>3, FS_AddElement
  <2>5. QED
    BY <2>1, <2>2, <2>3, <2>4
<1>3. CASE RestoreNext
  <2>1. PICK entry \in restoring :
          index' = IF IsIndexed(entry.kind)
                   THEN {old \in index : old.id # entry.id} \cup {[entry EXCEPT !.restored = TRUE]}
                   ELSE index
    BY <1>3 DEF RestoreNext
  <2>2. entry \in Entries
    BY <2>1 DEF CleanupIInv, EntriesFormed
  <2>3. [entry EXCEPT !.restored = TRUE] \in Entries
    BY <2>2 DEF Entries
  <2> DEFINE others == {old \in index : old.id # entry.id}
  <2>4. others \in SUBSET index /\ IsFiniteSet(others)
    BY FS_Subset DEF ReadersIInv
  <2> HIDE DEF others
  <2>5. IsFiniteSet(others \cup {[entry EXCEPT !.restored = TRUE]})
    BY <2>4, FS_AddElement
  <2>6. QED
    BY <2>1, <2>3, <2>4, <2>5 DEF ReadersIInv, others
<1>4. CASE ProcessRestarts
  BY <1>4, FS_EmptySet DEF ProcessRestarts
<1>5. QED
  <2>1. \/ UNCHANGED index \/ RestoreNext \/ ProcessRestarts
        \/ \E r \in MemoryRuns : Push(r)
    BY DEF MemoryNext, Start, AwaitApproval, WriteFails, WriteHash, Persisted, StartCleaning,
           Scan, RemoveNext, Cleaned, StartRestore, DayPasses, RedisRestarts
  <2>2. QED
    BY <1>1, <1>2, <1>3, <1>4, <2>1

\* Plans, pages and resumed runs are given what they should be, however long the
\* lists are, whatever order and copies the pushes, restores and restarts left in
\* them, and whatever the index finds.
THEOREM ReadersServed == MemorySpec => []ReadersAreServed
<1>1. MemoryInit => ReadersIInv
  BY FS_EmptySet, EmptySeq DEF MemoryInit, ReadersIInv
<1>2. ReadersIInv /\ CleanupIInv /\ CleanupIInv' /\ [MemoryNext]_memoryVars => ReadersIInv'
  <2>1. ASSUME ReadersIInv, UNCHANGED memoryVars PROVE ReadersIInv'
    BY <2>1 DEF memoryVars, ReadersIInv
  <2>2. ASSUME ReadersIInv, CleanupIInv, CleanupIInv', MemoryNext PROVE ReadersIInv'
    BY <2>2, IndexStep DEF ReadersIInv, CleanupIInv, EntriesFormed
  <2>3. QED
    BY <2>1, <2>2
<1>3. ReadersIInv => ReadersAreServed
  BY ReadersAreRight, ReadingAssumption
<1>4. QED
  BY <1>1, <1>2, <1>3, CleanupBegins, CleanupGoesOn, PTL DEF MemorySpec

-----------------------------------------------------------------------------
(* The limits on the use of the model.  A bucket keeps an account: what it gave *)
(* since one counts, with what it still has, never exceeds its capacity and     *)
(* what was refilled by its last change.  A level that trips stays marked for   *)
(* its cooldown, because a check resets only levels before the first that        *)
(* refuses.                                                                     *)

\* The values of the variables, and that time and the records agree.
CostTypeOK ==
    /\ clock \in Nat
    /\ used \in Seq([at : Nat, tokens : Nat])
    /\ records \subseteq DOMAIN used
    /\ trippedAt \in [ToSet(Levels) -> Nat]
    /\ tripped \in [ToSet(Levels) -> BOOLEAN]
    /\ buckets \in [Priorities -> [tokens : 0 .. Capacity, at : Nat \cup {-1}]]
    /\ spent \in [Priorities -> Nat]
    /\ audit \in [Priorities -> [from : Nat, spent : Nat]]

\* What was recorded is in the past, and the tracker has what its hour covers.
RecordsCover ==
    \A i \in DOMAIN used : /\ used[i].at <= clock
                           /\ used[i].at >= clock - Window => i \in records

\* A level that tripped less than a cooldown ago still counts as tripped.
TripsHeld ==
    \A l \in ToSet(Levels) :
        trippedAt[l] > 0 /\ clock - trippedAt[l] < Cooldown => tripped[l]

\* What a bucket gave since it is counted, with what it still has, was its
\* capacity or has been refilled by its last change.
RateAccount ==
    \A p \in Priorities :
        /\ buckets[p].at <= clock /\ audit[p].from <= clock
        /\ IF buckets[p].at < audit[p].from
           THEN spent[p] = audit[p].spent
           ELSE buckets[p].tokens + (spent[p] - audit[p].spent)
                  <= Capacity + Refill * (buckets[p].at - audit[p].from)

CostIInv == CostTypeOK /\ RecordsCover /\ TripsHeld /\ RateAccount

LEMMA CostConstants ==
    /\ {Window, DailyWindow, Cooldown, MaxUsage, Capacity, Refill} \subseteq Nat
    /\ WindowOf \in [ToSet(Levels) -> Nat] /\ LimitOf \in [ToSet(Levels) -> Nat]
    /\ DOMAIN Levels = 1 .. Len(Levels) /\ Len(Levels) \in Nat
    /\ \A i \in DOMAIN Levels : Levels[i] \in ToSet(Levels)
    /\ \A l \in ToSet(Levels) : \E i \in DOMAIN Levels : l = Levels[i]
<1>1. DOMAIN Levels = 1 .. Len(Levels) /\ Len(Levels) \in Nat
  BY CostAssumption
<1>2. QED
  BY <1>1, CostAssumption DEF ToSet

\* The first of some levels is one of them, and none comes before it.
LEMMA FirstLevel ==
    ASSUME NEW S \in SUBSET DOMAIN Levels, S # {}
    PROVE  Min(S) \in S /\ \A i \in S : Min(S) <= i
<1>1. S \in SUBSET Nat
  BY CostConstants
<1>2. QED
  BY <1>1, Smallest

LEMMA UsedRecords ==
    ASSUME CostTypeOK, NEW i \in DOMAIN used
    PROVE  used[i].at \in Nat /\ used[i].tokens \in Nat
<1>1. used \in Seq([at : Nat, tokens : Nat]) /\ DOMAIN used = 1 .. Len(used)
  BY DEF CostTypeOK
<1>2. used[i] \in [at : Nat, tokens : Nat]
  BY <1>1, ElementOfSeq
<1>3. QED
  BY <1>2

LEMMA LessOfTwo ==
    ASSUME NEW a \in Nat, NEW b \in Nat
    PROVE  Min({a, b}) \in {a, b} /\ Min({a, b}) <= a /\ Min({a, b}) <= b
<1>1. \E m \in {a, b} : \A y \in {a, b} : m <= y
  OBVIOUS
<1>2. QED
  BY <1>1 DEF Min

\* The tokens of records are finitely many, and more records have no fewer.
LEMMA TotalsGrow ==
    ASSUME CostTypeOK, NEW S \in SUBSET DOMAIN used, NEW T \in SUBSET S
    PROVE  Total(S) \in Nat /\ Total(T) \in Nat /\ Total(T) <= Total(S)
<1> DEFINE Own(i) == {i} \X (1 .. used[i].tokens)
           f      == [i \in S |-> Own(i)]
           Groups == {Own(i) : i \in S}
<1>1. DOMAIN used = 1 .. Len(used) /\ Len(used) \in Nat
  BY DEF CostTypeOK
<1>2. IsFiniteSet(DOMAIN used)
  BY <1>1, FS_Interval
<1>3. IsFiniteSet(S)
  BY <1>2, FS_Subset
<1>4. f \in Surjection(S, Groups)
  BY DEF Surjection
<1>5. IsFiniteSet(Groups)
  BY <1>3, <1>4, FS_Surjection
<1>6. ASSUME NEW i \in S PROVE IsFiniteSet(Own(i))
  <2>1. used[i].tokens \in Int
    BY UsedRecords
  <2>2. IsFiniteSet(1 .. used[i].tokens)
    BY <2>1, FS_Interval, 1 \in Int
  <2>3. IsFiniteSet({i})
    BY FS_Singleton
  <2>4. QED
    BY <2>2, <2>3, FS_Product
<1>7. IsFiniteSet(TokensOf(S))
  BY <1>5, <1>6, FS_UNION DEF TokensOf
<1>8. TokensOf(T) \subseteq TokensOf(S)
  BY DEF TokensOf
<1>9. QED
  BY <1>7, <1>8, FS_Subset, FS_CardinalityType DEF Total

-----------------------------------------------------------------------------
\* What a bucket that is refilled has.
LEMMA RefilledBound ==
    ASSUME CostIInv, NEW p \in Priorities
    PROVE  /\ Refilled(buckets[p]) \in 0 .. Capacity
           /\ buckets[p] # NoBucket =>
                Refilled(buckets[p]) <= buckets[p].tokens + (clock - buckets[p].at) * Refill
<1>1. /\ Capacity \in Nat /\ Refill \in Nat /\ clock \in Nat
      /\ buckets[p].tokens \in 0 .. Capacity /\ buckets[p].at \in Nat \cup {-1}
      /\ buckets[p].at <= clock
  BY CostConstants DEF CostIInv, CostTypeOK, RateAccount
<1>2. (clock - buckets[p].at) * Refill \in Nat
  BY <1>1
<1>3. buckets[p].tokens + (clock - buckets[p].at) * Refill \in Nat
  BY <1>1, <1>2
<1>4. QED
  BY <1>1, <1>3, LessOfTwo DEF Refilled

\* Two spans of refilling add up.
LEMMA RefillsAdd ==
    ASSUME NEW a \in Int, NEW b \in Int, NEW c \in Int, a <= b, b <= c
    PROVE  /\ Refill * (b - a) \in Nat
           /\ Refill * (c - a) \in Nat
           /\ Refill * (c - a) = Refill * (b - a) + (c - b) * Refill
           /\ (c - b) * Refill \in Nat
<1>1. Refill \in Nat /\ b - a \in Nat /\ c - a \in Nat /\ c - b \in Nat
  BY CostConstants
<1>2. Refill * (b - a) \in Nat /\ Refill * (c - a) \in Nat /\ (c - b) * Refill \in Nat
  BY <1>1
<1>3. Refill * (c - a) = Refill * (b - a) + (c - b) * Refill
  BY <1>1
<1>4. QED
  BY <1>2, <1>3

LEMMA ConsumeStep ==
    ASSUME CostIInv, NEW p \in Priorities, TryConsume(p)
    PROVE  CostIInv'
<1> DEFINE tokens == Refilled(buckets[p])
<1>1. PICK need \in 0 .. Capacity + 1 :
        /\ buckets' = [buckets EXCEPT ![p] =
             IF need = 0 /\ buckets[p] # NoBucket THEN buckets[p]
             ELSE [tokens |-> IF need <= tokens THEN tokens - need ELSE tokens, at |-> clock]]
        /\ spent' = [spent EXCEPT ![p] = IF need <= tokens THEN spent[p] + need ELSE spent[p]]
  BY DEF TryConsume
<1>2. UNCHANGED <<clock, trackerVars, breakerVars, audit>>
  BY DEF TryConsume
<1>3. /\ Capacity \in Nat /\ Refill \in Nat /\ clock \in Nat /\ need \in Nat
      /\ buckets[p].tokens \in 0 .. Capacity /\ buckets[p].at \in Nat \cup {-1}
      /\ spent[p] \in Nat /\ audit[p].from \in Nat /\ audit[p].spent \in Nat
      /\ buckets[p].at <= clock /\ audit[p].from <= clock
  BY CostConstants DEF CostIInv, CostTypeOK, RateAccount
<1>4. tokens \in 0 .. Capacity
  BY RefilledBound
<1>5. CostTypeOK'
  <2>1. buckets' \in [Priorities -> [tokens : 0 .. Capacity, at : Nat \cup {-1}]]
    BY <1>1, <1>3, <1>4 DEF CostIInv, CostTypeOK
  <2>2. spent' \in [Priorities -> Nat]
    BY <1>1, <1>3 DEF CostIInv, CostTypeOK
  <2>3. QED
    BY <1>2, <2>1, <2>2 DEF CostIInv, CostTypeOK, trackerVars, breakerVars
<1>6. RecordsCover' /\ TripsHeld'
  BY <1>2 DEF CostIInv, RecordsCover, TripsHeld, trackerVars, breakerVars
<1>7. RateAccount'
  <2>1. \A q \in Priorities \ {p} : buckets'[q] = buckets[q] /\ spent'[q] = spent[q]
    BY <1>1 DEF CostIInv, CostTypeOK
  <2>2. /\ buckets'[p].at <= clock
        /\ IF buckets'[p].at < audit[p].from
           THEN spent'[p] = audit[p].spent
           ELSE buckets'[p].tokens + (spent'[p] - audit[p].spent)
                  <= Capacity + Refill * (buckets'[p].at - audit[p].from)
    <3>1. CASE need = 0 /\ buckets[p] # NoBucket
      <4>1. buckets'[p] = buckets[p] /\ spent'[p] = spent[p]
        BY <1>1, <1>3, <1>4, <3>1 DEF CostIInv, CostTypeOK
      <4>2. QED
        BY <1>3, <4>1 DEF CostIInv, RateAccount
    <3>2. CASE ~(need = 0 /\ buckets[p] # NoBucket)
      <4>1. /\ buckets'[p].at = clock
            /\ buckets'[p].tokens + spent'[p] = tokens + spent[p]
            /\ buckets'[p].tokens \in Nat /\ spent'[p] \in Nat
        BY <1>1, <1>3, <1>4, <3>2 DEF CostIInv, CostTypeOK
      <4>2. tokens + (spent[p] - audit[p].spent)
              <= Capacity + Refill * (clock - audit[p].from)
        <5>1. CASE buckets[p].at < audit[p].from
          <6>1. spent[p] = audit[p].spent
            BY <5>1 DEF CostIInv, RateAccount
          <6>2. Refill * (clock - audit[p].from) \in Nat
            BY <1>3, RefillsAdd
          <6>3. QED
            BY <1>3, <1>4, <6>1, <6>2
        <5>2. CASE ~(buckets[p].at < audit[p].from)
          <6>1. buckets[p].tokens + (spent[p] - audit[p].spent)
                  <= Capacity + Refill * (buckets[p].at - audit[p].from)
            BY <5>2 DEF CostIInv, RateAccount
          <6>2. buckets[p] # NoBucket
            BY <1>3, <5>2 DEF NoBucket
          <6>3. tokens <= buckets[p].tokens + (clock - buckets[p].at) * Refill
            BY <6>2, RefilledBound
          <6>4. audit[p].from <= buckets[p].at
            BY <1>3, <5>2
          <6>5. /\ Refill * (buckets[p].at - audit[p].from) \in Nat
                /\ (clock - buckets[p].at) * Refill \in Nat
                /\ Refill * (clock - audit[p].from)
                     = Refill * (buckets[p].at - audit[p].from)
                         + (clock - buckets[p].at) * Refill
            <7>1. /\ audit[p].from \in Int /\ buckets[p].at \in Int /\ clock \in Int
                  /\ audit[p].from <= buckets[p].at /\ buckets[p].at <= clock
              BY <1>3, <6>4
            <7>2. QED
              BY <7>1, RefillsAdd
          <6>6. QED
            BY <1>3, <1>4, <6>1, <6>3, <6>5
        <5>3. QED
          BY <5>1, <5>2
      <4>3. Refill * (clock - audit[p].from) \in Nat
        BY <1>3, RefillsAdd
      <4>4. QED
        BY <1>3, <1>4, <4>1, <4>2, <4>3
    <3>3. QED
      BY <3>1, <3>2
  <2>3. QED
    BY <1>2, <1>3, <2>1, <2>2 DEF CostIInv, RateAccount
<1>8. QED
  BY <1>5, <1>6, <1>7 DEF CostIInv

LEMMA AuditStep ==
    ASSUME CostIInv, NEW p \in Priorities, Audit(p)
    PROVE  CostIInv'
<1>1. /\ audit' = [audit EXCEPT ![p] = [from |-> clock, spent |-> spent[p]]]
      /\ UNCHANGED <<clock, trackerVars, breakerVars, buckets, spent>>
  BY DEF Audit
<1>2. CostTypeOK'
  BY <1>1 DEF CostIInv, CostTypeOK, trackerVars, breakerVars
<1>3. RecordsCover' /\ TripsHeld'
  BY <1>1 DEF CostIInv, RecordsCover, TripsHeld, trackerVars, breakerVars
<1>4. RateAccount'
  <2>1. /\ Capacity \in Nat /\ Refill \in Nat /\ clock \in Nat /\ spent[p] \in Nat
        /\ buckets[p].tokens \in 0 .. Capacity /\ buckets[p].at \in Nat \cup {-1}
        /\ buckets[p].at <= clock
    BY CostConstants DEF CostIInv, CostTypeOK, RateAccount
  <2>2. audit'[p] = [from |-> clock, spent |-> spent[p]]
        /\ \A q \in Priorities \ {p} : audit'[q] = audit[q]
    BY <1>1 DEF CostIInv, CostTypeOK
  <2>3. ASSUME ~(buckets[p].at < clock)
        PROVE  buckets[p].tokens + (spent[p] - spent[p])
                 <= Capacity + Refill * (buckets[p].at - clock)
    <3>1. buckets[p].at - clock = 0
      BY <2>1, <2>3
    <3>2. Refill * (buckets[p].at - clock) = 0
      BY <2>1, <3>1
    <3>3. QED
      BY <2>1, <3>2
  <2>4. QED
    BY <1>1, <2>1, <2>2, <2>3 DEF CostIInv, RateAccount
<1>5. QED
  BY <1>2, <1>3, <1>4 DEF CostIInv

LEMMA TimeStep ==
    ASSUME CostIInv, TimePasses
    PROVE  CostIInv'
<1>1. clock \in Nat /\ clock' = clock + 1
      /\ UNCHANGED <<trackerVars, breakerVars, bucketVars>>
  BY DEF TimePasses, CostIInv, CostTypeOK
<1>2. CostTypeOK'
  BY <1>1 DEF CostIInv, CostTypeOK, trackerVars, breakerVars, bucketVars
<1>3. RecordsCover'
  <2>1. \A i \in DOMAIN used : used[i].at \in Nat
    BY UsedRecords DEF CostIInv
  <2>2. QED
    BY <1>1, <2>1, CostConstants DEF CostIInv, RecordsCover, trackerVars
<1>4. TripsHeld'
  BY <1>1, CostConstants DEF CostIInv, CostTypeOK, TripsHeld, breakerVars
<1>5. RateAccount'
  <2>1. SUFFICES ASSUME NEW p \in Priorities
                 PROVE  buckets[p].at <= clock + 1 /\ audit[p].from <= clock + 1
    BY <1>1 DEF CostIInv, RateAccount, bucketVars
  <2>2. buckets[p].at \in Int /\ audit[p].from \in Int
    BY DEF CostIInv, CostTypeOK
  <2>3. buckets[p].at <= clock /\ audit[p].from <= clock
    BY DEF CostIInv, RateAccount
  <2>4. QED
    BY <1>1, <2>2, <2>3
<1>6. QED
  BY <1>2, <1>3, <1>4, <1>5 DEF CostIInv

LEMMA RecordStep ==
    ASSUME CostIInv, RecordUsage
    PROVE  CostIInv'
<1>1. PICK tokens \in 1 .. MaxUsage :
        /\ used' = Append(used, [at |-> clock, tokens |-> tokens])
        /\ records' = Recent(records, Window) \cup {Len(used) + 1}
        /\ UNCHANGED <<clock, breakerVars, bucketVars>>
  BY DEF RecordUsage
<1>2. /\ clock \in Nat /\ Window \in Nat
      /\ used \in Seq([at : Nat, tokens : Nat])
      /\ [at |-> clock, tokens |-> tokens] \in [at : Nat, tokens : Nat]
  BY CostConstants DEF CostIInv, CostTypeOK
<1>3. /\ used' \in Seq([at : Nat, tokens : Nat])
      /\ DOMAIN used' = DOMAIN used \cup {Len(used) + 1}
      /\ \A i \in DOMAIN used : used'[i] = used[i]
      /\ used'[Len(used) + 1] = [at |-> clock, tokens |-> tokens]
  BY <1>1, <1>2
<1>4. CostTypeOK'
  BY <1>1, <1>3 DEF CostIInv, CostTypeOK, Recent, breakerVars, bucketVars
<1>5. RecordsCover'
  BY <1>1, <1>2, <1>3 DEF CostIInv, CostTypeOK, RecordsCover, Recent
<1>6. TripsHeld' /\ RateAccount'
  BY <1>1 DEF CostIInv, TripsHeld, RateAccount, breakerVars, bucketVars
<1>7. QED
  BY <1>4, <1>5, <1>6 DEF CostIInv

LEMMA CheckStep ==
    ASSUME CostIInv, Check
    PROVE  CostIInv'
<1> DEFINE refusing == Refusing(Total(Recent(records, Window)))
           last     == IF refusing = {} THEN Len(Levels) ELSE Min(refusing)
           level    == Levels[last]
<1>1. /\ records' = Recent(records, Window)
      /\ tripped' = [l \in ToSet(Levels) |->
           IF \E i \in 1 .. last : Levels[i] = l THEN refusing # {} /\ l = level
           ELSE tripped[l]]
      /\ trippedAt' = IF refusing # {} /\ ~InCooldown(level)
                      THEN [trippedAt EXCEPT ![level] = clock] ELSE trippedAt
      /\ UNCHANGED <<clock, used, hourlyAlert, dailyAlert, bucketVars>>
  BY DEF Check
<1>2. /\ refusing \subseteq DOMAIN Levels
      /\ \A i \in DOMAIN Levels : InCooldown(Levels[i]) => i \in refusing
  BY DEF Refusing
<1>3. refusing # {} => last \in refusing /\ \A i \in refusing : last <= i
  BY <1>2, FirstLevel
<1>4. refusing # {} => level \in ToSet(Levels)
  BY <1>2, <1>3, CostConstants
<1> HIDE DEF refusing, last, level
<1>9. level = Levels[last]
  BY DEF level
<1>5. CostTypeOK'
  <2>1. tripped' \in [ToSet(Levels) -> BOOLEAN]
    <3>1. \A l \in ToSet(Levels) : tripped[l] \in BOOLEAN
      BY DEF CostIInv, CostTypeOK
    <3>2. \A l \in ToSet(Levels) :
            (IF \E i \in 1 .. last : Levels[i] = l THEN refusing # {} /\ l = level
             ELSE tripped[l]) \in BOOLEAN
      BY <3>1
    <3>3. QED
      BY <1>1, <3>2
  <2>2. trippedAt' \in [ToSet(Levels) -> Nat]
    BY <1>1, <1>4 DEF CostIInv, CostTypeOK
  <2>3. QED
    BY <1>1, <2>1, <2>2 DEF CostIInv, CostTypeOK, Recent, bucketVars
<1>6. RecordsCover'
  BY <1>1 DEF CostIInv, CostTypeOK, RecordsCover, Recent
<1>7. TripsHeld'
  <2>1. SUFFICES ASSUME NEW l \in ToSet(Levels), trippedAt'[l] > 0,
                        clock - trippedAt'[l] < Cooldown
                 PROVE  tripped'[l]
    BY <1>1 DEF TripsHeld
  <2>2. CASE refusing # {} /\ l = level
    <3>1. last \in DOMAIN Levels /\ last \in 1 .. last
      BY <1>2, <1>3, <2>2, CostConstants
    <3>2. \E i \in 1 .. last : Levels[i] = l
      BY <1>9, <2>2, <3>1
    <3>3. QED
      BY <1>1, <2>2, <3>2
  <2>3. CASE ~(refusing # {} /\ l = level)
    <3>1. trippedAt'[l] = trippedAt[l]
      BY <1>1, <1>4, <2>3 DEF CostIInv, CostTypeOK
    <3>2. tripped[l] /\ InCooldown(l)
      BY <2>1, <3>1 DEF CostIInv, TripsHeld, InCooldown
    <3>3. PICK i \in DOMAIN Levels : Levels[i] = l
      BY CostConstants
    <3>4. i \in refusing
      BY <1>2, <3>2, <3>3
    <3>5. \A k \in 1 .. last : Levels[k] # l
      <4>1. SUFFICES ASSUME NEW k \in 1 .. last, Levels[k] = l PROVE FALSE
        OBVIOUS
      <4>2. last \in DOMAIN Levels /\ DOMAIN Levels = 1 .. Len(Levels) /\ Len(Levels) \in Nat
        BY <1>2, <1>3, <3>4, CostConstants
      <4>3. k \in refusing
        BY <1>2, <3>2, <4>1, <4>2
      <4>4. k = last
        BY <1>3, <4>2, <4>3
      <4>5. QED
        BY <1>9, <2>3, <3>4, <4>1, <4>4
    <3>6. QED
      BY <1>1, <3>2, <3>5
  <2>4. QED
    BY <2>2, <2>3
<1>8. RateAccount'
  BY <1>1 DEF CostIInv, RateAccount, bucketVars
<1>10. QED
  BY <1>5, <1>6, <1>7, <1>8 DEF CostIInv

-----------------------------------------------------------------------------
\* A bucket that never gave more than it had gives no more than the rate allows.
LEMMA RateFollows ==
    ASSUME CostIInv
    PROVE  RateHolds
<1> SUFFICES ASSUME NEW p \in Priorities
             PROVE  spent[p] - audit[p].spent <= Capacity + Refill * (clock - audit[p].from)
  BY DEF RateHolds
<1>1. /\ Capacity \in Nat /\ Refill \in Nat /\ clock \in Nat
      /\ buckets[p].tokens \in 0 .. Capacity /\ buckets[p].at \in Nat \cup {-1}
      /\ spent[p] \in Nat /\ audit[p].from \in Nat /\ audit[p].spent \in Nat
      /\ buckets[p].at <= clock /\ audit[p].from <= clock
  BY CostConstants DEF CostIInv, CostTypeOK, RateAccount
<1>2. CASE buckets[p].at < audit[p].from
  <2>1. spent[p] = audit[p].spent
    BY <1>2 DEF CostIInv, RateAccount
  <2>2. Refill * (clock - audit[p].from) \in Nat
    BY <1>1, RefillsAdd
  <2>3. QED
    BY <1>1, <2>1, <2>2
<1>3. CASE ~(buckets[p].at < audit[p].from)
  <2>1. buckets[p].tokens + (spent[p] - audit[p].spent)
          <= Capacity + Refill * (buckets[p].at - audit[p].from)
    BY <1>3 DEF CostIInv, RateAccount
  <2>2. audit[p].from <= buckets[p].at
    BY <1>1, <1>3
  <2>3. /\ Refill * (buckets[p].at - audit[p].from) \in Nat
        /\ (clock - buckets[p].at) * Refill \in Nat
        /\ Refill * (clock - audit[p].from)
             = Refill * (buckets[p].at - audit[p].from) + (clock - buckets[p].at) * Refill
    BY <1>1, <2>2, RefillsAdd
  <2>4. QED
    BY <1>1, <2>1, <2>3
<1>4. QED
  BY <1>2, <1>3

LEMMA BreakerFollows ==
    ASSUME CostIInv
    PROVE  BreakerHolds
<1> DEFINE Hour == Recent(records, Window)
<1> SUFFICES ASSUME NEW l \in ToSet(Levels)
             PROVE  /\ Passes /\ WindowOf[l] <= Window =>
                         Total(Recent(DOMAIN used, WindowOf[l])) <= LimitOf[l]
                    /\ trippedAt[l] > 0 /\ clock - trippedAt[l] < Cooldown => ~Passes
  BY DEF BreakerHolds
<1>1. PICK i \in DOMAIN Levels : Levels[i] = l
  BY CostConstants
<1>2. ASSUME Passes, WindowOf[l] <= Window
      PROVE  Total(Recent(DOMAIN used, WindowOf[l])) <= LimitOf[l]
  <2>1. ~(Total(Hour) > LimitOf[l])
    BY <1>1, <1>2 DEF Passes, Refusing, Exceeded
  <2>2. Hour \in SUBSET DOMAIN used
    BY DEF CostIInv, CostTypeOK, Recent
  <2>3. /\ WindowOf[l] \in Nat /\ Window \in Nat /\ LimitOf[l] \in Nat /\ clock \in Nat
        /\ \A k \in DOMAIN used : used[k].at \in Nat
    BY CostConstants, UsedRecords DEF CostIInv, CostTypeOK
  <2>4. Recent(DOMAIN used, WindowOf[l]) \subseteq Hour
    BY <1>2, <2>3 DEF CostIInv, RecordsCover, Recent
  <2>5. /\ Total(Hour) \in Nat /\ Total(Recent(DOMAIN used, WindowOf[l])) \in Nat
        /\ Total(Recent(DOMAIN used, WindowOf[l])) <= Total(Hour)
    BY <2>2, <2>4, TotalsGrow DEF CostIInv
  <2>6. QED
    BY <2>1, <2>3, <2>5
<1>3. ASSUME trippedAt[l] > 0, clock - trippedAt[l] < Cooldown
      PROVE  ~Passes
  <2>1. InCooldown(l)
    BY <1>3 DEF CostIInv, TripsHeld, InCooldown
  <2>2. QED
    BY <1>1, <2>1 DEF Passes, Refusing
<1>4. QED
  BY <1>2, <1>3

\* A bucket gives no more than its capacity and what was refilled, a check that
\* passes means that every level the tracker covers is within its limit, and
\* none passes while a level cools down.
THEOREM LimitsStay == CostSpec => []LimitsHold
<1>1. CostInit => CostIInv
  <2> SUFFICES ASSUME CostInit PROVE CostIInv
    OBVIOUS
  <2>1. Capacity \in Nat
    BY CostConstants
  <2>2. CostTypeOK
    BY <2>1 DEF CostInit, CostTypeOK, NoBucket
  <2>3. RecordsCover /\ TripsHeld /\ RateAccount
    BY DEF CostInit, RecordsCover, TripsHeld, RateAccount, NoBucket
  <2>4. QED
    BY <2>2, <2>3 DEF CostIInv
<1>2. CostIInv /\ [CostNext]_costVars => CostIInv'
  <2>1. ASSUME CostIInv, UNCHANGED costVars PROVE CostIInv'
    BY <2>1 DEF CostIInv, CostTypeOK, RecordsCover, TripsHeld, RateAccount, costVars
  <2>2. ASSUME CostIInv, CostNext PROVE CostIInv'
    BY <2>2, RecordStep, CheckStep, TimeStep, ConsumeStep, AuditStep
       DEF CostNext, UsageNext, BucketNext
  <2>3. QED
    BY <2>1, <2>2
<1>3. CostIInv => LimitsHold
  BY RateFollows, BreakerFollows DEF LimitsHold
<1>4. QED
  BY <1>1, <1>2, <1>3, PTL DEF CostSpec
-----------------------------------------------------------------------------
(* Skills.  SkillBase holds of the store at every step, whoever takes it; the  *)
(* counts rest on what is told of each run: what it has left to rate is the     *)
(* end of what it tracked.                                                      *)

Statuses == {"none", "deleted", "active", "deprecated", "archived"}
SkillForms == [status : Statuses, conf : Nat, usage : Nat, revs : SUBSET SkillRuns]
WriteForms == [skill : Skills, version : SkillForms, persist : BOOLEAN]
RunForms == [stage : {"new", "running", "rating", "revising", "over"}, left : Seq(Skills),
             tracked : Seq(Skills), retrievals : Nat, success : BOOLEAN, rated : SUBSET Skills]
PassForms == [task : {"none", "cleanup", "merge"}, left : SUBSET Skills,
              status : [Skills -> Statuses], conf : [Skills -> Nat],
              skill : Skills \cup {"none"}, dups : SUBSET (Skills \X Nat),
              archived : SUBSET Skills]

StoreTypeOK ==
    /\ chroma \in BOOLEAN
    /\ store \in [Skills -> SkillForms]
    /\ copies \in [Skills -> SkillForms]
    /\ vectors \subseteq Skills
    /\ writing \in [Actors -> {NoWrite} \cup WriteForms]
    /\ rows \in [Skills -> SUBSET SkillForms]

SkillTypeOK ==
    /\ StoreTypeOK
    /\ skillRuns \in [SkillRuns -> RunForms]
    /\ governor \in PassForms
    /\ embedFailed \in BOOLEAN /\ restarted \in BOOLEAN

\* Without a vector store nothing is ever written later, and the copies are the
\* skills.
CopiesAgree ==
    ~chroma =>
      /\ \A a \in Actors : Idle(a)
      /\ \A s \in Skills : Exists(s) \/ InMemory(copies[s]) => copies[s] = store[s]

\* A cleanup only ever retires a skill, and a merge knows whose duplicates it has.
GovernorRetires ==
    /\ governor.task = "cleanup" =>
         \A s \in governor.left : governor.status[s] \in {"archived", "deprecated"}
    /\ governor.dups # {} => governor.skill \in Skills

Sound(skill) == skill.status = "active" => skill.conf >= DeprecateBelow

\* What is written is a skill, and not a low one that is active.
Kept(version) == InMemory(version) /\ Sound(version)

\* LowIsRetired, with the versions that still have to be written.
LowOnesRetired ==
    /\ \A s \in Skills : Sound(store[s]) /\ \A version \in rows[s] : Kept(version)
    /\ \A a \in Actors : ~Idle(a) => Kept(writing[a].version)

SkillBase == SkillTypeOK /\ CopiesAgree /\ GovernorRetires /\ LowOnesRetired

LEMMA SkillConstants ==
    /\ ArchiveBelow \in Nat /\ DeprecateBelow \in Nat /\ Proposable \in Nat /\ Top \in Nat
    /\ ArchiveBelow <= DeprecateBelow /\ DeprecateBelow <= Proposable
    /\ Seeded \subseteq Skills /\ IsFiniteSet(SkillRuns)
BY SkillAssumption

LEMMA NoSkillForm ==
    /\ NoSkill \in SkillForms /\ ~InMemory(NoSkill) /\ Sound(NoSkill)
    /\ Deleted \in SkillForms /\ ~InMemory(Deleted) /\ Sound(Deleted)
    /\ Deleted.status = "deleted"
BY DEF NoSkill, Deleted, SkillForms, Statuses, InMemory, Sound

\* The versions that are written: what each keeps of the skill, and that it is
\* neither low and active nor gone.
LEMMA UpdatedVersion ==
    ASSUME NEW skill \in SkillForms, InMemory(skill), NEW success \in BOOLEAN
    PROVE  LET version == UpdateConfidence(skill, success) IN
           /\ version \in SkillForms /\ InMemory(version) /\ Sound(version)
           /\ version.usage = skill.usage + 1 /\ version.revs = skill.revs
<1> DEFINE conf == IF success THEN RaiseConfidence(skill.conf) ELSE LowerConfidence(skill.conf)
           version == UpdateConfidence(skill, success)
<1>1. conf \in Nat
  BY SkillConstants DEF RaiseConfidence, LowerConfidence, SkillForms
<1>2. version = [skill EXCEPT !.conf = conf, !.usage = skill.usage + 1,
                              !.status = StatusOf(conf, skill.status)]
  BY DEF UpdateConfidence, SkillForms
<1> HIDE DEF conf
<1>3. /\ StatusOf(conf, skill.status) \in {"archived", "deprecated", skill.status}
      /\ conf < DeprecateBelow => StatusOf(conf, skill.status) # "active"
  BY <1>1, SkillConstants DEF StatusOf
<1>4. skill.usage + 1 \in Nat
  BY DEF SkillForms
<1>5. /\ version \in SkillForms
      /\ version.status = StatusOf(conf, skill.status) /\ version.conf = conf
      /\ version.usage = skill.usage + 1 /\ version.revs = skill.revs
  BY <1>1, <1>2, <1>3, <1>4 DEF SkillForms, Statuses
<1>6. QED
  BY <1>1, <1>3, <1>5, SkillConstants DEF InMemory, Sound

LEMMA RevisedVersion ==
    ASSUME NEW skill \in SkillForms, InMemory(skill), Sound(skill), NEW r \in SkillRuns
    PROVE  LET version == Revised(skill, r) IN
           /\ version \in SkillForms /\ InMemory(version) /\ Sound(version)
           /\ version.usage = skill.usage /\ skill.revs \subseteq version.revs
BY DEF Revised, SkillForms, InMemory, Sound

LEMMA ProposedVersion ==
    ASSUME NEW hit \in SkillForms, NEW skill \in SkillForms, InMemory(skill), NEW r \in SkillRuns,
           NEW conf \in Proposable .. Top
    PROVE  LET version == ProposedOver(hit, skill, conf, r) IN
           /\ version \in SkillForms /\ InMemory(version) /\ Sound(version)
           /\ version.usage = skill.usage /\ hit.revs \subseteq version.revs
<1>1. conf \in Nat /\ conf >= DeprecateBelow
  BY SkillConstants
<1>2. QED
  BY <1>1, SkillConstants DEF ProposedOver, SkillForms, InMemory, Sound

LEMMA CreatedVersion ==
    ASSUME NEW conf \in Nat, conf >= DeprecateBelow
    PROVE  /\ NewSkill(conf) \in SkillForms /\ InMemory(NewSkill(conf)) /\ Sound(NewSkill(conf))
           /\ NewSkill(conf).usage = 0
BY DEF NewSkill, NoSkill, SkillForms, Statuses, InMemory, Sound

LEMMA RetiredVersion ==
    ASSUME NEW skill \in SkillForms, NEW status \in {"archived", "deprecated"}
    PROVE  LET version == [skill EXCEPT !.status = status] IN
           /\ version \in SkillForms /\ InMemory(version) /\ Sound(version)
           /\ version.usage = skill.usage /\ version.revs = skill.revs
BY DEF SkillForms, Statuses, InMemory, Sound

LEMMA RowForm ==
    ASSUME NEW version \in SkillForms, Kept(version)
    PROVE  Row(version) \in SkillForms /\ Kept(Row(version))
BY SkillConstants DEF Row, SkillForms, Sound, Kept, InMemory

-----------------------------------------------------------------------------
\* A write keeps what holds of the store, whoever makes it.
LEMMA WriteKeeps ==
    ASSUME SkillBase, NEW a \in Actors, NEW s \in Skills, NEW version \in SkillForms,
           NEW persist \in BOOLEAN, InMemory(version), Sound(version),
           Write(a, s, version, persist)
    PROVE  /\ StoreTypeOK' /\ CopiesAgree' /\ LowOnesRetired'
           /\ store' = [store EXCEPT ![s] = version]
           /\ \A t \in Skills : InMemory(copies'[t]) => InMemory(copies[t]) \/ t = s
           /\ \A b \in Actors : ~(Idle(b)') => (~Idle(b) /\ writing'[b] = writing[b])
                                                \/ writing'[b].skill = s
<1> USE DEF SkillBase, SkillTypeOK, StoreTypeOK
<1>1. /\ store' = [store EXCEPT ![s] = version] /\ store' \in [Skills -> SkillForms]
      /\ vectors' = vectors /\ chroma' = chroma
  BY DEF Write
<1>2. CASE chroma
  <2>1. /\ writing' = [writing EXCEPT ![a] =
                         [skill |-> s, version |-> version, persist |-> persist]]
        /\ copies' = copies /\ rows' = rows
    BY <1>2 DEF Write
  <2>2. [skill |-> s, version |-> version, persist |-> persist] \in WriteForms
    BY DEF WriteForms
  <2>3. StoreTypeOK'
    BY <1>1, <2>1, <2>2
  <2>4. CopiesAgree'
    BY <1>1, <1>2 DEF CopiesAgree
  <2>5. LowOnesRetired'
    BY <1>1, <2>1 DEF LowOnesRetired, Idle, Kept
  <2>6. QED
    BY <1>1, <2>1, <2>3, <2>4, <2>5 DEF Idle
<1>3. CASE ~chroma
  <2>1. /\ copies' = [copies EXCEPT ![s] = version]
        /\ rows' = IF persist THEN [rows EXCEPT ![s] = @ \cup {Row(version)}] ELSE rows
        /\ writing' = writing
    BY <1>3 DEF Write
  <2>2. Row(version) \in SkillForms /\ Kept(Row(version))
    BY RowForm DEF Kept
  <2>3. StoreTypeOK'
    BY <1>1, <2>1, <2>2
  <2>4. CopiesAgree'
    BY <1>1, <2>1 DEF CopiesAgree, Idle, Exists
  <2>5. LowOnesRetired'
    BY <1>1, <2>1, <2>2 DEF LowOnesRetired, Idle, Kept
  <2>6. QED
    BY <1>1, <2>1, <2>3, <2>4, <2>5 DEF Idle
<1>4. QED
  BY <1>2, <1>3

\* So does a step that writes nothing.
LEMMA NoStoreChangeKeeps ==
    ASSUME SkillBase, NoStoreChange
    PROVE  /\ StoreTypeOK' /\ CopiesAgree' /\ LowOnesRetired'
           /\ store' = store /\ copies' = copies /\ writing' = writing
BY DEF SkillBase, SkillTypeOK, StoreTypeOK, NoStoreChange, CopiesAgree, LowOnesRetired, Idle,
       Exists

\* What a search returns are skills, and unless an embedding failed they are
\* the skills of the store.
LEMMA HitsAreSkills ==
    ASSUME SkillBase, NEW fallback \in BOOLEAN, FallsBack(fallback), NEW hit \in Visible(fallback)
    PROVE  /\ hit[1] \in Skills /\ hit[2] \in SkillForms
           /\ Exists(hit[1]) \/ InMemory(copies[hit[1]])
           /\ ~embedFailed' => hit[2] = store[hit[1]] /\ Exists(hit[1])
<1> USE DEF SkillBase, SkillTypeOK, StoreTypeOK
<1>1. CASE fallback
  <2>1. PICK s \in Skills : InMemory(copies[s]) /\ hit = <<s, copies[s]>>
    BY <1>1 DEF Visible
  <2>2. ~embedFailed' => copies[s] = store[s]
    BY <1>1, <2>1 DEF FallsBack, CopiesAgree
  <2>3. QED
    BY <2>1, <2>2 DEF Exists
<1>2. CASE ~fallback
  <2>1. PICK s \in vectors : Exists(s) /\ hit = <<s, store[s]>>
    BY <1>2 DEF Visible
  <2>2. QED
    BY <2>1
<1>3. QED
  BY <1>1, <1>2

-----------------------------------------------------------------------------
(* What a run's step does to it. *)

LEMMA RunChanges ==
    ASSUME SkillTypeOK, NEW r \in SkillRuns, NEW run \in RunForms,
           skillRuns' = [skillRuns EXCEPT ![r] = run]
    PROVE  /\ skillRuns' \in [SkillRuns -> RunForms]
           /\ skillRuns'[r] = run
           /\ \A q \in SkillRuns \ {r} : skillRuns'[q] = skillRuns[q]
BY DEF SkillTypeOK

LEMMA TrackedSkill ==
    ASSUME NEW tracked \in Seq(Skills), NEW s \in Skills
    PROVE  LET longer == TrackUsage(tracked, s) IN
           /\ longer \in Seq(Skills)
           /\ \/ longer = tracked
              \/ /\ \A i \in DOMAIN tracked : tracked[i] # s
                 /\ Len(longer) = Len(tracked) + 1
                 /\ longer[Len(longer)] = s
                 /\ \A i \in 1 .. Len(tracked) : longer[i] = tracked[i]
<1>1. CASE \E i \in DOMAIN tracked : tracked[i] = s
  BY <1>1 DEF TrackUsage
<1>2. CASE \A i \in DOMAIN tracked : tracked[i] # s
  <2>1. TrackUsage(tracked, s) = Append(tracked, s)
    BY <1>2 DEF TrackUsage
  <2>2. QED
    BY <1>2, <2>1, AppendProperties
<1>3. QED
  BY <1>1, <1>2

\* The step of a run that injects a skill: which skill, and what it is.
LEMMA InjectMeans ==
    ASSUME SkillBase, NEW r \in SkillRuns, Inject(r)
    PROVE  \E s \in Skills :
             LET run == [skillRuns[r] EXCEPT !.stage = "running",
                                             !.retrievals = skillRuns[r].retrievals + 1,
                                             !.tracked = TrackUsage(skillRuns[r].tracked, s)] IN
             /\ run \in RunForms
             /\ skillRuns' = [skillRuns EXCEPT ![r] = run]
             /\ skillRuns[r].stage \in {"new", "running"}
             /\ ~embedFailed' => Fit(store[s])
             /\ Exists(s) \/ InMemory(copies[s])
             /\ embedFailed' \in BOOLEAN
             /\ embedFailed => embedFailed'
<1>a. skillRuns[r] \in RunForms
  BY DEF SkillBase, SkillTypeOK
<1>b. PICK fallback \in BOOLEAN :
        /\ FallsBack(fallback)
        /\ \E s \in Injectable(fallback) :
             skillRuns' = [skillRuns EXCEPT ![r].stage = "running",
                             ![r].retrievals = @ + 1,
                             ![r].tracked = TrackUsage(@, s)]
  BY DEF Inject
<1>c. PICK s \in Injectable(fallback) :
             skillRuns' = [skillRuns EXCEPT ![r].stage = "running",
                             ![r].retrievals = @ + 1,
                             ![r].tracked = TrackUsage(@, s)]
  BY <1>b
<1>1. /\ FallsBack(fallback)
      /\ skillRuns' = [skillRuns EXCEPT ![r] =
             [skillRuns[r] EXCEPT !.stage = "running",
                                  !.retrievals = skillRuns[r].retrievals + 1,
                                  !.tracked = TrackUsage(skillRuns[r].tracked, s)]]
  BY <1>a, <1>b, <1>c DEF SkillBase, SkillTypeOK, RunForms
<1>2. /\ s \in Skills
      /\ ~embedFailed' => Fit(store[s])
      /\ Exists(s) \/ InMemory(copies[s])
  <2>1. CASE s \in Skills /\ Fit(store[s])
    BY <2>1 DEF Fit, Exists, InMemory
  <2>2. CASE \E hit \in Visible(fallback) : Fit(hit[2]) /\ s = hit[1]
    BY <1>1, <2>2, HitsAreSkills
  <2>3. QED
    BY <2>1, <2>2 DEF Injectable
<1>3. /\ skillRuns[r] \in RunForms /\ skillRuns[r].stage \in {"new", "running"}
      /\ embedFailed \in BOOLEAN
  BY DEF Inject, SkillBase, SkillTypeOK
<1>4. TrackUsage(skillRuns[r].tracked, s) \in Seq(Skills) /\ skillRuns[r].retrievals + 1 \in Nat
  BY <1>2, <1>3, TrackedSkill, SMTT(30) DEF RunForms
<1>5. [skillRuns[r] EXCEPT !.stage = "running", !.retrievals = skillRuns[r].retrievals + 1,
                           !.tracked = TrackUsage(skillRuns[r].tracked, s)] \in RunForms
  BY <1>3, <1>4 DEF RunForms
<1>6. embedFailed' \in BOOLEAN /\ (embedFailed => embedFailed')
  BY <1>1, <1>3 DEF FallsBack
<1>7. QED
  BY <1>1, <1>2, <1>3, <1>5, <1>6

\* The steps of a run that has ended, each with what becomes of the run.
LEMMA RunMeans ==
    ASSUME SkillBase, NEW r \in SkillRuns
    PROVE  LET old == skillRuns[r]
               new == skillRuns'[r] IN
           /\ old \in RunForms
           /\ Finish(r) => /\ old.stage \in {"new", "running"} /\ new.stage = "rating"
                           /\ new \in RunForms
                           /\ new.left = old.tracked /\ new.tracked = old.tracked
                           /\ new.rated = old.rated
           /\ Rate(r) => /\ old.stage = "rating" /\ old.left # <<>> /\ new.stage = "rating"
                         /\ new \in RunForms
                         /\ Head(old.left) \in Skills
                         /\ new.left = Tail(old.left) /\ new.tracked = old.tracked
                         /\ new.rated = IF Exists(Head(old.left)) THEN old.rated \cup {Head(old.left)}
                                        ELSE old.rated
           /\ Rated(r) => /\ old.stage = "rating" /\ old.left = <<>> /\ new.stage = "revising"
                          /\ new \in RunForms
                          /\ new.tracked = old.tracked /\ new.rated = old.rated
           /\ ApplyRevision(r) => /\ old.stage = "revising" /\ new.stage = "revising"
                                  /\ old.left # <<>> /\ Head(old.left) \in Skills
                                  /\ new \in RunForms
                                  /\ new.tracked = old.tracked /\ new.rated = old.rated
           /\ NothingProposed(r) \/ Propose(r)
                => /\ old.stage = "revising" /\ new.stage = "over"
                   /\ new \in RunForms
                   /\ new.tracked = old.tracked /\ new.rated = old.rated
           /\ Finish(r) \/ Rate(r) \/ Rated(r) \/ ApplyRevision(r) \/ NothingProposed(r) \/ Propose(r)
                => /\ skillRuns' \in [SkillRuns -> RunForms]
                   /\ \A q \in SkillRuns \ {r} : skillRuns'[q] = skillRuns[q]
<1> DEFINE old == skillRuns[r]
<1>1. skillRuns \in [SkillRuns -> RunForms] /\ old \in RunForms
  BY DEF SkillBase, SkillTypeOK
<1>2. old.left # <<>> => Head(old.left) \in Skills /\ Tail(old.left) \in Seq(Skills)
  BY <1>1, HeadTailProperties DEF RunForms
<1>3. <<>> \in Seq(Skills)
  BY EmptySeq
<1>4. ASSUME Finish(r)
      PROVE  \E run \in RunForms :
               /\ skillRuns' = [skillRuns EXCEPT ![r] = run]
               /\ old.stage \in {"new", "running"} /\ run.stage = "rating"
               /\ run.left = old.tracked /\ run.tracked = old.tracked /\ run.rated = old.rated
  <2>1. PICK success \in BOOLEAN :
          skillRuns' = [skillRuns EXCEPT ![r] =
             [old EXCEPT !.stage = "rating", !.left = old.tracked, !.success = success]]
    BY <1>4 DEF Finish
  <2>2. old.stage \in {"new", "running"}
    BY <1>4 DEF Finish
  <2>3. LET run == [old EXCEPT !.stage = "rating", !.left = old.tracked, !.success = success] IN
        /\ run \in RunForms /\ run.stage = "rating"
        /\ run.left = old.tracked /\ run.tracked = old.tracked /\ run.rated = old.rated
    BY <1>1 DEF RunForms
  <2>4. QED
    BY <2>1, <2>2, <2>3
<1>5. ASSUME Rate(r)
      PROVE  \E run \in RunForms :
               /\ skillRuns' = [skillRuns EXCEPT ![r] = run]
               /\ old.stage = "rating" /\ old.left # <<>> /\ run.stage = "rating"
               /\ run.left = Tail(old.left) /\ run.tracked = old.tracked
               /\ run.rated = IF Exists(Head(old.left)) THEN old.rated \cup {Head(old.left)}
                              ELSE old.rated
  <2> DEFINE rated == IF Exists(Head(old.left)) THEN old.rated \cup {Head(old.left)}
                      ELSE old.rated
             run == [old EXCEPT !.left = Tail(old.left), !.rated = rated]
  <2>1. old.stage = "rating" /\ old.left # <<>>
    BY <1>5 DEF Rate
  <2>2. skillRuns' = [skillRuns EXCEPT ![r].left = Tail(@),
                        ![r].rated = IF Exists(Head(old.left)) THEN @ \cup {Head(old.left)} ELSE @]
    BY <1>5 DEF Rate
  <2>3. skillRuns' = [skillRuns EXCEPT ![r] = run]
    BY <1>1, <2>2
  <2>4. rated \in SUBSET Skills
    BY <1>1, <1>2, <2>1 DEF RunForms
  <2> HIDE DEF rated
  <2>5. /\ run \in RunForms /\ run.stage = "rating"
        /\ run.left = Tail(old.left) /\ run.tracked = old.tracked /\ run.rated = rated
    BY <1>1, <1>2, <2>1, <2>4 DEF RunForms
  <2>6. QED
    BY <2>1, <2>3, <2>5 DEF rated
<1>6. ASSUME Rated(r)
      PROVE  \E run \in RunForms :
               /\ skillRuns' = [skillRuns EXCEPT ![r] = run]
               /\ old.stage = "rating" /\ old.left = <<>> /\ run.stage = "revising"
               /\ run.tracked = old.tracked /\ run.rated = old.rated
  <2>1. PICK complaint \in BOOLEAN :
          skillRuns' = [skillRuns EXCEPT ![r].stage = "revising",
                          ![r].left = IF complaint THEN skillRuns[r].tracked ELSE <<>>]
    BY <1>6 DEF Rated
  <2> DEFINE toRevise == IF complaint THEN old.tracked ELSE <<>>
             run == [old EXCEPT !.stage = "revising", !.left = toRevise]
  <2>2. skillRuns' = [skillRuns EXCEPT ![r] = run]
    BY <1>1, <2>1
  <2>3. toRevise \in Seq(Skills)
    BY <1>1, <1>3 DEF RunForms
  <2> HIDE DEF toRevise
  <2>4. /\ run \in RunForms /\ run.stage = "revising"
        /\ run.tracked = old.tracked /\ run.rated = old.rated
    BY <1>1, <2>3 DEF RunForms
  <2>5. old.stage = "rating" /\ old.left = <<>>
    BY <1>6 DEF Rated
  <2>6. QED
    BY <2>2, <2>4, <2>5
<1>7. ASSUME ApplyRevision(r)
      PROVE  \E run \in RunForms :
               /\ skillRuns' = [skillRuns EXCEPT ![r] = run]
               /\ old.stage = "revising" /\ run.stage = "revising" /\ old.left # <<>>
               /\ run.tracked = old.tracked /\ run.rated = old.rated
  <2> DEFINE run == [old EXCEPT !.left = Tail(old.left)]
  <2>1. old.stage = "revising" /\ old.left # <<>>
        /\ skillRuns' = [skillRuns EXCEPT ![r].left = Tail(@)]
    BY <1>7 DEF ApplyRevision
  <2>2. skillRuns' = [skillRuns EXCEPT ![r] = run]
    BY <1>1, <2>1
  <2>3. /\ run \in RunForms /\ run.stage = "revising"
        /\ run.tracked = old.tracked /\ run.rated = old.rated
    BY <1>1, <1>2, <2>1 DEF RunForms
  <2>4. QED
    BY <2>1, <2>2, <2>3
<1>8. ASSUME NothingProposed(r) \/ Propose(r)
      PROVE  \E run \in RunForms :
               /\ skillRuns' = [skillRuns EXCEPT ![r] = run]
               /\ old.stage = "revising" /\ run.stage = "over"
               /\ run.tracked = old.tracked /\ run.rated = old.rated
  <2> DEFINE run == [old EXCEPT !.stage = "over"]
  <2>1. old.stage = "revising" /\ skillRuns' = [skillRuns EXCEPT ![r].stage = "over"]
    BY <1>8 DEF NothingProposed, Propose
  <2>2. skillRuns' = [skillRuns EXCEPT ![r] = run]
    BY <1>1, <2>1
  <2>3. /\ run \in RunForms /\ run.stage = "over"
        /\ run.tracked = old.tracked /\ run.rated = old.rated
    BY <1>1 DEF RunForms
  <2>4. QED
    BY <2>1, <2>2, <2>3
<1> HIDE DEF old
<1>9. ASSUME NEW run \in RunForms, skillRuns' = [skillRuns EXCEPT ![r] = run]
      PROVE  /\ skillRuns' \in [SkillRuns -> RunForms]
             /\ skillRuns'[r] = run
             /\ \A q \in SkillRuns \ {r} : skillRuns'[q] = skillRuns[q]
  BY <1>9, RunChanges DEF SkillBase
<1>10. QED
  BY <1>1, <1>2, <1>4, <1>5, <1>6, <1>7, <1>8, <1>9 DEF old

-----------------------------------------------------------------------------
(* What a step does to the store, and that it keeps SkillBase. *)

Created(s) == store[s].status # "none"

\* What the indexes and the unfinished writes are about has been created.
KnownOnes ==
    /\ \A s \in Skills : InMemory(copies[s]) => Created(s)
    /\ \A a \in Actors : ~Idle(a) => Created(writing[a].skill)

\* Without a restart no skill comes back, and a use is counted only where a run
\* rates the skill.
StoreStep(counted) ==
    /\ ~restarted' =>
         /\ ~restarted
         /\ \A t \in Skills : Created(t) => store'[t].status # "none"
         /\ \A t \in Skills : InMemory(store'[t]) =>
              \/ Exists(t) /\ store'[t].usage = store[t].usage + (IF t \in counted THEN 1 ELSE 0)
              \/ ~Created(t) /\ store'[t].usage = 0
         /\ KnownOnes => KnownOnes'
    /\ RevisionsKept

LEMMA WriteStep ==
    ASSUME SkillBase, NEW a \in Actors, NEW s \in Skills, NEW version \in SkillForms,
           NEW persist \in BOOLEAN, InMemory(version), Sound(version),
           Write(a, s, version, persist),
           NEW counted \in SUBSET {s},
           ~restarted' => ~restarted,
           \/ restarted'
           \/ /\ Exists(s)
              /\ ~embedFailed' => store[s].revs \subseteq version.revs
              /\ version.usage = store[s].usage + (IF s \in counted THEN 1 ELSE 0)
           \/ ~Created(s) /\ version.usage = 0
    PROVE  StoreStep(counted)
<1> USE DEF SkillBase, SkillTypeOK, StoreTypeOK
<1>1. /\ store' = [store EXCEPT ![s] = version]
      /\ \A t \in Skills : InMemory(copies'[t]) => InMemory(copies[t]) \/ t = s
      /\ \A b \in Actors : ~(Idle(b)') => (~Idle(b) /\ writing'[b] = writing[b])
                                           \/ writing'[b].skill = s
  BY WriteKeeps
<1>2. store'[s] = version /\ \A t \in Skills \ {s} : store'[t] = store[t]
  BY <1>1
<1>3. version.status # "none"
  BY DEF InMemory
<1>4. \A t \in Skills : Created(t) => store'[t].status # "none"
  BY <1>2, <1>3 DEF Created
<1>5. ASSUME ~restarted', NEW t \in Skills, InMemory(store'[t])
      PROVE  \/ Exists(t) /\ store'[t].usage = store[t].usage + (IF t \in counted THEN 1 ELSE 0)
             \/ ~Created(t) /\ store'[t].usage = 0
  <2>1. CASE t = s
    BY <1>2, <1>5, <2>1
  <2>2. CASE t # s
    <3>1. store'[t] = store[t] /\ t \notin counted
      BY <1>2, <2>2
    <3>2. store[t].usage \in Nat
      BY DEF SkillForms
    <3>3. QED
      BY <1>5, <3>1, <3>2 DEF Exists
  <2>3. QED
    BY <2>1, <2>2
<1>6. KnownOnes => KnownOnes'
  <2> SUFFICES ASSUME KnownOnes
               PROVE  KnownOnes'
    OBVIOUS
  <2>1. \A b \in Actors : ~Idle(b) => writing[b].skill \in Skills
    BY DEF Idle, WriteForms
  <2>2. \A t \in Skills : InMemory(copies'[t]) => store'[t].status # "none"
    BY <1>1, <1>2, <1>3, <1>4 DEF KnownOnes
  <2>3. \A b \in Actors : ~(Idle(b)') => store'[writing'[b].skill].status # "none"
    BY <1>1, <1>2, <1>3, <1>4, <2>1 DEF KnownOnes
  <2>4. QED
    BY <2>2, <2>3 DEF KnownOnes, Created
<1>7. RevisionsKept
  BY <1>2 DEF RevisionsKept, Exists, InMemory, Created
<1>8. QED
  BY <1>4, <1>5, <1>6, <1>7 DEF StoreStep

LEMMA NoStoreChangeStep ==
    ASSUME SkillBase, NoStoreChange, ~restarted' => ~restarted
    PROVE  StoreStep({})
<1>1. store' = store /\ copies' = copies /\ writing' = writing
  BY NoStoreChangeKeeps
<1>2. \A t \in Skills : store[t].usage \in Nat
  BY DEF SkillBase, SkillTypeOK, StoreTypeOK, SkillForms
<1>3. KnownOnes => KnownOnes'
  BY <1>1 DEF KnownOnes, Created, Idle
<1>4. RevisionsKept
  BY <1>1 DEF RevisionsKept
<1>5. QED
  BY <1>1, <1>2, <1>3, <1>4 DEF StoreStep, Created, Exists

\* The steps of a run.
LEMMA RunStepKeeps ==
    ASSUME SkillBase, NEW r \in SkillRuns, RunStep(r)
    PROVE  /\ SkillBase'
           /\ ~Rate(r) => StoreStep({})
           /\ Rate(r) => StoreStep(IF Exists(Head(skillRuns[r].left)) THEN {Head(skillRuns[r].left)}
                                   ELSE {})
           /\ restarted' = restarted
<1> USE DEF SkillBase
<1>1. r \in Actors
  BY DEF Actors
<1>2. /\ StoreTypeOK /\ skillRuns \in [SkillRuns -> RunForms] /\ governor \in PassForms
      /\ embedFailed \in BOOLEAN /\ restarted \in BOOLEAN
      /\ store \in [Skills -> SkillForms]
  BY DEF SkillTypeOK, StoreTypeOK
<1>3. \A s \in Skills : Sound(store[s]) /\ store[s] \in SkillForms
  BY <1>2 DEF LowOnesRetired
<1>4. ASSUME NEW embed, embed \in BOOLEAN, embedFailed' = embed, governor' = governor,
             restarted' = restarted, skillRuns' \in [SkillRuns -> RunForms],
             StoreTypeOK', CopiesAgree', LowOnesRetired'
      PROVE  SkillBase'
  BY <1>2, <1>4 DEF SkillTypeOK, GovernorRetires
<1>5. CASE Inject(r)
  <2>1. /\ NoStoreChange /\ governor' = governor /\ restarted' = restarted
    BY <1>5 DEF Inject
  <2>2. embedFailed' \in BOOLEAN /\ skillRuns' \in [SkillRuns -> RunForms]
    BY <1>5, InjectMeans, RunChanges
  <2>3. SkillBase'
    BY <1>4, <2>1, <2>2, NoStoreChangeKeeps
  <2>4. StoreStep({})
    BY <2>1, NoStoreChangeStep
  <2>5. QED
    BY <1>5, <2>1, <2>3, <2>4 DEF Inject, Rate
<1>6. CASE Finish(r) \/ Rated(r) \/ NothingProposed(r)
  <2>1. /\ NoStoreChange /\ governor' = governor /\ restarted' = restarted
        /\ embedFailed' = embedFailed
    BY <1>6 DEF Finish, Rated, NothingProposed
  <2>2. skillRuns' \in [SkillRuns -> RunForms]
    BY <1>6, RunMeans
  <2>3. SkillBase'
    BY <1>2, <1>4, <2>1, <2>2, NoStoreChangeKeeps
  <2>4. StoreStep({})
    BY <2>1, NoStoreChangeStep
  <2>5. QED
    BY <1>6, <2>1, <2>3, <2>4 DEF Finish, Rated, NothingProposed, Rate
<1>7. CASE Rate(r)
  <2> DEFINE s == Head(skillRuns[r].left)
  <2>1. /\ governor' = governor /\ restarted' = restarted /\ embedFailed' = embedFailed
        /\ s \in Skills /\ skillRuns' \in [SkillRuns -> RunForms]
    BY <1>7, RunMeans DEF Rate
  <2>2. CASE Exists(s)
    <3>1. Write(r, s, UpdateConfidence(store[s], skillRuns[r].success), FALSE)
      BY <1>7, <2>2 DEF Rate
    <3>2. InMemory(store[s]) /\ skillRuns[r].success \in BOOLEAN
      BY <1>2, <2>2 DEF Exists, RunForms
    <3> DEFINE version == UpdateConfidence(store[s], skillRuns[r].success)
    <3>3. /\ version \in SkillForms /\ InMemory(version) /\ Sound(version)
          /\ version.usage = store[s].usage + 1 /\ version.revs = store[s].revs
      BY <1>3, <2>1, <3>2, UpdatedVersion
    <3> HIDE DEF version
    <3>4. Write(r, s, version, FALSE)
      BY <3>1 DEF version
    <3> HIDE DEF s
    <3>5. StoreTypeOK' /\ CopiesAgree' /\ LowOnesRetired'
      BY <1>1, <2>1, <3>3, <3>4, WriteKeeps
    <3>6. StoreStep({s})
      BY <1>1, <2>1, <2>2, <3>3, <3>4, WriteStep
    <3>7. SkillBase'
      BY <1>2, <1>4, <2>1, <3>5
    <3>8. QED
      BY <1>7, <2>1, <2>2, <3>6, <3>7 DEF s
  <2>3. CASE ~Exists(s)
    <3>1. NoStoreChange
      BY <1>7, <2>3 DEF Rate
    <3>2. SkillBase'
      BY <1>2, <1>4, <2>1, <3>1, NoStoreChangeKeeps
    <3>3. StoreStep({})
      BY <2>1, <3>1, NoStoreChangeStep
    <3>4. QED
      BY <1>7, <2>1, <2>3, <3>2, <3>3
  <2>4. QED
    BY <2>2, <2>3
<1>8. CASE ApplyRevision(r)
  <2> DEFINE s == Head(skillRuns[r].left)
  <2>1. /\ governor' = governor /\ restarted' = restarted /\ embedFailed' = embedFailed
        /\ s \in Skills /\ skillRuns' \in [SkillRuns -> RunForms] /\ ~Rate(r)
    BY <1>8, RunMeans DEF ApplyRevision, Rate
  <2>2. CASE Exists(s)
    <3> DEFINE version == Revised(store[s], r)
    <3>1. Write(r, s, version, TRUE)
      BY <1>8, <2>2 DEF ApplyRevision
    <3>2. InMemory(store[s])
      BY <2>2 DEF Exists
    <3>3. /\ version \in SkillForms /\ InMemory(version) /\ Sound(version)
          /\ version.usage = store[s].usage /\ store[s].revs \subseteq version.revs
      BY <1>3, <2>1, <3>2, RevisedVersion
    <3> HIDE DEF version, s
    <3>4. StoreTypeOK' /\ CopiesAgree' /\ LowOnesRetired'
      BY <1>1, <2>1, <3>1, <3>3, WriteKeeps
    <3>5. store[s].usage \in Nat
      BY <1>3, <2>1 DEF SkillForms
    <3>a. version.usage = store[s].usage + (IF s \in {} THEN 1 ELSE 0) /\ {} \in SUBSET {s}
      BY <3>3, <3>5
    <3>6. StoreStep({})
      BY <1>1, <2>1, <2>2, <3>1, <3>3, <3>a, WriteStep
    <3>7. QED
      BY <1>2, <1>4, <2>1, <3>4, <3>6
  <2>3. CASE ~Exists(s)
    <3>1. NoStoreChange
      BY <1>8, <2>3 DEF ApplyRevision
    <3>2. QED
      BY <1>2, <1>4, <2>1, <3>1, NoStoreChangeKeeps, NoStoreChangeStep
  <2>4. QED
    BY <2>2, <2>3
<1>9. CASE Propose(r)
  <2>1. /\ governor' = governor /\ restarted' = restarted
        /\ skillRuns' \in [SkillRuns -> RunForms] /\ ~Rate(r)
    BY <1>9, RunMeans DEF Propose, Rate
  <2>2. PICK fallback \in BOOLEAN, conf \in Proposable .. Top :
         /\ FallsBack(fallback)
         /\ \/ \E hit \in Visible(fallback) :
                 /\ Exists(hit[1])
                 /\ Write(r, hit[1], ProposedOver(hit[2], store[hit[1]], conf, r), TRUE)
            \/ \E s \in Skills : store[s] = NoSkill /\ Write(r, s, NewSkill(conf), TRUE)
    BY <1>9 DEF Propose
  <2>3. embedFailed' \in BOOLEAN
    BY <1>2, <2>2 DEF FallsBack
  <2>4. CASE \E hit \in Visible(fallback) :
               /\ Exists(hit[1])
               /\ Write(r, hit[1], ProposedOver(hit[2], store[hit[1]], conf, r), TRUE)
    <3>1. PICK hit \in Visible(fallback) :
               /\ Exists(hit[1])
               /\ Write(r, hit[1], ProposedOver(hit[2], store[hit[1]], conf, r), TRUE)
      BY <2>4
    <3> DEFINE s == hit[1]
               version == ProposedOver(hit[2], store[s], conf, r)
    <3>2. /\ s \in Skills /\ hit[2] \in SkillForms
          /\ ~embedFailed' => hit[2] = store[s]
      BY <2>2, HitsAreSkills
    <3>3. InMemory(store[s]) /\ store[s] \in SkillForms
      BY <1>3, <3>1, <3>2 DEF Exists
    <3>4. /\ version \in SkillForms /\ InMemory(version) /\ Sound(version)
          /\ version.usage = store[s].usage /\ hit[2].revs \subseteq version.revs
      BY <3>2, <3>3, ProposedVersion
    <3>5. Write(r, s, version, TRUE) /\ Exists(s)
      BY <3>1
    <3>6. store[s].usage \in Nat
      BY <3>3 DEF SkillForms
    <3>7. ~embedFailed' => store[s].revs \subseteq version.revs
      BY <3>2, <3>4
    <3> HIDE DEF s, version
    <3>8. StoreTypeOK' /\ CopiesAgree' /\ LowOnesRetired'
      BY <1>1, <3>2, <3>4, <3>5, WriteKeeps
    <3>a. version.usage = store[s].usage + (IF s \in {} THEN 1 ELSE 0) /\ {} \in SUBSET {s}
      BY <3>4, <3>6
    <3>9. StoreStep({})
      BY <1>1, <2>1, <3>2, <3>4, <3>5, <3>a, <3>7, WriteStep
    <3>10. QED
      BY <1>4, <2>1, <2>3, <3>8, <3>9
  <2>5. CASE \E s \in Skills : store[s] = NoSkill /\ Write(r, s, NewSkill(conf), TRUE)
    <3>1. PICK s \in Skills : store[s] = NoSkill /\ Write(r, s, NewSkill(conf), TRUE)
      BY <2>5
    <3> DEFINE version == NewSkill(conf)
    <3>2. conf \in Nat /\ conf >= DeprecateBelow
      BY SkillConstants
    <3>3. version \in SkillForms /\ InMemory(version) /\ Sound(version) /\ version.usage = 0
      BY <3>2, CreatedVersion
    <3>4. ~Created(s)
      BY <3>1 DEF Created, NoSkill
    <3>5. Write(r, s, version, TRUE)
      BY <3>1
    <3> HIDE DEF version
    <3>6. StoreTypeOK' /\ CopiesAgree' /\ LowOnesRetired'
      BY <1>1, <3>3, <3>5, WriteKeeps
    <3>7. StoreStep({})
      BY <1>1, <2>1, <3>3, <3>4, <3>5, WriteStep
    <3>8. QED
      BY <1>4, <2>1, <2>3, <3>6, <3>7
  <2>6. QED
    BY <2>2, <2>4, <2>5
<1>10. QED
  BY <1>5, <1>6, <1>7, <1>8, <1>9 DEF RunStep

\* The governor's steps and the others, in which no run takes part.
LEMMA GovernorWrites ==
    ASSUME SkillBase, NEW s \in Skills, Exists(s), NEW status \in {"archived", "deprecated"},
           Write("governor", s, [store[s] EXCEPT !.status = status], TRUE),
           restarted' = restarted
    PROVE  StoreTypeOK' /\ CopiesAgree' /\ LowOnesRetired' /\ StoreStep({})
<1> DEFINE version == [store[s] EXCEPT !.status = status]
<1>1. store[s] \in SkillForms /\ "governor" \in Actors
  BY DEF SkillBase, SkillTypeOK, StoreTypeOK, Actors
<1>2. /\ version \in SkillForms /\ InMemory(version) /\ Sound(version)
      /\ version.usage = store[s].usage /\ version.revs = store[s].revs
  BY <1>1, RetiredVersion
<1>3. Write("governor", s, version, TRUE)
  OBVIOUS
<1> HIDE DEF version
<1>4. StoreTypeOK' /\ CopiesAgree' /\ LowOnesRetired'
  BY <1>1, <1>2, <1>3, WriteKeeps
<1>5. version.usage = store[s].usage + (IF s \in {} THEN 1 ELSE 0) /\ {} \in SUBSET {s}
  BY <1>1, <1>2 DEF SkillForms
<1>6. StoreStep({})
  BY <1>1, <1>2, <1>3, <1>5, WriteStep
<1>7. QED
  BY <1>4, <1>6

LEMMA CleanKeeps ==
    ASSUME SkillBase, NEW s \in Skills, Clean(s)
    PROVE  SkillBase' /\ StoreStep({}) /\ skillRuns' = skillRuns
<1> USE DEF SkillBase
<1>1. /\ governor.task = "cleanup" /\ s \in governor.left
      /\ governor' = [governor EXCEPT !.left = @ \ {s}, !.status[s] = "none"]
      /\ UNCHANGED <<skillRuns, disturbances, embedFailed, restarted>>
  BY DEF Clean
<1>2. governor \in PassForms
  BY DEF SkillTypeOK
<1>3. governor' = [governor EXCEPT !.left = governor.left \ {s},
                                   !.status = [governor.status EXCEPT ![s] = "none"]]
  BY <1>1, <1>2 DEF PassForms
<1>4. [governor.status EXCEPT ![s] = "none"] \in [Skills -> Statuses]
  BY <1>2 DEF PassForms, Statuses
<1>5. governor' \in PassForms
  BY <1>2, <1>3, <1>4 DEF PassForms
<1>6. GovernorRetires'
  BY <1>1, <1>2, <1>3 DEF GovernorRetires, PassForms
<1>7. StoreTypeOK' /\ CopiesAgree' /\ LowOnesRetired' /\ StoreStep({})
  <2>1. CASE Exists(s)
    <3>1. Write("governor", s, [store[s] EXCEPT !.status = governor.status[s]], TRUE)
      BY <2>1 DEF Clean
    <3>2. governor.status[s] \in {"archived", "deprecated"}
      BY <1>1 DEF GovernorRetires
    <3>3. QED
      BY <1>1, <2>1, <3>1, <3>2, GovernorWrites
  <2>2. CASE ~Exists(s)
    <3>1. NoStoreChange
      BY <2>2 DEF Clean
    <3>2. QED
      BY <1>1, <3>1, NoStoreChangeKeeps, NoStoreChangeStep
  <2>3. QED
    BY <2>1, <2>2
<1>8. QED
  BY <1>1, <1>5, <1>6, <1>7 DEF SkillTypeOK

LEMMA MergeKeeps ==
    ASSUME SkillBase, Merge
    PROVE  SkillBase' /\ StoreStep({}) /\ skillRuns' = skillRuns
<1> USE DEF SkillBase
<1>1. governor \in PassForms
  BY DEF SkillTypeOK
<1>2. PICK dup \in governor.dups :
        LET lost == Loser(governor.skill, governor.conf[governor.skill], dup)
            archives == dup[1] \notin governor.archived /\ Exists(lost) IN
        /\ governor.task = "merge" /\ Idle("governor")
        /\ governor' = [governor EXCEPT !.dups = @ \ {dup},
                          !.archived = IF archives THEN @ \cup {lost} ELSE @]
        /\ IF archives
           THEN Write("governor", lost, [store[lost] EXCEPT !.status = "archived"], TRUE)
           ELSE NoStoreChange
        /\ UNCHANGED <<skillRuns, disturbances, embedFailed, restarted>>
  BY DEF Merge
<1> DEFINE lost == Loser(governor.skill, governor.conf[governor.skill], dup)
           archives == dup[1] \notin governor.archived /\ Exists(lost)
<1>3. dup \in Skills \X Nat /\ governor.skill \in Skills
  BY <1>1 DEF GovernorRetires, PassForms
<1>4. lost \in Skills
  BY <1>3 DEF Loser
<1>5. /\ governor.task = "merge"
      /\ governor' = [governor EXCEPT !.dups = governor.dups \ {dup},
                         !.archived = IF archives THEN governor.archived \cup {lost}
                                      ELSE governor.archived]
      /\ UNCHANGED <<skillRuns, embedFailed, restarted>>
      /\ archives => Exists(lost) /\ Write("governor", lost, [store[lost] EXCEPT !.status = "archived"], TRUE)
      /\ ~archives => NoStoreChange
  BY <1>1, <1>2 DEF PassForms
<1> HIDE DEF lost, archives
<1>6. governor' \in PassForms /\ GovernorRetires'
  BY <1>1, <1>3, <1>4, <1>5 DEF PassForms, GovernorRetires
<1>7. StoreTypeOK' /\ CopiesAgree' /\ LowOnesRetired' /\ StoreStep({})
  <2>1. CASE archives
    BY <1>4, <1>5, <2>1, GovernorWrites
  <2>2. CASE ~archives
    BY <1>5, <2>2, NoStoreChangeKeeps, NoStoreChangeStep
  <2>3. QED
    BY <2>1, <2>2
<1>8. QED
  BY <1>5, <1>6, <1>7 DEF SkillTypeOK

\* The steps of the governor that write nothing.
LEMMA PassKeeps ==
    ASSUME SkillBase,
           (\E s \in Skills : FindDuplicates(s)) \/ StartCleanup \/ StartMerge \/ NextSkill
    PROVE  SkillBase' /\ StoreStep({}) /\ skillRuns' = skillRuns
<1> USE DEF SkillBase
<1>1. governor \in PassForms /\ store \in [Skills -> SkillForms] /\ embedFailed \in BOOLEAN
  BY DEF SkillTypeOK, StoreTypeOK
<1>2. NoStoreChange /\ skillRuns' = skillRuns /\ restarted' = restarted
  BY DEF FindDuplicates, StartCleanup, StartMerge, NextSkill
<1>3. StoreTypeOK' /\ CopiesAgree' /\ LowOnesRetired' /\ StoreStep({})
  BY <1>2, NoStoreChangeKeeps, NoStoreChangeStep
<1>4. /\ NoPass \in PassForms /\ NoPass.dups = {} /\ NoPass.task = "none"
      /\ NoPass.skill = "none"
  BY DEF NoPass, PassForms, Statuses
<1>5. governor' \in PassForms /\ GovernorRetires' /\ embedFailed' \in BOOLEAN
  <2>1. ASSUME NEW s \in Skills, FindDuplicates(s)
        PROVE  governor' \in PassForms /\ GovernorRetires' /\ embedFailed' \in BOOLEAN
    <3>1. PICK fallback \in BOOLEAN :
            /\ FallsBack(fallback)
            /\ \E dups \in SUBSET {<<hit[1], hit[2].conf>> : hit \in Visible(fallback)} :
                 governor' = [governor EXCEPT !.left = @ \ {s}, !.skill = s,
                                !.dups = {dup \in dups : dup[1] # s}]
      BY <2>1 DEF FindDuplicates
    <3>2. PICK dups \in SUBSET {<<hit[1], hit[2].conf>> : hit \in Visible(fallback)} :
            governor' = [governor EXCEPT !.left = governor.left \ {s}, !.skill = s,
                           !.dups = {dup \in dups : dup[1] # s}]
      BY <1>1, <3>1 DEF PassForms
    <3>3. \A hit \in Visible(fallback) : <<hit[1], hit[2].conf>> \in Skills \X Nat
      BY <3>1, HitsAreSkills DEF SkillForms
    <3>4. {dup \in dups : dup[1] # s} \in SUBSET (Skills \X Nat)
      BY <3>2, <3>3
    <3>5. governor' \in PassForms /\ governor'.skill = s /\ governor'.task = governor.task
      BY <1>1, <3>2, <3>4 DEF PassForms
    <3>6. governor.task = "merge"
      BY <2>1 DEF FindDuplicates
    <3>7. embedFailed' \in BOOLEAN
      BY <1>1, <3>1 DEF FallsBack
    <3>8. QED
      BY <3>5, <3>6, <3>7 DEF GovernorRetires
  <2>2. ASSUME StartCleanup
        PROVE  governor' \in PassForms /\ GovernorRetires' /\ embedFailed' \in BOOLEAN
    <3>1. PICK expired \in SUBSET {s \in Skills : Exists(s)} :
            LET due == {s \in Skills : Exists(s) /\ CleanStatus(store[s], s \in expired) # store[s].status} IN
            governor' = [NoPass EXCEPT !.task = "cleanup", !.left = due,
                           !.status = [s \in Skills |-> IF s \in due THEN CleanStatus(store[s], s \in expired)
                                                        ELSE "none"]]
      BY <2>2 DEF StartCleanup
    <3> DEFINE due == {s \in Skills : Exists(s) /\ CleanStatus(store[s], s \in expired) # store[s].status}
               status == [s \in Skills |-> IF s \in due THEN CleanStatus(store[s], s \in expired)
                                           ELSE "none"]
    <3>2. governor' = [NoPass EXCEPT !.task = "cleanup", !.left = due, !.status = status]
      BY <3>1
    <3>3. \A s \in Skills : s \in due => status[s] \in {"archived", "deprecated"}
      BY DEF CleanStatus
    <3>4. status \in [Skills -> Statuses] /\ due \in SUBSET Skills
      BY <3>3 DEF Statuses
    <3> HIDE DEF due, status
    <3>5. governor' \in PassForms
      BY <1>4, <3>2, <3>4 DEF PassForms
    <3>6. GovernorRetires'
      BY <1>4, <3>2, <3>3, <3>4 DEF GovernorRetires, PassForms
    <3>7. embedFailed' = embedFailed
      BY <2>2 DEF StartCleanup
    <3>8. QED
      BY <1>1, <3>5, <3>6, <3>7
  <2>3. ASSUME StartMerge
        PROVE  governor' \in PassForms /\ GovernorRetires' /\ embedFailed' \in BOOLEAN
    <3> DEFINE active == {s \in Skills : store[s].status = "active"}
               conf == [s \in Skills |-> IF s \in active THEN store[s].conf ELSE 0]
    <3>1. governor' = [NoPass EXCEPT !.task = "merge", !.left = active, !.conf = conf]
      BY <2>3 DEF StartMerge
    <3>2. conf \in [Skills -> Nat] /\ active \in SUBSET Skills
      BY <1>1 DEF SkillForms
    <3> HIDE DEF active, conf
    <3>3. governor' \in PassForms /\ governor'.task = "merge" /\ governor'.dups = {}
      BY <1>4, <3>1, <3>2 DEF PassForms
    <3>4. embedFailed' = embedFailed
      BY <2>3 DEF StartMerge
    <3>5. QED
      BY <1>1, <3>3, <3>4 DEF GovernorRetires
  <2>4. ASSUME NextSkill
        PROVE  governor' \in PassForms /\ GovernorRetires' /\ embedFailed' \in BOOLEAN
    <3>1. /\ governor.dups = {} /\ embedFailed' = embedFailed
          /\ governor' = [governor EXCEPT !.skill = "none"] \/ governor' = NoPass
      BY <2>4 DEF NextSkill
    <3>2. CASE governor' = [governor EXCEPT !.skill = "none"]
      BY <1>1, <3>1, <3>2 DEF PassForms, GovernorRetires
    <3>3. CASE governor' = NoPass
      BY <1>1, <1>4, <3>1, <3>3 DEF GovernorRetires
    <3>4. QED
      BY <3>1, <3>2, <3>3
  <2>5. QED
    BY <2>1, <2>2, <2>3, <2>4
<1>6. QED
  BY <1>2, <1>3, <1>5 DEF SkillTypeOK

LEMMA IndexedKeeps ==
    ASSUME SkillBase, NEW a \in Actors, Indexed(a)
    PROVE  SkillBase' /\ StoreStep({}) /\ skillRuns' = skillRuns
<1> USE DEF SkillBase, SkillTypeOK, StoreTypeOK
<1> DEFINE w == writing[a]
<1>1. /\ ~Idle(a) /\ store' = store /\ chroma' = chroma /\ skillRuns' = skillRuns
      /\ governor' = governor /\ restarted' = restarted
      /\ writing' = [writing EXCEPT ![a] = NoWrite]
      /\ rows' = IF w.persist THEN [rows EXCEPT ![w.skill] = @ \cup {Row(w.version)}] ELSE rows
      /\ \/ vectors' = vectors \cup {w.skill} /\ UNCHANGED <<copies, embedFailed>>
         \/ /\ copies' = [copies EXCEPT ![w.skill] = w.version]
            /\ embedFailed' = TRUE
            /\ UNCHANGED vectors
  BY DEF Indexed
<1>2. w \in WriteForms
  BY <1>1 DEF Idle
<1>3. w.skill \in Skills /\ w.version \in SkillForms /\ Kept(w.version)
  BY <1>1, <1>2 DEF WriteForms, LowOnesRetired
<1>4. Row(w.version) \in SkillForms /\ Kept(Row(w.version))
  BY <1>3, RowForm
<1>5. chroma
  BY <1>1 DEF CopiesAgree
<1> HIDE DEF w
<1>6. /\ rows' \in [Skills -> SUBSET SkillForms] /\ copies' \in [Skills -> SkillForms]
      /\ vectors' \subseteq Skills /\ writing' \in [Actors -> {NoWrite} \cup WriteForms]
      /\ embedFailed' \in BOOLEAN
  BY <1>1, <1>3, <1>4
<1>7. CopiesAgree' /\ GovernorRetires'
  BY <1>1, <1>5 DEF CopiesAgree, GovernorRetires
<1>8. LowOnesRetired'
  BY <1>1, <1>3, <1>4 DEF LowOnesRetired, Idle
<1>9. KnownOnes => KnownOnes'
  BY <1>1, <1>3 DEF KnownOnes, Created, Idle, w
<1>10. \A t \in Skills : store[t].usage \in Nat
  BY DEF SkillForms
<1>11. StoreStep({})
  BY <1>1, <1>9, <1>10 DEF StoreStep, Created, Exists, RevisionsKept
<1>12. QED
  BY <1>1, <1>6, <1>7, <1>8, <1>11

LEMMA DeleteKeeps ==
    ASSUME SkillBase, NEW s \in Skills, Delete(s)
    PROVE  SkillBase' /\ StoreStep({}) /\ skillRuns' = skillRuns
<1> USE DEF SkillBase, SkillTypeOK, StoreTypeOK
<1>1. /\ Exists(s) /\ store' = [store EXCEPT ![s] = Deleted]
      /\ copies' = [copies EXCEPT ![s] = NoSkill] /\ vectors' = vectors \ {s}
      /\ UNCHANGED <<chroma, writing, rows, skillRuns, governor, embedFailed, restarted>>
  BY DEF Delete
<1>2. StoreTypeOK'
  BY <1>1, NoSkillForm
<1>3. \A t \in Skills : /\ InMemory(store'[t]) => t # s /\ store'[t] = store[t]
                        /\ InMemory(copies'[t]) => t # s /\ copies'[t] = copies[t]
  BY <1>1, NoSkillForm
<1>4. CopiesAgree' /\ GovernorRetires'
  BY <1>1, <1>3 DEF CopiesAgree, GovernorRetires, Idle, Exists
<1>5. LowOnesRetired'
  BY <1>1, NoSkillForm DEF LowOnesRetired, Idle
<1>6. \A t \in Skills : Created(t) => store'[t].status # "none"
  BY <1>1, NoSkillForm DEF Created
<1>7. KnownOnes => KnownOnes'
  <2>1. \A a \in Actors : ~Idle(a) => writing[a].skill \in Skills
    BY DEF Idle, WriteForms
  <2>2. QED
    BY <1>1, <1>3, <1>6, <2>1 DEF KnownOnes, Created, Idle
<1>8. \A t \in Skills : store[t].usage \in Nat
  BY DEF SkillForms
<1>9. StoreStep({})
  BY <1>1, <1>3, <1>6, <1>7, <1>8 DEF StoreStep, Exists, RevisionsKept
<1>10. QED
  BY <1>1, <1>2, <1>4, <1>5, <1>9

LEMMA RestoreKeeps ==
    ASSUME SkillBase, NEW s \in Skills, Restore(s)
    PROVE  SkillBase' /\ StoreStep({}) /\ skillRuns' = skillRuns
<1> USE DEF SkillBase
<1>1. PICK version \in rows[s] : Write("restore", s, version, FALSE)
  BY DEF Restore
<1>2. /\ restarted /\ restarted' = restarted /\ skillRuns' = skillRuns /\ governor' = governor
      /\ embedFailed' = embedFailed
  BY DEF Restore
<1>3. version \in SkillForms /\ "restore" \in Actors
  BY DEF SkillTypeOK, StoreTypeOK, Actors
<1>4. InMemory(version) /\ Sound(version)
  BY DEF LowOnesRetired, Kept
<1>5. StoreTypeOK' /\ CopiesAgree' /\ LowOnesRetired'
  BY <1>1, <1>3, <1>4, WriteKeeps
<1>6. StoreStep({})
  BY <1>2 DEF StoreStep, RevisionsKept
<1>7. QED
  BY <1>2, <1>5, <1>6 DEF SkillTypeOK, GovernorRetires

LEMMA RestartKeeps ==
    ASSUME SkillBase, Restart
    PROVE  SkillBase' /\ StoreStep({}) /\ restarted'
<1> USE DEF SkillBase
<1>1. /\ store' = [s \in Skills |-> IF store[s] = NoSkill THEN NoSkill ELSE Deleted]
      /\ copies' = [s \in Skills |-> NoSkill]
      /\ writing' = [a \in Actors |-> NoWrite]
      /\ skillRuns' = [r \in SkillRuns |-> IF skillRuns[r].stage = "new" THEN NewRun
                                            ELSE [NewRun EXCEPT !.stage = "over"]]
      /\ governor' = NoPass
      /\ restarted' = TRUE
      /\ UNCHANGED <<chroma, vectors, rows, embedFailed>>
  BY DEF Restart
<1>2. StoreTypeOK'
  BY <1>1, NoSkillForm DEF SkillTypeOK, StoreTypeOK
<1>3. NewRun \in RunForms /\ [NewRun EXCEPT !.stage = "over"] \in RunForms
  BY EmptySeq DEF NewRun, RunForms
<1>4. skillRuns' \in [SkillRuns -> RunForms]
  BY <1>1, <1>3
<1>5. NoPass \in PassForms /\ NoPass.dups = {} /\ NoPass.task = "none"
  BY DEF NoPass, PassForms, Statuses
<1>6. CopiesAgree' /\ GovernorRetires' /\ LowOnesRetired'
  BY <1>1, <1>5, NoSkillForm DEF CopiesAgree, GovernorRetires, LowOnesRetired, Idle, Exists
<1>7. StoreStep({})
  BY <1>1 DEF StoreStep, RevisionsKept
<1>8. QED
  BY <1>1, <1>2, <1>4, <1>5, <1>6, <1>7 DEF SkillTypeOK

\* Every step keeps what holds of the store, and is a step of it.
LEMMA SkillStepKeeps ==
    ASSUME SkillBase, [SkillNext]_skillVars
    PROVE  /\ SkillBase'
           /\ \/ \E r \in SkillRuns : RunStep(r)
              \/ StoreStep({}) /\ (skillRuns' = skillRuns \/ restarted')
<1>1. CASE \E r \in SkillRuns : RunStep(r)
  BY <1>1, RunStepKeeps
<1>2. CASE \E a \in Actors : Indexed(a)
  BY <1>2, IndexedKeeps
<1>3. CASE \E s \in Skills : Clean(s) \/ Delete(s) \/ Restore(s)
  BY <1>3, CleanKeeps, DeleteKeeps, RestoreKeeps
<1>4. CASE (\E s \in Skills : FindDuplicates(s)) \/ StartCleanup \/ StartMerge \/ NextSkill
  BY <1>4, PassKeeps
<1>5. CASE Merge
  BY <1>5, MergeKeeps
<1>6. CASE Restart
  BY <1>6, RestartKeeps
<1>7. CASE UNCHANGED skillVars
  <2>1. NoStoreChange /\ UNCHANGED <<skillRuns, governor, embedFailed, restarted>>
    BY <1>7 DEF skillVars, NoStoreChange
  <2>2. StoreTypeOK' /\ CopiesAgree' /\ LowOnesRetired' /\ StoreStep({})
    BY <2>1, NoStoreChangeKeeps, NoStoreChangeStep
  <2>3. QED
    BY <2>1, <2>2 DEF SkillBase, SkillTypeOK, GovernorRetires
<1>8. QED
  BY <1>1, <1>2, <1>3, <1>4, <1>5, <1>6, <1>7 DEF SkillNext

LEMMA SkillInitBase == SkillInit => SkillBase
<1> SUFFICES ASSUME SkillInit
             PROVE  SkillBase
  OBVIOUS
<1> DEFINE seed == NewSkill(DeprecateBelow)
<1>1. seed \in SkillForms /\ Kept(seed)
  BY SkillConstants, CreatedVersion DEF Kept
<1> HIDE DEF seed
<1>2. store = [s \in Skills |-> IF s \in Seeded THEN seed ELSE NoSkill]
  BY DEF SkillInit, seed
<1>3. /\ copies = IF chroma THEN [s \in Skills |-> NoSkill] ELSE store
      /\ vectors = IF chroma THEN Seeded ELSE {}
      /\ rows = [s \in Skills |-> IF Exists(s) THEN {store[s]} ELSE {}]
      /\ chroma \in BOOLEAN /\ writing = [a \in Actors |-> NoWrite]
      /\ skillRuns = [r \in SkillRuns |-> NewRun] /\ governor = NoPass
      /\ embedFailed = FALSE /\ restarted = FALSE
  BY DEF SkillInit
<1>4. store \in [Skills -> SkillForms]
  BY <1>1, <1>2, NoSkillForm
<1>5. StoreTypeOK
  BY <1>3, <1>4, NoSkillForm, SkillConstants DEF StoreTypeOK
<1>6. NewRun \in RunForms
  BY EmptySeq DEF NewRun, RunForms
<1>7. NoPass \in PassForms /\ NoPass.dups = {} /\ NoPass.task = "none"
  BY DEF NoPass, PassForms, Statuses
<1>8. SkillTypeOK
  BY <1>3, <1>5, <1>6, <1>7 DEF SkillTypeOK
<1>9. CopiesAgree /\ GovernorRetires
  BY <1>3, <1>7 DEF CopiesAgree, GovernorRetires, Idle
<1>10. LowOnesRetired
  BY <1>1, <1>2, <1>3, NoSkillForm DEF LowOnesRetired, Idle, Kept, Exists
<1>11. QED
  BY <1>8, <1>9, <1>10 DEF SkillBase

\* What holds of the store in every state, by whatever steps it is reached.
THEOREM SkillBaseHolds == SkillSpec => []SkillBase
<1>1. SkillBase /\ [SkillNext]_skillVars => SkillBase'
  BY SkillStepKeeps
<1>2. QED
  BY <1>1, SkillInitBase, PTL DEF SkillSpec

\* A step that injects, injects what is fit.
LEMMA InjectedFit ==
    ASSUME SkillBase, [SkillNext]_skillVars
    PROVE  InjectedAreFit
<1> SUFFICES ASSUME NEW q \in SkillRuns,
                    Len(skillRuns'[q].tracked) > Len(skillRuns[q].tracked), ~embedFailed'
             PROVE  Fit(store[skillRuns'[q].tracked[Len(skillRuns'[q].tracked)]])
  BY DEF InjectedAreFit
<1>1. skillRuns \in [SkillRuns -> RunForms]
  BY DEF SkillBase, SkillTypeOK
<1>2. Len(skillRuns[q].tracked) \in Nat
  BY <1>1, LenProperties DEF RunForms
<1>3. skillRuns'[q].tracked # skillRuns[q].tracked
  BY <1>2
<1>4. PICK r \in SkillRuns : RunStep(r)
  <2>1. CASE skillRuns' = skillRuns
    BY <1>3, <2>1
  <2>2. CASE Restart
    <3>1. skillRuns'[q].tracked = <<>>
      BY <2>2 DEF Restart, NewRun
    <3>2. QED
      BY <1>2, <3>1
  <2>3. QED
    BY <2>1, <2>2, <1>3 DEF SkillNext, Indexed, Clean, FindDuplicates, Delete, Restore, StartCleanup,
                            StartMerge, Merge, NextSkill, skillVars
<1>5. CASE Inject(r)
  <2>1. PICK s \in Skills :
          LET run == [skillRuns[r] EXCEPT !.stage = "running",
                                          !.retrievals = skillRuns[r].retrievals + 1,
                                          !.tracked = TrackUsage(skillRuns[r].tracked, s)] IN
          /\ run \in RunForms
          /\ skillRuns' = [skillRuns EXCEPT ![r] = run]
          /\ ~embedFailed' => Fit(store[s])
    BY <1>5, InjectMeans
  <2>2. q = r
    BY <1>1, <1>3, <2>1
  <2>3. skillRuns'[q].tracked = TrackUsage(skillRuns[q].tracked, s)
    BY <1>1, <2>1, <2>2 DEF RunForms
  <2>4. skillRuns[q].tracked \in Seq(Skills)
    BY <1>1 DEF RunForms
  <2>5. skillRuns'[q].tracked[Len(skillRuns'[q].tracked)] = s
    <3> DEFINE tracked == skillRuns[q].tracked
               longer == TrackUsage(tracked, s)
    <3>1. longer # tracked
      BY <1>3, <2>3
    <3>2. longer = tracked \/ longer[Len(longer)] = s
      BY <2>4, TrackedSkill
    <3>3. QED
      BY <2>3, <3>1, <3>2
  <2>6. QED
    BY <2>1, <2>5
<1>6. CASE Finish(r) \/ Rate(r) \/ Rated(r) \/ ApplyRevision(r) \/ NothingProposed(r) \/ Propose(r)
  <2>1. skillRuns'[r].tracked = skillRuns[r].tracked
        /\ \A p \in SkillRuns \ {r} : skillRuns'[p] = skillRuns[p]
    BY <1>6, RunMeans
  <2>2. QED
    BY <1>3, <2>1
<1>7. QED
  BY <1>4, <1>5, <1>6 DEF RunStep

\* No step loses a revision, injects a skill that is unfit or leaves a low one
\* active (SkillGovernor, update_after_execution, the injector), for any
\* number of skills and runs.
THEOREM SkillsSound == SkillSpec => SkillsStaySound
<1>1. ASSUME SkillBase, [SkillNext]_skillVars
      PROVE  [RevisionsKept /\ InjectedAreFit /\ LowIsRetired']_skillVars
  <2>1. SkillBase'
    BY <1>1, SkillStepKeeps
  <2>2. LowIsRetired'
    BY <2>1 DEF SkillBase, LowOnesRetired, LowIsRetired, Sound, Kept
  <2>3. RevisionsKept
    <3>1. CASE \E r \in SkillRuns : RunStep(r)
      BY <1>1, <3>1, RunStepKeeps DEF StoreStep
    <3>2. CASE StoreStep({})
      BY <3>2 DEF StoreStep
    <3>3. QED
      BY <1>1, <3>1, <3>2, SkillStepKeeps
  <2>4. QED
    BY <1>1, <2>2, <2>3, InjectedFit
<1>2. QED
  BY <1>1, SkillBaseHolds, PTL DEF SkillSpec, SkillsStaySound

-----------------------------------------------------------------------------
(* The counts of uses. *)

\* What is told of a run, given the skills: it tracks a skill once, it has rated
\* nothing before it is over, and while it rates, what is left is the end of
\* what it tracked, the skills before it being rated or gone.
RunTold(run, skills) ==
    LET done == Len(run.tracked) - Len(run.left)
        AllRated(n) == \A i \in 1 .. n :
                         InMemory(skills[run.tracked[i]]) => run.tracked[i] \in run.rated IN
    /\ \A i, j \in 1 .. Len(run.tracked) : run.tracked[i] = run.tracked[j] => i = j
    /\ \A i \in 1 .. Len(run.tracked) : skills[run.tracked[i]].status # "none"
    /\ \A s \in run.rated : skills[s].status # "none"
    /\ run.stage \in {"new", "running"} => run.rated = {}
    /\ run.stage = "rating" =>
         /\ done >= 0
         /\ \A i \in 1 .. Len(run.left) : run.left[i] = run.tracked[done + i]
         /\ AllRated(done)
         /\ \A i \in done + 1 .. Len(run.tracked) : run.tracked[i] \notin run.rated
    /\ run.stage \in {"revising", "over"} => AllRated(Len(run.tracked))

RatersOf(s) == {r \in SkillRuns : s \in skillRuns[r].rated}

UsesTold ==
    ~restarted =>
      /\ KnownOnes
      /\ \A r \in SkillRuns : RunTold(skillRuns[r], store)
      /\ \A s \in Skills : Exists(s) => store[s].usage = Cardinality(RatersOf(s))

UsesIInv == SkillBase /\ UsesTold

\* The skills may grow and go, and none comes back.
Grows(older, newer) ==
    \A t \in Skills : older[t].status # "none" =>
        newer[t].status # "none" /\ (InMemory(newer[t]) => InMemory(older[t]))

LEMMA RunToldKept ==
    ASSUME NEW run \in RunForms, NEW older, NEW newer, Grows(older, newer), RunTold(run, older)
    PROVE  RunTold(run, newer)
<1>1. \A i \in 1 .. Len(run.tracked) : run.tracked[i] \in Skills
  BY ElementOfSeq DEF RunForms
<1>2. Len(run.tracked) \in Nat /\ Len(run.left) \in Nat /\ run.rated \subseteq Skills
  BY LenProperties DEF RunForms
<1>3. \A i \in 1 .. Len(run.tracked) : run.tracked[i] \in Skills /\ older[run.tracked[i]].status # "none"
  BY <1>1 DEF RunTold
<1>4. \A i \in 1 .. Len(run.tracked) :
        newer[run.tracked[i]].status # "none"
        /\ (InMemory(newer[run.tracked[i]]) => InMemory(older[run.tracked[i]]))
  BY <1>3 DEF Grows
<1>5. \A s \in run.rated : newer[s].status # "none"
  BY <1>2 DEF Grows, RunTold
<1> DEFINE done == Len(run.tracked) - Len(run.left)
<1>6. ASSUME run.stage = "rating"
      PROVE  /\ done >= 0
             /\ \A i \in 1 .. Len(run.left) : run.left[i] = run.tracked[done + i]
             /\ \A i \in 1 .. done : InMemory(newer[run.tracked[i]]) => run.tracked[i] \in run.rated
             /\ \A i \in done + 1 .. Len(run.tracked) : run.tracked[i] \notin run.rated
  <2>1. /\ done >= 0
        /\ \A i \in 1 .. Len(run.left) : run.left[i] = run.tracked[done + i]
        /\ \A i \in 1 .. done : InMemory(older[run.tracked[i]]) => run.tracked[i] \in run.rated
        /\ \A i \in done + 1 .. Len(run.tracked) : run.tracked[i] \notin run.rated
    BY <1>6 DEF RunTold
  <2>2. \A i \in 1 .. done : i \in 1 .. Len(run.tracked)
    <3>1. ASSUME NEW whole \in Nat, NEW still \in Nat
          PROVE  \A i \in 1 .. whole - still : i \in 1 .. whole
      OBVIOUS
    <3>2. QED
      BY <1>2, <3>1
  <2> HIDE DEF done
  <2>3. QED
    BY <1>4, <2>1, <2>2
<1>7. ASSUME run.stage \in {"revising", "over"}
      PROVE  \A i \in 1 .. Len(run.tracked) :
               InMemory(newer[run.tracked[i]]) => run.tracked[i] \in run.rated
  BY <1>4, <1>7 DEF RunTold
<1>8. /\ \A i, j \in 1 .. Len(run.tracked) : run.tracked[i] = run.tracked[j] => i = j
      /\ run.stage \in {"new", "running"} => run.rated = {}
  BY DEF RunTold
<1>9. QED
  BY <1>4, <1>5, <1>6, <1>7, <1>8 DEF RunTold

\* A step of the store without a restart lets the skills grow.
LEMMA StoreStepGrows ==
    ASSUME NEW counted, StoreStep(counted), ~restarted'
    PROVE  Grows(store, store')
BY DEF StoreStep, Grows, Created, Exists

LEMMA RatersCounted ==
    ASSUME NEW s \in Skills
    PROVE  /\ IsFiniteSet(RatersOf(s)) /\ Cardinality(RatersOf(s)) \in Nat
           /\ RatersOf(s) \subseteq SkillRuns
<1>1. RatersOf(s) \subseteq SkillRuns
  BY DEF RatersOf
<1>2. IsFiniteSet(RatersOf(s))
  BY <1>1, SkillConstants, FS_Subset
<1>3. QED
  BY <1>1, <1>2, FS_CardinalityType

\* A step at which no run rates keeps the counts.
LEMMA CountsKept ==
    ASSUME UsesIInv, SkillBase', StoreStep({}), ~restarted',
           \A r \in SkillRuns : skillRuns'[r].rated = skillRuns[r].rated,
           NEW s \in Skills, InMemory(store'[s])
    PROVE  store'[s].usage = Cardinality(RatersOf(s)')
<1>1. RatersOf(s)' = RatersOf(s)
  BY DEF RatersOf
<1>2. ~restarted
  BY DEF StoreStep
<1>3. CASE Exists(s) /\ store'[s].usage = store[s].usage + (IF s \in {} THEN 1 ELSE 0)
  <2>1. store[s].usage \in Nat
    BY DEF UsesIInv, SkillBase, SkillTypeOK, StoreTypeOK, SkillForms
  <2>2. QED
    BY <1>1, <1>2, <1>3, <2>1 DEF UsesIInv, UsesTold
<1>4. CASE ~Created(s) /\ store'[s].usage = 0
  <2>1. RatersOf(s) = {}
    BY <1>2, <1>4 DEF RatersOf, UsesIInv, UsesTold, RunTold, Created
  <2>2. QED
    BY <1>1, <1>4, <2>1, FS_EmptySet
<1>5. QED
  BY <1>3, <1>4 DEF StoreStep

\* So the invariant is kept when what is told of each run that changed is.
LEMMA QuietStep ==
    ASSUME UsesIInv, SkillBase', StoreStep({}),
           ~restarted' =>
             \A r \in SkillRuns :
               \/ skillRuns'[r] = skillRuns[r]
               \/ skillRuns'[r].rated = skillRuns[r].rated /\ RunTold(skillRuns'[r], store')
    PROVE  UsesTold'
<1> SUFFICES ASSUME ~restarted'
             PROVE  UsesTold'
  BY DEF UsesTold
<1>1. ~restarted /\ KnownOnes'
  BY DEF StoreStep, UsesIInv, UsesTold
<1>2. \A r \in SkillRuns : skillRuns[r] \in RunForms /\ RunTold(skillRuns[r], store)
  BY <1>1 DEF UsesIInv, UsesTold, SkillBase, SkillTypeOK
<1>3. \A r \in SkillRuns : RunTold(skillRuns'[r], store')
  BY <1>2, StoreStepGrows, RunToldKept
<1>4. \A r \in SkillRuns : skillRuns'[r].rated = skillRuns[r].rated
  OBVIOUS
<1>5. \A s \in Skills : InMemory(store'[s]) => store'[s].usage = Cardinality(RatersOf(s)')
  BY <1>4, CountsKept
<1>6. QED
  BY <1>1, <1>3, <1>5 DEF UsesTold, Exists

\* What a run injects has been created, and it is tracked once.
LEMMA InjectTold ==
    ASSUME UsesIInv, NEW r \in SkillRuns, Inject(r), ~restarted
    PROVE  /\ RunTold(skillRuns'[r], store)
           /\ skillRuns'[r].rated = skillRuns[r].rated
           /\ \A q \in SkillRuns \ {r} : skillRuns'[q] = skillRuns[q]
<1>1. skillRuns \in [SkillRuns -> RunForms] /\ RunTold(skillRuns[r], store) /\ SkillTypeOK
      /\ KnownOnes /\ SkillBase
  BY DEF UsesIInv, UsesTold, SkillBase, SkillTypeOK
<1> DEFINE old == skillRuns[r]
<1>2. PICK s \in Skills :
        LET run == [skillRuns[r] EXCEPT !.stage = "running",
                                        !.retrievals = skillRuns[r].retrievals + 1,
                                        !.tracked = TrackUsage(skillRuns[r].tracked, s)] IN
        /\ run \in RunForms
        /\ skillRuns' = [skillRuns EXCEPT ![r] = run]
        /\ skillRuns[r].stage \in {"new", "running"}
        /\ Exists(s) \/ InMemory(copies[s])
  BY <1>1, InjectMeans
<1> DEFINE new == [old EXCEPT !.stage = "running", !.retrievals = old.retrievals + 1,
                              !.tracked = TrackUsage(old.tracked, s)]
<1>3. /\ skillRuns'[r] = new /\ new \in RunForms /\ old \in RunForms
      /\ \A q \in SkillRuns \ {r} : skillRuns'[q] = skillRuns[q]
  BY <1>1, <1>2
<1>4. /\ new.stage = "running" /\ new.rated = old.rated
      /\ new.tracked = TrackUsage(old.tracked, s)
  BY <1>3 DEF RunForms
<1>5. store[s].status # "none"
  BY <1>1, <1>2 DEF KnownOnes, Created, Exists, InMemory
<1>6. old.tracked \in Seq(Skills) /\ old.stage \in {"new", "running"}
  BY <1>2, <1>3 DEF RunForms
<1> HIDE DEF new
<1>7. /\ \A i, j \in 1 .. Len(old.tracked) : old.tracked[i] = old.tracked[j] => i = j
      /\ \A i \in 1 .. Len(old.tracked) : store[old.tracked[i]].status # "none"
      /\ \A t \in old.rated : store[t].status # "none"
      /\ old.rated = {}
  BY <1>1, <1>6 DEF RunTold
<1>8. /\ \A i, j \in 1 .. Len(new.tracked) : new.tracked[i] = new.tracked[j] => i = j
      /\ \A i \in 1 .. Len(new.tracked) : store[new.tracked[i]].status # "none"
  <2> DEFINE tracked == old.tracked
             longer == TrackUsage(tracked, s)
  <2>1. /\ longer \in Seq(Skills)
        /\ \/ longer = tracked
           \/ /\ \A i \in DOMAIN tracked : tracked[i] # s
              /\ Len(longer) = Len(tracked) + 1
              /\ longer[Len(longer)] = s
              /\ \A i \in 1 .. Len(tracked) : longer[i] = tracked[i]
    BY <1>6, TrackedSkill
  <2>2. Len(tracked) \in Nat /\ DOMAIN tracked = 1 .. Len(tracked)
    BY <1>6, LenProperties
  <2>3. new.tracked = longer
    BY <1>4
  <2> HIDE DEF longer
  <2>4. CASE longer = tracked
    BY <1>7, <2>3, <2>4
  <2>5. CASE longer # tracked
    <3>1. \A i \in 1 .. Len(longer) : i \in 1 .. Len(tracked) \/ i = Len(longer)
      BY <2>1, <2>2, <2>5
    <3> HIDE DEF tracked
    <3>2. \A i \in 1 .. Len(longer) : store[longer[i]].status # "none"
      BY <1>5, <1>7, <2>1, <2>5, <3>1 DEF tracked
    <3>3. \A i, j \in 1 .. Len(longer) : longer[i] = longer[j] => i = j
      BY <1>7, <2>1, <2>2, <2>5, <3>1 DEF tracked
    <3>4. QED
      BY <2>3, <3>2, <3>3
  <2>6. QED
    BY <2>4, <2>5
<1>9. RunTold(new, store)
  BY <1>4, <1>7, <1>8 DEF RunTold
<1>10. QED
  BY <1>3, <1>4, <1>9

\* The other steps at which a run rates nothing.
LEMMA RunGoesOn ==
    ASSUME UsesIInv, NEW r \in SkillRuns, ~restarted, StoreStep({}), ~restarted',
           Finish(r) \/ Rated(r) \/ ApplyRevision(r) \/ NothingProposed(r) \/ Propose(r)
    PROVE  /\ RunTold(skillRuns'[r], store')
           /\ skillRuns'[r].rated = skillRuns[r].rated
           /\ \A q \in SkillRuns \ {r} : skillRuns'[q] = skillRuns[q]
<1> DEFINE old == skillRuns[r]
           new == skillRuns'[r]
<1>1. SkillBase /\ RunTold(old, store)
  BY DEF UsesIInv, UsesTold
<1>2. /\ old \in RunForms /\ new \in RunForms
      /\ new.tracked = old.tracked /\ new.rated = old.rated
      /\ \A q \in SkillRuns \ {r} : skillRuns'[q] = skillRuns[q]
      /\ \/ old.stage \in {"new", "running"} /\ new.stage = "rating" /\ new.left = old.tracked
         \/ old.stage = "rating" /\ old.left = <<>> /\ new.stage = "revising"
         \/ old.stage = "revising" /\ new.stage \in {"revising", "over"}
  <2>1. CASE Finish(r)
    BY <1>1, <2>1, RunMeans
  <2>2. CASE Rated(r)
    BY <1>1, <2>2, RunMeans
  <2>3. CASE ApplyRevision(r) \/ NothingProposed(r) \/ Propose(r)
    BY <1>1, <2>3, RunMeans
  <2>4. QED
    BY <2>1, <2>2, <2>3
<1>3. RunTold(old, store')
  BY <1>1, <1>2, StoreStepGrows, RunToldKept
<1>4. Len(old.tracked) \in Nat
  BY <1>2, LenProperties DEF RunForms
<1> HIDE DEF old, new
<1>5. RunTold(new, store')
  <2>1. CASE old.stage \in {"new", "running"} /\ new.stage = "rating" /\ new.left = old.tracked
    BY <1>2, <1>3, <1>4, <2>1 DEF RunTold
  <2>2. CASE old.stage = "rating" /\ old.left = <<>> /\ new.stage = "revising"
    <3>1. Len(old.left) = 0
      BY <2>2
    <3>2. Len(old.tracked) - Len(old.left) = Len(old.tracked)
      BY <1>4, <3>1
    <3>3. QED
      BY <1>2, <1>3, <2>2, <3>2 DEF RunTold
  <2>3. CASE old.stage = "revising" /\ new.stage \in {"revising", "over"}
    BY <1>2, <1>3, <2>3 DEF RunTold
  <2>4. QED
    BY <1>2, <2>1, <2>2, <2>3
<1>6. QED
  BY <1>2, <1>5 DEF old, new

\* A run that rates a skill has not rated it before.
LEMMA RateTold ==
    ASSUME UsesIInv, SkillBase', NEW r \in SkillRuns, Rate(r), ~restarted, ~restarted',
           StoreStep(IF Exists(Head(skillRuns[r].left)) THEN {Head(skillRuns[r].left)} ELSE {})
    PROVE  UsesTold'
<1> DEFINE old == skillRuns[r]
           new == skillRuns'[r]
           s == Head(old.left)
           counted == IF Exists(s) THEN {s} ELSE {}
           done == Len(old.tracked) - Len(old.left)
<1>1. SkillBase /\ RunTold(old, store) /\ KnownOnes
  BY DEF UsesIInv, UsesTold
<1>2. /\ old \in RunForms /\ new \in RunForms /\ s \in Skills
      /\ old.stage = "rating" /\ new.stage = "rating" /\ old.left # <<>>
      /\ new.left = Tail(old.left) /\ new.tracked = old.tracked
      /\ new.rated = IF Exists(s) THEN old.rated \cup {s} ELSE old.rated
      /\ \A q \in SkillRuns \ {r} : skillRuns'[q] = skillRuns[q]
  BY <1>1, RunMeans
<1>a. StoreStep(counted)
  OBVIOUS
<1> HIDE DEF counted, new, s, old
<1>3. Grows(store, store') /\ KnownOnes'
  <2>1. Grows(store, store')
    BY <1>a, StoreStepGrows
  <2>2. KnownOnes'
    BY <1>1, <1>a DEF StoreStep
  <2>3. QED
    BY <2>1, <2>2
<1>4. RunTold(old, store')
  BY <1>1, <1>2, <1>3, RunToldKept
<1>5. /\ Len(old.tracked) \in Nat /\ Len(old.left) \in Nat /\ Len(old.left) >= 1
      /\ s = old.left[1] /\ Len(new.left) = Len(old.left) - 1
      /\ \A i \in 1 .. Len(new.left) : new.left[i] = old.left[i + 1]
  BY <1>2, LenProperties, HeadTailProperties, EmptySeq DEF RunForms, s
<1>6. /\ done \in Nat /\ done + 1 \in 1 .. Len(old.tracked)
      /\ Len(new.tracked) - Len(new.left) = done + 1 /\ done + 1 >= 0
      /\ done + 1 \in done + 1 .. Len(old.tracked) /\ 1 \in 1 .. Len(old.left)
  <2>1. done >= 0
    BY <1>1, <1>2 DEF RunTold
  <2>2. Len(new.tracked) = Len(old.tracked)
    BY <1>2
  <2>3. ASSUME NEW whole \in Nat, NEW still \in Nat, whole - still >= 0, still >= 1
        PROVE  /\ whole - still \in Nat /\ (whole - still) + 1 \in 1 .. whole
               /\ whole - (still - 1) = (whole - still) + 1
               /\ (whole - still) + 1 >= 0 /\ (whole - still) + 1 \in (whole - still) + 1 .. whole
    BY <2>3
  <2>4. Len(new.tracked) - Len(new.left) = Len(old.tracked) - (Len(old.left) - 1)
    BY <1>5, <2>2
  <2>5. /\ Len(old.tracked) \in Nat /\ Len(old.left) \in Nat /\ Len(old.left) >= 1
        /\ Len(old.tracked) - Len(old.left) >= 0
    BY <1>5, <2>1
  <2>6. 1 \in 1 .. Len(old.left)
    BY <2>5
  <2> HIDE DEF done
  <2>7. done = Len(old.tracked) - Len(old.left)
    BY DEF done
  <2>8. /\ done \in Nat /\ done + 1 \in 1 .. Len(old.tracked)
        /\ Len(old.tracked) - (Len(old.left) - 1) = done + 1 /\ done + 1 >= 0
        /\ done + 1 \in done + 1 .. Len(old.tracked)
    BY <2>3, <2>5, <2>7
  <2>9. QED
    BY <2>4, <2>6, <2>8
<1>7. /\ \A i \in 1 .. Len(old.left) : old.left[i] = old.tracked[done + i]
      /\ \A i \in 1 .. done : InMemory(store'[old.tracked[i]]) => old.tracked[i] \in old.rated
      /\ \A i \in done + 1 .. Len(old.tracked) : old.tracked[i] \notin old.rated
      /\ \A i, j \in 1 .. Len(old.tracked) : old.tracked[i] = old.tracked[j] => i = j
      /\ \A i \in 1 .. Len(old.tracked) : store'[old.tracked[i]].status # "none"
      /\ \A t \in old.rated : store'[t].status # "none"
  BY <1>2, <1>4 DEF RunTold
<1>8. s = old.tracked[done + 1] /\ s \notin old.rated
  <2>1. 1 \in 1 .. Len(old.left) /\ done + 1 \in done + 1 .. Len(old.tracked)
    BY <1>6
  <2>2. old.left[1] = old.tracked[done + 1]
    BY <1>7, <2>1
  <2>3. QED
    BY <1>5, <1>7, <2>1, <2>2
<1>9. InMemory(store'[s]) => Exists(s)
  <2>1. store[s].status # "none"
    BY <1>1, <1>6, <1>8 DEF RunTold
  <2>2. QED
    BY <1>2, <1>3, <2>1 DEF Grows, Exists
<1>10. /\ store'[s].status # "none"
       /\ \A t \in new.rated : t \in old.rated \/ t = s
       /\ old.rated \subseteq new.rated
       /\ Exists(s) => s \in new.rated
  BY <1>2, <1>6, <1>7, <1>8, ZenonT(30)
<1> HIDE DEF done
<1>11. /\ \A i \in 1 .. Len(new.left) : new.left[i] = new.tracked[(done + 1) + i]
       /\ \A i \in 1 .. done + 1 : InMemory(store'[new.tracked[i]]) => new.tracked[i] \in new.rated
       /\ \A i \in (done + 1) + 1 .. Len(new.tracked) : new.tracked[i] \notin new.rated
  <2>1. ASSUME NEW i \in 1 .. Len(new.left)
        PROVE  new.left[i] = new.tracked[(done + 1) + i]
    <3>1. i + 1 \in 1 .. Len(old.left) /\ done + (i + 1) = (done + 1) + i
      BY <1>5, <1>6
    <3>2. old.left[i + 1] = old.tracked[done + (i + 1)]
      BY <1>7, <3>1
    <3>3. QED
      BY <1>2, <1>5, <3>1, <3>2
  <2>2. ASSUME NEW i \in 1 .. done + 1, InMemory(store'[new.tracked[i]])
        PROVE  new.tracked[i] \in new.rated
    <3>1. i \in 1 .. done \/ i = done + 1
      BY <1>6
    <3>2. QED
      BY <1>2, <1>7, <1>8, <1>9, <1>10, <2>2, <3>1
  <2>3. ASSUME NEW i \in (done + 1) + 1 .. Len(new.tracked)
        PROVE  new.tracked[i] \notin new.rated
    <3>1. i \in done + 1 .. Len(old.tracked) /\ i \in 1 .. Len(old.tracked) /\ i # done + 1
      BY <1>2, <1>6
    <3>2. old.tracked[i] # s /\ old.tracked[i] \notin old.rated
      BY <1>6, <1>7, <1>8, <3>1
    <3>3. QED
      BY <1>2, <1>10, <3>2
  <2>4. QED
    BY <2>1, <2>2, <2>3
<1>12. \A t \in new.rated : store'[t].status # "none"
  BY <1>7, <1>10
<1>13. RunTold(new, store')
  <2>1. Len(new.tracked) - Len(new.left) = done + 1 /\ done + 1 >= 0
    BY <1>6
  <2>2. /\ \A i, j \in 1 .. Len(new.tracked) : new.tracked[i] = new.tracked[j] => i = j
        /\ \A i \in 1 .. Len(new.tracked) : store'[new.tracked[i]].status # "none"
    BY <1>2, <1>7
  <2>3. QED
    BY <1>2, <1>11, <1>12, <2>1, <2>2 DEF RunTold
<1>14. \A q \in SkillRuns : RunTold(skillRuns'[q], store')
  <2>1. ASSUME NEW q \in SkillRuns \ {r}
        PROVE  RunTold(skillRuns'[q], store')
    <3>1. skillRuns[q] \in RunForms /\ RunTold(skillRuns[q], store)
      BY DEF UsesIInv, UsesTold, SkillBase, SkillTypeOK
    <3>2. QED
      BY <1>2, <1>3, <3>1, RunToldKept
  <2>2. QED
    BY <1>13, <2>1 DEF new
<1>b. \A t \in Skills : Exists(t) => store[t].usage = Cardinality(RatersOf(t))
  BY DEF UsesIInv, UsesTold
<1>15. ASSUME NEW t \in Skills, InMemory(store'[t])
       PROVE  store'[t].usage = Cardinality(RatersOf(t)')
  <2>1. CASE ~Exists(s)
    <3>1. StoreStep({})
      BY <2>1 DEF s, old
    <3>2. \A q \in SkillRuns : skillRuns'[q].rated = skillRuns[q].rated
      BY <1>2, <2>1 DEF new, old
    <3>3. QED
      BY <1>15, <3>1, <3>2, CountsKept
  <2>2. CASE Exists(s)
    <3>1. StoreStep({s})
      BY <2>2 DEF s, old
    <3>2. \A q \in SkillRuns : skillRuns'[q].rated = IF q = r THEN skillRuns[q].rated \cup {s}
                                                     ELSE skillRuns[q].rated
      BY <1>2, <2>2 DEF new, old
    <3>3. CASE t = s
      <4>1. /\ IsFiniteSet(RatersOf(t)) /\ Cardinality(RatersOf(t)) \in Nat /\ r \notin RatersOf(t)
        BY <1>8, <3>3, RatersCounted DEF RatersOf, old
      <4>2. \A q \in SkillRuns : t \in skillRuns'[q].rated <=> (t \in skillRuns[q].rated \/ q = r)
        BY <3>2, <3>3
      <4>3. RatersOf(t)' = RatersOf(t) \cup {r}
        BY <4>2 DEF RatersOf
      <4>4. Cardinality(RatersOf(t)') = Cardinality(RatersOf(t)) + 1
        BY <4>1, <4>3, FS_AddElement
      <4>5. store[t].usage = Cardinality(RatersOf(t))
        BY <1>b, <2>2, <3>3
      <4>6. store'[t].usage = store[t].usage + 1
        BY <1>15, <2>2, <3>1, <3>3 DEF StoreStep, Created, Exists, InMemory
      <4>7. QED
        BY <4>4, <4>5, <4>6
    <3>4. CASE t # s
      <4>1. RatersOf(t)' = RatersOf(t)
        BY <3>2, <3>4 DEF RatersOf
      <4>2. CASE Exists(t) /\ store'[t].usage = store[t].usage + (IF t \in {s} THEN 1 ELSE 0)
        <5>1. store[t].usage \in Nat
          BY <1>1 DEF SkillBase, SkillTypeOK, StoreTypeOK, SkillForms
        <5>2. store'[t].usage = store[t].usage
          BY <3>4, <4>2, <5>1
        <5>3. QED
          BY <4>1, <4>2, <5>2, <1>b
      <4>3. CASE ~Created(t) /\ store'[t].usage = 0
        <5>1. RatersOf(t) = {}
          BY <4>3 DEF RatersOf, UsesIInv, UsesTold, RunTold, Created
        <5>2. Cardinality(RatersOf(t)') = 0
          BY <4>1, <5>1, FS_EmptySet
        <5>3. QED
          BY <4>3, <5>2
      <4>4. QED
        BY <1>15, <3>1, <4>2, <4>3 DEF StoreStep
    <3>5. QED
      BY <3>3, <3>4
  <2>3. QED
    BY <2>1, <2>2
<1>16. QED
  BY <1>3, <1>14, <1>15 DEF UsesTold, Exists

LEMMA UsesStep == UsesIInv /\ [SkillNext]_skillVars => UsesIInv'
<1> SUFFICES ASSUME UsesIInv, [SkillNext]_skillVars
             PROVE  UsesIInv'
  OBVIOUS
<1>1. SkillBase /\ SkillBase'
  BY SkillStepKeeps DEF UsesIInv
<1>2. CASE restarted'
  BY <1>1, <1>2 DEF UsesIInv, UsesTold
<1>3. CASE ~restarted' /\ \E r \in SkillRuns : RunStep(r)
  <2>1. PICK r \in SkillRuns : RunStep(r)
    BY <1>3
  <2>2. /\ ~Rate(r) => StoreStep({})
        /\ Rate(r) => StoreStep(IF Exists(Head(skillRuns[r].left)) THEN {Head(skillRuns[r].left)}
                                ELSE {})
        /\ ~restarted
    BY <1>1, <1>3, <2>1, RunStepKeeps
  <2>3. CASE Rate(r)
    BY <1>1, <1>3, <2>2, <2>3, RateTold DEF UsesIInv
  <2>4. CASE Inject(r) /\ ~Rate(r)
    <3>1. store' = store
      BY <2>4 DEF Inject, NoStoreChange
    <3>2. RunTold(skillRuns'[r], store')
      BY <2>2, <2>4, <3>1, InjectTold
    <3>3. UsesTold'
      BY <1>1, <2>2, <2>4, <3>2, InjectTold, QuietStep
    <3>4. QED
      BY <1>1, <3>3 DEF UsesIInv
  <2>5. CASE ~Inject(r) /\ ~Rate(r)
    <3>1. Finish(r) \/ Rated(r) \/ ApplyRevision(r) \/ NothingProposed(r) \/ Propose(r)
      BY <2>1, <2>5 DEF RunStep
    <3>2. UsesTold'
      BY <1>1, <1>3, <2>2, <2>5, <3>1, RunGoesOn, QuietStep
    <3>3. QED
      BY <1>1, <3>2 DEF UsesIInv
  <2>6. QED
    BY <2>3, <2>4, <2>5
<1>4. CASE StoreStep({}) /\ skillRuns' = skillRuns
  BY <1>1, <1>4, QuietStep DEF UsesIInv
<1>5. QED
  BY <1>1, <1>2, <1>3, <1>4, SkillStepKeeps

LEMMA UsesInit == SkillInit => UsesIInv
<1> SUFFICES ASSUME SkillInit
             PROVE  UsesIInv
  OBVIOUS
<1>1. /\ store = [s \in Skills |-> IF s \in Seeded THEN NewSkill(DeprecateBelow) ELSE NoSkill]
      /\ copies = IF chroma THEN [s \in Skills |-> NoSkill] ELSE store
      /\ writing = [a \in Actors |-> NoWrite]
      /\ skillRuns = [r \in SkillRuns |-> NewRun]
  BY DEF SkillInit
<1>2. KnownOnes
  BY <1>1, NoSkillForm DEF KnownOnes, Created, Idle, InMemory
<1>3. RunTold(NewRun, store)
  <2>1. /\ NewRun.tracked = <<>> /\ NewRun.left = <<>> /\ NewRun.rated = {} /\ NewRun.stage = "new"
    BY DEF NewRun
  <2>2. QED
    BY <2>1 DEF RunTold
<1>4. ASSUME NEW s \in Skills
      PROVE  store[s].usage = Cardinality(RatersOf(s))
  <2>1. RatersOf(s) = {}
    BY <1>1 DEF RatersOf, NewRun
  <2>2. store[s].usage = 0
    BY <1>1 DEF NewSkill, NoSkill
  <2>3. QED
    BY <2>1, <2>2, FS_EmptySet
<1>5. QED
  BY <1>1, <1>2, <1>3, <1>4, SkillInitBase DEF UsesIInv, UsesTold

\* Until a restart a skill's count is the number of runs that rated it, and a
\* run that has rated its skills has counted for each that is still there
\* (track_usage, update_after_execution), however the writes interleave.
THEOREM UsesCounted == SkillSpec => []UsesCountedOnce
<1>1. UsesIInv => UsesCountedOnce
  <2> SUFFICES ASSUME UsesIInv, ~restarted
               PROVE  UsesCountedOnce
    BY DEF UsesCountedOnce
  <2>1. \A s \in Skills :
          Exists(s) => store[s].usage = Cardinality({r \in SkillRuns : s \in skillRuns[r].rated})
    BY DEF UsesIInv, UsesTold, RatersOf
  <2>2. ASSUME NEW r \in SkillRuns, skillRuns[r].stage \in {"revising", "over"},
               NEW i \in DOMAIN skillRuns[r].tracked, Exists(skillRuns[r].tracked[i])
        PROVE  skillRuns[r].tracked[i] \in skillRuns[r].rated
    <3>1. skillRuns[r] \in RunForms /\ RunTold(skillRuns[r], store)
      BY DEF UsesIInv, UsesTold, SkillBase, SkillTypeOK
    <3>2. i \in 1 .. Len(skillRuns[r].tracked)
      BY <3>1, LenProperties DEF RunForms
    <3>3. QED
      BY <2>2, <3>1, <3>2 DEF RunTold, Exists
  <2>3. QED
    BY <2>1, <2>2 DEF UsesCountedOnce
<1>2. QED
  BY <1>1, UsesInit, UsesStep, PTL DEF SkillSpec

-----------------------------------------------------------------------------
(***************************************************************************)
(* SessionSegments.                                                         *)
(***************************************************************************)
SegmentSteps == [id : Nat, kind : {"delegate", "tool_call", "finalize"}]

Segments ==
    [id : Nat, index : Nat, parent : Nat, start : Nat, end : Nat, count : Nat,
     summary : Seq(SegmentSteps)]

\* The id of the last step in the first i segments.
EndOf(all, i) == IF i = 0 THEN 0 ELSE all[i].end

\* A segment follows the one before it and tells of the steps it has.
SegmentTells(all, steps, i) ==
    /\ all[i].index = i - 1 /\ all[i].parent = i - 1
    /\ all[i].start = 1 + EndOf(all, i - 1)
    /\ all[i].start <= all[i].end /\ all[i].end <= Len(steps)
    /\ all[i].count = all[i].end + 1 - all[i].start
    /\ all[i].summary = SummarizeSegment(SubSeq(steps, all[i].start, all[i].end))

\* Each segment tells of its steps, and the open one has the others.
SegmentsIInv ==
    /\ segments \in Seq(Segments) /\ reported \in Seq(SegmentSteps)
    /\ currentSegmentId = Len(segments)
    /\ \A i \in 1 .. Len(reported) : reported[i].id = i
    /\ \A i \in 1 .. Len(segments) : SegmentTells(segments, reported, i)
    /\ completedStepRecords = SubSeq(reported, 1 + EndOf(segments, Len(segments)), Len(reported))

\* What SegmentsTellTheRun says of a summary.
SummaryFits(summary, steps) ==
    /\ ToSet(summary) \subseteq ToSet(steps)
    /\ (\E step \in ToSet(steps) \ ToSet(summary) : IsKey(step)) =>
         Len(summary) = MaxSummarySteps /\ \A step \in ToSet(summary) : IsKey(step)

\* A summary takes its steps from those in the order of the sort, key steps first.
LEMMA SummaryTells ==
    ASSUME NEW steps \in Seq(SegmentSteps)
    PROVE  /\ SummarizeSegment(steps) \in Seq(SegmentSteps)
           /\ SummaryFits(SummarizeSegment(steps), steps)
<1> DEFINE n == Len(steps)
           ids == 1 .. n
           key == [i \in DOMAIN steps |-> IF IsKey(steps[i]) THEN 0 ELSE 1]
           named == SortedBy(steps, key)
           size == IF n < MaxSummarySteps THEN n ELSE MaxSummarySteps
           summary == SummarizeSegment(steps)
<1>1. n \in Nat /\ DOMAIN steps = ids /\ steps \in [ids -> SegmentSteps]
  BY LenProperties
<1>2. key \in [ids -> Nat]
  BY <1>1
<1>3. IsFiniteSet(ids) /\ Cardinality(ids) = n
  <2>1. n \in Int /\ 1 \in Int
    BY <1>1
  <2> HIDE DEF n
  <2>2. IsFiniteSet(ids) /\ Cardinality(ids) = IF 1 > n THEN 0 ELSE n - 1 + 1
    BY <2>1, FS_Interval
  <2>3. QED
    BY <1>1, <2>2
<1>4. PICK at : SortsBy(at, named, steps, key, ids)
  <2>1. ids \in SUBSET Nat /\ key \in [ids -> Int]
    BY <1>1, <1>2
  <2> HIDE DEF key, n, ids
  <2>2. QED
    BY <1>3, <2>1, Sorts
<1>5. /\ at \in [ids -> ids]
      /\ named = [k \in ids |-> steps[at[k]]]
      /\ \A i \in ids : \E k \in ids : at[k] = i
      /\ \A k, l \in ids : k < l => Precedes(key, at[k], at[l])
  <2> HIDE DEF key, n, named
  <2>1. QED
    BY <1>3, <1>4 DEF SortsBy
<1>6. MaxSummarySteps \in Nat \ {0}
  BY SegmentsAssumption
<1>7. size \in Nat /\ size <= n /\ size <= MaxSummarySteps
  BY <1>1, <1>6
<1>8. named \in Seq(SegmentSteps) /\ Len(named) = n
  <2>1. named \in [1 .. n -> SegmentSteps]
    BY <1>1, <1>5
  <2> HIDE DEF named
  <2>2. QED
    BY <1>1, <2>1
<1>9. summary = SubSeq(named, 1, size)
  <2> HIDE DEF named
  <2>1. SummarizeSegment(steps) =
          SubSeq(named, 1, IF Len(named) < MaxSummarySteps THEN Len(named) ELSE MaxSummarySteps)
    BY DEF SummarizeSegment, named
  <2>2. QED
    BY <1>8, <2>1
<1> HIDE DEF size
<1>10. /\ summary \in Seq(SegmentSteps) /\ Len(summary) = size
      /\ \A k \in 1 .. size : summary[k] = steps[at[k]]
  <2>1. ASSUME NEW k \in 1 .. size
        PROVE  k \in ids /\ named[k] \in SegmentSteps /\ named[k] = steps[at[k]]
    <3>1. k \in ids
      BY <1>1, <1>7
    <3>2. at[k] \in ids /\ steps[at[k]] \in SegmentSteps
      BY <1>1, <1>5, <3>1
    <3> HIDE DEF named
    <3>3. QED
      BY <1>5, <3>1, <3>2
  <2> HIDE DEF named, summary, n, ids
  <2>2. 1 \in Nat \ {0} /\ size \in Nat /\ 1 <= size + 1 /\ size <= Len(named)
    BY <1>1, <1>7, <1>8
  <2>3. /\ summary \in Seq(SegmentSteps) /\ Len(summary) = size + 1 - 1
        /\ \A k \in 1 .. size + 1 - 1 : summary[k] = named[1 + k - 1]
    BY <1>8, <1>9, <2>2, PartOf
  <2>4. size + 1 - 1 = size /\ \A k \in 1 .. size : 1 + k - 1 = k
    BY <2>2
  <2>5. QED
    BY <2>1, <2>3, <2>4
<1>11. DOMAIN summary = 1 .. size
  <2> HIDE DEF summary
  <2>1. QED
    BY <1>10, LenProperties
<1> HIDE DEF summary
<1>12. ToSet(summary) \subseteq ToSet(steps)
  <2>1. ASSUME NEW k \in DOMAIN summary PROVE summary[k] \in ToSet(steps)
    <3>1. summary[k] = steps[at[k]] /\ at[k] \in DOMAIN steps
      <4>1. k \in 1 .. size /\ k \in ids
        BY <1>1, <1>7, <1>11
      <4>2. QED
        BY <1>1, <1>5, <1>10, <4>1
    <3>2. QED
      BY <3>1 DEF ToSet
  <2>2. QED
    BY <2>1 DEF ToSet
<1>13. ASSUME NEW i \in ids, IsKey(steps[i]), steps[i] \notin ToSet(summary)
       PROVE  size = MaxSummarySteps /\ \A k \in 1 .. size : IsKey(summary[k])
  <2>1. PICK l \in ids : at[l] = i
    BY <1>5
  <2>2. size < l
    <3>1. l \notin 1 .. size
      BY <1>10, <1>11, <1>13, <2>1 DEF ToSet
    <3>2. QED
      BY <1>1, <1>7, <3>1
  <2>3. size = MaxSummarySteps
    <3>1. l <= n /\ n \in Nat /\ l \in Nat
      BY <1>1
    <3> HIDE DEF n, ids
    <3>2. QED
      BY <1>6, <1>7, <2>2, <3>1 DEF size
  <2>4. ASSUME NEW k \in 1 .. size PROVE IsKey(summary[k])
    <3>1. k \in ids /\ k < l
      BY <1>1, <1>7, <2>2
    <3>2. Precedes(key, at[k], i)
      BY <1>5, <2>1, <3>1
    <3>3. key[i] = 0 /\ key[at[k]] \in {0, 1} /\ at[k] \in ids
      BY <1>1, <1>5, <1>13, <3>1
    <3>4. key[at[k]] = 0
      <4> HIDE DEF key
      <4>1. QED
        BY <3>2, <3>3 DEF Precedes
    <3>5. IsKey(steps[at[k]])
      BY <1>1, <3>3, <3>4
    <3>6. QED
      BY <1>10, <3>5
  <2>5. QED
    BY <2>3, <2>4
<1>14. ASSUME \E step \in ToSet(steps) \ ToSet(summary) : IsKey(step)
       PROVE  Len(summary) = MaxSummarySteps /\ \A step \in ToSet(summary) : IsKey(step)
  <2>1. PICK i \in ids : steps[i] \notin ToSet(summary) /\ IsKey(steps[i])
    BY <1>1, <1>14 DEF ToSet
  <2>2. QED
    BY <1>10, <1>11, <1>13, <2>1 DEF ToSet
<1>15. QED
  BY <1>10, <1>12, <1>14 DEF SummaryFits, summary

\* What is appended is outside the parts there were, and at the end of those that reach it.
LEMMA PartsGrow ==
    ASSUME NEW S, NEW list \in Seq(S), NEW item \in S,
           NEW first \in Nat \ {0}, NEW last \in Nat, first <= last + 1, last <= Len(list)
    PROVE  /\ SubSeq(Append(list, item), first, last) = SubSeq(list, first, last)
           /\ SubSeq(Append(list, item), first, Len(list) + 1) =
                Append(SubSeq(list, first, Len(list)), item)
<1> DEFINE new == Append(list, item)
           n == Len(list)
           old == SubSeq(list, first, n)
<1>1. /\ n \in Nat /\ new \in Seq(S) /\ Len(new) = n + 1
      /\ \A i \in 1 .. n : new[i] = list[i]
      /\ new[n + 1] = item
  BY LenProperties, AppendProperties
<1>2. /\ SubSeq(list, first, last) \in Seq(S) /\ Len(SubSeq(list, first, last)) = last + 1 - first
      /\ \A k \in 1 .. last + 1 - first : SubSeq(list, first, last)[k] = list[first + k - 1]
      /\ SubSeq(new, first, last) \in Seq(S) /\ Len(SubSeq(new, first, last)) = last + 1 - first
      /\ \A k \in 1 .. last + 1 - first : SubSeq(new, first, last)[k] = new[first + k - 1]
  <2>1. last <= Len(new)
    BY <1>1
  <2> HIDE DEF new
  <2>2. QED
    BY <1>1, <2>1, PartOf
<1>3. /\ old \in Seq(S) /\ Len(old) = n + 1 - first
      /\ \A k \in 1 .. n + 1 - first : old[k] = list[first + k - 1]
      /\ SubSeq(new, first, n + 1) \in Seq(S) /\ Len(SubSeq(new, first, n + 1)) = n + 2 - first
      /\ \A k \in 1 .. n + 2 - first : SubSeq(new, first, n + 1)[k] = new[first + k - 1]
  <2>1. n + 1 \in Nat /\ first <= n + 1 /\ first <= (n + 1) + 1 /\ n + 1 <= Len(new)
    BY <1>1
  <2>2. /\ old \in Seq(S) /\ Len(old) = n + 1 - first
        /\ \A k \in 1 .. n + 1 - first : old[k] = list[first + k - 1]
    <3>1. n \in Nat /\ n <= Len(list) /\ first <= n + 1
      BY <1>1, <2>1
    <3>2. QED
      BY <3>1, PartOf
  <2> HIDE DEF new, old, n
  <2>3. /\ SubSeq(new, first, n + 1) \in Seq(S) /\ Len(SubSeq(new, first, n + 1)) = (n + 1) + 1 - first
        /\ \A k \in 1 .. (n + 1) + 1 - first : SubSeq(new, first, n + 1)[k] = new[first + k - 1]
    BY <1>1, <2>1, PartOf
  <2>4. (n + 1) + 1 - first = n + 2 - first
    BY <1>1
  <2>5. QED
    BY <2>2, <2>3, <2>4
<1>4. SubSeq(new, first, last) = SubSeq(list, first, last)
  <2>1. \A k \in 1 .. last + 1 - first : SubSeq(new, first, last)[k] = SubSeq(list, first, last)[k]
    <3> HIDE DEF new
    <3>1. \A k \in 1 .. last + 1 - first : first + k - 1 \in 1 .. n
      BY <1>1
    <3>2. QED
      BY <1>1, <1>2, <3>1
  <2> DEFINE a == SubSeq(new, first, last)
             b == SubSeq(list, first, last)
  <2>2. Len(a) = Len(b) /\ a \in Seq(S) /\ b \in Seq(S) /\ \A k \in 1 .. Len(a) : a[k] = b[k]
    BY <1>2, <2>1
  <2> HIDE DEF a, b
  <2>3. a = b
    BY <2>2, SeqEqual
  <2>4. QED
    BY <2>3 DEF a, b
<1>5. SubSeq(new, first, n + 1) = Append(old, item)
  <2> DEFINE a == SubSeq(new, first, n + 1)
             b == Append(old, item)
  <2>1. /\ b \in Seq(S) /\ Len(b) = n + 2 - first
        /\ \A k \in 1 .. n + 1 - first : b[k] = list[first + k - 1]
        /\ b[n + 2 - first] = item
    <3>1. n + 1 - first + 1 = n + 2 - first
      BY <1>1
    <3> HIDE DEF old, n
    <3>2. /\ b \in Seq(S) /\ Len(b) = Len(old) + 1
          /\ \A k \in 1 .. Len(old) : b[k] = old[k]
          /\ b[Len(old) + 1] = item
      BY <1>3, AppendProperties
    <3> HIDE DEF b
    <3>3. QED
      BY <1>3, <3>1, <3>2
  <2>2. a \in Seq(S) /\ Len(a) = n + 2 - first
        /\ \A k \in 1 .. n + 2 - first : a[k] = new[first + k - 1]
    BY <1>3
  <2>3. ASSUME NEW k \in 1 .. n + 2 - first PROVE a[k] = b[k]
    <3> HIDE DEF a, b, new, n, old
    <3>1. CASE k = n + 2 - first
      <4>1. first + k - 1 = n + 1
        BY <1>1, <3>1
      <4>2. QED
        BY <1>1, <2>1, <2>2, <3>1, <4>1
    <3>2. CASE k # n + 2 - first
      <4>1. k \in 1 .. n + 1 - first /\ first + k - 1 \in 1 .. n
        <5>1. n \in Nat /\ first \in Nat /\ first >= 1 /\ k \in Int /\ 1 <= k /\ k <= n + 2 - first
          BY <1>1
        <5>2. k <= n + 1 - first
          BY <3>2, <5>1
        <5>3. QED
          BY <5>1, <5>2
      <4>2. QED
        BY <1>1, <2>1, <2>2, <4>1
    <3>3. QED
      BY <3>1, <3>2
  <2> HIDE DEF a, b, new, n, old
  <2>4. a = b
    BY <2>1, <2>2, <2>3, SeqEqual
  <2>5. QED
    BY <2>4 DEF a, b, new, n, old
<1>6. QED
  BY <1>4, <1>5

\* Where the segments end, within the steps there are.
LEMMA EndsWithin ==
    ASSUME SegmentsIInv, NEW i \in 0 .. Len(segments)
    PROVE  EndOf(segments, i) \in Nat /\ EndOf(segments, i) <= Len(reported)
<1>1. Len(segments) \in Nat /\ Len(reported) \in Nat /\ segments \in [1 .. Len(segments) -> Segments]
  BY LenProperties DEF SegmentsIInv
<1>2. CASE i = 0
  BY <1>1, <1>2 DEF EndOf
<1>3. CASE i # 0
  <2>1. i \in 1 .. Len(segments)
    BY <1>1, <1>3
  <2>2. segments[i].end \in Nat /\ segments[i].end <= Len(reported)
    BY <1>1, <2>1 DEF SegmentsIInv, SegmentTells, Segments
  <2>3. QED
    BY <1>3, <2>2 DEF EndOf
<1>4. QED
  BY <1>2, <1>3

LEMMA SegmentsBegin == SegmentsInit => SegmentsIInv
<1>1. SUFFICES ASSUME SegmentsInit PROVE SegmentsIInv
  OBVIOUS
<1>2. Len(<<>>) = 0 /\ <<>> \in Seq(Segments) /\ <<>> \in Seq(SegmentSteps)
  OBVIOUS
<1>3. SubSeq(<<>>, 1 + 0, 0) = <<>>
  OBVIOUS
<1>4. QED
  BY <1>1, <1>2, <1>3 DEF SegmentsInit, SegmentsIInv, EndOf

\* A step that is reported is the last of the open segment, which it may close.
LEMMA SegmentsStep == SegmentsIInv /\ [SegmentsNext]_segmentVars => SegmentsIInv'
<1>1. SUFFICES ASSUME SegmentsIInv, [SegmentsNext]_segmentVars PROVE SegmentsIInv'
  OBVIOUS
<1>2. CASE UNCHANGED segmentVars
  BY <1>1, <1>2 DEF SegmentsIInv, segmentVars
<1>3. CASE StepReported
  <2>1. PICK kind \in {"delegate", "tool_call", "finalize"} :
          LET step == [id |-> Len(reported) + 1, kind |-> kind]
              opened == Append(completedStepRecords, step) IN
          /\ reported' = Append(reported, step)
          /\ IF ShouldSegment(Len(opened))
             THEN /\ segments' = Append(segments, Checkpoint(opened, currentSegmentId))
                  /\ currentSegmentId' = Len(segments) + 1
                  /\ completedStepRecords' = <<>>
             ELSE /\ completedStepRecords' = opened
                  /\ UNCHANGED <<segments, currentSegmentId>>
    BY <1>3 DEF StepReported
  <2> DEFINE n == Len(reported)
             m == Len(segments)
             step == [id |-> n + 1, kind |-> kind]
             opened == Append(completedStepRecords, step)
             first == 1 + EndOf(segments, m)
             steps == Append(reported, step)
             closed == Checkpoint(opened, currentSegmentId)
             longer == Append(segments, closed)
  <2>2. /\ n \in Nat /\ m \in Nat /\ segments \in Seq(Segments) /\ reported \in Seq(SegmentSteps)
        /\ step \in SegmentSteps /\ segments \in [1 .. m -> Segments]
    BY <1>1, LenProperties DEF SegmentsIInv, SegmentSteps
  <2>3. first \in Nat \ {0} /\ first <= n + 1 /\ completedStepRecords = SubSeq(reported, first, n)
    <3>1. EndOf(segments, m) \in Nat /\ EndOf(segments, m) <= n
      BY <1>1, <2>2, EndsWithin
    <3>2. QED
      BY <1>1, <2>2, <3>1 DEF SegmentsIInv
  <2>4. /\ steps \in Seq(SegmentSteps) /\ Len(steps) = n + 1
        /\ \A i \in 1 .. n : steps[i] = reported[i]
        /\ steps[n + 1] = step
    BY <2>2, AppendProperties
  <2>5. \A i \in 1 .. n + 1 : steps[i].id = i
    <3>1. ASSUME NEW i \in 1 .. n + 1 PROVE steps[i].id = i
      <4> HIDE DEF steps
      <4>1. CASE i \in 1 .. n
        BY <1>1, <2>4, <4>1 DEF SegmentsIInv
      <4>2. CASE i = n + 1
        BY <2>4, <4>2
      <4>3. QED
        BY <2>2, <4>1, <4>2
    <3>2. QED
      BY <3>1
  <2>6. opened = SubSeq(steps, first, n + 1)
    <3> HIDE DEF first, n, step
    <3>1. n <= Len(reported) /\ n = Len(reported)
      BY <2>2 DEF n
    <3>2. QED
      BY <2>2, <2>3, <3>1, PartsGrow
  <2>7. ASSUME NEW i \in 1 .. m PROVE SegmentTells(segments, steps, i)
    <3>1. SegmentTells(segments, reported, i)
      BY <1>1 DEF SegmentsIInv
    <3> DEFINE start == segments[i].start
               end == segments[i].end
    <3>2. start \in Nat \ {0} /\ end \in Nat /\ start <= end + 1 /\ end <= n
      <4>1. i - 1 \in 0 .. m
        BY <2>2
      <4>4. start \in Nat /\ end \in Nat
        <5>1. segments[i] \in Segments
          BY <2>2
        <5>2. QED
          BY <5>1 DEF Segments
      <4>2. EndOf(segments, i - 1) \in Nat
        BY <1>1, <4>1, EndsWithin
      <4>3. QED
        BY <2>2, <3>1, <4>2, <4>4 DEF SegmentTells
    <3>3. SubSeq(steps, start, end) = SubSeq(reported, start, end)
      <4> HIDE DEF start, end
      <4>1. QED
        BY <2>2, <3>2, PartsGrow
    <3>4. end <= Len(steps)
      BY <2>2, <2>4, <3>2
    <3> HIDE DEF steps
    <3>5. QED
      BY <3>1, <3>3, <3>4 DEF SegmentTells
  <2>8. CASE ShouldSegment(Len(opened))
    <3>1. /\ segments' = longer /\ currentSegmentId' = m + 1
          /\ completedStepRecords' = <<>> /\ reported' = steps
      BY <2>1, <2>8
    <3>2. /\ opened \in Seq(SegmentSteps) /\ Len(opened) = n + 2 - first
          /\ \A k \in 1 .. n + 2 - first : opened[k] = steps[first + k - 1]
      <4> HIDE DEF opened, steps, first, n
      <4>1. n + 1 \in Nat /\ first <= (n + 1) + 1 /\ n + 1 <= Len(steps) /\ (n + 1) + 1 - first = n + 2 - first
        BY <2>2, <2>3, <2>4
      <4>2. /\ opened \in Seq(SegmentSteps) /\ Len(opened) = (n + 1) + 1 - first
            /\ \A k \in 1 .. (n + 1) + 1 - first : opened[k] = steps[first + k - 1]
        BY <2>3, <2>4, <2>6, <4>1, PartOf
      <4>3. QED
        BY <4>1, <4>2
    <3>3. Len(opened) \in Nat \ {0} /\ Head(opened).id = first /\ Last(opened).id = n + 1
      <4> HIDE DEF opened, steps, first, n
      <4>1. 1 \in 1 .. n + 2 - first /\ n + 2 - first \in 1 .. n + 2 - first
        BY <2>2, <2>3
      <4>2. opened[1] = steps[first] /\ opened[n + 2 - first] = steps[n + 1]
        BY <2>2, <2>3, <3>2, <4>1
      <4>3. first \in 1 .. n + 1 /\ n + 1 \in 1 .. n + 1
        BY <2>2, <2>3
      <4>4. Head(opened) = opened[1] /\ Last(opened) = opened[n + 2 - first]
        BY <3>2, <4>1 DEF Last
      <4>5. QED
        BY <2>2, <2>3, <2>5, <3>2, <4>2, <4>3, <4>4
    <3>4. closed = [id |-> m + 1, index |-> m, parent |-> m, start |-> first, end |-> n + 1,
                    count |-> n + 2 - first, summary |-> SummarizeSegment(opened)]
      <4>1. currentSegmentId = m
        BY <1>1 DEF SegmentsIInv
      <4> HIDE DEF opened, first, n, m
      <4>2. closed = [id |-> Len(segments) + 1, index |-> Len(segments), parent |-> currentSegmentId,
                      start |-> Head(opened).id, end |-> Last(opened).id, count |-> Len(opened),
                      summary |-> SummarizeSegment(opened)]
        BY DEF Checkpoint
      <4>3. Len(segments) = m
        BY DEF m
      <4> HIDE DEF closed
      <4>4. QED
        BY <3>2, <3>3, <4>1, <4>2, <4>3
    <3>5. closed \in Segments
      <4>1. SummarizeSegment(opened) \in Seq(SegmentSteps)
        BY <3>2, SummaryTells
      <4>2. n + 2 - first \in Nat
        <5> HIDE DEF first, n
        <5>1. QED
          BY <2>2, <2>3
      <4> HIDE DEF closed, opened, first, n, m
      <4>3. QED
        BY <2>2, <2>3, <3>4, <4>1, <4>2 DEF Segments
    <3>6. /\ longer \in Seq(Segments) /\ Len(longer) = m + 1
          /\ \A i \in 1 .. m : longer[i] = segments[i]
          /\ longer[m + 1] = closed
      <4> HIDE DEF closed
      <4>1. QED
        BY <2>2, <3>5, AppendProperties
    <3>7. \A i \in 0 .. m : EndOf(longer, i) = EndOf(segments, i)
      <4> HIDE DEF longer
      <4>1. QED
        BY <2>2, <3>6 DEF EndOf
    <3>8. ASSUME NEW i \in 1 .. m + 1 PROVE SegmentTells(longer, steps, i)
      <4>1. CASE i \in 1 .. m
        <5>1. i - 1 \in 0 .. m
          BY <2>2, <4>1
        <5> HIDE DEF longer, steps, m
        <5>2. QED
          BY <2>7, <3>6, <3>7, <4>1, <5>1 DEF SegmentTells
      <4>2. CASE i = m + 1
        <5>1. i - 1 \in 0 .. m /\ i - 1 = m
          BY <2>2, <4>2
        <5>2. EndOf(longer, i - 1) = EndOf(segments, m) /\ first = 1 + EndOf(segments, m)
          BY <3>7, <5>1
        <5>3. longer[i] = closed
          BY <3>6, <4>2
        <5> HIDE DEF longer, closed, steps, m, first, opened, n
        <5>4. /\ closed.index = i - 1 /\ closed.parent = i - 1 /\ closed.start = first
              /\ closed.end = n + 1 /\ closed.count = n + 2 - first
              /\ closed.summary = SummarizeSegment(SubSeq(steps, first, n + 1))
          BY <2>6, <3>4, <5>1
        <5>5. closed.start <= closed.end /\ closed.count = closed.end + 1 - closed.start
          BY <2>2, <2>3, <5>4
        <5>6. QED
          BY <2>2, <2>4, <5>2, <5>3, <5>4, <5>5 DEF SegmentTells
      <4>3. QED
        BY <2>2, <4>1, <4>2
    <3>9. SubSeq(steps, 1 + EndOf(longer, m + 1), n + 1) = <<>>
      <4> HIDE DEF longer, closed, steps, m, first, opened, n
      <4>1. EndOf(longer, m + 1) = n + 1
        BY <2>2, <3>4, <3>6 DEF EndOf
      <4>2. 1 + (n + 1) \in Int /\ n + 1 \in Int /\ n + 1 < 1 + (n + 1)
        BY <2>2
      <4>3. QED
        BY <4>1, <4>2, SubSeqEmpty
    <3> HIDE DEF longer, closed, steps, m, first, opened, n
    <3>10. QED
      BY <2>4, <2>5, <3>1, <3>6, <3>8, <3>9 DEF SegmentsIInv
  <2>9. CASE ~ShouldSegment(Len(opened))
    <3>1. /\ segments' = segments /\ currentSegmentId' = currentSegmentId
          /\ completedStepRecords' = opened /\ reported' = steps
      BY <2>1, <2>9
    <3>2. /\ segments \in Seq(Segments) /\ currentSegmentId = Len(segments) /\ m = Len(segments)
          /\ first = 1 + EndOf(segments, Len(segments))
      BY <1>1 DEF SegmentsIInv
    <3> HIDE DEF steps, m, first, opened, n
    <3>3. QED
      BY <2>4, <2>5, <2>6, <2>7, <3>1, <3>2 DEF SegmentsIInv
  <2>10. QED
    BY <2>8, <2>9
<1>4. QED
  BY <1>1, <1>2, <1>3 DEF SegmentsNext

\* The chain of the segments is the segments, and each tells of the steps it has.
LEMMA SegmentsTell == SegmentsIInv => SegmentsTellTheRun
<1>1. SUFFICES ASSUME SegmentsIInv PROVE SegmentsTellTheRun
  OBVIOUS
<1> DEFINE m == Len(segments)
           n == Len(reported)
           chain == SegmentChain
<1>2. /\ m \in Nat /\ n \in Nat /\ segments \in [1 .. m -> Segments] /\ DOMAIN segments = 1 .. m
      /\ reported \in Seq(SegmentSteps) /\ segments \in Seq(Segments)
      /\ \A i \in 1 .. m : SegmentTells(segments, reported, i)
  BY <1>1, LenProperties DEF SegmentsIInv
<1>3. chain = segments
  <2> DEFINE key == [i \in DOMAIN segments |-> segments[i].index]
  <2>1. key \in [1 .. m -> Nat]
    BY <1>2 DEF Segments
  <2>2. \A i \in 1 .. m : key[i] = i - 1
    BY <1>2 DEF SegmentTells
  <2> HIDE DEF m
  <2>3. \A i, j \in 1 .. m : i < j => key[i] < key[j]
    <3> HIDE DEF key
    <3>1. QED
      BY <1>2, <2>2
  <2>4. chain = SortedBy(segments, key)
    BY DEF SegmentChain
  <2> HIDE DEF key, chain
  <2>5. SortedBy(segments, key) = [k \in 1 .. m |-> segments[k]]
    <3>1. m \in Nat /\ DOMAIN segments = 1 .. m
      BY <1>2
    <3>2. QED
      BY <2>1, <2>3, <3>1, SortKeeps
  <2>6. segments = [k \in 1 .. m |-> segments[k]]
    BY <1>2
  <2>7. QED
    BY <2>4, <2>5, <2>6
<1>4. ASSUME NEW i \in 1 .. m
      PROVE  LET segment == segments[i]
                 steps == SubSeq(reported, segment.start, segment.end)
                 omitted == ToSet(steps) \ ToSet(segment.summary) IN
             /\ segment.start = 1 + (IF segment.parent = 0 THEN 0
                                     ELSE segments[segment.parent].end)
             /\ (segment.parent = 0) <=> (i = 1)
             /\ Len(steps) = segment.count /\ ToSet(segment.summary) \subseteq ToSet(steps)
             /\ (\E step \in omitted : IsKey(step)) =>
                  Len(segment.summary) = MaxSummarySteps /\ \A step \in ToSet(segment.summary) : IsKey(step)
  <2> DEFINE segment == segments[i]
             steps == SubSeq(reported, segment.start, segment.end)
  <2>1. SegmentTells(segments, reported, i) /\ segment \in Segments
    BY <1>2
  <2>2. /\ segment.parent = i - 1 /\ segment.start = 1 + EndOf(segments, i - 1)
        /\ segment.start <= segment.end /\ segment.end <= n
        /\ segment.count = segment.end + 1 - segment.start
        /\ segment.summary = SummarizeSegment(steps)
        /\ segment.start \in Nat /\ segment.end \in Nat
    BY <2>1 DEF SegmentTells, Segments
  <2>3. EndOf(segments, i - 1) \in Nat
    BY <1>1, <1>2, EndsWithin
  <2>4. segment.start = 1 + (IF segment.parent = 0 THEN 0 ELSE segments[segment.parent].end)
    BY <2>2 DEF EndOf
  <2>5. (segment.parent = 0) <=> (i = 1)
    BY <2>2
  <2>6. steps \in Seq(SegmentSteps) /\ Len(steps) = segment.count
    <3>1. segment.start \in Nat \ {0} /\ segment.start <= segment.end + 1
      BY <2>2, <2>3
    <3> HIDE DEF segment
    <3>2. QED
      BY <1>2, <2>2, <3>1, PartOf
  <2>7. SummaryFits(segment.summary, steps)
    <3> HIDE DEF steps
    <3>1. QED
      BY <2>2, <2>6, SummaryTells
  <2>8. QED
    BY <2>4, <2>5, <2>6, <2>7 DEF SummaryFits
<1>5. completedStepRecords =
        SubSeq(reported, 1 + (IF segments = <<>> THEN 0 ELSE Last(segments).end), Len(reported))
  <2>1. completedStepRecords = SubSeq(reported, 1 + EndOf(segments, m), n)
    BY <1>1 DEF SegmentsIInv
  <2>2. m = 0 <=> segments = <<>>
    BY <1>2
  <2>3. EndOf(segments, m) = IF segments = <<>> THEN 0 ELSE Last(segments).end
    BY <2>2 DEF EndOf, Last
  <2>4. QED
    BY <2>1, <2>3
<1> HIDE DEF chain
<1>6. QED
  BY <1>2, <1>3, <1>4, <1>5 DEF SegmentsTellTheRun, chain

\* The segments of a run and the open one split its steps, each with the steps, the link
\* and the summary it should have, however long the run and its segments are (SegmentsSpec).
THEOREM SegmentsTold == SegmentsSpec => []SegmentsTellTheRun
<1>1. SegmentsSpec => []SegmentsIInv
  BY SegmentsBegin, SegmentsStep, PTL DEF SegmentsSpec
<1>2. QED
  BY <1>1, SegmentsTell, PTL

-----------------------------------------------------------------------------
(* Perception.  The rules decide by the first that matches, so what is shown of   *)
(* them is their order; the rest carries the worst of some readings over to the  *)
(* event and the beliefs that are made of them.                                 *)
DataSources == {"docker", "k8s", "redis", "mysql", "prometheus"}
Severities == {"info", "warning", "critical"}

\* Only the cluster rates what it reads itself.
IsSignal(signal) ==
    /\ signal = [source |-> signal.source, metric |-> signal.metric, value |-> signal.value,
                 severity |-> signal.severity]
    /\ signal.severity \in Severities
    /\ signal.source # "k8s" => signal.severity = "info"

IsRule(i, source, metric, severity) ==
    /\ DefaultRules[i].source = source /\ DefaultRules[i].metric = metric
    /\ DefaultRules[i].severity = severity

\* A rule before another one about the same metric is as severe, and none is about
\* what the cluster rates.
LEMMA RulesInOrder ==
    /\ DOMAIN DefaultRules \subseteq Nat
    /\ \A i \in DOMAIN DefaultRules :
         /\ DefaultRules[i].source # "k8s" /\ DefaultRules[i].severity \in Severities
         /\ \A j \in DOMAIN DefaultRules :
              /\ i < j
              /\ DefaultRules[i].source = DefaultRules[j].source
              /\ DefaultRules[i].metric = DefaultRules[j].metric
              => Rank(DefaultRules[j].severity) <= Rank(DefaultRules[i].severity)
<1> DEFINE rules == DefaultRules
<1>1. DOMAIN rules = 1 .. 14
  BY DEF DefaultRules
<1>2. /\ IsRule(1, "docker", "container_status", "critical")
      /\ IsRule(2, "docker", "container_status", "warning")
      /\ IsRule(3, "docker", "cpu_percent", "warning")
      /\ IsRule(4, "docker", "memory_percent", "warning")
      /\ IsRule(5, "redis", "memory_usage_percent", "critical")
      /\ IsRule(6, "redis", "memory_usage_percent", "warning")
      /\ IsRule(7, "redis", "connection_status", "critical")
      /\ IsRule(8, "redis", "keyspace_hit_rate", "warning")
      /\ IsRule(9, "mysql", "slow_queries", "warning")
      /\ IsRule(10, "mysql", "connection_status", "critical")
      /\ IsRule(11, "mysql", "threads_connected", "warning")
      /\ IsRule(12, "prometheus", "error_rate", "critical")
      /\ IsRule(13, "prometheus", "error_rate", "warning")
      /\ IsRule(14, "prometheus", "token_usage_rate", "warning")
  BY DEF DefaultRules, Rule, IsRule
<1> HIDE DEF rules
<1>3. \A i \in 1 .. 14 : i \in {1, 2, 3, 4, 5, 6, 7, 8, 9, 10, 11, 12, 13, 14}
  OBVIOUS
<1>4. ASSUME NEW i \in 1 .. 14
      PROVE  rules[i].source # "k8s" /\ rules[i].severity \in Severities
  BY <1>2, <1>3 DEF IsRule, Severities, rules
<1>5. \A i \in 1 .. 14 : rules[i].severity = "critical" <=> i \in {1, 5, 7, 10, 12}
  BY <1>2, <1>3 DEF IsRule, rules
<1>6. /\ rules[1].metric = "container_status" /\ rules[1].source = "docker"
      /\ rules[5].metric = "memory_usage_percent" /\ rules[7].metric = "connection_status"
      /\ rules[7].source = "redis" /\ rules[10].metric = "connection_status"
      /\ rules[10].source = "mysql" /\ rules[12].metric = "error_rate"
  BY <1>2 DEF IsRule, rules
<1>7. ASSUME NEW i \in 1 .. 14
      PROVE  /\ (rules[i].metric = "container_status") => (i \in {1, 2})
             /\ (rules[i].metric = "memory_usage_percent") => (i \in {5, 6})
             /\ (rules[i].metric = "connection_status" /\ rules[i].source = "redis") => (i = 7)
             /\ (rules[i].metric = "connection_status" /\ rules[i].source = "mysql") => (i = 10)
             /\ (rules[i].metric = "error_rate") => (i \in {12, 13})
  BY <1>2, <1>3 DEF IsRule, rules
<1>8. ASSUME NEW i \in 1 .. 14, NEW j \in 1 .. 14, i < j,
             rules[i].source = rules[j].source, rules[i].metric = rules[j].metric
      PROVE  rules[j].severity # "critical"
  <2>1. SUFFICES ASSUME j \in {1, 5, 7, 10, 12} PROVE FALSE
    BY <1>5
  <2>2. CASE j = 1
    BY <1>8, <2>2
  <2>3. CASE j = 5
    <3>1. i \in {5, 6}
      BY <1>6, <1>7, <1>8, <2>3
    <3>2. QED
      BY <1>8, <2>3, <3>1
  <2>4. CASE j = 7
    <3>1. i = 7
      BY <1>6, <1>7, <1>8, <2>4
    <3>2. QED
      BY <1>8, <2>4, <3>1
  <2>5. CASE j = 10
    <3>1. i = 10
      BY <1>6, <1>7, <1>8, <2>5
    <3>2. QED
      BY <1>8, <2>5, <3>1
  <2>6. CASE j = 12
    <3>1. i \in {12, 13}
      BY <1>6, <1>7, <1>8, <2>6
    <3>2. QED
      BY <1>8, <2>6, <3>1
  <2>7. QED
    BY <2>1, <2>2, <2>3, <2>4, <2>5, <2>6
<1>9. ASSUME NEW i \in 1 .. 14, NEW j \in 1 .. 14, i < j,
             rules[i].source = rules[j].source, rules[i].metric = rules[j].metric
      PROVE  Rank(rules[j].severity) <= Rank(rules[i].severity)
  <2>1. rules[j].severity \in {"warning", "info"}
    BY <1>4, <1>8, <1>9 DEF Severities
  <2>2. rules[j].severity = "info" \/ rules[i].severity \in {"warning", "critical"}
    BY <1>2, <1>3 DEF IsRule, rules
  <2>3. QED
    BY <2>1, <2>2 DEF Rank
<1>10. QED
  BY <1>1, <1>4, <1>9 DEF rules

\* The greatest of some numbers.
LEMMA Greatest ==
    ASSUME NEW S \in SUBSET Nat, NEW m \in S, \A i \in S : i <= m
    PROVE  Max(S) = m
<1>1. m \in Nat /\ \A i \in S : i \in Nat /\ m >= i
  OBVIOUS
<1>2. \A k \in S : (\A i \in S : k >= i) => k = m
  BY <1>1
<1>3. QED
  BY <1>1, <1>2 DEF Max

\* A signal is rated by the first rule that matches, which no other outdoes.
LEMMA FilterTellsTheWorst ==
    ASSUME NEW signal, IsSignal(signal)
    PROVE  Filter(signal).severity \in Severities /\ Rank(Filter(signal).severity) = Worst(signal)
<1> DEFINE matching == {i \in DOMAIN DefaultRules : Matches(DefaultRules[i], signal)}
           ranks == {Rank(signal.severity)}
             \cup {Rank(rule.severity) : rule \in {r \in ToSet(DefaultRules) : Matches(r, signal)}}
<1>1. ranks = {Rank(signal.severity)} \cup {Rank(DefaultRules[i].severity) : i \in matching}
  BY DEF ToSet
<1>2. Worst(signal) = Max(ranks)
  BY DEF Worst
<1> HIDE DEF ranks
<1>3. \A severity : Rank(severity) \in Nat
  BY DEF Rank
<1>4. ranks \in SUBSET Nat
  BY <1>1, <1>3
<1>5. CASE matching = {}
  <2>1. Filter(signal) = signal
    BY <1>5 DEF Filter
  <2>2. ranks = {Rank(signal.severity)}
    BY <1>1, <1>5
  <2>3. Max(ranks) = Rank(signal.severity)
    BY <1>3, <1>4, <2>2, Greatest
  <2>4. QED
    BY <1>2, <2>1, <2>3 DEF IsSignal
<1>6. CASE matching # {}
  <2> DEFINE first == Min(matching)
             severity == DefaultRules[first].severity
  <2>1. matching \in SUBSET Nat
    BY RulesInOrder
  <2>2. first \in matching /\ \A i \in matching : first <= i
    BY <1>6, <2>1, Smallest
  <2>3. Filter(signal) = [signal EXCEPT !.severity = severity]
    BY <1>6 DEF Filter
  <2> HIDE DEF first
  <2>4. first \in DOMAIN DefaultRules /\ Matches(DefaultRules[first], signal)
    BY <2>2
  <2>5. severity \in Severities /\ signal.source # "k8s"
    BY <2>4, RulesInOrder DEF Matches
  <2>6. signal.severity = "info"
    BY <2>5 DEF IsSignal
  <2>7. ASSUME NEW i \in matching PROVE Rank(DefaultRules[i].severity) <= Rank(severity)
    <3>1. /\ i \in DOMAIN DefaultRules /\ i \in Nat /\ first \in Nat /\ first <= i
          /\ DefaultRules[i].source = DefaultRules[first].source
          /\ DefaultRules[i].metric = DefaultRules[first].metric
      BY <2>1, <2>2, <2>4 DEF Matches
    <3>2. CASE first < i
      BY <2>4, <3>1, <3>2, RulesInOrder
    <3>3. CASE first = i
      BY <1>3, <3>3
    <3>4. QED
      BY <3>1, <3>2, <3>3
  <2>8. Rank(severity) \in ranks /\ \A rank \in ranks : rank <= Rank(severity)
    <3>1. Rank("info") = 0
      BY DEF Rank
    <3>2. QED
      BY <1>1, <1>3, <2>2, <2>6, <2>7, <3>1
  <2>9. Max(ranks) = Rank(severity)
    BY <1>4, <2>8, Greatest
  <2>10. Filter(signal).severity = severity
    BY <2>3 DEF IsSignal
  <2>11. QED
    BY <1>2, <2>5, <2>9, <2>10
<1>7. QED
  BY <1>5, <1>6

-----------------------------------------------------------------------------
\* What the sources report are signals.
Metrics == {"connection_status", "container_status", "cpu_percent", "memory_percent", "restart_count",
            "pod_health", "memory_usage_percent", "keyspace_hit_rate", "slow_queries",
            "threads_connected", "error_rate", "token_usage_rate"}
Values == {"fine", "unavailable", "available", "exited", "dead", "restarting", "Failed", "Pending",
           "waiting", "terminated", "healthy", "> 90", "> 85", "> 80", "> 60", "< 0.5", "> 10", "> 3",
           "> 100", "> 0.1", "> 0.05", "> 100000"}
Signals ==
    {signal \in [source : DataSources, metric : Metrics, value : Values, severity : Severities] :
        signal.source # "k8s" => signal.severity = "info"}

LEMMA SignalsAreSignals == \A signal \in Signals : IsSignal(signal)
BY DEF Signals, IsSignal

LEMMA OneItem == ASSUME NEW S, NEW item \in S PROVE <<item>> \in Seq(S)
OBVIOUS

LEMMA NoItem == ASSUME NEW S PROVE <<>> \in Seq(S)
OBVIOUS

LEMMA Joined ==
    ASSUME NEW S, NEW first \in SUBSET Seq(S), NEW second \in SUBSET Seq(S)
    PROVE  Both(first, second) \in SUBSET Seq(S)
<1>1. ASSUME NEW a \in first, NEW b \in second PROVE a \o b \in Seq(S)
  <2>1. a \in Seq(S) /\ b \in Seq(S)
    OBVIOUS
  <2>2. QED
    BY <2>1, ConcatProperties
<1>2. ASSUME NEW list \in Both(first, second) PROVE list \in Seq(S)
  <2>1. PICK a \in first, b \in second : list = a \o b
    BY DEF Both
  <2>2. QED
    BY <1>1, <2>1
<1>3. QED
  BY <1>2

LEMMA SignalIsOne ==
    ASSUME NEW source \in DataSources, NEW metric \in Metrics, NEW value \in Values,
           NEW severity \in Severities, source # "k8s" => severity = "info"
    PROVE  <<Signal(source, metric, value, severity)>> \in Seq(Signals)
<1>1. Signal(source, metric, value, severity) \in Signals
  BY DEF Signal, Signals
<1>2. QED
  BY <1>1, OneItem

LEMMA ReadSignals ==
    ASSUME NEW source \in DataSources, NEW metric \in Metrics,
           NEW values \in SUBSET (Values \cup {"absent"})
    PROVE  Read(source, metric, values) \in SUBSET Seq(Signals)
<1>1. ASSUME NEW v \in values
      PROVE  (IF v = "absent" THEN <<>> ELSE <<Signal(source, metric, v, "info")>>) \in Seq(Signals)
  <2>1. CASE v = "absent"
    BY <2>1, NoItem
  <2>2. CASE v # "absent"
    <3>1. v \in Values /\ "info" \in Severities
      BY <2>2 DEF Severities
    <3>2. QED
      BY <2>2, <3>1, SignalIsOne
  <2>3. QED
    BY <2>1, <2>2
<1>2. QED
  BY <1>1 DEF Read

LEMMA K8sSignals == K8sReadings \in SUBSET Seq(Signals)
<1> DEFINE phases == {<<>>, <<Signal("k8s", "container_status", "Failed", "critical")>>,
                      <<Signal("k8s", "container_status", "Pending", "warning")>>}
           restarts == {<<>>, <<Signal("k8s", "restart_count", "> 3", "warning")>>,
                        <<Signal("k8s", "restart_count", "> 10", "critical")>>}
           states == {<<>>, <<Signal("k8s", "container_status", "waiting", "warning")>>,
                      <<Signal("k8s", "container_status", "terminated", "critical")>>}
           Health(p, s) == IF p = <<>> /\ s = <<>>
                           THEN <<Signal("k8s", "pod_health", "healthy", "info")>> ELSE <<>>
<1>1. /\ "k8s" \in DataSources
      /\ {"container_status", "restart_count", "pod_health"} \subseteq Metrics
      /\ {"Failed", "Pending", "> 3", "> 10", "waiting", "terminated", "healthy"} \subseteq Values
      /\ {"info", "warning", "critical"} \subseteq Severities
  BY DEF DataSources, Metrics, Values, Severities
<1>2. /\ <<Signal("k8s", "container_status", "Failed", "critical")>> \in Seq(Signals)
      /\ <<Signal("k8s", "container_status", "Pending", "warning")>> \in Seq(Signals)
      /\ <<Signal("k8s", "restart_count", "> 3", "warning")>> \in Seq(Signals)
      /\ <<Signal("k8s", "restart_count", "> 10", "critical")>> \in Seq(Signals)
      /\ <<Signal("k8s", "container_status", "waiting", "warning")>> \in Seq(Signals)
      /\ <<Signal("k8s", "container_status", "terminated", "critical")>> \in Seq(Signals)
      /\ <<Signal("k8s", "pod_health", "healthy", "info")>> \in Seq(Signals)
  BY <1>1, SignalIsOne
<1>3. <<>> \in Seq(Signals)
  BY NoItem
<1>4. /\ phases \in SUBSET Seq(Signals) /\ restarts \in SUBSET Seq(Signals)
      /\ states \in SUBSET Seq(Signals)
  BY <1>2, <1>3
<1>5. \A p, s : Health(p, s) \in Seq(Signals)
  BY <1>2, <1>3
<1>6. K8sReadings = {p \o r \o s \o Health(p, s) : p \in phases, r \in restarts, s \in states}
  BY DEF K8sReadings
<1> HIDE DEF phases, restarts, states, Health
<1>7. ASSUME NEW p \in phases, NEW r \in restarts, NEW s \in states
      PROVE  p \o r \o s \o Health(p, s) \in Seq(Signals)
  <2>1. p \o r \in Seq(Signals)
    BY <1>4, ConcatProperties
  <2>2. p \o r \o s \in Seq(Signals)
    BY <1>4, <2>1, ConcatProperties
  <2>3. QED
    BY <1>5, <2>2, ConcatProperties
<1>8. ASSUME NEW list \in K8sReadings PROVE list \in Seq(Signals)
  <2>1. PICK p \in phases, r \in restarts, s \in states : list = p \o r \o s \o Health(p, s)
    BY <1>6
  <2>2. QED
    BY <1>7, <2>1
<1>9. QED
  BY <1>8

LEMMA CollectedSignals ==
    ASSUME NEW source \in DataSources
    PROVE  Collected(source) \in SUBSET Seq(Signals)
<1>1. /\ {"docker", "k8s", "redis", "mysql", "prometheus"} \subseteq DataSources
      /\ {"connection_status", "container_status", "cpu_percent", "memory_percent",
          "memory_usage_percent", "keyspace_hit_rate", "slow_queries", "threads_connected",
          "error_rate", "token_usage_rate"} \subseteq Metrics
  BY DEF DataSources, Metrics
<1>2. /\ {"unavailable"} \in SUBSET (Values \cup {"absent"})
      /\ {"available"} \in SUBSET (Values \cup {"absent"})
      /\ {"exited", "dead", "restarting"} \in SUBSET (Values \cup {"absent"})
      /\ {"fine"} \in SUBSET (Values \cup {"absent"})
      /\ {"absent", "fine", "> 90"} \in SUBSET (Values \cup {"absent"})
      /\ {"absent", "fine", "> 85"} \in SUBSET (Values \cup {"absent"})
      /\ {"fine", "> 60", "> 80"} \in SUBSET (Values \cup {"absent"})
      /\ {"fine", "< 0.5"} \in SUBSET (Values \cup {"absent"})
      /\ {"fine", "> 10"} \in SUBSET (Values \cup {"absent"})
      /\ {"fine", "> 100"} \in SUBSET (Values \cup {"absent"})
      /\ {"fine", "> 0.05", "> 0.1"} \in SUBSET (Values \cup {"absent"})
      /\ {"absent", "fine", "> 100000"} \in SUBSET (Values \cup {"absent"})
  BY DEF Values
<1>3. DockerReadings \in SUBSET Seq(Signals)
  <2>1. /\ Read("docker", "container_status", {"exited", "dead", "restarting"}) \in SUBSET Seq(Signals)
        /\ Read("docker", "container_status", {"fine"}) \in SUBSET Seq(Signals)
        /\ Read("docker", "cpu_percent", {"absent", "fine", "> 90"}) \in SUBSET Seq(Signals)
        /\ Read("docker", "memory_percent", {"absent", "fine", "> 85"}) \in SUBSET Seq(Signals)
    BY <1>1, <1>2, ReadSignals
  <2>2. QED
    BY <2>1, Joined DEF DockerReadings
<1>4. RedisReadings \in SUBSET Seq(Signals)
  <2>1. /\ Read("redis", "connection_status", {"available"}) \in SUBSET Seq(Signals)
        /\ Read("redis", "memory_usage_percent", {"fine", "> 60", "> 80"}) \in SUBSET Seq(Signals)
        /\ Read("redis", "keyspace_hit_rate", {"fine", "< 0.5"}) \in SUBSET Seq(Signals)
    BY <1>1, <1>2, ReadSignals
  <2>2. QED
    BY <2>1, Joined DEF RedisReadings
<1>5. MySQLReadings \in SUBSET Seq(Signals)
  <2>1. /\ Read("mysql", "connection_status", {"available"}) \in SUBSET Seq(Signals)
        /\ Read("mysql", "slow_queries", {"fine", "> 10"}) \in SUBSET Seq(Signals)
        /\ Read("mysql", "threads_connected", {"fine", "> 100"}) \in SUBSET Seq(Signals)
    BY <1>1, <1>2, ReadSignals
  <2>2. QED
    BY <2>1, Joined DEF MySQLReadings
<1>6. PrometheusReadings \in SUBSET Seq(Signals)
  <2>1. /\ Read("prometheus", "connection_status", {"available"}) \in SUBSET Seq(Signals)
        /\ Read("prometheus", "error_rate", {"fine", "> 0.05", "> 0.1"}) \in SUBSET Seq(Signals)
        /\ Read("prometheus", "token_usage_rate", {"absent", "fine", "> 100000"}) \in SUBSET Seq(Signals)
    BY <1>1, <1>2, ReadSignals
  <2>2. QED
    BY <2>1, Joined DEF PrometheusReadings
<1>7. Read(source, "connection_status", {"unavailable"}) \in SUBSET Seq(Signals)
  BY <1>1, <1>2, ReadSignals
<1>8. QED
  BY <1>3, <1>4, <1>5, <1>6, <1>7, K8sSignals DEF Collected, DataSources

LEMMA SourcesAreKnown == \A m : SourcesOf(m) \in Seq(DataSources)
<1>1. \A S : \A a, b, c, d \in S : <<a, b, c, d>> \in Seq(S) /\ <<a, b>> \in Seq(S) /\ <<a>> \in Seq(S)
  OBVIOUS
<1>2. {"docker", "k8s", "redis", "mysql", "prometheus"} \subseteq DataSources
  BY DEF DataSources
<1>3. /\ <<"docker", "redis", "mysql", "prometheus">> \in Seq(DataSources)
      /\ <<"k8s", "redis", "mysql", "prometheus">> \in Seq(DataSources)
      /\ <<"mysql", "prometheus">> \in Seq(DataSources) /\ <<"prometheus">> \in Seq(DataSources)
  BY <1>1, <1>2
<1>4. QED
  BY <1>3 DEF SourcesOf

-----------------------------------------------------------------------------
\* What is escalated, or believed, is as bad as the worst that was read.
PerceptionIInv ==
    /\ left \in Seq(DataSources) /\ readings \in Seq(Signals)
    /\ left # <<>> => event = "open"
    /\ EventTellsTheWorst

\* Of numbers up to two there is a greatest.
LEMMA UpToTwo ==
    ASSUME NEW S \in SUBSET {0, 1, 2}, S # {}
    PROVE  \E m \in S : \A i \in S : i <= m
<1>1. CASE 2 \in S
  BY <1>1
<1>2. CASE 2 \notin S /\ 1 \in S
  BY <1>2
<1>3. CASE 2 \notin S /\ 1 \notin S
  <2>1. PICK m \in S : TRUE
    OBVIOUS
  <2>2. \A i \in S : i = 0
    BY <1>3
  <2>3. m <= m /\ \A i \in S : i <= m
    BY <2>2
  <2>4. QED
    BY <2>3
<1>4. QED
  BY <1>1, <1>2, <1>3

LEMMA PerceptionInitHolds == PerceptionInit => PerceptionIInv
<1> SUFFICES ASSUME PerceptionInit PROVE PerceptionIInv
  OBVIOUS
<1>1. left \in Seq(DataSources) /\ readings \in Seq(Signals)
  BY NoItem DEF PerceptionInit
<1>2. {0} \cup {Worst(signal) : signal \in ToSet(readings)} = {0}
  BY DEF PerceptionInit, ToSet
<1>3. Max({0}) = 0
  BY Greatest
<1>4. Rank(event) = 0 /\ believed = <<>>
  BY DEF PerceptionInit, Rank
<1>5. EventTellsTheWorst
  BY <1>2, <1>3, <1>4 DEF EventTellsTheWorst
<1>6. QED
  BY <1>1, <1>5 DEF PerceptionInit, PerceptionIInv

\* The rated signals, their event and their beliefs.
LEMMA RatedTellTheWorst ==
    ASSUME NEW signals \in Seq(Signals), NEW rated, NEW severities, NEW worst,
           rated = [i \in DOMAIN signals |-> Filter(signals[i])],
           severities = [i \in DOMAIN rated |-> rated[i].severity],
           worst = Max({0} \cup {Worst(signal) : signal \in ToSet(signals)})
    PROVE  /\ Rank(Severity(rated)) = worst
           /\ severities # <<>> => Max({Rank(s) : s \in ToSet(severities)}) = worst
<1> DEFINE places == DOMAIN signals
           ranks == {Rank(rated[i].severity) : i \in places}
<1>1. DOMAIN rated = places /\ places = 1 .. Len(signals) /\ \A i \in places : signals[i] \in Signals
  OBVIOUS
<1>2. \A i \in places : rated[i].severity \in Severities /\ Rank(rated[i].severity) = Worst(signals[i])
  BY <1>1, SignalsAreSignals, FilterTellsTheWorst
<1>3. {Worst(signal) : signal \in ToSet(signals)} = ranks
  BY <1>1, <1>2 DEF ToSet
<1>4. /\ \A s \in Severities : Rank(s) \in {0, 1, 2}
      /\ \A s \in Severities : Rank(s) # 0 => s \in {"warning", "critical"}
      /\ \A s \in Severities : Rank(s) = 2 => s = "critical"
      /\ Rank("critical") = 2 /\ Rank("warning") = 1 /\ Rank("none") = 0
  BY DEF Rank, Severities
<1>5. ranks \in SUBSET {0, 1, 2}
  BY <1>2, <1>4
<1>6. Rank(Severity(rated)) = Max({0} \cup ranks)
  <2> DEFINE escalated == {signal \in ToSet(rated) : ShouldEscalate(signal)}
  <2>1. \A signal : signal \in escalated
          <=> \E i \in places : signal = rated[i] /\ rated[i].severity \in {"warning", "critical"}
    BY <1>1 DEF ToSet, ShouldEscalate
  <2>2. Severity(rated) = CASE escalated = {} -> "none"
                            [] \E signal \in escalated : signal.severity = "critical" -> "critical"
                            [] OTHER -> "warning"
    BY DEF Severity
  <2> HIDE DEF escalated, ranks
  <2>3. {0} \cup ranks \in SUBSET Nat
    BY <1>5
  <2>4. CASE escalated = {}
    <3>1. \A i \in places : Rank(rated[i].severity) = 0
      BY <1>2, <1>4, <2>1, <2>4
    <3>2. \A k \in {0} \cup ranks : k <= 0
      BY <3>1 DEF ranks
    <3>3. Max({0} \cup ranks) = 0
      BY <2>3, <3>2, Greatest
    <3>4. QED
      BY <1>4, <2>2, <2>4, <3>3
  <2>5. CASE escalated # {} /\ \E signal \in escalated : signal.severity = "critical"
    <3>1. Severity(rated) = "critical"
      BY <2>2, <2>5
    <3>2. 2 \in {0} \cup ranks
      BY <1>4, <2>1, <2>5 DEF ranks
    <3>3. \A k \in {0} \cup ranks : k <= 2
      BY <1>5
    <3>4. Max({0} \cup ranks) = 2
      BY <2>3, <3>2, <3>3, Greatest
    <3>5. QED
      BY <1>4, <3>1, <3>4
  <2>6. CASE escalated # {} /\ ~ \E signal \in escalated : signal.severity = "critical"
    <3>1. Severity(rated) = "warning"
      BY <2>2, <2>6
    <3>2. PICK i \in places : rated[i].severity = "warning"
      BY <2>1, <2>6
    <3>3. 1 \in {0} \cup ranks
      BY <1>4, <3>2 DEF ranks
    <3>4. \A k \in places : Rank(rated[k].severity) # 2
      BY <1>2, <1>4, <2>1, <2>6
    <3>5. 2 \notin ranks
      BY <3>4 DEF ranks
    <3>6. \A k \in {0} \cup ranks : k <= 1
      BY <1>5, <3>5
    <3>7. Max({0} \cup ranks) = 1
      BY <2>3, <3>3, <3>6, Greatest
    <3>8. QED
      BY <1>4, <3>1, <3>7
  <2>7. QED
    BY <2>4, <2>5, <2>6
<1>7. ASSUME severities # <<>> PROVE Max({Rank(s) : s \in ToSet(severities)}) = Max({0} \cup ranks)
  <2>1. {Rank(s) : s \in ToSet(severities)} = ranks
    BY DEF ToSet
  <2>2. places # {}
    BY <1>1, <1>7
  <2>3. ranks # {}
    BY <2>2
  <2> HIDE DEF ranks
  <2>4. PICK m \in ranks : \A i \in ranks : i <= m
    BY <1>5, <2>3, UpToTwo
  <2>5. ranks \in SUBSET Nat /\ {0} \cup ranks \in SUBSET Nat /\ \A i \in {0} \cup ranks : i <= m
    BY <1>5, <2>4
  <2>6. Max(ranks) = m
    BY <2>4, <2>5, Greatest
  <2>7. m \in {0} \cup ranks
    OBVIOUS
  <2>8. Max({0} \cup ranks) = m
    BY <2>5, <2>7, Greatest
  <2>9. QED
    BY <2>1, <2>6, <2>8
<1>8. QED
  BY <1>1, <1>3, <1>6, <1>7

LEMMA PerceptionNextHolds == PerceptionIInv /\ [PerceptionNext]_perceptionVars => PerceptionIInv'
<1> SUFFICES ASSUME PerceptionIInv, [PerceptionNext]_perceptionVars PROVE PerceptionIInv'
  OBVIOUS
<1>1. left \in Seq(DataSources) /\ readings \in Seq(Signals)
  BY DEF PerceptionIInv
<1>2. CASE Look
  <2>1. CASE left' = SourcesOf(monitor') /\ event' = "open"
    <3>1. left' \in Seq(DataSources) /\ readings' \in Seq(Signals) /\ event' = "open"
      BY <1>2, <2>1, SourcesAreKnown, NoItem DEF Look
    <3>2. EventTellsTheWorst'
      BY <3>1 DEF EventTellsTheWorst
    <3>3. QED
      BY <3>1, <3>2 DEF PerceptionIInv
  <2>2. CASE left' = <<>> /\ event' = "none"
    <3>1. left' \in Seq(DataSources) /\ readings' \in Seq(Signals) /\ readings' = <<>> /\ believed' = <<>>
      BY <1>2, <2>2, NoItem DEF Look
    <3>2. {0} \cup {Worst(signal) : signal \in ToSet(readings')} = {0}
      BY <3>1 DEF ToSet
    <3>3. Max({0}) = 0
      BY Greatest
    <3>4. EventTellsTheWorst'
      BY <2>2, <3>1, <3>2, <3>3 DEF EventTellsTheWorst, Rank
    <3>5. QED
      BY <2>2, <3>1, <3>4 DEF PerceptionIInv
  <2>3. QED
    BY <1>2, <2>1, <2>2 DEF Look
<1>3. CASE Collect
  <2>1. left # <<>> /\ event = "open" /\ event' = "open"
    BY <1>3 DEF Collect, PerceptionIInv
  <2>2. Head(left) \in DataSources /\ left' \in Seq(DataSources)
    BY <1>1, <1>3 DEF Collect
  <2>3. PICK collected \in {<<>>} \cup Collected(Head(left)) : readings' = readings \o collected
    BY <1>3 DEF Collect
  <2>4. collected \in Seq(Signals)
    <3>1. CASE collected = <<>>
      BY <3>1, NoItem
    <3>2. CASE collected \in Collected(Head(left))
      <4>1. Collected(Head(left)) \in SUBSET Seq(Signals)
        BY <2>2, CollectedSignals
      <4>2. QED
        BY <3>2, <4>1
    <3>3. QED
      BY <3>1, <3>2
  <2>5. readings' \in Seq(Signals)
    BY <1>1, <2>3, <2>4, ConcatProperties
  <2>6. EventTellsTheWorst'
    BY <2>1 DEF EventTellsTheWorst
  <2>7. QED
    BY <2>1, <2>2, <2>5, <2>6 DEF PerceptionIInv
<1>4. CASE RateReadings
  <2> DEFINE rated == [i \in DOMAIN readings |-> Filter(readings[i])]
             severities == [i \in DOMAIN rated |-> rated[i].severity]
             worst == Max({0} \cup {Worst(signal) : signal \in ToSet(readings)})
  <2>1. /\ left = <<>> /\ left' = left /\ readings' = readings /\ monitor' = monitor
        /\ believed' = IF monitor \in {"risk_analyst", "intent"} THEN severities ELSE <<>>
        /\ event' = IF monitor \in Escalating THEN Severity(rated) ELSE "none"
    BY <1>4 DEF RateReadings
  <2>2. /\ Rank(Severity(rated)) = worst
        /\ severities # <<>> => Max({Rank(s) : s \in ToSet(severities)}) = worst
    <3>1. /\ rated = [i \in DOMAIN readings |-> Filter(readings[i])]
          /\ severities = [i \in DOMAIN rated |-> rated[i].severity]
          /\ worst = Max({0} \cup {Worst(signal) : signal \in ToSet(readings)})
      OBVIOUS
    <3> HIDE DEF rated, severities, worst
    <3>2. QED
      BY <1>1, <3>1, RatedTellTheWorst
  <2> HIDE DEF rated, severities, worst
  <2>3. monitor' \in Escalating => Rank(event') = worst
    BY <2>1, <2>2
  <2>4. believed' # <<>> => Max({Rank(s) : s \in ToSet(believed')}) = worst
    BY <2>1, <2>2
  <2>5. worst = Max({0} \cup {Worst(signal) : signal \in ToSet(readings')})
    BY <2>1 DEF worst
  <2>6. EventTellsTheWorst'
    BY <2>3, <2>4, <2>5 DEF EventTellsTheWorst
  <2>7. QED
    BY <1>1, <2>1, <2>6 DEF PerceptionIInv
<1>5. CASE UNCHANGED perceptionVars
  BY <1>5 DEF perceptionVars, PerceptionIInv, EventTellsTheWorst
<1>6. QED
  BY <1>2, <1>3, <1>4, <1>5 DEF PerceptionNext

\* The event of a monitor is as severe as the worst that any rule, or a source
\* itself, says of what was read, and so are its beliefs.
THEOREM TellsTheWorst == PerceptionSpec => []EventTellsTheWorst
<1>1. PerceptionIInv => EventTellsTheWorst
  BY DEF PerceptionIInv
<1>2. QED
  BY <1>1, PerceptionInitHolds, PerceptionNextHolds, PTL DEF PerceptionSpec
=============================================================================
