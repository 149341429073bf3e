----------------------------- MODULE OrderedItems -----------------------------
(* Lists by the places of their items: some of the items, and a stable sort. *)
EXTENDS Integers, FiniteSets

(* By the numbers in key, and by place where these are equal. *)
Precedes(key, i, j) == key[i] < key[j] \/ (key[i] = key[j] /\ i < j)

PlaceOf(key, i) == Cardinality({j \in DOMAIN key : ~Precedes(key, i, j)})

(* The items that have a key, in the order of the keys. *)
SortedBy(items, key) ==
    [k \in 1 .. Cardinality(DOMAIN key) |->
        items[CHOOSE i \in DOMAIN key : PlaceOf(key, i) = k]]

(* The items at some places, in the order they have. *)
ItemsAt(items, places) == SortedBy(items, [i \in places |-> 0])
=============================================================================
