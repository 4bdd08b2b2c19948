----------------------------- MODULE OrderedMap -----------------------------
(***************************************************************************)
(* What iot_data_map_t promises: a finite map from keys to values that an  *)
(* iterator walks in the order of the keys, wrapping through a position    *)
(* before the first and after the last of them.                            *)
(***************************************************************************)
EXTENDS Integers, FiniteSets

CONSTANTS Keys, Values, Null,
          Sources   \* the maps that are merged into this one

VARIABLES dict, size, at

vars == <<dict, size, at>>

With(d, k, v) == [j \in DOMAIN d \cup {k} |-> IF j = k THEN v ELSE d[j]]
Without(d, k) == [j \in DOMAIN d \ {k} |-> d[j]]

Least(K) == IF K = {} THEN Null ELSE CHOOSE k \in K : \A j \in K : k =< j
Greatest(K) == IF K = {} THEN Null ELSE CHOOSE k \in K : \A j \in K : j =< k

Nothing == [k \in {} |-> Null]

Init == dict = Nothing /\ size = 0 /\ at = Null

(* Every change leaves the size equal to the number of keys.                *)
Becomes(d) == dict' = d /\ size' = Cardinality(DOMAIN d)

Put == \E k \in Keys, v \in Values : Becomes(With(dict, k, v)) /\ at' = Null

Delete == \E k \in DOMAIN dict : Becomes(Without(dict, k)) /\ at' = Null

(* Merging adds entries of another map, an empty map has none.               *)
Merge == \E d \in Sources :
  /\ Becomes([k \in DOMAIN dict \cup DOMAIN d |-> IF k \in DOMAIN d THEN d[k] ELSE dict[k]])
  /\ at' = Null

Empty == Becomes(Nothing) /\ at' = Null

(* The one change that is allowed under an iterator.                        *)
Replace == \E v \in Values :
  at # Null /\ Becomes(With(dict, at, v)) /\ UNCHANGED at

Forward ==
  /\ at' = Least({k \in DOMAIN dict : at = Null \/ k > at})
  /\ UNCHANGED <<dict, size>>

Backward ==
  /\ at' = Greatest({k \in DOMAIN dict : at = Null \/ k < at})
  /\ UNCHANGED <<dict, size>>

Start == at' = Null /\ UNCHANGED <<dict, size>>

Next == Put \/ Delete \/ Merge \/ Empty \/ Replace \/ Forward \/ Backward \/ Start

Spec == Init /\ [][Next]_vars

=============================================================================
