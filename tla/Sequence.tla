------------------------------ MODULE Sequence ------------------------------
(***************************************************************************)
(* What iot_data_list_t and iot_data_vector_t promise through              *)
(* iot_data_iter_t: a sequence, walked from its first item to its last one *)
(* or back, through a position 0 that is before the first and after the    *)
(* last item.  A place of a vector may hold nothing.                       *)
(***************************************************************************)
EXTENDS Integers, SequencesExt

CONSTANTS Values, Nothing, MaxLength

VARIABLES items, at,
          more   \* the answer of has_next

vars == <<items, at, more>>

(* has_next tells whether next will find an item.  The answer for an empty  *)
(* sequence is left open: the code says yes where the promise is no.        *)
Answered == items' # << >> => (more' <=> at' < Len(items'))

Empties == {[i \in 1..n |-> Nothing] : n \in 0..MaxLength}

Init == items \in Empties /\ at = 0 /\ (items # << >> => more)

Becomes(s, p) == at' = p /\ items' = s /\ Answered

Add == \E v \in Values : Becomes(<<v>> \o items, 0) \/ Becomes(Append(items, v), 0)

Put == \E i \in DOMAIN items, v \in Values \cup {Nothing} : Becomes([items EXCEPT ![i] = v], 0)

Drop == \E i \in DOMAIN items : Becomes(RemoveAt(items, i), 0)

(* The item under the iterator goes, and the iterator steps back.           *)
DropHere == at # 0 /\ Becomes(RemoveAt(items, at), at - 1)

Replace == \E v \in Values : at # 0 /\ Becomes([items EXCEPT ![at] = v], at)

Resize == \E n \in 0..MaxLength :
  Becomes([i \in 1..n |-> IF i \in DOMAIN items THEN items[i] ELSE Nothing], 0)

Compact == Becomes(SelectSeq(items, LAMBDA v : v # Nothing), 0)

Renew == \E s \in Empties : Becomes(s, 0)

Forward == Becomes(items, IF at < Len(items) THEN at + 1 ELSE 0)

Backward == Becomes(items, IF at = 0 THEN Len(items) ELSE at - 1)

Start == Becomes(items, 0)

Next == \/ Start \/ Forward \/ Backward \/ Compact \/ Renew \/ Drop \/ DropHere
        \/ Add \/ Replace \/ Resize \/ Put

Spec == Init /\ [][Next]_vars

=============================================================================
