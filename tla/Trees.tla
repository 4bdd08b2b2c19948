------------------------------- MODULE Trees -------------------------------
(***************************************************************************)
(* Composed data as values: a tree is a function from paths to labels.  A  *)
(* path is a sequence of map keys and vector places.  A label tells a map, *)
(* a vector, a place of a vector that holds nothing, or is the value of a  *)
(* leaf.  These are the reference definitions for DataTree and DataText.   *)
(***************************************************************************)
EXTENDS Integers, FiniteSets, SequencesExt

Nothing == 0
AMap == -1
AVector == -2

Root(t) == t[<< >>]

Leaf(v) == << >> :> v

(* The keys or places under a path, in order.                               *)
Indexes(t, p) ==
  SetToSortSeq({Last(q) : q \in {r \in DOMAIN t : Len(r) = Len(p) + 1 /\ IsPrefix(p, r)}}, <)

SubTree(t, p) ==
  LET below == {q \in DOMAIN t : IsPrefix(p, q)}
  IN  [q \in {SubSeq(r, Len(p) + 1, Len(r)) : r \in below} |-> t[p \o q]]

(* The tree with the given label at its root and branches under it.         *)
Tree(label, branches) ==
  LET paths == {<< >>} \cup UNION {{<<i>> \o q : q \in DOMAIN branches[i]} : i \in DOMAIN branches}
  IN  [p \in paths |-> IF p = << >> THEN label ELSE branches[Head(p)][Tail(p)]]

Branches(t) == [i \in ToSet(Indexes(t, << >>)) |-> SubTree(t, <<i>>)]

(* t with s in the place of what is at p.                                   *)
AddedAt(t, p, s) ==
  LET kept == {q \in DOMAIN t : ~IsPrefix(p, q)}
  IN  [q \in kept \cup {p \o r : r \in DOMAIN s} |->
         IF q \in kept THEN t[q] ELSE s[SubSeq(q, Len(p) + 1, Len(q))]]

(* t without what is at p.  A vector closes the gap, and any other one.     *)
RemovedAt(t, p) ==
  LET within == SubTree(t, Front(p))
      left == SelectSeq(Indexes(within, << >>), LAMBDA i : i # Last(p) /\ within[<<i>>] # Nothing)
      branches == IF Root(within) = AMap
                  THEN [k \in ToSet(left) |-> SubTree(within, <<k>>)]
                  ELSE [n \in DOMAIN left |-> SubTree(within, <<left[n]>>)]
  IN  AddedAt(t, Front(p), Tree(Root(within), branches))

=============================================================================
