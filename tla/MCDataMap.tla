----------------------------- MODULE MCDataMap -----------------------------
(* The instances of DataMap that TLC checks. *)
EXTENDS DataMap

CONSTANT Size   \* bound: keys

MCKeys == 1..Size
MCValues == {1, 2}
(* Every key with one value, the first key with either.                 *)
MCInputs == {<<k, 1>> : k \in MCKeys} \cup {<<1, 2>>}
MCSources == {(1 :> 2) @@ (3 :> 1)}
=============================================================================
