---------------------------- MODULE MCDataOwned ----------------------------
(* The instance of DataOwned that TLC checks. *)
EXTENDS DataOwned, TLC

MCFitsIn == (0 :> "data") @@ (1 :> "data") @@ (2 :> "block") @@ (3 :> "heap")
MCConstants == 50 :> 2
MCSymmetry == Permutations(Slots)
=============================================================================
