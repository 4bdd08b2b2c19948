------------------------------ MODULE MCQueue ------------------------------
(* The instances of Queue that TLC checks. *)
EXTENDS Queue

CONSTANTS a, b, c, d

MCThreads == {a, b, c, d}
=============================================================================
