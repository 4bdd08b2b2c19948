---------------------------- MODULE MCScheduler ----------------------------
(* The instances of Scheduler that TLC checks. *)
EXTENDS Scheduler

CONSTANTS p, q

MCSchedules == {p, q}
OnlyP == {p}
OnlyQ == {q}
=============================================================================
