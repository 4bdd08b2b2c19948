------------------------------ MODULE CondVar ------------------------------
(***************************************************************************)
(* POSIX condition variables, as far as src/c uses them.  The threads      *)
(* asleep on one are those whose program counter has a given value         *)
(* (`asleep'); waking one moves it to the value (`awake') at which it      *)
(* takes the mutex again and re-evaluates the predicate of its loop.       *)
(***************************************************************************)

Asleep(pc, asleep) == {p \in DOMAIN pc : pc[p] = asleep}

(* pthread_cond_signal: some sleeper wakes, the implementation picks which. *)
(* With nobody asleep the signal is lost.                                   *)
Signal(pc, asleep, awake) ==
  IF Asleep(pc, asleep) = {} THEN {pc}
  ELSE {[pc EXCEPT ![p] = awake] : p \in Asleep(pc, asleep)}

(* pthread_cond_broadcast: every sleeper wakes. *)
Broadcast(pc, asleep, awake) ==
  [p \in DOMAIN pc |-> IF pc[p] = asleep THEN awake ELSE pc[p]]

=============================================================================
