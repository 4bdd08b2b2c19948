---------------------------- MODULE PriorityJobs ----------------------------
(***************************************************************************)
(* What a thread pool promises its callers: a job submitted is run once,   *)
(* jobs of a higher priority start first, jobs of one priority start in    *)
(* the order they were submitted, and jobs that were never started are     *)
(* discarded only when no job but the one that frees the pool is running.  *)
(***************************************************************************)
EXTENDS Integers

CONSTANTS Priorities,     \* priorities a caller may give, NO_PRIORITY included
          NO_PRIORITY     \* IOT_THREAD_NO_PRIORITY

VARIABLES pending,        \* jobs submitted and not started
          active,         \* jobs being run
          nextId          \* id of the next job

jvars == <<pending, active, nextId>>

Job == [id : Nat, priority : Priorities]

(* The rank of a job: its priority, those without one after all others. *)
Outranks(p, q) == p # NO_PRIORITY /\ (q = NO_PRIORITY \/ q < p)

StartsBefore(j, k) ==
  \/ Outranks(j.priority, k.priority)
  \/ ~Outranks(k.priority, j.priority) /\ j.id < k.id

Init == pending = {} /\ active = {} /\ nextId = 0

Submit == \E p \in Priorities :
  /\ pending' = pending \cup {[id |-> nextId, priority |-> p]}
  /\ nextId' = nextId + 1
  /\ UNCHANGED active

Start == \E j \in pending :
  /\ \A k \in pending \ {j} : StartsBefore(j, k)
  /\ pending' = pending \ {j}
  /\ active' = active \cup {j}
  /\ UNCHANGED nextId

Finish == \E j \in active :
  /\ active' = active \ {j}
  /\ UNCHANGED <<pending, nextId>>

Discard ==
  /\ \A j, k \in active : j = k
  /\ pending' = {}
  /\ UNCHANGED <<active, nextId>>

Next == Submit \/ Start \/ Finish \/ Discard

Spec == Init /\ [][Next]_jvars

=============================================================================
