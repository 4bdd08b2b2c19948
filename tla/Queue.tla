------------------------------- MODULE Queue -------------------------------
(***************************************************************************)
(* The blocking queue of src/c/queue.c: a list under a mutex, a condition  *)
(* variable `added' for dequeuers, one `removed' for enqueuers, a limit    *)
(* that may change while threads are blocked on it, and a stop that        *)
(* releases everybody.  One action is one critical section of q->mtx, or   *)
(* the part of one up to a pthread_cond_wait.                              *)
(***************************************************************************)
EXTENDS Integers, FiniteSets, Sequences, CondVar

CONSTANTS Threads,    \* threads that use the queue
          Limits,     \* values given to iot_queue_alloc and iot_queue_setmaxsize
          MaxElements,\* bound: elements handed to the queue in one behaviour
          None        \* no element

Elements == 1..MaxElements

ASSUME QueueAssumption ==
  /\ IsFiniteSet(Threads)
  /\ Limits \subseteq Nat
  /\ MaxElements \in Nat
  /\ None \notin Elements

VARIABLES
  list,      \* q->queue from its tail to its head: oldest element first
  maxsize, running,
  pc,        \* where each thread is: "enq" and "deq" hold no lock
  arg,       \* the element a thread is enqueuing
  issued,    \* elements callers have handed over so far
  taken,     \* elements dequeued
  dropped    \* elements iot_queue_enqueue returned without adding, or freed

elementVars == <<issued, taken, dropped>>
vars == <<list, maxsize, running, pc, arg, elementVars>>

TypeOK ==
  /\ list \in Seq(Elements)
  /\ maxsize \in Limits
  /\ running \in BOOLEAN
  /\ pc \in [Threads -> {"idle", "enq", "enqwait", "deq", "deqwait", "freed"}]
  /\ arg \in [Threads -> Elements \cup {None}]
  /\ issued \in 0..MaxElements
  /\ taken \subseteq Elements /\ dropped \subseteq Elements

(* iot_queue_alloc *)
Init ==
  /\ list = <<>> /\ maxsize \in Limits /\ running = TRUE
  /\ pc = [t \in Threads |-> "idle"]
  /\ arg = [t \in Threads |-> None]
  /\ issued = 0 /\ taken = {} /\ dropped = {}

-----------------------------------------------------------------------------
FullSlip == maxsize # 0 /\ Len(list) > maxsize       \* off by one
Full == maxsize # 0 /\ Len(list) >= maxsize

(* The signal on `added' after a push, with p the program counters then. *)
SignalAddedSlip(p) ==                                 \* only the first element signals
  IF list = <<>> THEN Signal(p, "deqwait", "deq") ELSE {p}
SignalAdded(p) == Signal(p, "deqwait", "deq")

(* The signal on `removed' after a pop. *)
SignalRemovedSlip(p) ==                               \* only a full queue signals
  IF Len(list) = maxsize THEN Signal(p, "enqwait", "enq") ELSE {p}
SignalRemoved(p) == Signal(p, "enqwait", "enq")

CallEnqueue(t) ==
  /\ pc[t] = "idle" /\ issued < MaxElements
  /\ issued' = issued + 1
  /\ arg' = [arg EXCEPT ![t] = issued + 1]
  /\ pc' = [pc EXCEPT ![t] = "enq"]
  /\ UNCHANGED <<list, maxsize, running, taken, dropped>>

Pushed(t) == Append(list, arg[t])

EnqueueAdds(t) ==
  /\ pc[t] = "enq" /\ ~Full
  /\ list' = Pushed(t)
  /\ arg' = [arg EXCEPT ![t] = None]
  /\ pc' \in SignalAdded([pc EXCEPT ![t] = "idle"])
  /\ UNCHANGED <<maxsize, running, elementVars>>

EnqueueGivesUp(t) ==
  /\ pc[t] = "enq" /\ Full /\ ~running
  /\ dropped' = dropped \cup {arg[t]}
  /\ arg' = [arg EXCEPT ![t] = None]
  /\ pc' = [pc EXCEPT ![t] = "idle"]
  /\ UNCHANGED <<list, maxsize, running, issued, taken>>

EnqueueWaits(t) ==
  /\ pc[t] = "enq" /\ Full /\ running
  /\ pc' = [pc EXCEPT ![t] = "enqwait"]
  /\ UNCHANGED <<list, maxsize, running, arg, elementVars>>

(* A full queue makes iot_queue_try_enqueue return false, the element stays *)
(* with its caller and nothing changes.                                     *)
TryEnqueue(t) ==
  /\ pc[t] = "idle" /\ issued < MaxElements /\ ~Full
  /\ issued' = issued + 1
  /\ list' = Append(list, issued + 1)
  /\ pc' \in SignalAdded(pc)
  /\ UNCHANGED <<maxsize, running, arg, taken, dropped>>

CallDequeue(t) ==
  /\ pc[t] = "idle"
  /\ pc' = [pc EXCEPT ![t] = "deq"]
  /\ UNCHANGED <<list, maxsize, running, arg, elementVars>>

PoppedSlip == list                                    \* looked at, not removed
Popped == Tail(list)

(* The pop of iot_queue_dequeue, and that of iot_queue_try_dequeue, which    *)
(* returns NULL on an empty queue and changes nothing.                       *)
DequeueTakes(t) ==
  /\ pc[t] \in {"deq", "idle"} /\ list # <<>>
  /\ list' = Popped
  /\ taken' = taken \cup {Head(list)}
  /\ pc' \in SignalRemoved([pc EXCEPT ![t] = "idle"])
  /\ UNCHANGED <<maxsize, running, arg, issued, dropped>>

DequeueGivesUp(t) ==
  /\ pc[t] = "deq" /\ list = <<>> /\ ~running
  /\ pc' = [pc EXCEPT ![t] = "idle"]
  /\ UNCHANGED <<list, maxsize, running, arg, elementVars>>

DequeueWaits(t) ==
  /\ pc[t] = "deq" /\ list = <<>> /\ running
  /\ pc' = [pc EXCEPT ![t] = "deqwait"]
  /\ UNCHANGED <<list, maxsize, running, arg, elementVars>>

AllWakeSlip == Broadcast(pc, "deqwait", "deq")        \* stop forgets `removed'
AllWake == Broadcast(Broadcast(pc, "deqwait", "deq"), "enqwait", "enq")

Stop ==
  /\ \E t \in Threads : pc[t] = "idle"
  /\ running' = FALSE
  /\ pc' = AllWake
  /\ UNCHANGED <<list, maxsize, arg, elementVars>>

RaisesLimitSlip(n) == n > maxsize                     \* 0 taken for a small limit
RaisesLimit(n) == n > maxsize \/ n = 0

SetMaxSize(n) ==
  /\ \E t \in Threads : pc[t] = "idle"
  /\ maxsize' = n
  /\ pc' = IF RaisesLimit(n) THEN Broadcast(pc, "enqwait", "enq") ELSE pc
  /\ UNCHANGED <<list, running, arg, elementVars>>

(* iot_queue_free: the caller has stopped the queue and joined its threads   *)
(* (queue.h:35); the elements left in the list go with it.                   *)
FreeQueue ==
  /\ ~running /\ \A t \in Threads : pc[t] = "idle"
  /\ list' = <<>>
  /\ dropped' = dropped \cup {list[i] : i \in DOMAIN list}
  /\ pc' = [t \in Threads |-> "freed"]
  /\ UNCHANGED <<maxsize, running, arg, issued, taken>>

SpuriousWakeup == \E t \in Threads :
  /\ pc[t] \in {"enqwait", "deqwait"}
  /\ pc' = [pc EXCEPT ![t] = IF @ = "enqwait" THEN "enq" ELSE "deq"]
  /\ UNCHANGED <<list, maxsize, running, arg, elementVars>>

InCall(t) ==
  \/ EnqueueAdds(t) \/ EnqueueGivesUp(t) \/ EnqueueWaits(t)
  \/ pc[t] = "deq" /\ DequeueTakes(t)
  \/ DequeueGivesUp(t) \/ DequeueWaits(t)

Next ==
  \/ \E t \in Threads : \/ InCall(t) \/ CallEnqueue(t) \/ CallDequeue(t)
                        \/ TryEnqueue(t) \/ DequeueTakes(t)
  \/ Stop \/ FreeQueue
  \/ \E n \in Limits : SetMaxSize(n)
  \/ SpuriousWakeup

Spec == Init /\ [][Next]_vars
FairSpec == Spec /\ \A t \in Threads : WF_vars(InCall(t))

-----------------------------------------------------------------------------
(* While a dequeuer sleeps, every element in the list has a dequeuer awake   *)
(* and on its way to it: no signal on `added' was lost (queue.c:80, 97, 117).*)
NoSleepingDequeuer ==
  Asleep(pc, "deqwait") # {} => Len(list) =< Cardinality(Asleep(pc, "deq"))

(* While an enqueuer sleeps there is a limit, and every free place has an    *)
(* enqueuer awake, also when the limit was raised, lowered or removed        *)
(* meanwhile (queue.c:114, 61, 83, 147).                                     *)
NoSleepingEnqueuer ==
  Asleep(pc, "enqwait") # {} =>
    maxsize # 0 /\ maxsize - Len(list) =< Cardinality(Asleep(pc, "enq"))

(* After iot_queue_stop nobody is asleep on the queue, nor ever will be.     *)
StopUnblocks == ~running => Asleep(pc, "enqwait") \cup Asleep(pc, "deqwait") = {}

(* Every element handed over is in one place: with an enqueuer still inside  *)
(* its call, in the list, dequeued or dropped; none is lost or delivered     *)
(* twice.                                                                    *)
Holders == {t \in Threads : arg[t] # None}
OwnedOnce ==
  /\ {list[i] : i \in DOMAIN list} \cup {arg[t] : t \in Holders} \cup taken \cup dropped = 1..issued
  /\ Len(list) + Cardinality(Holders) + Cardinality(taken) + Cardinality(dropped) = issued

(* The queue is a first in first out buffer within its limit.                *)
Fifo == INSTANCE BoundedFifo WITH buffer <- list, limit <- maxsize, open <- running
ImplementsFifo == Fifo!Spec

(* Whoever is inside the queue when it is stopped returns (queue.h:33).      *)
StopReleases == \A t \in Threads : ~running /\ pc[t] # "freed" ~> pc[t] \in {"idle", "freed"}

=============================================================================
