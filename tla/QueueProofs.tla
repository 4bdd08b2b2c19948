---------------------------- MODULE QueueProofs ----------------------------
(***************************************************************************)
(* Proofs about Queue: its types, that no wake-up on either condition      *)
(* variable is lost, that a stop leaves nobody asleep, and that the queue  *)
(* implements BoundedFifo, for every set of threads, every set of limits   *)
(* and every number of elements.                                           *)
(***************************************************************************)
EXTENDS Queue, CondVarProofs, SequenceTheorems

PCs == {"idle", "enq", "enqwait", "deq", "deqwait", "freed"}

(* An enqueuer inside its call has the element it was called with.           *)
ArgHeld == \A t \in Threads : pc[t] \in {"enq", "enqwait"} => arg[t] \in Elements

TypeInv == TypeOK /\ ArgHeld

(* The three wake-up invariants hold together: a stop that wakes everybody   *)
(* is why a thread that gives up leaves no sleeper behind it.                *)
WakeInv == StopUnblocks /\ NoSleepingDequeuer /\ NoSleepingEnqueuer

IInv == TypeInv /\ WakeInv

-----------------------------------------------------------------------------
LEMMA ElementsFacts == Elements \subseteq Nat /\ None \notin Elements
BY QueueAssumption DEF Elements

LEMMA InitTypeInv == Init => TypeInv
BY QueueAssumption DEF Init, TypeInv, TypeOK, ArgHeld

LEMMA StepTypeInv == TypeInv /\ [Next]_vars => TypeInv'
<1> SUFFICES ASSUME TypeInv, [Next]_vars PROVE TypeInv'
  OBVIOUS
<1> USE QueueAssumption, ElementsFacts DEF TypeInv, TypeOK, ArgHeld
<1> DEFINE p(t) == [pc EXCEPT ![t] = "idle"]
<1>1. ASSUME NEW t \in Threads, CallEnqueue(t) PROVE TypeInv'
  BY <1>1 DEF CallEnqueue, Elements
<1>2. ASSUME NEW t \in Threads, EnqueueAdds(t) PROVE TypeInv'
  <2>1. pc' \in Signal(p(t), "deqwait", "deq")
    BY <1>2 DEF EnqueueAdds, SignalAdded
  <2>2. pc' \in [Threads -> PCs]
    BY <2>1 DEF Signal, Asleep, PCs
  <2>3. \A u \in Threads : pc'[u] \in {"enq", "enqwait"} => u # t /\ pc[u] = pc'[u]
    BY <2>1 DEF Signal, Asleep
  <2>4. arg' = [arg EXCEPT ![t] = None] /\ list' = Append(list, arg[t]) /\ arg[t] \in Elements
    BY <1>2 DEF EnqueueAdds, Pushed
  <2>5. list' \in Seq(Elements)
    BY <2>4
  <2>6. arg' \in [Threads -> Elements \cup {None}]
    BY <2>4
  <2>7. \A u \in Threads : pc'[u] \in {"enq", "enqwait"} => arg'[u] \in Elements
    BY <2>3, <2>4
  <2> QED BY <1>2, <2>2, <2>5, <2>6, <2>7 DEF EnqueueAdds, elementVars, PCs
<1>3. ASSUME NEW t \in Threads, EnqueueGivesUp(t) PROVE TypeInv'
  BY <1>3 DEF EnqueueGivesUp
<1>4. ASSUME NEW t \in Threads, EnqueueWaits(t) PROVE TypeInv'
  BY <1>4 DEF EnqueueWaits, elementVars
<1>5. ASSUME NEW t \in Threads, TryEnqueue(t) PROVE TypeInv'
  <2>1. pc' \in Signal(pc, "deqwait", "deq")
    BY <1>5 DEF TryEnqueue, SignalAdded
  <2>2. pc' \in [Threads -> PCs]
    BY <2>1 DEF Signal, Asleep, PCs
  <2>3. \A u \in Threads : pc'[u] \in {"enq", "enqwait"} => pc[u] = pc'[u]
    BY <2>1 DEF Signal, Asleep
  <2>4. issued + 1 \in Elements
    BY <1>5 DEF TryEnqueue, Elements
  <2> QED BY <1>5, <2>2, <2>3, <2>4 DEF TryEnqueue, PCs
<1>6. ASSUME NEW t \in Threads, CallDequeue(t) PROVE TypeInv'
  BY <1>6 DEF CallDequeue, elementVars
<1>7. ASSUME NEW t \in Threads, DequeueTakes(t) PROVE TypeInv'
  <2>1. pc' \in Signal(p(t), "enqwait", "enq")
    BY <1>7 DEF DequeueTakes, SignalRemoved
  <2>2. pc' \in [Threads -> PCs]
    BY <2>1 DEF Signal, Asleep, PCs
  <2>3. \A u \in Threads : pc'[u] \in {"enq", "enqwait"} => pc[u] \in {"enq", "enqwait"}
    BY <2>1, <1>7 DEF Signal, Asleep, DequeueTakes
  <2>4. list' = Tail(list) /\ list # <<>> /\ taken' = taken \cup {Head(list)}
    BY <1>7 DEF DequeueTakes, Popped
  <2>5. list' \in Seq(Elements) /\ taken' \subseteq Elements
    BY <2>4, HeadTailProperties
  <2> QED BY <1>7, <2>2, <2>3, <2>5 DEF DequeueTakes, PCs
<1>8. ASSUME NEW t \in Threads, DequeueGivesUp(t) PROVE TypeInv'
  BY <1>8 DEF DequeueGivesUp, elementVars
<1>9. ASSUME NEW t \in Threads, DequeueWaits(t) PROVE TypeInv'
  BY <1>9 DEF DequeueWaits, elementVars
<1>10. CASE Stop
  BY <1>10 DEF Stop, AllWake, Broadcast, elementVars
<1>11. ASSUME NEW n \in Limits, SetMaxSize(n) PROVE TypeInv'
  BY <1>11 DEF SetMaxSize, Broadcast, elementVars
<1>12. CASE FreeQueue
  <2>1. \A i \in DOMAIN list : list[i] \in Elements
    BY ElementOfSeq
  <2>2. list' = <<>> /\ dropped' = dropped \cup {list[i] : i \in DOMAIN list}
    BY <1>12 DEF FreeQueue
  <2>3. {list[i] : i \in DOMAIN list} \subseteq Elements
    BY <2>1
  <2>4. list' \in Seq(Elements) /\ dropped' \subseteq Elements
    BY <2>2, <2>3, EmptySeq
  <2> QED BY <1>12, <2>4 DEF FreeQueue
<1>13. CASE SpuriousWakeup
  BY <1>13 DEF SpuriousWakeup, elementVars
<1>14. CASE UNCHANGED vars
  BY <1>14 DEF vars, elementVars
<1> QED
  BY <1>1, <1>2, <1>3, <1>4, <1>5, <1>6, <1>7, <1>8, <1>9, <1>10, <1>11, <1>12, <1>13, <1>14
  DEF Next, InCall

(* Every variable keeps its type (queue.c:9-17).                             *)
THEOREM TypeCorrect == Spec => []TypeOK
<1>1. TypeInv => TypeOK
  BY DEF TypeInv
<1> QED BY InitTypeInv, StepTypeInv, <1>1, PTL DEF Spec

-----------------------------------------------------------------------------
(* What the actions do to the sets of threads at each program counter.       *)

LEMMA PcFacts == TypeInv => DOMAIN pc = Threads /\ IsFiniteSet(DOMAIN pc)
BY QueueAssumption DEF TypeInv, TypeOK

LEMMA InitWakeInv == Init => WakeInv
<1> SUFFICES ASSUME Init PROVE WakeInv
  OBVIOUS
<1>1. Asleep(pc, "enqwait") = {} /\ Asleep(pc, "deqwait") = {}
  BY DEF Init, Asleep
<1> QED BY <1>1 DEF WakeInv, StopUnblocks, NoSleepingDequeuer, NoSleepingEnqueuer

(* An element is added and one dequeuer, if any sleeps, is woken: q are the  *)
(* program counters just before the signal.                                  *)
LEMMA AddWakes ==
  ASSUME TypeInv, TypeInv', WakeInv, NEW q, DOMAIN q = Threads,
         Asleep(q, "deqwait") = Asleep(pc, "deqwait"), Asleep(q, "deq") = Asleep(pc, "deq"),
         Asleep(q, "enqwait") = Asleep(pc, "enqwait"),
         maxsize - Len(list) =< Cardinality(Asleep(pc, "enq"))
           => maxsize - Len(list) - 1 =< Cardinality(Asleep(q, "enq")),
         pc' \in Signal(q, "deqwait", "deq"),
         Len(list') = Len(list) + 1, UNCHANGED <<maxsize, running>>
  PROVE  WakeInv'
<1>1. IsFiniteSet(DOMAIN q) /\ maxsize \in Nat /\ Len(list) \in Nat
  BY QueueAssumption, LenProperties DEF TypeInv, TypeOK
<1>2. /\ Asleep(pc', "enq") = Asleep(q, "enq")
      /\ Asleep(pc', "enqwait") = Asleep(pc, "enqwait")
      /\ Asleep(pc', "deqwait") \subseteq Asleep(pc, "deqwait")
      /\ Asleep(pc, "deqwait") # {} =>
           Cardinality(Asleep(pc', "deq")) = Cardinality(Asleep(pc, "deq")) + 1
  BY <1>1, SignalCounts
<1>3. Cardinality(Asleep(pc, "deq")) \in Nat /\ Cardinality(Asleep(pc, "enq")) \in Nat
      /\ Cardinality(Asleep(q, "enq")) \in Nat
  BY <1>1, PcFacts, CountType
<1>4. StopUnblocks'
  BY <1>2 DEF WakeInv, StopUnblocks
<1>5. NoSleepingDequeuer'
  BY <1>1, <1>2, <1>3 DEF WakeInv, NoSleepingDequeuer
<1>6. NoSleepingEnqueuer'
  BY <1>1, <1>2, <1>3 DEF WakeInv, NoSleepingEnqueuer
<1> QED BY <1>4, <1>5, <1>6 DEF WakeInv

(* An element is taken and one enqueuer, if any sleeps, is woken.            *)
LEMMA TakeWakes ==
  ASSUME TypeInv, TypeInv', WakeInv, NEW q, DOMAIN q = Threads,
         Asleep(q, "deqwait") = Asleep(pc, "deqwait"), Asleep(q, "enq") = Asleep(pc, "enq"),
         Asleep(q, "enqwait") = Asleep(pc, "enqwait"),
         Cardinality(Asleep(pc, "deq")) - 1 =< Cardinality(Asleep(q, "deq")),
         pc' \in Signal(q, "enqwait", "enq"),
         Len(list') = Len(list) - 1, UNCHANGED <<maxsize, running>>
  PROVE  WakeInv'
<1>1. IsFiniteSet(DOMAIN q) /\ maxsize \in Nat /\ Len(list) \in Nat
  BY QueueAssumption, LenProperties DEF TypeInv, TypeOK
<1>2. /\ Asleep(pc', "deq") = Asleep(q, "deq")
      /\ Asleep(pc', "deqwait") = Asleep(pc, "deqwait")
      /\ Asleep(pc', "enqwait") \subseteq Asleep(pc, "enqwait")
      /\ Asleep(pc, "enqwait") # {} =>
           Cardinality(Asleep(pc', "enq")) = Cardinality(Asleep(pc, "enq")) + 1
  BY <1>1, SignalCounts
<1>3. Cardinality(Asleep(pc, "deq")) \in Nat /\ Cardinality(Asleep(pc, "enq")) \in Nat
      /\ Cardinality(Asleep(q, "deq")) \in Nat
  BY <1>1, PcFacts, CountType
<1>4. StopUnblocks'
  BY <1>2 DEF WakeInv, StopUnblocks
<1>5. NoSleepingDequeuer'
  BY <1>1, <1>2, <1>3 DEF WakeInv, NoSleepingDequeuer
<1>6. NoSleepingEnqueuer'
  BY <1>1, <1>2, <1>3 DEF WakeInv, NoSleepingEnqueuer
<1> QED BY <1>4, <1>5, <1>6 DEF WakeInv

(* A step that leaves the list, the limit and the flag alone keeps the       *)
(* invariant if nobody falls asleep and nobody leaves "enq" or "deq".        *)
LEMMA KeepsWakeInv ==
  ASSUME TypeInv, TypeInv', WakeInv, UNCHANGED <<list, maxsize, running>>,
         Asleep(pc', "deqwait") \subseteq Asleep(pc, "deqwait"),
         Asleep(pc', "enqwait") \subseteq Asleep(pc, "enqwait"),
         Asleep(pc, "deq") \subseteq Asleep(pc', "deq"),
         Asleep(pc, "enq") \subseteq Asleep(pc', "enq")
  PROVE  WakeInv'
<1>1. maxsize \in Nat /\ Len(list) \in Nat /\ DOMAIN pc = Threads /\ DOMAIN pc' = Threads
      /\ IsFiniteSet(DOMAIN pc')
  BY QueueAssumption, LenProperties, PcFacts DEF TypeInv, TypeOK
<1>2. /\ Cardinality(Asleep(pc, "deq")) =< Cardinality(Asleep(pc', "deq"))
      /\ Cardinality(Asleep(pc, "enq")) =< Cardinality(Asleep(pc', "enq"))
  BY <1>1, CountMonotone
<1>3. /\ Cardinality(Asleep(pc, "deq")) \in Nat /\ Cardinality(Asleep(pc', "deq")) \in Nat
      /\ Cardinality(Asleep(pc, "enq")) \in Nat /\ Cardinality(Asleep(pc', "enq")) \in Nat
  BY <1>1, PcFacts, CountType
<1> QED BY <1>1, <1>2, <1>3 DEF WakeInv, StopUnblocks, NoSleepingDequeuer, NoSleepingEnqueuer

LEMMA StepWakeInv == TypeInv /\ TypeInv' /\ WakeInv /\ [Next]_vars => WakeInv'
<1> SUFFICES ASSUME TypeInv, TypeInv', WakeInv, [Next]_vars PROVE WakeInv'
  OBVIOUS
<1>0. /\ DOMAIN pc = Threads /\ IsFiniteSet(DOMAIN pc) /\ pc \in [Threads -> PCs]
      /\ maxsize \in Nat /\ Len(list) \in Nat /\ list \in Seq(Elements)
      /\ DOMAIN pc' = Threads /\ IsFiniteSet(DOMAIN pc')
  BY QueueAssumption, LenProperties, PcFacts DEF TypeInv, TypeOK, PCs
<1>1. ASSUME NEW t \in Threads, CallEnqueue(t) PROVE WakeInv'
  <2>1. /\ Asleep(pc', "deqwait") = Asleep(pc, "deqwait")
        /\ Asleep(pc', "enqwait") = Asleep(pc, "enqwait")
        /\ Asleep(pc, "deq") = Asleep(pc', "deq")
        /\ Asleep(pc, "enq") \subseteq Asleep(pc', "enq")
    BY <1>0, <1>1 DEF CallEnqueue, Asleep
  <2> QED BY <2>1, <1>1, KeepsWakeInv DEF CallEnqueue
<1>2. ASSUME NEW t \in Threads, EnqueueAdds(t) PROVE WakeInv'
  <2> DEFINE q == [pc EXCEPT ![t] = "idle"]
  <2>1. /\ DOMAIN q = Threads
        /\ Asleep(q, "deqwait") = Asleep(pc, "deqwait") /\ Asleep(q, "deq") = Asleep(pc, "deq")
        /\ Asleep(q, "enqwait") = Asleep(pc, "enqwait")
        /\ t \in Asleep(pc, "enq") /\ Asleep(q, "enq") = Asleep(pc, "enq") \ {t}
    BY <1>0, <1>2 DEF EnqueueAdds, Asleep
  <2>2. Cardinality(Asleep(q, "enq")) = Cardinality(Asleep(pc, "enq")) - 1
    BY <1>0, <2>1, Departure
  <2>3. Cardinality(Asleep(q, "enq")) \in Nat /\ Cardinality(Asleep(pc, "enq")) \in Nat
    BY <1>0, <2>1, CountType
  <2>4. pc' \in Signal(q, "deqwait", "deq") /\ UNCHANGED <<maxsize, running>>
    BY <1>2 DEF EnqueueAdds, SignalAdded
  <2>5. Len(list') = Len(list) + 1
    <3>1. arg[t] \in Elements /\ list' = Append(list, arg[t])
      BY <1>2 DEF EnqueueAdds, Pushed, TypeInv, ArgHeld
    <3> QED BY <3>1, <1>0
  <2> HIDE DEF q
  <2> QED BY <1>0, <2>1, <2>2, <2>3, <2>4, <2>5, AddWakes
<1>3. ASSUME NEW t \in Threads, EnqueueGivesUp(t) PROVE WakeInv'
  <2>1. Asleep(pc', "deqwait") = {} /\ Asleep(pc', "enqwait") = {}
    BY <1>0, <1>3 DEF EnqueueGivesUp, WakeInv, StopUnblocks, Asleep
  <2> QED BY <2>1 DEF WakeInv, StopUnblocks, NoSleepingDequeuer, NoSleepingEnqueuer
<1>4. ASSUME NEW t \in Threads, EnqueueWaits(t) PROVE WakeInv'
  <2>1. /\ Asleep(pc', "deqwait") = Asleep(pc, "deqwait")
        /\ Asleep(pc', "deq") = Asleep(pc, "deq")
    BY <1>0, <1>4 DEF EnqueueWaits, Asleep
  <2>2. maxsize # 0 /\ maxsize =< Len(list) /\ running /\ UNCHANGED <<list, maxsize, running>>
    BY <1>0, <1>4 DEF EnqueueWaits, Full
  <2>3. Cardinality(Asleep(pc', "enq")) \in Nat
    BY <1>0, CountType
  <2> QED BY <1>0, <2>1, <2>2, <2>3 DEF WakeInv, StopUnblocks, NoSleepingDequeuer, NoSleepingEnqueuer
<1>5. ASSUME NEW t \in Threads, TryEnqueue(t) PROVE WakeInv'
  <2>1. pc' \in Signal(pc, "deqwait", "deq") /\ UNCHANGED <<maxsize, running>>
    BY <1>5 DEF TryEnqueue, SignalAdded
  <2>2. Len(list') = Len(list) + 1
    BY <1>5, <1>0 DEF TryEnqueue, TypeInv, TypeOK, Elements
  <2>3. Cardinality(Asleep(pc, "enq")) \in Nat
    BY <1>0, CountType
  <2> QED BY <1>0, <2>1, <2>2, <2>3, AddWakes
<1>6. ASSUME NEW t \in Threads, CallDequeue(t) PROVE WakeInv'
  <2>1. /\ Asleep(pc', "deqwait") = Asleep(pc, "deqwait")
        /\ Asleep(pc', "enqwait") = Asleep(pc, "enqwait")
        /\ Asleep(pc, "deq") \subseteq Asleep(pc', "deq")
        /\ Asleep(pc, "enq") = Asleep(pc', "enq")
    BY <1>0, <1>6 DEF CallDequeue, Asleep
  <2> QED BY <2>1, <1>6, KeepsWakeInv DEF CallDequeue
<1>7. ASSUME NEW t \in Threads, DequeueTakes(t) PROVE WakeInv'
  <2> DEFINE q == [pc EXCEPT ![t] = "idle"]
  <2>1. /\ DOMAIN q = Threads
        /\ Asleep(q, "deqwait") = Asleep(pc, "deqwait") /\ Asleep(q, "enq") = Asleep(pc, "enq")
        /\ Asleep(q, "enqwait") = Asleep(pc, "enqwait")
        /\ Asleep(q, "deq") = Asleep(pc, "deq") \ {t}
    BY <1>0, <1>7 DEF DequeueTakes, Asleep
  <2>2. pc' \in Signal(q, "enqwait", "enq") /\ UNCHANGED <<maxsize, running>>
    BY <1>7 DEF DequeueTakes, SignalRemoved
  <2> HIDE DEF q
  <2>3. /\ Cardinality(Asleep(q, "deq")) \in Nat /\ Cardinality(Asleep(pc, "deq")) \in Nat
        /\ IsFiniteSet(Asleep(pc, "deq"))
    BY <1>0, <2>1, CountType
  <2>4. Cardinality(Asleep(pc, "deq")) - 1 =< Cardinality(Asleep(q, "deq"))
    <3>1. CASE t \in Asleep(pc, "deq")
      BY <2>1, <2>3, <3>1, <1>0, Departure
    <3>2. CASE t \notin Asleep(pc, "deq")
      BY <2>1, <2>3, <3>2
    <3> QED BY <3>1, <3>2
  <2>5. Len(list') = Len(list) - 1
    BY <1>7, <1>0, HeadTailProperties DEF DequeueTakes, Popped
  <2> QED BY <1>0, <2>1, <2>4, <2>2, <2>5, TakeWakes
<1>8. ASSUME NEW t \in Threads, DequeueGivesUp(t) PROVE WakeInv'
  <2>1. Asleep(pc', "deqwait") = {} /\ Asleep(pc', "enqwait") = {}
    BY <1>0, <1>8 DEF DequeueGivesUp, WakeInv, StopUnblocks, Asleep
  <2> QED BY <2>1 DEF WakeInv, StopUnblocks, NoSleepingDequeuer, NoSleepingEnqueuer
<1>9. ASSUME NEW t \in Threads, DequeueWaits(t) PROVE WakeInv'
  <2>1. /\ Asleep(pc', "enqwait") = Asleep(pc, "enqwait")
        /\ Asleep(pc', "enq") = Asleep(pc, "enq")
    BY <1>0, <1>9 DEF DequeueWaits, Asleep
  <2>2. Len(list) = 0 /\ running /\ UNCHANGED <<list, maxsize, running>>
    BY <1>9, <1>0, EmptySeq DEF DequeueWaits
  <2>3. Cardinality(Asleep(pc', "deq")) \in Nat
    BY <1>0, CountType
  <2> QED BY <1>0, <2>1, <2>2, <2>3 DEF WakeInv, StopUnblocks, NoSleepingDequeuer, NoSleepingEnqueuer
<1>10. CASE Stop
  <2>1. Asleep(pc', "deqwait") = {} /\ Asleep(pc', "enqwait") = {}
    BY <1>0, <1>10 DEF Stop, AllWake, Broadcast, Asleep
  <2> QED BY <2>1 DEF WakeInv, StopUnblocks, NoSleepingDequeuer, NoSleepingEnqueuer
<1>11. ASSUME NEW n \in Limits, SetMaxSize(n) PROVE WakeInv'
  <2>1. Asleep(pc', "deqwait") = Asleep(pc, "deqwait") /\ Asleep(pc', "deq") = Asleep(pc, "deq")
    BY <1>0, <1>11 DEF SetMaxSize, Broadcast, Asleep
  <2>2. n \in Nat /\ maxsize' = n /\ UNCHANGED <<list, running>>
    BY <1>11, QueueAssumption DEF SetMaxSize
  <2>3. CASE RaisesLimit(n)
    <3>1. Asleep(pc', "enqwait") = {}
      BY <1>0, <1>11, <2>3 DEF SetMaxSize, Broadcast, Asleep
    <3> QED BY <2>1, <2>2, <3>1 DEF WakeInv, StopUnblocks, NoSleepingDequeuer, NoSleepingEnqueuer
  <2>4. CASE ~RaisesLimit(n)
    <3>1. pc' = pc /\ n =< maxsize /\ n # 0
      BY <1>0, <1>11, <2>2, <2>4 DEF SetMaxSize, RaisesLimit
    <3>2. Cardinality(Asleep(pc, "enq")) \in Nat
      BY <1>0, CountType
    <3> QED BY <1>0, <2>2, <3>1, <3>2 DEF WakeInv, StopUnblocks, NoSleepingDequeuer, NoSleepingEnqueuer
  <2> QED BY <2>3, <2>4
<1>12. CASE FreeQueue
  <2>1. Asleep(pc', "deqwait") = {} /\ Asleep(pc', "enqwait") = {}
    BY <1>0, <1>12 DEF FreeQueue, Asleep
  <2> QED BY <2>1 DEF WakeInv, StopUnblocks, NoSleepingDequeuer, NoSleepingEnqueuer
<1>13. CASE SpuriousWakeup
  <2>1. /\ Asleep(pc', "deqwait") \subseteq Asleep(pc, "deqwait")
        /\ Asleep(pc', "enqwait") \subseteq Asleep(pc, "enqwait")
        /\ Asleep(pc, "deq") \subseteq Asleep(pc', "deq")
        /\ Asleep(pc, "enq") \subseteq Asleep(pc', "enq")
    BY <1>0, <1>13 DEF SpuriousWakeup, Asleep
  <2> QED BY <2>1, <1>13, KeepsWakeInv DEF SpuriousWakeup
<1>14. CASE UNCHANGED vars
  BY <1>14 DEF vars, WakeInv, StopUnblocks, NoSleepingDequeuer, NoSleepingEnqueuer
<1> QED
  BY <1>1, <1>2, <1>3, <1>4, <1>5, <1>6, <1>7, <1>8, <1>9, <1>10, <1>11, <1>12, <1>13, <1>14
  DEF Next, InCall

LEMMA Inductive == Spec => []IInv
<1>1. Init => IInv
  BY InitTypeInv, InitWakeInv DEF IInv
<1>2. IInv /\ [Next]_vars => IInv'
  BY StepTypeInv, StepWakeInv DEF IInv
<1> QED BY <1>1, <1>2, PTL DEF Spec

(* While a dequeuer sleeps each element has a dequeuer on its way to it: no  *)
(* signal on `added' is lost (queue.c:80, 97, 117).                          *)
THEOREM DequeuersWoken == Spec => []NoSleepingDequeuer
BY Inductive, PTL DEF IInv, WakeInv

(* While an enqueuer sleeps each free place has an enqueuer on its way to    *)
(* it, whatever iot_queue_setmaxsize did (queue.c:61, 83, 114, 147).         *)
THEOREM EnqueuersWoken == Spec => []NoSleepingEnqueuer
BY Inductive, PTL DEF IInv, WakeInv

(* After iot_queue_stop nobody sleeps on the queue (queue.c:31).             *)
THEOREM StopWakesAll == Spec => []StopUnblocks
BY Inductive, PTL DEF IInv, WakeInv

-----------------------------------------------------------------------------
(* Refinement *)

LEMMA InitFifo == Init => Fifo!Init
BY DEF Init, Fifo!Init

LEMMA StepFifo ==
  TypeInv /\ [Next]_vars => [Fifo!Next]_<<list, maxsize, running>>
<1> SUFFICES ASSUME TypeInv, [Next]_vars
             PROVE  Fifo!Next \/ UNCHANGED <<list, maxsize, running>>
  OBVIOUS
<1>1. ASSUME NEW t \in Threads, EnqueueAdds(t) PROVE Fifo!Put
  <2>1. arg[t] \in Elements
    BY <1>1 DEF EnqueueAdds, TypeInv, ArgHeld
  <2>2. maxsize = 0 \/ Len(list) < maxsize
    BY <1>1, LenProperties, QueueAssumption DEF EnqueueAdds, Full, TypeInv, TypeOK
  <2> QED BY <1>1, <2>1, <2>2 DEF EnqueueAdds, Pushed, Fifo!Put
<1>2. ASSUME NEW t \in Threads, TryEnqueue(t) PROVE Fifo!Put
  <2>1. issued + 1 \in Elements
    BY <1>2, QueueAssumption DEF TryEnqueue, TypeInv, TypeOK, Elements
  <2>2. maxsize = 0 \/ Len(list) < maxsize
    BY <1>2, LenProperties, QueueAssumption DEF TryEnqueue, Full, TypeInv, TypeOK
  <2> QED BY <1>2, <2>1, <2>2 DEF TryEnqueue, Fifo!Put
<1>3. ASSUME NEW t \in Threads, DequeueTakes(t) PROVE Fifo!Take
  BY <1>3 DEF DequeueTakes, Popped, Fifo!Take
<1>4. CASE Stop
  BY <1>4 DEF Stop, Fifo!Next, Fifo!Close
<1>5. CASE FreeQueue
  BY <1>5 DEF FreeQueue, Fifo!Next, Fifo!Discard
<1>6. ASSUME NEW n \in Limits, SetMaxSize(n) PROVE Fifo!Resize
  BY <1>6 DEF SetMaxSize, Fifo!Resize
<1>7. ASSUME NEW t \in Threads,
             \/ CallEnqueue(t) \/ EnqueueGivesUp(t) \/ EnqueueWaits(t)
             \/ CallDequeue(t) \/ DequeueGivesUp(t) \/ DequeueWaits(t)
      PROVE  UNCHANGED <<list, maxsize, running>>
  BY <1>7 DEF CallEnqueue, EnqueueGivesUp, EnqueueWaits, CallDequeue, DequeueGivesUp, DequeueWaits
<1>8. CASE SpuriousWakeup
  BY <1>8 DEF SpuriousWakeup
<1>9. CASE UNCHANGED vars
  BY <1>9 DEF vars
<1> QED
  BY <1>1, <1>2, <1>3, <1>4, <1>5, <1>6, <1>7, <1>8, <1>9 DEF Next, InCall, Fifo!Next

(* The queue is a first in first out buffer that never takes an element      *)
(* beyond its current limit and discards only after a stop (queue.c).        *)
THEOREM FifoRefined == Spec => ImplementsFifo
<1>1. Spec => []TypeInv
  BY InitTypeInv, StepTypeInv, PTL DEF Spec
<1> QED BY <1>1, InitFifo, StepFifo, PTL DEF Spec, ImplementsFifo, Fifo!Spec

-----------------------------------------------------------------------------
(* Ownership: the places an element can be in cover all elements handed      *)
(* over, and they are no more than the elements, so each element has one     *)
(* place.                                                                    *)

ListElements == {list[i] : i \in DOMAIN list}
ArgElements == {arg[t] : t \in Holders}
NoneLost == ListElements \cup ArgElements \cup taken \cup dropped = 1..issued
NoneTwice == Len(list) + Cardinality(Holders) + Cardinality(taken) + Cardinality(dropped) =< issued

(* Outside a call of iot_queue_enqueue a thread holds no element.            *)
ArgOnlyInCall == \A t \in Threads : arg[t] # None => pc[t] \in {"enq", "enqwait"}

OwnInv == TypeInv /\ ArgOnlyInCall /\ NoneLost /\ NoneTwice

LEMMA SizeFacts ==
  ASSUME TypeInv
  PROVE  /\ list \in Seq(Elements) /\ Len(list) \in Nat /\ DOMAIN list = 1..Len(list)
         /\ IsFiniteSet(Holders) /\ Cardinality(Holders) \in Nat
         /\ IsFiniteSet(taken) /\ Cardinality(taken) \in Nat
         /\ IsFiniteSet(dropped) /\ Cardinality(dropped) \in Nat
         /\ issued \in Nat
<1>1. list \in Seq(Elements) /\ Holders \subseteq Threads /\ taken \subseteq Elements
      /\ dropped \subseteq Elements /\ issued \in Nat
  BY QueueAssumption DEF TypeInv, TypeOK, Holders
<1>2. IsFiniteSet(Elements)
  BY QueueAssumption, FS_Interval DEF Elements
<1> QED BY <1>1, <1>2, QueueAssumption, FS_Subset, FS_CardinalityType, LenProperties

(* A function has no more values than arguments.                             *)
LEMMA ValuesCount ==
  ASSUME NEW D, IsFiniteSet(D), NEW f
  PROVE  LET V == {f[x] : x \in D} IN IsFiniteSet(V) /\ Cardinality(V) =< Cardinality(D)
<1> DEFINE V == {f[x] : x \in D}
<1>1. [x \in D |-> f[x]] \in Surjection(D, V)
  BY DEF Surjection
<1> QED BY <1>1, FS_Surjection

LEMMA UnionCount ==
  ASSUME NEW A, NEW B, IsFiniteSet(A), IsFiniteSet(B)
  PROVE  IsFiniteSet(A \cup B) /\ Cardinality(A \cup B) =< Cardinality(A) + Cardinality(B)
<1>1. /\ IsFiniteSet(A \cup B)
      /\ Cardinality(A \cup B) = Cardinality(A) + Cardinality(B) - Cardinality(A \cap B)
  BY FS_Union
<1>2. Cardinality(A) \in Nat /\ Cardinality(B) \in Nat /\ Cardinality(A \cap B) \in Nat
  BY FS_CardinalityType, FS_Intersection
<1> QED BY <1>1, <1>2

LEMMA OneMore ==
  ASSUME NEW S, IsFiniteSet(S), NEW x
  PROVE  Cardinality(S \cup {x}) \in Nat /\ Cardinality(S \cup {x}) =< Cardinality(S) + 1
<1>1. Cardinality(S) \in Nat
  BY FS_CardinalityType
<1> QED BY <1>1, FS_AddElement

LEMMA UpTo ==
  ASSUME NEW n \in Nat
  PROVE  IsFiniteSet(1..n) /\ Cardinality(1..n) = n
<1>1. IsFiniteSet(1..n) /\ Cardinality(1..n) = IF 1 > n THEN 0 ELSE n - 1 + 1
  BY FS_Interval
<1> QED BY <1>1

LEMMA EachOnce == OwnInv => OwnedOnce
<1> SUFFICES ASSUME OwnInv PROVE OwnedOnce
  OBVIOUS
<1>1. /\ Len(list) \in Nat /\ DOMAIN list = 1..Len(list)
      /\ IsFiniteSet(Holders) /\ Cardinality(Holders) \in Nat
      /\ IsFiniteSet(taken) /\ Cardinality(taken) \in Nat
      /\ IsFiniteSet(dropped) /\ Cardinality(dropped) \in Nat
      /\ issued \in Nat
  BY SizeFacts DEF OwnInv
<1>2. IsFiniteSet(DOMAIN list) /\ Cardinality(DOMAIN list) = Len(list)
  BY <1>1, UpTo
<1>3. IsFiniteSet(ListElements) /\ Cardinality(ListElements) =< Len(list)
  BY <1>2, ValuesCount DEF ListElements
<1>4. IsFiniteSet(ArgElements) /\ Cardinality(ArgElements) =< Cardinality(Holders)
  BY <1>1, ValuesCount DEF ArgElements
<1> DEFINE A == ListElements \cup ArgElements
           B == A \cup taken
           All == B \cup dropped
<1>5. IsFiniteSet(A) /\ Cardinality(A) =< Cardinality(ListElements) + Cardinality(ArgElements)
  BY <1>3, <1>4, UnionCount
<1>6. IsFiniteSet(B) /\ Cardinality(B) =< Cardinality(A) + Cardinality(taken)
  BY <1>1, <1>5, UnionCount
<1>7. IsFiniteSet(All) /\ Cardinality(All) =< Cardinality(B) + Cardinality(dropped)
  BY <1>1, <1>6, UnionCount
<1>8. Cardinality(All) = issued
  <2>1. All = 1..issued
    BY DEF OwnInv, NoneLost
  <2> QED BY <1>1, <2>1, UpTo
<1>9. /\ Cardinality(A) \in Nat /\ Cardinality(B) \in Nat
      /\ Cardinality(ListElements) \in Nat /\ Cardinality(ArgElements) \in Nat
  BY <1>3, <1>4, <1>5, <1>6, FS_CardinalityType
<1> HIDE DEF A, B, All
<1>10. Len(list) + Cardinality(Holders) + Cardinality(taken) + Cardinality(dropped) = issued
  <2>1. Len(list) + Cardinality(Holders) + Cardinality(taken) + Cardinality(dropped) =< issued
    BY DEF OwnInv, NoneTwice
  <2>2. issued =< Cardinality(B) + Cardinality(dropped)
    BY <1>7, <1>8
  <2>3. Cardinality(B) =< Len(list) + Cardinality(Holders) + Cardinality(taken)
    BY <1>1, <1>3, <1>4, <1>5, <1>6, <1>9
  <2> QED BY <1>1, <1>9, <2>1, <2>2, <2>3
<1> QED BY <1>10 DEF OwnInv, NoneLost, OwnedOnce, ListElements, ArgElements

LEMMA InitOwnInv == Init => OwnInv
<1> SUFFICES ASSUME Init PROVE OwnInv
  OBVIOUS
<1>1. list = <<>> /\ taken = {} /\ dropped = {} /\ issued = 0 /\ Holders = {}
  BY DEF Init, Holders
<1>2. NoneLost
  BY <1>1 DEF NoneLost, ListElements, ArgElements
<1>3. NoneTwice
  BY <1>1, FS_EmptySet DEF NoneTwice
<1> QED BY <1>2, <1>3, InitTypeInv DEF OwnInv, Init, ArgOnlyInCall

LEMMA SignalKeepsEnqueuers ==
  ASSUME NEW q, NEW r, DOMAIN q = Threads,
         r \in Signal(q, "deqwait", "deq") \cup Signal(q, "enqwait", "enq")
  PROVE  \A u \in Threads : q[u] \in {"enq", "enqwait"} <=> r[u] \in {"enq", "enqwait"}
BY DEF Signal, Asleep

LEMMA StepArgOnlyInCall == TypeInv /\ ArgOnlyInCall /\ [Next]_vars => ArgOnlyInCall'
<1> SUFFICES ASSUME TypeInv, ArgOnlyInCall, [Next]_vars PROVE ArgOnlyInCall'
  OBVIOUS
<1>0. DOMAIN pc = Threads /\ DOMAIN arg = Threads
  BY DEF TypeInv, TypeOK
<1> USE DEF ArgOnlyInCall
<1>1. ASSUME NEW t \in Threads,
             \/ CallEnqueue(t) \/ EnqueueGivesUp(t) \/ EnqueueWaits(t)
             \/ CallDequeue(t) \/ DequeueGivesUp(t) \/ DequeueWaits(t)
      PROVE  ArgOnlyInCall'
  BY <1>0, <1>1 DEF CallEnqueue, EnqueueGivesUp, EnqueueWaits, CallDequeue, DequeueGivesUp, DequeueWaits
<1>2. ASSUME NEW t \in Threads, EnqueueAdds(t) PROVE ArgOnlyInCall'
  <2> DEFINE q == [pc EXCEPT ![t] = "idle"]
  <2>1. pc' \in Signal(q, "deqwait", "deq") /\ arg' = [arg EXCEPT ![t] = None]
    BY <1>2 DEF EnqueueAdds, SignalAdded
  <2>2. \A u \in Threads : u # t /\ pc[u] \in {"enq", "enqwait"} => q[u] \in {"enq", "enqwait"}
    OBVIOUS
  <2>3. DOMAIN q = Threads
    BY <1>0
  <2> HIDE DEF q
  <2> QED BY <1>0, <2>1, <2>2, <2>3, SignalKeepsEnqueuers
<1>3. ASSUME NEW t \in Threads, TryEnqueue(t) PROVE ArgOnlyInCall'
  BY <1>0, <1>3, SignalKeepsEnqueuers DEF TryEnqueue, SignalAdded
<1>4. ASSUME NEW t \in Threads, DequeueTakes(t) PROVE ArgOnlyInCall'
  <2> DEFINE q == [pc EXCEPT ![t] = "idle"]
  <2>1. pc' \in Signal(q, "enqwait", "enq") /\ arg' = arg /\ pc[t] \in {"deq", "idle"}
    BY <1>4 DEF DequeueTakes, SignalRemoved
  <2>2. \A u \in Threads : pc[u] \in {"enq", "enqwait"} => q[u] \in {"enq", "enqwait"}
    BY <2>1
  <2>3. DOMAIN q = Threads
    BY <1>0
  <2> HIDE DEF q
  <2> QED BY <1>0, <2>1, <2>2, <2>3, SignalKeepsEnqueuers
<1>5. CASE Stop
  BY <1>0, <1>5 DEF Stop, AllWake, Broadcast
<1>6. ASSUME NEW n \in Limits, SetMaxSize(n) PROVE ArgOnlyInCall'
  BY <1>0, <1>6 DEF SetMaxSize, Broadcast
<1>7. CASE FreeQueue
  BY <1>0, <1>7 DEF FreeQueue
<1>8. CASE SpuriousWakeup
  BY <1>0, <1>8 DEF SpuriousWakeup
<1>9. CASE UNCHANGED vars
  BY <1>9 DEF vars
<1> QED BY <1>1, <1>2, <1>3, <1>4, <1>5, <1>6, <1>7, <1>8, <1>9 DEF Next, InCall

(* An element moves to another place, or a new one is handed over: nothing   *)
(* is lost and no place is added.                                            *)
LEMMA StepOwnership ==
  ASSUME OwnInv, [Next]_vars
  PROVE  NoneLost' /\ NoneTwice'
<1>0. /\ list \in Seq(Elements) /\ Len(list) \in Nat /\ DOMAIN list = 1..Len(list)
      /\ IsFiniteSet(Holders) /\ Cardinality(Holders) \in Nat
      /\ IsFiniteSet(taken) /\ Cardinality(taken) \in Nat
      /\ IsFiniteSet(dropped) /\ Cardinality(dropped) \in Nat
      /\ issued \in Nat
      /\ arg \in [Threads -> Elements \cup {None}] /\ TypeInv
      /\ NoneLost /\ NoneTwice /\ ArgOnlyInCall
  BY SizeFacts DEF OwnInv, TypeInv, TypeOK
<1>1. ASSUME UNCHANGED <<list, arg, elementVars>> PROVE NoneLost' /\ NoneTwice'
  BY <1>0, <1>1 DEF NoneLost, NoneTwice, ListElements, ArgElements, Holders, elementVars
<1>2. ASSUME NEW t \in Threads, CallEnqueue(t) PROVE NoneLost' /\ NoneTwice'
  <2>1. /\ issued' = issued + 1 /\ arg' = [arg EXCEPT ![t] = issued + 1]
        /\ UNCHANGED <<list, taken, dropped>>
        /\ pc[t] = "idle" /\ issued + 1 \in Elements
    BY <1>0, <1>2, QueueAssumption DEF CallEnqueue, Elements
  <2>2. arg[t] = None /\ issued + 1 # None
    BY <1>0, <2>1, ElementsFacts DEF ArgOnlyInCall
  <2>3. Holders' = Holders \cup {t} /\ t \notin Holders
    BY <1>0, <2>1, <2>2 DEF Holders
  <2>4. ArgElements' = ArgElements \cup {issued + 1} /\ ListElements' = ListElements
    BY <1>0, <2>1, <2>3 DEF ArgElements, ListElements
  <2>5. Cardinality(Holders') = Cardinality(Holders) + 1
    BY <1>0, <2>3, FS_AddElement
  <2>6. 1..issued' = (1..issued) \cup {issued + 1}
    BY <1>0, <2>1
  <2> QED BY <1>0, <2>1, <2>4, <2>5, <2>6 DEF NoneLost, NoneTwice
<1>3. ASSUME NEW t \in Threads, EnqueueAdds(t) PROVE NoneLost' /\ NoneTwice'
  <2>1. /\ arg[t] \in Elements /\ list' = Append(list, arg[t])
        /\ arg' = [arg EXCEPT ![t] = None] /\ UNCHANGED elementVars
    BY <1>0, <1>3 DEF EnqueueAdds, Pushed, TypeInv, ArgHeld
  <2>2. Len(list') = Len(list) + 1 /\ ListElements' = ListElements \cup {arg[t]}
    BY <1>0, <2>1 DEF ListElements
  <2>3. Holders' = Holders \ {t} /\ t \in Holders
    BY <1>0, <2>1, ElementsFacts DEF Holders
  <2>4. ArgElements' \cup {arg[t]} = ArgElements
    BY <1>0, <2>1, <2>3 DEF ArgElements
  <2>5. Cardinality(Holders') = Cardinality(Holders) - 1
    BY <1>0, <2>3, FS_RemoveElement
  <2> QED BY <1>0, <2>1, <2>2, <2>4, <2>5 DEF NoneLost, NoneTwice, elementVars
<1>4. ASSUME NEW t \in Threads, EnqueueGivesUp(t) PROVE NoneLost' /\ NoneTwice'
  <2>1. /\ arg[t] \in Elements /\ dropped' = dropped \cup {arg[t]}
        /\ arg' = [arg EXCEPT ![t] = None] /\ UNCHANGED <<list, issued, taken>>
    BY <1>0, <1>4 DEF EnqueueGivesUp, TypeInv, ArgHeld
  <2>2. Holders' = Holders \ {t} /\ t \in Holders
    BY <1>0, <2>1, ElementsFacts DEF Holders
  <2>3. ArgElements' \cup {arg[t]} = ArgElements /\ ListElements' = ListElements
    BY <1>0, <2>1, <2>2 DEF ArgElements, ListElements
  <2>4. Cardinality(Holders') = Cardinality(Holders) - 1
    BY <1>0, <2>2, FS_RemoveElement
  <2>5. Cardinality(dropped') \in Nat /\ Cardinality(dropped') =< Cardinality(dropped) + 1
    BY <1>0, <2>1, OneMore
  <2> QED BY <1>0, <2>1, <2>3, <2>4, <2>5 DEF NoneLost, NoneTwice
<1>5. ASSUME NEW t \in Threads, TryEnqueue(t) PROVE NoneLost' /\ NoneTwice'
  <2>1. /\ issued' = issued + 1 /\ list' = Append(list, issued + 1)
        /\ UNCHANGED <<arg, taken, dropped>>
    BY <1>5 DEF TryEnqueue
  <2>2. Len(list') = Len(list) + 1 /\ ListElements' = ListElements \cup {issued + 1}
    BY <1>0, <2>1 DEF ListElements
  <2>3. ArgElements' = ArgElements /\ Holders' = Holders
    BY <2>1 DEF ArgElements, Holders
  <2>4. 1..issued' = (1..issued) \cup {issued + 1}
    BY <1>0, <2>1
  <2> QED BY <1>0, <2>1, <2>2, <2>3, <2>4 DEF NoneLost, NoneTwice
<1>6. ASSUME NEW t \in Threads, DequeueTakes(t) PROVE NoneLost' /\ NoneTwice'
  <2>1. /\ list # <<>> /\ list' = Tail(list) /\ taken' = taken \cup {Head(list)}
        /\ UNCHANGED <<arg, issued, dropped>>
    BY <1>6 DEF DequeueTakes, Popped
  <2>2. Len(list') = Len(list) - 1 /\ ListElements' \cup {Head(list)} = ListElements
    <3>1. /\ Len(list') = Len(list) - 1 /\ list' \in Seq(Elements)
          /\ \A i \in 1..Len(list') : list'[i] = list[i + 1]
      BY <1>0, <2>1, HeadTailProperties
    <3>2. Head(list) = list[1] /\ Len(list) >= 1 /\ DOMAIN list' = 1..Len(list')
      BY <1>0, <2>1, <3>1, EmptySeq, LenProperties
    <3>3. \A i \in DOMAIN list : i = 1 \/ (i - 1 \in DOMAIN list' /\ list'[i - 1] = list[i])
      BY <1>0, <3>1, <3>2
    <3>4. \A i \in DOMAIN list' : i + 1 \in DOMAIN list
      BY <1>0, <3>1, <3>2
    <3>5. 1 \in DOMAIN list
      BY <1>0, <3>2
    <3>6. ListElements' \subseteq ListElements
      BY <3>1, <3>2, <3>4 DEF ListElements
    <3>7. ListElements \subseteq ListElements' \cup {Head(list)}
      BY <3>2, <3>3 DEF ListElements
    <3> QED BY <3>1, <3>2, <3>5, <3>6, <3>7 DEF ListElements
  <2>3. ArgElements' = ArgElements /\ Holders' = Holders
    BY <2>1 DEF ArgElements, Holders
  <2>4. Cardinality(taken') \in Nat /\ Cardinality(taken') =< Cardinality(taken) + 1
    BY <1>0, <2>1, OneMore
  <2> QED BY <1>0, <2>1, <2>2, <2>3, <2>4 DEF NoneLost, NoneTwice
<1>7. CASE FreeQueue
  <2>1. list' = <<>> /\ dropped' = dropped \cup ListElements /\ UNCHANGED <<arg, issued, taken>>
    BY <1>7 DEF FreeQueue, ListElements
  <2>2. ListElements' = {} /\ Len(list') = 0 /\ ArgElements' = ArgElements /\ Holders' = Holders
    BY <2>1 DEF ListElements, ArgElements, Holders
  <2>3. Cardinality(dropped') \in Nat /\ Cardinality(dropped') =< Cardinality(dropped) + Len(list)
    <3>1. IsFiniteSet(ListElements) /\ Cardinality(ListElements) =< Len(list)
      <4>1. IsFiniteSet(DOMAIN list) /\ Cardinality(DOMAIN list) = Len(list)
        BY <1>0, UpTo
      <4> QED BY <4>1, ValuesCount DEF ListElements
    <3>2. /\ IsFiniteSet(dropped')
          /\ Cardinality(dropped') =< Cardinality(dropped) + Cardinality(ListElements)
      BY <1>0, <2>1, <3>1, UnionCount
    <3> QED BY <1>0, <3>1, <3>2, FS_CardinalityType
  <2> QED BY <1>0, <2>1, <2>2, <2>3 DEF NoneLost, NoneTwice
<1>8. ASSUME NEW t \in Threads,
             EnqueueWaits(t) \/ CallDequeue(t) \/ DequeueGivesUp(t) \/ DequeueWaits(t)
      PROVE  NoneLost' /\ NoneTwice'
  BY <1>1, <1>8 DEF EnqueueWaits, CallDequeue, DequeueGivesUp, DequeueWaits
<1>9. CASE Stop \/ (\E n \in Limits : SetMaxSize(n)) \/ SpuriousWakeup \/ UNCHANGED vars
  BY <1>1, <1>9 DEF Stop, SetMaxSize, SpuriousWakeup, vars
<1> QED BY <1>2, <1>3, <1>4, <1>5, <1>6, <1>7, <1>8, <1>9 DEF Next, InCall

(* Every element handed to the queue is with a blocked enqueuer, in the      *)
(* list, dequeued or given up, and never in two of these (queue.c:67-86,     *)
(* 103-119): none is lost or delivered twice.                                *)
THEOREM ElementsOwnedOnce == Spec => []OwnedOnce
<1>1. OwnInv /\ [Next]_vars => OwnInv'
  BY StepTypeInv, StepArgOnlyInCall, StepOwnership DEF OwnInv
<1> QED BY InitOwnInv, <1>1, EachOnce, PTL DEF Spec

=============================================================================
