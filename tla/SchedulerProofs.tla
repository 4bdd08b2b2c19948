-------------------------- MODULE SchedulerProofs --------------------------
(***************************************************************************)
(* Proofs about Scheduler: the bounds of its times, that a schedule is in  *)
(* one map and alone at its key, that the references counted are the ones  *)
(* that exist, and that a schedule does not overlap itself, for every set  *)
(* of schedules and every choice of their flags and callbacks.             *)
(***************************************************************************)
EXTENDS Scheduler, Extremes

(* A thread that cannot be created leaves `valid' without asking whether the *)
(* schedule is still queued (scheduler.c:224), which matters after a run     *)
(* callback: the maps are right where this does not meet one.                *)
CallbacksPooled == ThreadFails => WithRunCb \subseteq Pooled

(* The farthest start a client can ask for.                                  *)
Reach == MaxOf(Periods \cup {0}) + MaxOf(Delays \cup {0})

Types ==
  /\ state \in States /\ users \in 0..MaxUsers
  /\ freeStep \in {"none", "stop", "delete", "schedules", "freed"}
  /\ handle \in [Schedules -> {"none", "held", "unlinked", "gone"}]
  /\ queued \subseteq Schedules /\ idle \subseteq Schedules
  /\ sync \subseteq Schedules \ Concurrent
  /\ period \in [Schedules -> Periods \cup {0}]
  /\ repeat \in [Schedules -> Nat]
  /\ refs \in [Schedules -> Nat] /\ running \in [Schedules -> 0..MaxRuns]
  /\ spc \in {"top", "statewait", "timedwait", "woken", "runcb", "abortcb", "exited"}
  /\ current \in Schedules \cup {None}

From(n) == {s \in Schedules : start[s] >= n}

(* A start beyond Reach comes from keys that were taken, one by one, so the  *)
(* schedules there thin out: this is why no key passes the horizon.          *)
Crowd == \A i \in 0..Cardinality(Schedules) :
  Cardinality(From(Reach + i)) =< Cardinality(Schedules) - i

Starts ==
  /\ start \in [Schedules -> Int]
  /\ \A s \in Schedules : start[s] >= -MaxLate
  /\ Crowd

OwnKey == \A s, q \in queued : start[s] = start[q] => s = q

Mapped == \A s \in Schedules : IF handle[s] = "held" THEN (s \in queued) # (s \in idle)
                                                     ELSE s \notin queued \cup idle

Unborn == \A s \in Schedules : handle[s] = "none" => refs[s] = 0

(* The scheduler thread holds a schedule exactly while it is in a callback.  *)
ThreadInv ==
  /\ (current # None) = (spc \in {"runcb", "abortcb"})
  /\ spc = "runcb" => current \in WithRunCb

(* The last reference is dropped when no delete is half done.                *)
FreeInv ==
  /\ (freeStep # "none") = (users = 0)
  /\ freeStep # "none" => \A s \in Schedules : handle[s] # "unlinked"

Times == Starts /\ schdTime \in 0..Horizon /\ OwnKey
Owners == Types /\ Mapped /\ Unborn /\ NoUseAfterFree /\ NoOverlap /\ ThreadInv /\ FreeInv
IInv == Times /\ Owners

-----------------------------------------------------------------------------
(* The clock *)

LEMMA SetFacts ==
  /\ Cardinality(Schedules) \in Nat
  /\ \A S \in SUBSET Schedules :
       IsFiniteSet(S) /\ Cardinality(S) \in Nat /\ Cardinality(S) =< Cardinality(Schedules)
BY SchedulerAssumption, FS_CardinalityType, FS_Subset

LEMMA MaxOfFacts ==
  ASSUME NEW S, IsFiniteSet(S), S \subseteq Nat
  PROVE  MaxOf(S \cup {0}) \in Nat /\ \A n \in S \cup {0} : n =< MaxOf(S \cup {0})
<1>1. IsFiniteSet(S \cup {0}) /\ S \cup {0} \subseteq Nat /\ S \cup {0} # {}
  BY FS_AddElement
<1>2. \E m \in S \cup {0} : \A n \in S \cup {0} : n =< m
  BY <1>1, GreatestNat
<1> QED BY <1>1, <1>2 DEF MaxOf

(* What a client can ask for lies between 0 and Reach.                       *)
LEMMA ReachFacts ==
  /\ Reach \in Nat /\ Horizon \in Nat
  /\ Horizon = Reach + DefaultWake + Cardinality(Schedules)
  /\ \A p \in Periods \cup {0}, d \in Delays \cup {0} : p + d \in 0..Reach
<1> DEFINE a == MaxOf(Periods \cup {0})
           b == MaxOf(Delays \cup {0})
<1>1. a \in Nat /\ \A p \in Periods \cup {0} : p =< a
  BY SchedulerAssumption, MaxOfFacts
<1>2. b \in Nat /\ \A d \in Delays \cup {0} : d =< b
  BY SchedulerAssumption, MaxOfFacts
<1>3. Periods \cup {0} \subseteq Nat /\ Delays \cup {0} \subseteq Nat
  BY SchedulerAssumption
<1>4. Reach = a + b
  BY DEF Reach
<1>5. Horizon = Reach + DefaultWake + Cardinality(Schedules)
  BY DEF Reach, Horizon
<1> HIDE DEF a, b
<1>6. Reach \in Nat /\ \A p \in Periods \cup {0}, d \in Delays \cup {0} : p + d \in 0..Reach
  BY <1>1, <1>2, <1>3, <1>4
<1> QED BY <1>5, <1>6, SchedulerAssumption, SetFacts

(* iot_schedule_queue_add finds a free key, the first from n on, because the *)
(* keys in use are fewer than the keys it may try.                           *)
LEMMA FreeKey ==
  ASSUME start \in [Schedules -> Int], NEW s \in Schedules, NEW n \in Int,
         NEW Q, Q \subseteq Schedules, NEW k, k = UniqueStart(s, n, Q)
  PROVE  /\ k \in n..(n + Cardinality(Q))
         /\ \A q \in Q \ {s} : start[q] # k
         /\ \A j \in n..(k - 1) : \E q \in Q \ {s} : start[q] = j
<1> DEFINE Others == Q \ {s}
           Busy == {start[q] : q \in Others}
           Tried == n..(n + Cardinality(Q))
<1>1. /\ IsFiniteSet(Others) /\ Cardinality(Others) \in Nat
      /\ Cardinality(Q) \in Nat /\ Cardinality(Others) =< Cardinality(Q)
  BY SetFacts, FS_Subset
<1>2. IsFiniteSet(Busy) /\ Cardinality(Busy) =< Cardinality(Others)
  <2>1. [q \in Others |-> start[q]] \in Surjection(Others, Busy)
    BY DEF Surjection
  <2> QED BY <1>1, <2>1, FS_Surjection
<1>3. IsFiniteSet(Tried) /\ Cardinality(Tried) = Cardinality(Q) + 1
  <2>1. n + Cardinality(Q) \in Int /\ ~ (n > n + Cardinality(Q))
    BY <1>1
  <2>2. /\ IsFiniteSet(Tried)
        /\ Cardinality(Tried) = (n + Cardinality(Q)) - n + 1
    BY <2>1, FS_Interval
  <2> QED BY <1>1, <2>2
<1>4. Tried \ Busy # {}
  <2> SUFFICES ASSUME Tried \subseteq Busy PROVE FALSE
    OBVIOUS
  <2>1. Cardinality(Tried) =< Cardinality(Busy)
    BY <1>2, FS_Subset
  <2> QED BY <1>1, <1>2, <1>3, <2>1, FS_CardinalityType
<1>5. PICK m \in Tried \ Busy : \A j \in Tried \ Busy : m =< j
  <2>1. Tried \ Busy \subseteq Int /\ \A j \in Tried \ Busy : j >= n
    BY <1>1
  <2> HIDE DEF Tried, Busy
  <2> QED BY <1>4, <2>1, LeastFrom
<1>6. /\ \A q \in Others : start[q] # m
      /\ \A j \in n..(m - 1) : \E q \in Others : start[q] = j
  <2>1. \A j \in n..(m - 1) : j \in Tried /\ ~ (m =< j)
    BY <1>1
  <2> QED BY <1>5, <2>1
<1> QED BY <1>5, <1>6 DEF UniqueStart

LEMMA FromFacts == \A n \in Int : From(n) \subseteq Schedules
BY DEF From

(* When no schedule moves to a start above Reach the crowds do not grow.     *)
LEMMA LowStarts ==
  ASSUME Starts, start' \in [Schedules -> Int], \A s \in Schedules : start'[s] >= -MaxLate,
         \A s \in Schedules : start'[s] > Reach => start'[s] =< start[s]
  PROVE  Starts'
<1>1. ASSUME NEW i \in 0..Cardinality(Schedules)
      PROVE  Cardinality(From(Reach + i)') =< Cardinality(Schedules) - i
  <2>1. CASE i = 0
    <3>1. From(Reach + i)' \subseteq Schedules
      BY DEF From
    <3> QED BY <2>1, <3>1, SetFacts
  <2>2. CASE i # 0
    <3>1. From(Reach + i)' \subseteq From(Reach + i)
      BY <2>2, ReachFacts, SetFacts DEF From, Starts
    <3>2. Cardinality(From(Reach + i)) =< Cardinality(Schedules) - i
      BY DEF Starts, Crowd
    <3>3. From(Reach + i) \subseteq Schedules
      BY DEF From
    <3>4. /\ IsFiniteSet(From(Reach + i)) /\ Cardinality(From(Reach + i)) \in Nat
          /\ Cardinality(From(Reach + i)') \in Nat
      BY <3>1, <3>3, SetFacts
    <3>5. Cardinality(From(Reach + i)') =< Cardinality(From(Reach + i))
      BY <3>1, <3>4, FS_Subset
    <3> QED BY <3>2, <3>4, <3>5, SetFacts
  <2> QED BY <2>1, <2>2
<1> QED BY <1>1 DEF Starts, Crowd

StartsBound == start \in [Schedules -> (-MaxLate)..Horizon]

LEMMA StartsBelow == Starts => StartsBound
<1> SUFFICES ASSUME Starts, NEW s \in Schedules PROVE start[s] \in (-MaxLate)..Horizon
  BY DEF Starts, StartsBound
<1> DEFINE C == Cardinality(Schedules)
<1>1. /\ From(Reach + C) \subseteq Schedules
      /\ s \notin From(Reach + C) => start[s] < Reach + C
  BY ReachFacts, SetFacts DEF From, Starts
<1>2. Cardinality(From(Reach + C)) =< C - C
  BY SetFacts DEF Starts, Crowd
<1>3. From(Reach + C) = {}
  BY <1>1, <1>2, SetFacts, FS_EmptySet
<1> QED BY <1>1, <1>3, ReachFacts, SetFacts, SchedulerAssumption DEF Starts

(* A queued schedule has the key it got for itself, and the crowds allow it: *)
(* below a key above Reach everything is taken.                              *)
LEMMA QueueAtTimes ==
  ASSUME Starts, OwnKey, queued \subseteq Schedules, NEW s \in Schedules,
         NEW n \in Int, n >= -MaxLate, n =< Reach \/ n = start[s], QueueAt(s, n)
  PROVE  Starts' /\ OwnKey'
<1> DEFINE C == Cardinality(Schedules)
<1>1. PICK k : k = UniqueStart(s, n, queued)
  OBVIOUS
<1>2. /\ k \in Int /\ k >= n
      /\ \A q \in queued \ {s} : start[q] # k
      /\ \A j \in n..(k - 1) : \E q \in queued \ {s} : start[q] = j
  <2>1. /\ k \in n..(n + Cardinality(queued))
        /\ \A q \in queued \ {s} : start[q] # k
        /\ \A j \in n..(k - 1) : \E q \in queued \ {s} : start[q] = j
    BY <1>1, FreeKey DEF Starts
  <2> QED BY <2>1, SetFacts
<1>3. queued' = queued \cup {s} /\ start' = [start EXCEPT ![s] = k]
  BY <1>1 DEF QueueAt
<1>4. start' \in [Schedules -> Int] /\ \A q \in Schedules : start'[q] >= -MaxLate
  BY <1>2, <1>3, SchedulerAssumption DEF Starts
<1>5. ASSUME NEW i \in 0..C PROVE Cardinality(From(Reach + i)') =< C - i
  <2> DEFINE F == From(Reach + i)
  <2>1. F \subseteq Schedules /\ F' \subseteq Schedules
    BY DEF From
  <2>2. /\ Reach + i \in Int /\ Cardinality(F) =< C - i
        /\ Cardinality(F) \in Nat /\ Cardinality(F') \in Nat /\ C \in Nat
        /\ IsFiniteSet(F) /\ IsFiniteSet(F')
    BY <2>1, SetFacts, ReachFacts DEF Starts, Crowd
  <2>3. CASE F' \subseteq F
    BY <2>2, <2>3, FS_Subset
  <2>4. CASE i = 0
    BY <2>1, <2>4, SetFacts
  <2>5. CASE i # 0 /\ ~ (F' \subseteq F)
    <3>1. /\ F' = F \cup {s} /\ s \notin F
          /\ k >= Reach + i /\ start[s] < Reach + i
      BY <1>3, <1>2, <2>2, <2>5 DEF From, Starts
    <3>2. PICK m \in 0..(i - 1) : n =< Reach + m /\ (m = 0 \/ (n = Reach + m /\ start[s] = n))
      <4>1. CASE n =< Reach
        <5>1. 0 \in 0..(i - 1) /\ n =< Reach + 0
          BY <2>2, <2>5, <4>1, ReachFacts
        <5> QED BY <5>1
      <4>2. CASE n > Reach
        <5>1. n - Reach \in 0..(i - 1) /\ start[s] = n
          BY <4>2, <3>1, ReachFacts
        <5> QED BY <5>1, ReachFacts
      <4> QED BY <4>1, <4>2, ReachFacts
    <3> DEFINE J == (Reach + m)..(Reach + i - 1)
               B == {q \in queued \ {s} : start[q] \in J}
               D == (F \cup {s}) \cup B
    <3>3. B \subseteq Schedules /\ IsFiniteSet(B) /\ Cardinality(B) \in Nat
      BY SetFacts
    <3>4. Cardinality(B) >= i - m
      <4>1. \A j \in J : \E q \in B : start[q] = j
        BY <1>2, <2>2, <3>1, <3>2, ReachFacts
      <4>2. [q \in B |-> start[q]] \in Surjection(B, J)
        BY <4>1 DEF Surjection
      <4>3. Cardinality(J) =< Cardinality(B)
        BY <3>3, <4>2, FS_Surjection
      <4>4. Reach + m \in Int /\ Reach + i - 1 \in Int /\ ~ (Reach + m > Reach + i - 1)
        BY ReachFacts
      <4>5. Cardinality(J) = (Reach + i - 1) - (Reach + m) + 1
        BY <4>4, FS_Interval
      <4> QED BY <3>3, <4>3, <4>5, ReachFacts
    <3>5. Cardinality(D) = Cardinality(F) + 1 + Cardinality(B)
      <4>1. IsFiniteSet(F \cup {s}) /\ Cardinality(F \cup {s}) = Cardinality(F) + 1
        BY <2>2, <3>1, FS_AddElement
      <4>2. (F \cup {s}) \cap B = {}
        BY <2>2, <3>2, ReachFacts DEF From, Starts
      <4>3. Cardinality((F \cup {s}) \cap B) = 0
        BY <4>2, FS_EmptySet
      <4>4. Cardinality(D) = Cardinality(F \cup {s}) + Cardinality(B) - Cardinality((F \cup {s}) \cap B)
        BY <3>3, <4>1, FS_Union
      <4> QED BY <2>2, <3>3, <4>1, <4>3, <4>4
    <3>6. Cardinality(D) =< C - m
      <4>1. D \subseteq Schedules
        BY <2>1, <3>3
      <4>2. CASE m = 0
        BY <4>1, <4>2, SetFacts
      <4>3. CASE m # 0
        <5>1. D \subseteq From(Reach + m)
          BY <3>1, <3>2, <4>3, ReachFacts DEF From, Starts
        <5>2. Cardinality(From(Reach + m)) =< C - m
          BY <2>2 DEF Starts, Crowd
        <5>3. IsFiniteSet(From(Reach + m)) /\ Cardinality(From(Reach + m)) \in Nat
          BY SetFacts DEF From
        <5>4. Cardinality(D) =< Cardinality(From(Reach + m))
          BY <5>1, <5>3, FS_Subset
        <5>5. Cardinality(D) \in Nat
          BY <4>1, SetFacts
        <5> QED BY <2>2, <5>2, <5>3, <5>4, <5>5
      <4> QED BY <4>2, <4>3
    <3>7. Cardinality(F') = Cardinality(F) + 1
      BY <2>2, <3>1, FS_AddElement
    <3> QED BY <2>2, <3>3, <3>4, <3>5, <3>6, <3>7
  <2> QED BY <2>3, <2>4, <2>5
<1>6. OwnKey'
  BY <1>2, <1>3 DEF OwnKey, Starts
<1> QED BY <1>4, <1>5, <1>6 DEF Starts, Crowd

(* Time passes for all alike; the late ones keep their order.                *)
LEMMA TickTimes ==
  ASSUME Times, Types, Tick
  PROVE  Times'
<1> DEFINE M == queued \cup idle
           Before(s) == {q \in M : start[q] < start[s]}
<1>1. \A s \in Schedules : Before(s) \subseteq Schedules /\ M \subseteq Schedules
  BY DEF Types
<1>2. \A s \in Schedules : IsFiniteSet(Before(s)) /\ Cardinality(Before(s)) \in 0..Cardinality(Schedules)
  BY <1>1, SetFacts
<1>3. \A s \in Schedules : Floor(s) = Cardinality(Before(s)) - MaxLate
  BY DEF Floor
<1> HIDE DEF Before
<1>4. \A s \in Schedules : Floor(s) \in (-MaxLate)..0
  BY <1>2, <1>3, SchedulerAssumption, SetFacts
<1>5. /\ start' = [s \in Schedules |->
                     IF s \notin M THEN 0
                     ELSE IF start[s] - 1 > Floor(s) THEN start[s] - 1 ELSE Floor(s)]
      /\ schdTime' = IF schdTime > 0 THEN schdTime - 1 ELSE 0
      /\ queued' = queued /\ start \in [Schedules -> Int]
  BY DEF Tick, Times, Starts
<1>6. Starts'
  <2>1. start' \in [Schedules -> Int] /\ \A s \in Schedules : start'[s] >= -MaxLate
    BY <1>4, <1>5, SchedulerAssumption
  <2>2. \A s \in Schedules : start'[s] > Reach => start'[s] =< start[s]
    BY <1>4, <1>5, ReachFacts
  <2> QED BY <2>1, <2>2, LowStarts DEF Times
<1>7. ASSUME NEW s \in M, NEW q \in M, start[s] < start[q] PROVE start'[s] < start'[q]
  <2>1. s \in Schedules /\ q \in Schedules
    BY DEF Types
  <2>2. Before(s) \cup {s} \subseteq Before(q) /\ s \notin Before(s)
    BY <1>5, <1>7, <2>1, <1>1 DEF Before
  <2>3. /\ Cardinality(Before(s) \cup {s}) = Cardinality(Before(s)) + 1
        /\ Cardinality(Before(s) \cup {s}) =< Cardinality(Before(q))
    BY <1>2, <2>1, <2>2, FS_AddElement, FS_Subset
  <2>4. Floor(s) < Floor(q)
    BY <1>2, <1>3, <2>1, <2>3, SchedulerAssumption
  <2> QED BY <1>4, <1>5, <1>7, <2>1, <2>4, SchedulerAssumption
<1>8. OwnKey'
  <2> SUFFICES ASSUME NEW s \in queued, NEW q \in queued, s # q PROVE start'[s] # start'[q]
    BY <1>5 DEF OwnKey
  <2>1. start[s] < start[q] \/ start[q] < start[s]
    BY <1>5, <1>1 DEF OwnKey, Times, Types
  <2>2. start'[s] \in Int /\ start'[q] \in Int
    BY <1>6 DEF Starts, Types
  <2> QED BY <1>7, <2>1, <2>2
<1>9. schdTime' \in 0..Horizon
  BY <1>5, ReachFacts DEF Times
<1> QED BY <1>6, <1>8, <1>9 DEF Times

LEMMA FrontFacts ==
  ASSUME Starts, queued \subseteq Schedules, queued # {}
  PROVE  Front \in queued
<1>1. \E s \in queued : \A q \in queued : start[s] =< start[q]
  <2>1. -MaxLate \in Int
    BY SchedulerAssumption
  <2> QED BY <2>1, LeastValue DEF Starts
<1> QED BY <1>1 DEF Front

(* schd_time is set to the start of the first schedule, within the horizon.  *)
LEMMA EndPassTimes ==
  ASSUME Starts', queued' \subseteq Schedules, EndPass
  PROVE  schdTime' \in 0..Horizon /\ spc' = "top" /\ current' = None
<1>1. StartsBound'
  BY StartsBelow, PTL
<1>2. CASE queued' = {}
  BY <1>2, ReachFacts, SetFacts, SchedulerAssumption DEF EndPass
<1>3. CASE queued' # {}
  <2> DEFINE first == CHOOSE s \in queued' : \A q \in queued' : start'[s] =< start'[q]
  <2>1. \E s \in queued' : \A q \in queued' : start'[s] =< start'[q]
    <3>1. -MaxLate \in Int
      BY SchedulerAssumption
    <3>2. start' \in [Schedules -> Int] /\ \A s \in Schedules : start'[s] >= -MaxLate
      BY DEF Starts
    <3> QED BY <1>3, <3>1, <3>2, LeastValue
  <2>2. first \in Schedules
    BY <2>1
  <2>3. start'[first] \in (-MaxLate)..Horizon
    BY <1>1, <2>2 DEF StartsBound
  <2>4. schdTime' = IF start'[first] > 0 THEN start'[first] ELSE 0
    BY <1>3 DEF EndPass
  <2> HIDE DEF first
  <2> QED BY <2>3, <2>4, ReachFacts, SchedulerAssumption DEF EndPass
<1> QED BY <1>2, <1>3

LEMMA SameTimes ==
  ASSUME Times, UNCHANGED <<start, schdTime>>, queued' \subseteq queued
  PROVE  Times'
BY DEF Times, Starts, Crowd, From, OwnKey

(* Keys of one map and an idle schedule with a start a client asks for.      *)
LEMMA IdleStart ==
  ASSUME Times, NEW s \in Schedules, NEW d \in 0..Reach, s \notin queued, queued \subseteq Schedules,
         start' = [start EXCEPT ![s] = d], UNCHANGED <<queued, schdTime>>
  PROVE  Times'
<1>1. Starts'
  <2>1. start' \in [Schedules -> Int] /\ \A q \in Schedules : start'[q] >= -MaxLate
    BY ReachFacts, SchedulerAssumption DEF Times, Starts
  <2>2. \A q \in Schedules : start'[q] > Reach => start'[q] =< start[q]
    BY ReachFacts DEF Times, Starts
  <2> QED BY <2>1, <2>2, LowStarts DEF Times
<1>2. OwnKey'
  BY DEF Times, OwnKey, Starts
<1> QED BY <1>1, <1>2 DEF Times

LEMMA QueuedTimes ==
  ASSUME Times, queued \subseteq Schedules, NEW s \in Schedules, NEW n \in Int, n >= -MaxLate,
         n =< Reach \/ n = start[s], QueueAt(s, n), UNCHANGED schdTime
  PROVE  Times'
BY QueueAtTimes DEF Times

(* The end of a pass: the schedule handled is requeued, idle or left where   *)
(* its clients put it.                                                       *)
LEMMA RequeueFacts ==
  ASSUME Times, Types, NEW s \in Schedules, NEW valid, valid => s \in queued, Requeue(s, valid)
  PROVE  /\ Times'
         /\ spc' = "top" /\ current' = None
         /\ repeat' \in [Schedules -> Nat]
         /\ \/ queued' = queued /\ idle' = idle
            \/ s \in queued /\ queued' = queued \ {s} /\ idle' = idle \cup {s}
         /\ UNCHANGED <<clientVars, handle, sync, period>>
<1>1. UNCHANGED <<clientVars, handle, sync, period>> /\ EndPass
  BY DEF Requeue
<1>2. CASE ~valid
  <2>1. UNCHANGED <<queued, idle, start, repeat>>
    BY <1>2 DEF Requeue
  <2>2. Starts' /\ OwnKey'
    BY <2>1 DEF Times, Starts, Crowd, From, OwnKey
  <2> QED BY <1>1, <2>1, <2>2, EndPassTimes DEF Times, Types
<1>3. CASE valid /\ repeat[s] = 1
  <2>1. /\ repeat' = [repeat EXCEPT ![s] = 0] /\ UNCHANGED start
        /\ queued' = queued \ {s} /\ idle' = idle \cup {s}
    BY <1>3 DEF Requeue
  <2>2. Starts' /\ OwnKey'
    BY <2>1 DEF Times, Starts, Crowd, From, OwnKey
  <2> QED BY <1>1, <1>3, <2>1, <2>2, EndPassTimes DEF Times, Types
<1>4. CASE valid /\ repeat[s] # 1
  <2>1. /\ repeat' = [repeat EXCEPT ![s] = RepeatLeft(s)]
        /\ QueueAt(s, period[s]) /\ UNCHANGED idle
    BY <1>4 DEF Requeue
  <2>2. period[s] \in Int /\ period[s] >= -MaxLate /\ period[s] =< Reach
    <3>1. period[s] \in Periods \cup {0} /\ 0 \in Delays \cup {0}
      BY DEF Types
    <3>2. period[s] \in Nat
      <4>1. Periods \subseteq Nat
        BY SchedulerAssumption
      <4>2. Periods \cup {0} \subseteq Nat
        BY <4>1
      <4> QED BY <3>1, <4>2, Zenon
    <3>3. period[s] + 0 \in 0..Reach
      BY <3>1, ReachFacts
    <3> QED BY <3>2, <3>3, SchedulerAssumption, ReachFacts
  <2>3. Starts' /\ OwnKey'
    BY <2>1, <2>2, QueueAtTimes DEF Times, Types
  <2>4. queued' = queued
    BY <1>4, <2>1 DEF QueueAt
  <2>5. repeat' \in [Schedules -> Nat]
    BY <2>1 DEF RepeatLeft, Types
  <2> QED BY <1>1, <2>1, <2>3, <2>4, <2>5, EndPassTimes DEF Times, Types
<1> QED BY <1>2, <1>3, <1>4

-----------------------------------------------------------------------------
(* The owners of a schedule *)

LEMMA InitIInv == Init => IInv
<1> SUFFICES ASSUME Init PROVE IInv
  OBVIOUS
<1>1. Owners
  BY SchedulerAssumption
  DEF Init, Owners, Types, Mapped, Unborn, NoUseAfterFree, NoOverlap, ThreadInv, FreeInv, States
<1>2. start \in [Schedules -> Int] /\ \A s \in Schedules : start[s] = 0
  BY DEF Init
<1>3. ASSUME NEW i \in 0..Cardinality(Schedules)
      PROVE  Cardinality(From(Reach + i)) =< Cardinality(Schedules) - i
  <2>1. CASE i = 0
    BY <2>1, SetFacts, FromFacts, ReachFacts
  <2>2. CASE i # 0
    <3>1. From(Reach + i) = {}
      BY <1>2, <2>2, ReachFacts, SetFacts DEF From
    <3> QED BY <3>1, SetFacts, FS_EmptySet
  <2> QED BY <2>1, <2>2
<1>4. Times
  BY <1>2, <1>3, ReachFacts, SchedulerAssumption DEF Init, Times, Starts, Crowd, OwnKey
<1> QED BY <1>1, <1>4 DEF IInv

(* What a requeue does to the maps keeps each schedule in one of them, and   *)
(* the references are counted right when the action left them so.            *)
LEMMA RequeueOwners ==
  ASSUME IInv, NEW s \in Schedules, NEW valid, valid => s \in queued, Requeue(s, valid),
         refs' \in [Schedules -> Nat], running' \in [Schedules -> 0..MaxRuns],
         current \in {s, None},
         \A q \in Schedules \ {s} : refs'[q] = refs[q] /\ running'[q] = running[q],
         refs'[s] = running'[s] + (IF handle[s] \in {"held", "unlinked"} THEN 1 ELSE 0),
         s \in Concurrent \/ running'[s] =< 1, handle[s] # "none"
  PROVE  IInv'
<1>1. /\ Times'
      /\ spc' = "top" /\ current' = None
      /\ repeat' \in [Schedules -> Nat]
      /\ \/ queued' = queued /\ idle' = idle
         \/ s \in queued /\ queued' = queued \ {s} /\ idle' = idle \cup {s}
      /\ UNCHANGED <<clientVars, handle, sync, period>>
  BY RequeueFacts DEF IInv, Owners
<1>2. Types'
  BY <1>1 DEF IInv, Owners, Types, clientVars
<1>3. Mapped' /\ Unborn'
  BY <1>1 DEF IInv, Owners, Types, Mapped, Unborn
<1>4. NoUseAfterFree'
  <2> SUFFICES ASSUME NEW q \in Schedules
               PROVE  /\ refs'[q] = running'[q] + (IF handle'[q] \in {"held", "unlinked"} THEN 1 ELSE 0)
                                                + (IF current' = q THEN 1 ELSE 0)
                      /\ q \in queued' \cup idle' \/ current' = q => refs'[q] > 0
    BY DEF NoUseAfterFree
  <2>1. current' # q
    BY <1>1, SchedulerAssumption
  <2>2. refs'[q] = running'[q] + (IF handle'[q] \in {"held", "unlinked"} THEN 1 ELSE 0)
    <3>1. CASE q = s
      BY <1>1, <3>1
    <3>2. CASE q # s
      <4>1. current # q
        BY <3>2, SchedulerAssumption
      <4> QED BY <1>1, <3>2, <4>1 DEF IInv, Owners, Types, NoUseAfterFree
    <3> QED BY <3>1, <3>2
  <2>3. q \in queued' \cup idle' => handle'[q] = "held"
    BY <1>3 DEF Mapped
  <2>4. refs'[q] \in Nat /\ running'[q] \in Nat
    OBVIOUS
  <2> QED BY <2>1, <2>2, <2>3, <2>4
<1>5. NoOverlap'
  BY <1>1, SchedulerAssumption DEF IInv, Owners, Types, NoOverlap
<1>6. ThreadInv' /\ FreeInv'
  BY <1>1 DEF IInv, Owners, ThreadInv, FreeInv, clientVars
<1> QED BY <1>1, <1>2, <1>3, <1>4, <1>5, <1>6 DEF IInv, Owners

(* The thread goes into a callback with one more reference than it had.      *)
LEMMA CallbackOwners ==
  ASSUME IInv, NEW s \in Schedules, current \in {s, None},
         refs' \in [Schedules -> Nat], \A q \in Schedules \ {s} : refs'[q] = refs[q],
         refs'[s] = running[s] + (IF handle[s] \in {"held", "unlinked"} THEN 1 ELSE 0) + 1,
         s \in Concurrent \/ running[s] = 0, handle[s] # "none",
         spc' \in {"runcb", "abortcb"}, spc' = "runcb" => s \in WithRunCb, current' = s,
         UNCHANGED <<clientVars, mapVars, running, schdTime>>
  PROVE  IInv'
<1>1. Times'
  BY SameTimes DEF IInv, mapVars
<1>2. Types'
  BY DEF IInv, Owners, Types, clientVars, mapVars
<1>3. Mapped' /\ FreeInv' /\ Unborn'
  BY DEF IInv, Owners, Mapped, FreeInv, Unborn, clientVars, mapVars
<1>4. ThreadInv'
  BY SchedulerAssumption DEF ThreadInv
<1>5. NoUseAfterFree'
  <2> SUFFICES ASSUME NEW q \in Schedules
               PROVE  /\ refs'[q] = running'[q] + (IF handle'[q] \in {"held", "unlinked"} THEN 1 ELSE 0)
                                                + (IF current' = q THEN 1 ELSE 0)
                      /\ q \in queued' \cup idle' \/ current' = q => refs'[q] > 0
    BY DEF NoUseAfterFree
  <2>1. running'[q] \in Nat /\ running' = running /\ handle' = handle
    BY <1>2 DEF Types, mapVars
  <2>2. q \in queued' \cup idle' => handle'[q] = "held"
    BY <1>3 DEF Mapped
  <2>3. CASE q = s
    BY <2>1, <2>3
  <2>4. CASE q # s
    <3>1. current # q
      BY <2>4, SchedulerAssumption
    <3>2. refs'[q] = refs[q] /\ refs[q] = running[q] + (IF handle[q] \in {"held", "unlinked"} THEN 1 ELSE 0)
      BY <2>1, <2>4, <3>1 DEF IInv, Owners, Types, NoUseAfterFree
    <3> QED BY <2>1, <2>2, <2>4, <3>2
  <2> QED BY <2>3, <2>4
<1>6. NoOverlap'
  <2> SUFFICES ASSUME NEW q \in Schedules \ Concurrent
               PROVE  running'[q] + (IF current' = q THEN 1 ELSE 0) =< 1
    BY DEF NoOverlap
  <2>1. running'[q] \in Nat /\ running' = running
    BY <1>2 DEF Types
  <2>2. CASE q = s
    BY <2>1, <2>2
  <2>3. CASE q # s
    <3>1. running[q] =< 1
      BY <2>1, <2>3, SchedulerAssumption DEF IInv, Owners, NoOverlap
    <3> QED BY <2>1, <2>3, <3>1
  <2> QED BY <2>2, <2>3
<1> QED BY <1>1, <1>2, <1>3, <1>4, <1>5, <1>6 DEF IInv, Owners

(* Lines 192 to 225, from the references the schedule has without the run's. *)
LEMMA DispatchOwners ==
  ASSUME IInv, NEW s \in Schedules, NEW r \in Nat, NEW valid, valid => s \in queued,
         current \in {s, None},
         r = running[s] + (IF handle[s] \in {"held", "unlinked"} THEN 1 ELSE 0),
         s \in Concurrent \/ running[s] = 0, handle[s] # "none",
         s \notin Pooled /\ ThreadFails => s \in queued,
         Dispatch(s, r, valid)
  PROVE  IInv'
<1>0. refs \in [Schedules -> Nat] /\ running \in [Schedules -> 0..MaxRuns] /\ MaxRuns \in Nat
  BY SchedulerAssumption DEF IInv, Owners, Types
<1>1. ASSUME NEW v, v => s \in queued,
             refs' = [refs EXCEPT ![s] = r], UNCHANGED running, Requeue(s, v)
      PROVE  IInv'
  <2>1. refs' \in [Schedules -> Nat] /\ \A q \in Schedules \ {s} : refs'[q] = refs[q]
    BY <1>0, <1>1
  <2>2. refs'[s] = running'[s] + (IF handle[s] \in {"held", "unlinked"} THEN 1 ELSE 0)
    BY <1>0, <1>1
  <2>3. running' \in [Schedules -> 0..MaxRuns] /\ \A q \in Schedules \ {s} : running'[q] = running[q]
    BY <1>0, <1>1
  <2>4. s \in Concurrent \/ running'[s] =< 1
    BY <1>1
  <2> QED BY <1>1, <2>1, <2>2, <2>3, <2>4, RequeueOwners
<1>2. CASE s \in sync /\ refs' = [refs EXCEPT ![s] = r] /\ UNCHANGED running /\ Requeue(s, valid)
  BY <1>1, <1>2
<1>3. CASE /\ s \notin sync /\ running[s] < MaxRuns
           /\ refs' = [refs EXCEPT ![s] = r + 1]
           /\ running' = [running EXCEPT ![s] = @ + 1]
           /\ Requeue(s, valid)
  <2>1. refs' \in [Schedules -> Nat] /\ \A q \in Schedules \ {s} : refs'[q] = refs[q]
    BY <1>0, <1>3
  <2>2. running' \in [Schedules -> 0..MaxRuns] /\ \A q \in Schedules \ {s} : running'[q] = running[q]
    BY <1>0, <1>3
  <2>3. refs'[s] = running'[s] + (IF handle[s] \in {"held", "unlinked"} THEN 1 ELSE 0)
    BY <1>0, <1>3
  <2>4. s \in Concurrent \/ running'[s] =< 1
    BY <1>0, <1>3
  <2> QED BY <1>3, <2>1, <2>2, <2>3, <2>4, RequeueOwners
<1>4. CASE /\ s \in Pooled \ sync /\ s \notin WithAbortCb
           /\ refs' = [refs EXCEPT ![s] = r] /\ UNCHANGED running
           /\ Requeue(s, r > 0 /\ s \in queued)
  BY <1>1, <1>4
<1>5. CASE /\ s \in (Pooled \cap WithAbortCb) \ sync
           /\ refs' = [refs EXCEPT ![s] = r + 1]
           /\ spc' = "abortcb" /\ current' = s
           /\ UNCHANGED <<clientVars, mapVars, running, schdTime>>
  <2>1. refs' \in [Schedules -> Nat] /\ \A q \in Schedules \ {s} : refs'[q] = refs[q]
    BY <1>0, <1>5
  <2>2. refs'[s] = running[s] + (IF handle[s] \in {"held", "unlinked"} THEN 1 ELSE 0) + 1
    BY <1>0, <1>5
  <2>3. spc' \in {"runcb", "abortcb"} /\ spc' # "runcb"
    BY <1>5
  <2> QED BY <1>5, <2>1, <2>2, <2>3, CallbackOwners
<1>6. CASE /\ s \notin sync \cup Pooled /\ ThreadFails
           /\ refs' = [refs EXCEPT ![s] = r] /\ UNCHANGED running
           /\ Requeue(s, r > 0)
  BY <1>1, <1>6
<1> QED BY <1>2, <1>3, <1>4, <1>5, <1>6 DEF Dispatch

(* iot_scheduler_thread                                                      *)
LEMMA ThreadStep ==
  ASSUME IInv, CallbacksPooled, Thread
  PROVE  IInv'
<1> DEFINE s == Front
           clientRef(q) == IF handle[q] \in {"held", "unlinked"} THEN 1 ELSE 0
<1>0. /\ refs \in [Schedules -> Nat] /\ running \in [Schedules -> 0..MaxRuns] /\ MaxRuns \in Nat
      /\ queued \subseteq Schedules
  BY SchedulerAssumption DEF IInv, Owners, Types
<1>1. CASE \/ ThreadTop \/ TimedOut \/ ThreadNotRunning
  <2>1. /\ UNCHANGED <<clientVars, mapVars, runVars, current, schdTime>>
        /\ spc \in {"top", "timedwait", "woken"}
        /\ spc' \in {"top", "statewait", "timedwait", "woken", "exited"}
    BY <1>1 DEF ThreadTop, TimedOut, ThreadNotRunning
  <2>2. Times'
    BY <2>1, SameTimes DEF IInv, mapVars
  <2>3. Owners'
    BY <2>1 DEF IInv, Owners, Types, Mapped, Unborn, NoUseAfterFree, NoOverlap, ThreadInv, FreeInv,
                clientVars, mapVars, runVars
  <2> QED BY <2>2, <2>3 DEF IInv
<1>2. CASE NothingDue
  <2>1. /\ UNCHANGED <<clientVars, mapVars, runVars>> /\ EndPass
        /\ spc = "woken"
    BY <1>2 DEF NothingDue
  <2>2. Starts' /\ OwnKey'
    BY <2>1 DEF IInv, Times, Starts, Crowd, From, OwnKey, mapVars
  <2>3. spc' = "top" /\ current' = None /\ schdTime' \in 0..Horizon
    BY <1>0, <2>1, <2>2, EndPassTimes DEF mapVars
  <2>4. current = None
    BY <2>1 DEF IInv, Owners, ThreadInv
  <2>5. Owners'
    BY <2>1, <2>3, <2>4 DEF IInv, Owners, Types, Mapped, Unborn, NoUseAfterFree, NoOverlap, ThreadInv, FreeInv,
                      clientVars, mapVars, runVars
  <2> QED BY <2>2, <2>3, <2>5 DEF IInv, Times
<1>3. CASE SkipRunning \/ RunWithoutCallback \/ CallRunCb
  <2>0. spc = "woken" /\ queued # {}
    BY <1>3 DEF SkipRunning, RunWithoutCallback, CallRunCb, Due
  <2>1. s \in queued /\ s \in Schedules
    BY <1>0, <2>0, FrontFacts DEF IInv, Times
  <2>2. current = None
    BY <2>0 DEF IInv, Owners, ThreadInv
  <2>3. handle[s] = "held" /\ refs[s] = running[s] + clientRef(s)
    BY <2>1, <2>2, <1>0, SchedulerAssumption DEF IInv, Owners, Mapped, NoUseAfterFree
  <2>4. MayRun(s) => s \in Concurrent \/ running[s] = 0
    BY <1>0, <2>1, <2>3 DEF MayRun
  <2> HIDE DEF s
  <2>5. CASE SkipRunning
    <3>1. Requeue(s, TRUE) /\ UNCHANGED runVars
      BY <2>5 DEF SkipRunning, s
    <3>2. s \in Concurrent \/ running[s] =< 1
      BY <2>1, <1>0, SchedulerAssumption, <2>2 DEF IInv, Owners, NoOverlap
    <3> QED BY <1>0, <2>1, <2>2, <2>3, <3>1, <3>2, RequeueOwners DEF runVars
  <2>6. CASE RunWithoutCallback
    <3>1. MayRun(s) /\ Dispatch(s, refs[s], TRUE)
      BY <2>6 DEF RunWithoutCallback, s
    <3> QED BY <1>0, <2>1, <2>2, <2>3, <2>4, <3>1, DispatchOwners
  <2>7. CASE CallRunCb
    <3>1. /\ MayRun(s) /\ s \in WithRunCb
          /\ refs' = [refs EXCEPT ![s] = @ + 1]
          /\ spc' = "runcb" /\ current' = s
          /\ UNCHANGED <<clientVars, mapVars, running, schdTime>>
      BY <2>7 DEF CallRunCb, s
    <3>2. refs' \in [Schedules -> Nat] /\ \A q \in Schedules \ {s} : refs'[q] = refs[q]
      BY <1>0, <2>1, <3>1
    <3>3. refs'[s] = running[s] + clientRef(s) + 1
      BY <1>0, <2>1, <2>3, <3>1
    <3> QED BY <2>1, <2>2, <2>3, <2>4, <3>1, <3>2, <3>3, CallbackOwners
  <2> QED BY <1>3, <2>5, <2>6, <2>7
<1>4. CASE RunCbReturns
  <2>1. /\ current \in Schedules /\ current \in WithRunCb
        /\ Dispatch(current, refs[current] - 1, ValidAfterCb(current))
    BY <1>4 DEF RunCbReturns, IInv, Owners, Types, ThreadInv
  <2>2. refs[current] = running[current] + clientRef(current) + 1 /\ handle[current] # "none"
    BY <1>0, <2>1 DEF IInv, Owners, NoUseAfterFree, Unborn
  <2>3. refs[current] - 1 \in Nat /\ refs[current] - 1 = running[current] + clientRef(current)
    BY <1>0, <2>1, <2>2
  <2>4. current \in Concurrent \/ running[current] = 0
    BY <1>0, <2>1 DEF IInv, Owners, NoOverlap
  <2>5. ~ (current \notin Pooled /\ ThreadFails)
    BY <2>1 DEF CallbacksPooled
  <2>6. ValidAfterCb(current) => current \in queued
    BY DEF ValidAfterCb
  <2> QED BY <2>1, <2>2, <2>3, <2>4, <2>5, <2>6, DispatchOwners
<1>5. CASE AbortCbReturns
  <2>1. /\ current \in Schedules
        /\ refs' = [refs EXCEPT ![current] = @ - 1] /\ UNCHANGED running
        /\ Requeue(current, ValidAfterAbort(current))
    BY <1>5 DEF AbortCbReturns, Aborted, IInv, Owners, Types, ThreadInv
  <2>2. refs[current] = running[current] + clientRef(current) + 1 /\ handle[current] # "none"
    BY <1>0, <2>1 DEF IInv, Owners, NoUseAfterFree, Unborn
  <2>3. refs' \in [Schedules -> Nat] /\ \A q \in Schedules \ {current} : refs'[q] = refs[q]
    BY <1>0, <2>1, <2>2
  <2>4. refs'[current] = running'[current] + clientRef(current)
    BY <1>0, <2>1, <2>2
  <2>5. current \in Concurrent \/ running'[current] =< 1
    BY <1>0, <2>1 DEF IInv, Owners, NoOverlap
  <2>6. ValidAfterAbort(current) => current \in queued
    BY DEF ValidAfterAbort
  <2> QED BY <1>0, <2>1, <2>2, <2>3, <2>4, <2>5, <2>6, RequeueOwners
<1> QED BY <1>1, <1>2, <1>3, <1>4, <1>5
        DEF Thread

(* A wake-up moves the thread out of a wait and nowhere else.                *)
Wakes ==
  \/ spc' = spc
  \/ spc \in {"timedwait", "statewait"} /\ spc' \in {"woken", "top"}

LEMMA WakeFacts ==
  /\ \A cond : WakeIf(cond) => Wakes
  /\ \A new : spc' = StateWakes(new) => Wakes
BY DEF WakeIf, StateWakes, Wakes

(* A client moves a schedule between the maps, or changes its flags, and no  *)
(* reference.                                                                *)
LEMMA MapOwners ==
  ASSUME Owners, Wakes, Mapped',
         queued' \subseteq Schedules, idle' \subseteq Schedules, sync' \subseteq Schedules \ Concurrent,
         period' = period, repeat' = repeat,
         UNCHANGED <<clientVars, handle, runVars, current>>
  PROVE  Owners'
<1>1. Types'
  BY DEF Owners, Types, Wakes, clientVars, runVars
<1>2. ThreadInv' /\ FreeInv' /\ Unborn'
  BY DEF Owners, ThreadInv, FreeInv, Unborn, Wakes, clientVars, runVars
<1>3. NoOverlap'
  BY DEF Owners, NoOverlap, runVars
<1>4. NoUseAfterFree'
  <2> SUFFICES ASSUME NEW q \in Schedules
               PROVE  /\ refs'[q] = running'[q] + (IF handle'[q] \in {"held", "unlinked"} THEN 1 ELSE 0)
                                                + (IF current' = q THEN 1 ELSE 0)
                      /\ q \in queued' \cup idle' \/ current' = q => refs'[q] > 0
    BY DEF NoUseAfterFree
  <2>1. refs'[q] \in Nat /\ running'[q] \in Nat
    BY <1>1 DEF Types
  <2>2. refs'[q] = running'[q] + (IF handle'[q] \in {"held", "unlinked"} THEN 1 ELSE 0)
                               + (IF current' = q THEN 1 ELSE 0)
    BY DEF Owners, NoUseAfterFree, runVars
  <2>3. q \in queued' \cup idle' => handle'[q] = "held"
    BY DEF Mapped
  <2> QED BY <2>1, <2>2, <2>3
<1> QED BY <1>1, <1>2, <1>3, <1>4 DEF Owners

(* The state and the references to the scheduler change, its schedules do    *)
(* not.                                                                      *)
LEMMA StateOwners ==
  ASSUME IInv, Wakes, state' \in States, users' \in 0..MaxUsers,
         freeStep' \in {"none", "stop", "delete", "schedules", "freed"}, FreeInv',
         UNCHANGED <<mapVars, runVars, current, schdTime>>
  PROVE  IInv'
<1>1. Times'
  BY SameTimes DEF IInv, mapVars
<1>2. Owners'
  BY DEF IInv, Owners, Types, Mapped, Unborn, NoUseAfterFree, NoOverlap, ThreadInv, Wakes, mapVars, runVars
<1> QED BY <1>1, <1>2 DEF IInv

LEMMA TickStep == IInv /\ Tick => IInv'
<1> SUFFICES ASSUME IInv, Tick PROVE IInv'
  OBVIOUS
<1>1. Times'
  BY TickTimes DEF IInv, Owners
<1>2. Owners'
  BY DEF IInv, Owners, Types, Mapped, Unborn, NoUseAfterFree, NoOverlap, ThreadInv, FreeInv, Tick,
         clientVars, runVars
<1> QED BY <1>1, <1>2 DEF IInv

(* The scheduler's own references: start, stop, add_ref and free.            *)
LEMMA SchedulerStep ==
  ASSUME IInv,
         \/ StartScheduler \/ StopScheduler \/ AddRef \/ FreeScheduler
         \/ FreeStop \/ FreeDelete \/ SpuriousWakeup
  PROVE  IInv'
<1>0. /\ state \in States /\ users \in 0..MaxUsers /\ MaxUsers \in Nat
      /\ freeStep \in {"none", "stop", "delete", "schedules", "freed"} /\ FreeInv
  BY SchedulerAssumption DEF IInv, Owners, Types
<1>1. \A new \in States : AfterSetState(state, new) \in States
  BY <1>0 DEF AfterSetState, States
<1>2. CASE StartScheduler \/ StopScheduler
  BY <1>0, <1>1, <1>2, WakeFacts, StateOwners
  DEF StartScheduler, StopScheduler, SetState, States, FreeInv, mapVars
<1>3. CASE AddRef
  BY <1>0, <1>3, StateOwners DEF AddRef, InUse, FreeInv, Wakes, mapVars, threadVars
<1>4. CASE FreeScheduler
  BY <1>0, <1>4, StateOwners DEF FreeScheduler, InUse, FreeInv, Wakes, mapVars, threadVars
<1>5. CASE FreeStop \/ FreeDelete
  BY <1>0, <1>1, <1>5, WakeFacts, StateOwners
  DEF FreeStop, FreeDelete, SetState, States, FreeInv, mapVars
<1>6. CASE SpuriousWakeup
  BY <1>0, <1>6, StateOwners DEF SpuriousWakeup, FreeInv, Wakes, mapVars, clientVars
<1> QED BY <1>2, <1>3, <1>4, <1>5, <1>6

(* What clients do with one schedule.                                        *)
LEMMA ScheduleStep ==
  ASSUME IInv, NEW s \in Schedules,
         \/ Create(s) \/ Add(s) \/ RandomiseStart(s) \/ Remove(s) \/ Reset(s)
         \/ DeleteUnlink(s) \/ SetSync(s, TRUE) \/ SetSync(s, FALSE)
  PROVE  IInv'
<1>0. /\ Times /\ Types /\ Starts /\ Mapped /\ queued \subseteq Schedules /\ idle \subseteq Schedules
      /\ handle \in [Schedules -> {"none", "held", "unlinked", "gone"}]
      /\ start \in [Schedules -> Int] /\ \A q \in Schedules : start[q] >= -MaxLate
  BY DEF IInv, Owners, Types, Times, Starts
<1>a. \A d \in Delays : d \in 0..Reach
  <2>1. \A d \in Delays : d \in Nat /\ d \in Delays \cup {0} /\ 0 \in Periods \cup {0}
    BY SchedulerAssumption
  <2>2. \A d \in Delays : 0 + d \in 0..Reach
    BY <2>1, ReachFacts
  <2> QED BY <2>1, <2>2, ReachFacts
<1>b. \A d \in Delays : period[s] + d \in 0..Reach
  <2>1. period[s] \in Periods \cup {0} /\ \A d \in Delays : d \in Delays \cup {0}
    BY <1>0 DEF Types
  <2> QED BY <2>1, ReachFacts
<1>1. CASE Create(s)
  <2>1. PICK d \in Delays, p \in Periods, n \in Repeats :
          /\ start' = [start EXCEPT ![s] = d]
          /\ period' = [period EXCEPT ![s] = p] /\ repeat' = [repeat EXCEPT ![s] = n]
    BY <1>1 DEF Create
  <2>2. /\ handle[s] = "none" /\ handle' = [handle EXCEPT ![s] = "held"]
        /\ refs' = [refs EXCEPT ![s] = 1]
        /\ idle' = idle \cup {s}
        /\ UNCHANGED <<clientVars, queued, sync, running, threadVars>>
    BY <1>1 DEF Create
  <2>3. s \notin queued \cup idle
    BY <1>0, <2>2 DEF Mapped
  <2>4. Times'
    BY <1>0, <1>a, <2>1, <2>2, <2>3, IdleStart DEF threadVars
  <2>5. Types'
    <3>1. Periods \subseteq Nat /\ Repeats \subseteq Nat
      BY SchedulerAssumption
    <3> QED BY <1>0, <2>1, <2>2, <3>1 DEF Types, clientVars, threadVars
  <2>6. Mapped' /\ Unborn' /\ FreeInv' /\ ThreadInv'
    BY <1>0, <2>2, <2>3 DEF IInv, Owners, Mapped, Unborn, FreeInv, ThreadInv, clientVars, threadVars
  <2>7. current # s /\ running[s] = 0
    BY <1>0, <2>2, SchedulerAssumption DEF IInv, Owners, NoUseAfterFree, Unborn, Types
  <2>8. NoUseAfterFree'
    BY <1>0, <2>2, <2>7, SchedulerAssumption DEF IInv, Owners, NoUseAfterFree, Types, threadVars
  <2>9. NoOverlap'
    BY <2>2 DEF IInv, Owners, NoOverlap, threadVars
  <2> QED BY <2>4, <2>5, <2>6, <2>8, <2>9 DEF IInv, Owners
<1>2. CASE Add(s)
  <2>1. /\ handle[s] = "held" /\ s \notin queued
        /\ idle' = idle \ {s} /\ QueueAt(s, start[s]) /\ WakeIf(IsFront(s))
        /\ UNCHANGED <<clientVars, handle, sync, period, repeat, runVars, current, schdTime>>
    BY <1>2 DEF Add
  <2>2. Times'
    BY <1>0, <2>1, QueuedTimes
  <2>3. queued' = queued \cup {s}
    BY <2>1 DEF QueueAt
  <2>4. Mapped'
    BY <1>0, <2>1, <2>3 DEF Mapped
  <2>5. Wakes /\ queued' \subseteq Schedules /\ idle' \subseteq Schedules /\ sync' \subseteq Schedules \ Concurrent
    BY <1>0, <2>1, <2>3, WakeFacts DEF Types
  <2>6. Owners'
    BY <2>1, <2>4, <2>5, MapOwners DEF IInv
  <2> QED BY <2>2, <2>6 DEF IInv
<1>3. CASE RandomiseStart(s)
  <2>1. PICK d \in Delays : start' = [start EXCEPT ![s] = d]
    BY <1>3 DEF RandomiseStart
  <2>2. /\ s \notin queued
        /\ UNCHANGED <<clientVars, handle, queued, idle, sync, period, repeat, runVars, threadVars>>
    BY <1>3 DEF RandomiseStart
  <2>3. Times'
    BY <1>0, <1>a, <2>1, <2>2, IdleStart DEF threadVars
  <2>4. Owners'
    BY <1>0, <2>2, MapOwners DEF IInv, Owners, Mapped, Types, Wakes, threadVars
  <2> QED BY <2>3, <2>4 DEF IInv
<1>4. CASE Remove(s)
  <2>1. /\ handle[s] = "held" /\ s \in queued
        /\ queued' = queued \ {s} /\ idle' = idle \cup {s}
        /\ UNCHANGED <<clientVars, handle, sync, start, period, repeat, runVars, threadVars>>
    BY <1>4 DEF Remove
  <2>2. Times'
    BY <1>0, <2>1, SameTimes DEF threadVars
  <2>3. Mapped'
    BY <1>0, <2>1 DEF Mapped
  <2>4. Owners'
    BY <1>0, <2>1, <2>3, MapOwners DEF IInv, Types, Wakes, threadVars
  <2> QED BY <2>2, <2>4 DEF IInv
<1>5. CASE Reset(s)
  <2>1. PICK d \in Delays :
          IF s \in queued
          THEN QueueAt(s, period[s] + d) /\ WakeIf(IsFront(s))
          ELSE /\ start' = [start EXCEPT ![s] = period[s] + d]
               /\ UNCHANGED <<queued, spc>>
    BY <1>5 DEF Reset
  <2>2. UNCHANGED <<clientVars, handle, idle, sync, period, repeat, runVars, current, schdTime>>
    BY <1>5 DEF Reset
  <2>3. queued' = queued /\ Wakes
    BY <1>0, <2>1, WakeFacts DEF QueueAt, Wakes
  <2>4. Times'
    <3>1. CASE s \in queued
      <4>1. period[s] + d \in Int /\ period[s] + d >= -MaxLate /\ period[s] + d =< Reach
        BY <1>b, ReachFacts, SchedulerAssumption
      <4> QED BY <1>0, <2>1, <2>2, <3>1, <4>1, QueuedTimes
    <3>2. CASE s \notin queued
      BY <1>0, <1>b, <2>1, <2>2, <3>2, IdleStart
    <3> QED BY <3>1, <3>2
  <2>5. Mapped'
    BY <1>0, <2>2, <2>3 DEF Mapped
  <2>6. Owners'
    BY <1>0, <2>2, <2>3, <2>5, MapOwners DEF IInv, Types
  <2> QED BY <2>4, <2>6 DEF IInv
<1>6. CASE DeleteUnlink(s)
  <2>1. /\ users > 0 /\ handle[s] = "held"
        /\ handle' = [handle EXCEPT ![s] = "unlinked"]
        /\ queued' = queued \ {s} /\ idle' = idle \ {s}
        /\ UNCHANGED <<clientVars, sync, start, period, repeat, runVars, threadVars>>
    BY <1>0, <1>6 DEF DeleteUnlink, InUse, Mapped
  <2>2. Times'
    BY <1>0, <2>1, SameTimes DEF threadVars
  <2>3. Types'
    BY <1>0, <2>1 DEF Types, clientVars, runVars, threadVars
  <2>4. Mapped' /\ Unborn'
    BY <1>0, <2>1 DEF IInv, Owners, Mapped, Unborn, runVars
  <2>5. NoUseAfterFree' /\ NoOverlap' /\ ThreadInv'
    BY <1>0, <2>1 DEF IInv, Owners, NoUseAfterFree, NoOverlap, ThreadInv, runVars, threadVars
  <2>6. FreeInv'
    BY <1>0, <2>1 DEF IInv, Owners, FreeInv, Types, clientVars
  <2> QED BY <2>2, <2>3, <2>4, <2>5, <2>6 DEF IInv, Owners
<1>7. CASE SetSync(s, TRUE) \/ SetSync(s, FALSE)
  <2>1. /\ sync' \subseteq Schedules \ Concurrent
        /\ UNCHANGED <<clientVars, handle, queued, idle, start, period, repeat, runVars, threadVars>>
    BY <1>0, <1>7 DEF SetSync, Types
  <2>2. Times'
    BY <1>0, <2>1, SameTimes DEF threadVars
  <2>3. Owners'
    BY <1>0, <2>1, MapOwners DEF IInv, Owners, Mapped, Types, Wakes, threadVars
  <2> QED BY <2>2, <2>3 DEF IInv
<1> QED BY <1>1, <1>2, <1>3, <1>4, <1>5, <1>6, <1>7

(* A run or a delete gives its reference back.                               *)
LEMMA ReleaseStep ==
  ASSUME IInv, NEW s \in Schedules, RunEnds(s) \/ DeleteFree(s)
  PROVE  IInv'
<1>0. /\ refs \in [Schedules -> Nat] /\ running \in [Schedules -> 0..MaxRuns] /\ MaxRuns \in Nat
      /\ handle \in [Schedules -> {"none", "held", "unlinked", "gone"}]
      /\ refs[s] = running[s] + (IF handle[s] \in {"held", "unlinked"} THEN 1 ELSE 0)
                              + (IF current = s THEN 1 ELSE 0)
      /\ handle[s] # "held" => s \notin queued \cup idle
  BY SchedulerAssumption DEF IInv, Owners, Types, NoUseAfterFree, Mapped
<1>1. Times'
  BY SameTimes DEF RunEnds, DeleteFree, IInv, mapVars, threadVars
<1>2. UNCHANGED <<clientVars, queued, idle, sync, period, repeat, spc, current>>
  BY DEF RunEnds, DeleteFree, mapVars, threadVars
<1>3. CASE RunEnds(s)
  <2>1. /\ running[s] > 0 /\ running' = [running EXCEPT ![s] = @ - 1]
        /\ refs' = [refs EXCEPT ![s] = @ - 1] /\ handle' = handle
    BY <1>3 DEF RunEnds, mapVars
  <2>2. Types'
    BY <1>0, <1>2, <2>1 DEF IInv, Owners, Types, clientVars
  <2>3. Mapped' /\ Unborn' /\ FreeInv' /\ ThreadInv'
    BY <1>0, <1>2, <2>1 DEF IInv, Owners, Mapped, Unborn, FreeInv, ThreadInv, clientVars
  <2>4. NoUseAfterFree'
    <3> SUFFICES ASSUME NEW q \in Schedules
                 PROVE  /\ refs'[q] = running'[q] + (IF handle'[q] \in {"held", "unlinked"} THEN 1 ELSE 0)
                                                  + (IF current' = q THEN 1 ELSE 0)
                        /\ q \in queued' \cup idle' \/ current' = q => refs'[q] > 0
      BY DEF NoUseAfterFree
    <3>1. CASE q = s
      BY <1>0, <1>2, <2>1, <3>1
    <3>2. CASE q # s
      BY <1>0, <1>2, <2>1, <3>2 DEF IInv, Owners, NoUseAfterFree
    <3> QED BY <3>1, <3>2
  <2>5. NoOverlap'
    BY <1>0, <1>2, <2>1 DEF IInv, Owners, NoOverlap
  <2> QED BY <1>1, <2>2, <2>3, <2>4, <2>5 DEF IInv, Owners
<1>4. CASE DeleteFree(s)
  <2>1. /\ handle[s] = "unlinked" /\ handle' = [handle EXCEPT ![s] = "gone"]
        /\ refs' = [refs EXCEPT ![s] = @ - 1] /\ running' = running
    BY <1>4 DEF DeleteFree
  <2>2. Types'
    BY <1>0, <1>2, <2>1 DEF IInv, Owners, Types, clientVars
  <2>3. Mapped' /\ Unborn' /\ FreeInv' /\ ThreadInv'
    BY <1>0, <1>2, <2>1 DEF IInv, Owners, Mapped, Unborn, FreeInv, ThreadInv, clientVars
  <2>4. NoUseAfterFree'
    <3> SUFFICES ASSUME NEW q \in Schedules
                 PROVE  /\ refs'[q] = running'[q] + (IF handle'[q] \in {"held", "unlinked"} THEN 1 ELSE 0)
                                                  + (IF current' = q THEN 1 ELSE 0)
                        /\ q \in queued' \cup idle' \/ current' = q => refs'[q] > 0
      BY DEF NoUseAfterFree
    <3>1. CASE q = s
      BY <1>0, <1>2, <2>1, <3>1
    <3>2. CASE q # s
      BY <1>0, <1>2, <2>1, <3>2 DEF IInv, Owners, NoUseAfterFree
    <3> QED BY <3>1, <3>2
  <2>5. NoOverlap'
    BY <1>0, <1>2, <2>1 DEF IInv, Owners, NoOverlap
  <2> QED BY <1>1, <2>2, <2>3, <2>4, <2>5 DEF IInv, Owners
<1> QED BY <1>3, <1>4

(* iot_scheduler_free drops the reference of each schedule still in a map.   *)
LEMMA FreeSchedulesStep ==
  ASSUME IInv, FreeSchedules
  PROVE  IInv'
<1> DEFINE M == queued \cup idle
<1>0. /\ freeStep = "schedules" /\ freeStep' = "freed"
      /\ refs' = [s \in Schedules |-> IF s \in M THEN refs[s] - 1 ELSE refs[s]]
      /\ handle' = [s \in Schedules |-> IF s \in M THEN "gone" ELSE handle[s]]
      /\ queued' = {} /\ idle' = {}
      /\ UNCHANGED <<state, users, sync, start, period, repeat, running, threadVars>>
  BY DEF FreeSchedules
<1>1. \A s \in Schedules : /\ s \in M <=> handle[s] = "held"
                           /\ handle[s] \in {"none", "held", "unlinked", "gone"}
                           /\ s \in M => refs[s] > 0
                           /\ refs[s] \in Nat /\ running[s] \in Nat
  BY SchedulerAssumption DEF IInv, Owners, Types, Mapped, Unborn, NoUseAfterFree
<1>2. Times'
  BY <1>0, SameTimes DEF IInv, threadVars
<1>3. Types'
  BY <1>0, <1>1 DEF IInv, Owners, Types, threadVars
<1>4. Mapped' /\ Unborn' /\ FreeInv' /\ ThreadInv' /\ NoOverlap'
  BY <1>0, <1>1 DEF IInv, Owners, Mapped, Unborn, FreeInv, ThreadInv, NoOverlap, threadVars
<1>5. NoUseAfterFree'
  <2> SUFFICES ASSUME NEW q \in Schedules
               PROVE  /\ refs'[q] = running'[q] + (IF handle'[q] \in {"held", "unlinked"} THEN 1 ELSE 0)
                                                + (IF current' = q THEN 1 ELSE 0)
                      /\ q \in queued' \cup idle' \/ current' = q => refs'[q] > 0
    BY DEF NoUseAfterFree
  <2>1. refs[q] = running[q] + (IF handle[q] \in {"held", "unlinked"} THEN 1 ELSE 0)
                             + (IF current = q THEN 1 ELSE 0)
    BY DEF IInv, Owners, NoUseAfterFree
  <2> QED BY <1>0, <1>1, <2>1 DEF threadVars
<1> QED BY <1>2, <1>3, <1>4, <1>5 DEF IInv, Owners

LEMMA NextStep ==
  ASSUME CallbacksPooled
  PROVE  IInv /\ [Next]_vars => IInv'
<1> SUFFICES ASSUME IInv, [Next]_vars PROVE IInv'
  OBVIOUS
<1>1. CASE Tick
  BY <1>1, TickStep
<1>2. CASE Thread
  BY <1>2, ThreadStep
<1>3. CASE Client \/ Free \/ SpuriousWakeup
  BY <1>3, SchedulerStep, ScheduleStep, FreeSchedulesStep DEF Client, Free
<1>4. ASSUME NEW s \in Schedules, RunEnds(s) \/ DeleteFree(s) PROVE IInv'
  BY <1>4, ReleaseStep
<1>5. CASE UNCHANGED vars
  <2>1. Times'
    BY <1>5, SameTimes DEF vars, mapVars, threadVars, IInv
  <2>2. Owners'
    BY <1>5 DEF vars, clientVars, mapVars, runVars, threadVars, IInv, Owners, Types, Mapped,
                Unborn, NoUseAfterFree, NoOverlap, ThreadInv, FreeInv
  <2> QED BY <2>1, <2>2 DEF IInv
<1> QED BY <1>1, <1>2, <1>3, <1>4, <1>5 DEF Next

LEMMA Inductive ==
  ASSUME CallbacksPooled
  PROVE  Spec => []IInv
BY InitIInv, NextStep, PTL DEF Spec

(* Every variable keeps its type and no start passes the horizon: a schedule *)
(* that meets taken keys is moved at most past the others                    *)
(* (scheduler.c:94).                                                         *)
THEOREM TypeCorrect ==
  ASSUME CallbacksPooled
  PROVE  Spec => []TypeOK
<1>1. IInv => TypeOK
  BY StartsBelow DEF IInv, Times, Owners, Types, TypeOK, StartsBound
<1> QED BY <1>1, Inductive, PTL

(* A schedule its clients hold is in one map, a deleted one in neither, and  *)
(* no two share a key, whatever clients do while the scheduler thread is in  *)
(* a callback without the mutex (scheduler.c:187, 205).                      *)
THEOREM OneMap ==
  ASSUME CallbacksPooled
  PROVE  Spec => []InOneMap
<1>1. IInv => InOneMap
  BY DEF IInv, Times, Owners, OwnKey, Mapped, InOneMap
<1> QED BY <1>1, Inductive, PTL

(* refs counts the owners there are, so no map and no thread is left with a  *)
(* schedule that was freed (scheduler.c:172, 184, 316).                      *)
THEOREM ReferencesExact ==
  ASSUME CallbacksPooled
  PROVE  Spec => []NoUseAfterFree
<1>1. IInv => NoUseAfterFree
  BY DEF IInv, Owners
<1> QED BY <1>1, Inductive, PTL

(* refs = 1 is enough to know that no run is left (scheduler.c:181).         *)
THEOREM RunsAlone ==
  ASSUME CallbacksPooled
  PROVE  Spec => []NoOverlap
<1>1. IInv => NoOverlap
  BY DEF IInv, Owners
<1> QED BY <1>1, Inductive, PTL

=============================================================================
