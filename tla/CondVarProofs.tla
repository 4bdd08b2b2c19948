--------------------------- MODULE CondVarProofs ---------------------------
(***************************************************************************)
(* What moving one thread, signalling and broadcasting do to the sets of   *)
(* threads at each program counter, and to their sizes.                    *)
(***************************************************************************)
EXTENDS CondVar, Integers, FiniteSets, FiniteSetTheorems, TLAPS

(* Counts of threads are natural numbers.                                    *)
LEMMA CountType ==
  ASSUME NEW pc, IsFiniteSet(DOMAIN pc), NEW x
  PROVE  IsFiniteSet(Asleep(pc, x)) /\ Cardinality(Asleep(pc, x)) \in Nat
<1>1. IsFiniteSet(Asleep(pc, x))
  BY FS_Subset DEF Asleep
<1> QED BY <1>1, FS_CardinalityType

(* More threads at x means a count that is no smaller.                       *)
LEMMA CountMonotone ==
  ASSUME NEW pc, IsFiniteSet(DOMAIN pc), NEW q, NEW x, Asleep(q, x) \subseteq Asleep(pc, x)
  PROVE  Cardinality(Asleep(q, x)) =< Cardinality(Asleep(pc, x))
BY CountType, FS_Subset

(* Where a thread arrives one more is counted, and where it left one less.   *)
LEMMA Arrival ==
  ASSUME NEW pc, IsFiniteSet(DOMAIN pc), NEW q, NEW x, NEW t,
         t \notin Asleep(pc, x), Asleep(q, x) = Asleep(pc, x) \cup {t}
  PROVE  Cardinality(Asleep(q, x)) = Cardinality(Asleep(pc, x)) + 1
BY CountType, FS_AddElement

LEMMA Departure ==
  ASSUME NEW pc, IsFiniteSet(DOMAIN pc), NEW q, NEW x, NEW t,
         t \in Asleep(pc, x), Asleep(q, x) = Asleep(pc, x) \ {t}
  PROVE  Cardinality(Asleep(q, x)) = Cardinality(Asleep(pc, x)) - 1
BY CountType, FS_RemoveElement

(* A signal leaves everybody where they were when nobody sleeps, and moves   *)
(* exactly one sleeper otherwise.                                            *)
LEMMA SignalMoves ==
  ASSUME NEW pc, NEW x, NEW y, NEW q \in Signal(pc, x, y)
  PROVE  \/ Asleep(pc, x) = {} /\ q = pc
         \/ \E t \in DOMAIN pc : pc[t] = x /\ q = [pc EXCEPT ![t] = y]
BY DEF Signal, Asleep

(* A signal keeps the type of the program counters.                          *)
LEMMA SignalType ==
  ASSUME NEW T, NEW S, NEW pc \in [T -> S], NEW x, NEW y \in S, NEW q \in Signal(pc, x, y)
  PROVE  q \in [T -> S]
BY DEF Signal, Asleep

(* A signal from x to y: the sets at other program counters stay, nobody     *)
(* falls asleep, and if somebody slept then one more is awake.               *)
LEMMA SignalCounts ==
  ASSUME NEW pc, IsFiniteSet(DOMAIN pc), NEW x, NEW y, x # y, NEW q \in Signal(pc, x, y)
  PROVE  /\ DOMAIN q = DOMAIN pc
         /\ \A z : z # x /\ z # y => Asleep(q, z) = Asleep(pc, z)
         /\ Asleep(q, x) \subseteq Asleep(pc, x)
         /\ Asleep(pc, x) # {} => Cardinality(Asleep(q, y)) = Cardinality(Asleep(pc, y)) + 1
<1>1. CASE Asleep(pc, x) = {} /\ q = pc
  BY <1>1
<1>2. CASE \E t \in DOMAIN pc : pc[t] = x /\ q = [pc EXCEPT ![t] = y]
  <2>1. PICK t \in DOMAIN pc : pc[t] = x /\ q = [pc EXCEPT ![t] = y]
    BY <1>2
  <2>2. /\ Asleep(q, x) = Asleep(pc, x) \ {t}
        /\ Asleep(q, y) = Asleep(pc, y) \cup {t}
        /\ \A z : z # x /\ z # y => Asleep(q, z) = Asleep(pc, z)
    BY <2>1 DEF Asleep
  <2>3. t \notin Asleep(pc, y)
    BY <2>1 DEF Asleep
  <2>4. Cardinality(Asleep(q, y)) = Cardinality(Asleep(pc, y)) + 1
    BY <2>2, <2>3, Arrival
  <2> QED BY <2>1, <2>2, <2>4
<1> QED BY <1>1, <1>2, SignalMoves

(* After a broadcast from x nobody is at x, and all others are where they    *)
(* were.                                                                     *)
LEMMA BroadcastSets ==
  ASSUME NEW T, NEW S, NEW pc \in [T -> S], NEW x, NEW y \in S, x # y
  PROVE  /\ Broadcast(pc, x, y) \in [T -> S]
         /\ Asleep(Broadcast(pc, x, y), x) = {}
         /\ Asleep(Broadcast(pc, x, y), y) = Asleep(pc, y) \cup Asleep(pc, x)
         /\ \A z : z # x /\ z # y => Asleep(Broadcast(pc, x, y), z) = Asleep(pc, z)
BY DEF Broadcast, Asleep

=============================================================================
