--------------------------- MODULE ContainerProofs ---------------------------
(***************************************************************************)
(* Proofs about Container and Logger: types, that a logger lives exactly   *)
(* as long as something refers to it and that no walk is at a freed one,   *)
(* that chains end and that components follow what they depend on; for     *)
(* every number of threads, names and loggers and every configuration.     *)
(***************************************************************************)
EXTENDS Container, Extremes, SequenceTheorems, TLAPS

LoggerRec == [name : Config, refs : Nat, next : Nat, state : States]

Ops == {"idle", "find", "init", "add", "start", "stop", "running", "delete", "log", "free"}

CallRec == [op : Ops, at : Nat, via : Nat, name : Config, todo : SUBSET Names, tries : Nat]

FrameRec == [name : Names, config : Config \cup {NoConfig}, listed : BOOLEAN, asked : BOOLEAN]

(* Loggers: their fields, the references to them, and that they are chained  *)
(* without a cycle.                                                          *)
LoggerMap(L) ==
  /\ DOMAIN L \subseteq 1..(MaxLoggers + Default) /\ Default \in DOMAIN L
  /\ L \in [DOMAIN L -> LoggerRec]
  /\ \A o \in DOMAIN L : L[o].next \in DOMAIN L \cup {None}

NoCycle(L) == \A S \in (SUBSET DOMAIN L) \ {{}} : \E o \in S : L[o].next \notin S

OwnTypes == own \in [Threads -> SUBSET (Live \ {Default})]

(* Who refers to a logger: others, but those in X; the list; threads.        *)
Sources(L, x, X) == {y \in DOMAIN L \ X : L[y].next = x}
FromGone(L, gone, x) == {y \in gone : L[y].next = x}
InList(x) == IF x \in Listed THEN 1 ELSE 0
Owners(x) == {t \in Threads : x \in own[t]}
External == [x \in Live |-> InList(x) + Cardinality(Owners(x))]

(* Every reference is counted, and nothing that nobody refers to is left;    *)
(* `ext' counts the references that do not come from loggers outside X.      *)
Counts(L, X, ext) == \A x \in DOMAIN L \ {Default} :
  L[x].refs = Cardinality(Sources(L, x, X)) + ext[x] /\ L[x].refs > 0

(* The list: no component twice, and each after the one it depends on.       *)
ListInv ==
  /\ components \in Seq(Live \ {Default})
  /\ \A i, j \in DOMAIN components : components[i] = components[j] => i = j
  /\ \A o \in Listed : logger[o].name \in Names
  /\ \A i, j \in DOMAIN components : logger[components[i]].next = components[j] => j < i

(* The calls under way.                                                      *)
CallTypes == call \in [Threads -> CallRec]

(* A walk over the list is at a member, a walk along a chain is on the chain *)
(* it started with.                                                          *)
WalkInv == \A t \in Threads :
  /\ call[t].op \in {"start", "stop"} => call[t].at \in Listed
  /\ call[t].op = "log" => /\ call[t].via \in Live
                           /\ call[t].at \in Chain(logger, call[t].via) \ {None}
  /\ call[t].op \notin {"start", "stop", "log"} => call[t].at = None

(* What is used on behalf of the container stays in it meanwhile.            *)
BorrowInv == \A o : Borrowed(o) =>
  o = Default \/ (o \in Listed /\ logger[o].name \notin Deleting /\ ~freed)

(* A component to be deleted is there, and nobody else deletes it.           *)
DeleteInv ==
  /\ \A t \in Threads : call[t].op = "delete" => call[t].name \in Names /\ Present(call[t].name)
  /\ \A t, u \in Threads :
       call[t].op = "delete" /\ call[u].op = "delete" /\ call[t].name = call[u].name => t = u

(* Nobody is in a container that is being freed.                             *)
FreedInv ==
  /\ freed => \A t \in Threads : call[t].op \in {"idle", "log", "free"}
  /\ \A t \in Threads : call[t].op = "free" => freed

StoreTypes == store \in [Names -> Config \cup {NoConfig}]

(* The names in iot_load_in_progress differ, and only the outermost frame    *)
(* may be missing from it.                                                   *)
LoadsInv ==
  /\ loads \in Seq(FrameRec)
  /\ \A i \in DOMAIN loads : i # 1 => loads[i].listed
  /\ \A i, j \in DOMAIN loads :
       loads[i].listed /\ loads[j].listed /\ loads[i].name = loads[j].name => i = j

LoggerInv ==
  /\ LoggerMap(logger) /\ NoCycle(logger) /\ OwnTypes /\ Counts(logger, {}, External) /\ ListInv
  /\ logger[Default].refs = 1
CallInv == CallTypes /\ WalkInv /\ BorrowInv /\ DeleteInv /\ FreedInv /\ StoreTypes /\ LoadsInv
IInv == LoggerInv /\ CallInv

-----------------------------------------------------------------------------
(* What iot_logger_free frees. *)

(* None is no logger, and sets of loggers are finite.                        *)
LEMMA MapFacts ==
  ASSUME NEW L, LoggerMap(L)
  PROVE  /\ None \notin DOMAIN L /\ DOMAIN L \subseteq Nat
         /\ \A S : S \subseteq DOMAIN L => IsFiniteSet(S) /\ Cardinality(S) \in Nat
         /\ \A x, X : IsFiniteSet(Sources(L, x, X)) /\ Cardinality(Sources(L, x, X)) \in Nat
         /\ \A x \in DOMAIN L : L[x] \in LoggerRec /\ L[x].refs \in Nat
<1>1. DOMAIN L \subseteq 1..(MaxLoggers + Default) /\ MaxLoggers + Default \in Nat
  BY LoggerAssumption DEF LoggerMap, Default
<1>2. IsFiniteSet(1..(MaxLoggers + Default))
  BY <1>1, FS_Interval
<1>3. ASSUME NEW S, S \subseteq DOMAIN L
      PROVE  IsFiniteSet(S) /\ Cardinality(S) \in Nat
  BY <1>1, <1>2, <1>3, FS_Subset, FS_CardinalityType
<1>4. ASSUME NEW x, NEW X
      PROVE  IsFiniteSet(Sources(L, x, X)) /\ Cardinality(Sources(L, x, X)) \in Nat
  BY <1>3 DEF Sources
<1>5. \A x \in DOMAIN L : L[x] \in LoggerRec /\ L[x].refs \in Nat
  BY DEF LoggerMap, LoggerRec
<1> QED BY <1>1, <1>3, <1>4, <1>5 DEF None

(* The freed loggers are the smallest set the rules allow: each had one      *)
(* reference; each but the first was referred to by another one; and where   *)
(* the recursion stops, it stops at one logger.                              *)
LEMMA FreedWithFacts ==
  ASSUME NEW L, LoggerMap(L), NEW o \in DOMAIN L \cup {None}
  PROVE  LET gone == FreedWith(L, o) IN
         /\ gone \subseteq DOMAIN L \ {Default}
         /\ \A x \in gone : L[x].refs = 1
         /\ LastReference(L, o) => o \in gone
         /\ o \notin gone => gone = {}
         /\ \A x \in gone : LastReference(L, L[x].next) => L[x].next \in gone
         /\ \A x \in gone : x # o => \E y \in gone : L[y].next = x
         /\ \A x, y \in gone : L[x].next \notin gone /\ L[y].next \notin gone => x = y
         /\ \A S \in SUBSET DOMAIN L :
              /\ LastReference(L, o) => o \in S
              /\ \A x \in S : LastReference(L, L[x].next) => L[x].next \in S
              => gone \subseteq S
<1> DEFINE gone == FreedWith(L, o)
           Follows(S) == /\ LastReference(L, o) => o \in S
                         /\ \A x \in S : LastReference(L, L[x].next) => L[x].next \in S
<1>1. gone \subseteq DOMAIN L /\ \A x \in DOMAIN L : x \in gone <=> \A S \in SUBSET DOMAIN L : Follows(S) => x \in S
  BY DEF FreedWith
<1>2. \A S \in SUBSET DOMAIN L : Follows(S) => gone \subseteq S
  BY <1>1
<1>3. \A x \in DOMAIN L \cup {None} : LastReference(L, x) => x \in DOMAIN L \ {Default} /\ L[x].refs = 1
  BY DEF LastReference, Counted
<1>4. \A x \in DOMAIN L : L[x].next \in DOMAIN L \cup {None}
  BY DEF LoggerMap
<1>5. Follows(gone)
  <2>1. LastReference(L, o) => o \in gone
    BY <1>1, <1>3
  <2>2. ASSUME NEW x \in gone, LastReference(L, L[x].next)
        PROVE  L[x].next \in gone
    <3>1. L[x].next \in DOMAIN L
      BY <1>1, <1>3, <1>4, <2>2
    <3>2. \A S \in SUBSET DOMAIN L : Follows(S) => L[x].next \in S
      BY <1>1, <2>2
    <3> QED BY <1>1, <3>1, <3>2
  <2> QED BY <2>1, <2>2
<1> HIDE DEF gone
<1>6. \A x \in gone : x \in DOMAIN L \ {Default} /\ L[x].refs = 1
  <2> DEFINE S == {x \in DOMAIN L : LastReference(L, x)}
  <2>1. Follows(S)
    BY <1>3, <1>4
  <2>2. gone \subseteq S
    BY <1>2, <2>1
  <2> QED BY <1>3, <2>2
<1>7. o \notin gone => gone = {}
  <2>1. SUFFICES ASSUME o \notin gone
                 PROVE  gone = {}
    OBVIOUS
  <2>2. Follows({})
    BY <1>5, <2>1
  <2>3. {} \in SUBSET DOMAIN L
    OBVIOUS
  <2> QED BY <1>2, <2>2, <2>3
<1>8. ASSUME NEW x \in gone, x # o
      PROVE  \E y \in gone : L[y].next = x
  <2>1. SUFFICES ASSUME \A y \in gone : L[y].next # x
                 PROVE  FALSE
    OBVIOUS
  <2>2. Follows(gone \ {x})
    BY <1>5, <1>8, <2>1
  <2> QED BY <1>1, <1>2, <1>8, <2>2
<1>9. ASSUME NEW x \in gone, NEW y \in gone, L[x].next \notin gone, L[y].next \notin gone, x # y
      PROVE  FALSE
  <2> DEFINE Back(S) == x \in S /\ \A z \in gone : L[z].next \in S => z \in S
             B == {z \in gone : \A S \in SUBSET gone : Back(S) => z \in S}
  <2>1. \A S \in SUBSET gone : Back(S) => B \subseteq S
    OBVIOUS
  <2>2. x \in B
    BY <1>9
  <2>3. ASSUME NEW z \in gone, L[z].next \in B
        PROVE  z \in B
    BY <2>3
  <2>4. ASSUME NEW z \in B, z # x
        PROVE  L[z].next \in B
    <3>1. SUFFICES ASSUME L[z].next \notin B
                   PROVE  FALSE
      OBVIOUS
    <3>2. Back(B \ {z})
      BY <2>2, <2>3, <2>4, <3>1
    <3>3. B \ {z} \in SUBSET gone
      OBVIOUS
    <3> HIDE DEF B
    <3> QED BY <2>1, <2>4, <3>2, <3>3
  <2>5. B \subseteq gone
    OBVIOUS
  <2> HIDE DEF B
  <2>6. o \in B
    <3>1. SUFFICES ASSUME o \notin B
                   PROVE  FALSE
      OBVIOUS
    <3>2. Follows(gone \ B)
      BY <1>5, <2>3, <3>1
    <3> QED BY <1>1, <1>2, <1>9, <2>2, <3>2
  <2>7. Follows(B)
    <3>1. ASSUME NEW z \in B, LastReference(L, L[z].next)
          PROVE  L[z].next \in B
      <4>1. z # x
        BY <1>5, <1>9, <2>5, <3>1
      <4> QED BY <2>4, <3>1, <4>1
    <3> QED BY <2>6, <3>1
  <2>8. y \in B
    BY <1>1, <1>2, <1>9, <2>5, <2>7
  <2>9. L[y].next \in B
    BY <1>9, <2>4, <2>8
  <2> QED BY <1>9, <2>5, <2>9
<1> QED BY <1>1, <1>2, <1>5, <1>6, <1>7, <1>8, <1>9 DEF gone

(* What is left: the fields but the counts stay.                             *)
FieldsLeft(L, K, o, gone) ==
  /\ DOMAIN K = DOMAIN L \ gone
  /\ \A x \in DOMAIN L \ gone :
       /\ K[x].name = L[x].name /\ K[x].next = L[x].next /\ K[x].state = L[x].state
       /\ x # Default => K[x].refs =
            L[x].refs - (Cardinality(FromGone(L, gone, x)) + IF x = o THEN 1 ELSE 0)
       /\ x = Default => K[x] = L[x]
       /\ K[x].refs \in Nat => K[x] \in LoggerRec

LEMMA FreedFields ==
  ASSUME NEW L, LoggerMap(L), NEW o \in DOMAIN L \cup {None},
         NEW gone, gone = FreedWith(L, o), NEW K, K = Freed(L, o)
  PROVE  FieldsLeft(L, K, o, gone)
<1> DEFINE lost(x) == Cardinality(FromGone(L, gone, x)) + IF x = o THEN 1 ELSE 0
<1>1. K = [x \in DOMAIN L \ gone |-> IF Counted(L, x) THEN [L[x] EXCEPT !.refs = @ - lost(x)] ELSE L[x]]
  BY DEF Freed, FromGone
<1>2. \A x \in DOMAIN L : L[x] \in LoggerRec /\ x # None
  BY MapFacts
<1>3. DOMAIN K = DOMAIN L \ gone
  BY <1>1
<1>4. ASSUME NEW x \in DOMAIN L \ gone
      PROVE  /\ K[x].name = L[x].name /\ K[x].next = L[x].next /\ K[x].state = L[x].state
             /\ x # Default => K[x].refs = L[x].refs - lost(x)
             /\ x = Default => K[x] = L[x]
             /\ K[x].refs \in Nat => K[x] \in LoggerRec
  <2>1. L[x] \in LoggerRec /\ x # None
    BY <1>2, <1>4
  <2>2. CASE x = Default
    <3>1. K[x] = L[x]
      BY <1>1, <1>4, <2>2 DEF Counted
    <3> QED BY <2>1, <2>2, <3>1 DEF LoggerRec
  <2>3. CASE x # Default
    <3>1. K[x] = [L[x] EXCEPT !.refs = @ - lost(x)]
      BY <1>1, <1>4, <2>1, <2>3 DEF Counted
    <3> HIDE DEF lost
    <3> QED BY <2>1, <2>3, <3>1 DEF LoggerRec
  <2> QED BY <2>2, <2>3
<1> QED BY <1>3, <1>4 DEF FieldsLeft

(* iot_logger_free (o) by one that refers to o, from outside or from X: what *)
(* is left is referred to, and counted right; what goes, nothing refers to.  *)
FreeRight(L, K, X, ext, o, gone) ==
  /\ LoggerMap(K) \/ \E y \in X : L[y].next \in gone
  /\ \A x \in DOMAIN K \ {Default} :
       /\ K[x].refs = Cardinality(Sources(K, x, X)) + ext[x] - IF x = o THEN 1 ELSE 0
       /\ K[x].refs \in Nat \ {0}
  /\ \A z \in gone : ext[z] = IF z = o THEN 1 ELSE 0
  /\ \A y \in DOMAIN K \ X : L[y].next \notin gone
  /\ K \in [DOMAIN K -> LoggerRec]

LEMMA FreedCounts ==
  ASSUME NEW L, LoggerMap(L), NEW X \in SUBSET DOMAIN L, NEW ext \in [DOMAIN L -> Nat],
         Counts(L, X, ext), NEW o \in DOMAIN L \cup {None},
         o \in DOMAIN L \ {Default} => ext[o] > 0,
         NEW gone, gone = FreedWith(L, o), NEW K, K = Freed(L, o),
         gone \cap X = {}
  PROVE  FreeRight(L, K, X, ext, o, gone)
<1>1. /\ gone \subseteq DOMAIN L \ {Default}
      /\ \A x \in gone : L[x].refs = 1
      /\ LastReference(L, o) => o \in gone
      /\ o \notin gone => gone = {}
      /\ \A x \in gone : LastReference(L, L[x].next) => L[x].next \in gone
      /\ \A x \in gone : x # o => \E y \in gone : L[y].next = x
      /\ \A x, y \in gone : L[x].next \notin gone /\ L[y].next \notin gone => x = y
  BY FreedWithFacts
<1>2. /\ DOMAIN K = DOMAIN L \ gone
      /\ \A x \in DOMAIN L \ gone :
           /\ K[x].name = L[x].name /\ K[x].next = L[x].next /\ K[x].state = L[x].state
           /\ x # Default => K[x].refs = L[x].refs - (Cardinality(FromGone(L, gone, x)) + IF x = o THEN 1 ELSE 0)
           /\ x = Default => K[x] = L[x]
           /\ K[x].refs \in Nat => K[x] \in LoggerRec
  BY FreedFields DEF FieldsLeft
<1>3. \A x \in DOMAIN L : L[x] \in LoggerRec /\ L[x].refs \in Nat /\ x # None /\ ext[x] \in Nat
  BY MapFacts
<1>4. gone \cap X = {}
  OBVIOUS
<1>5. ASSUME NEW x \in DOMAIN L \ {Default}
      PROVE  /\ FromGone(L, gone, x) \subseteq Sources(L, x, X)
             /\ IsFiniteSet(Sources(L, x, X)) /\ Cardinality(Sources(L, x, X)) \in Nat
             /\ IsFiniteSet(FromGone(L, gone, x)) /\ Cardinality(FromGone(L, gone, x)) \in Nat
             /\ L[x].refs = Cardinality(Sources(L, x, X)) + ext[x] /\ L[x].refs > 0
  <2>1. FromGone(L, gone, x) \subseteq Sources(L, x, X)
    BY <1>1, <1>4 DEF Sources, FromGone
  <2>2. FromGone(L, gone, x) \subseteq DOMAIN L
    BY <1>1 DEF FromGone
  <2> QED BY <1>5, <2>1, <2>2, MapFacts DEF Counts
<1>6. ASSUME NEW z \in gone
      PROVE  /\ ext[z] = IF z = o THEN 1 ELSE 0
             /\ \A y \in DOMAIN L \ X : L[y].next = z => y \in gone
  <2>1. z \in DOMAIN L \ {Default} /\ L[z].refs = 1
    BY <1>1, <1>6
  <2> DEFINE n == Cardinality(Sources(L, z, X))
  <2>2. 1 = n + ext[z] /\ ext[z] \in Nat /\ n \in Nat /\ IsFiniteSet(Sources(L, z, X))
    BY <1>3, <1>5, <2>1
  <2>3. CASE z = o
    <3>1. ext[z] > 0
      BY <2>1, <2>3
    <3>2. ext[z] = 1 /\ n = 0
      <4> HIDE DEF n
      <4> QED BY <2>2, <2>3, <3>1
    <3>3. Sources(L, z, X) = {}
      BY <2>2, <3>2, FS_EmptySet
    <3> QED BY <2>3, <3>2, <3>3 DEF Sources
  <2>4. CASE z # o
    <3>1. PICK y \in gone : L[y].next = z
      BY <1>1, <1>6, <2>4
    <3>2. y \in Sources(L, z, X)
      BY <1>1, <1>4, <3>1 DEF Sources
    <3>3. n # 0
      BY <2>2, <3>2, FS_EmptySet
    <3>4. ext[z] = 0 /\ n = 1
      <4> HIDE DEF n
      <4> QED BY <2>2, <3>3
    <3>5. \A w \in Sources(L, z, X) : w = y
      <4>1. Cardinality(Sources(L, z, X) \ {y}) = 0 /\ IsFiniteSet(Sources(L, z, X) \ {y})
        BY <2>2, <3>2, <3>4, FS_RemoveElement
      <4>2. Sources(L, z, X) \ {y} = {}
        BY <4>1, FS_EmptySet
      <4> QED BY <4>2
    <3> QED BY <2>4, <3>1, <3>4, <3>5 DEF Sources
  <2> QED BY <2>3, <2>4
<1>7. ASSUME NEW x \in DOMAIN K \ {Default}
      PROVE  /\ K[x].refs = Cardinality(Sources(K, x, X)) + ext[x] - IF x = o THEN 1 ELSE 0
             /\ K[x].refs \in Nat \ {0}
  <2>1. x \in DOMAIN L \ {Default} /\ x \notin gone
    BY <1>2, <1>7
  <2>2. Sources(K, x, X) = Sources(L, x, X) \ FromGone(L, gone, x)
    BY <1>2 DEF Sources, FromGone
  <2>3. Cardinality(Sources(L, x, X) \ FromGone(L, gone, x)) = Cardinality(Sources(L, x, X)) - Cardinality(FromGone(L, gone, x))
    <3>1. Sources(L, x, X) \cap FromGone(L, gone, x) = FromGone(L, gone, x)
      BY <1>5, <2>1
    <3> QED BY <1>5, <2>1, <3>1, FS_Difference
  <2>4. K[x].refs = L[x].refs - (Cardinality(FromGone(L, gone, x)) + IF x = o THEN 1 ELSE 0)
    BY <1>2, <2>1
  <2>5. K[x].refs = Cardinality(Sources(K, x, X)) + ext[x] - IF x = o THEN 1 ELSE 0
    <3> DEFINE n == Cardinality(Sources(L, x, X))
               m == Cardinality(FromGone(L, gone, x))
               k == Cardinality(Sources(K, x, X))
    <3>1. n \in Nat /\ m \in Nat /\ ext[x] \in Nat /\ L[x].refs = n + ext[x] /\ k = n - m
      BY <1>3, <1>5, <2>1, <2>2, <2>3
    <3>2. K[x].refs = L[x].refs - (m + IF x = o THEN 1 ELSE 0)
      BY <2>4
    <3> HIDE DEF n, m, k
    <3>3. K[x].refs = k + ext[x] - IF x = o THEN 1 ELSE 0
      BY <3>1, <3>2
    <3> QED BY <3>3 DEF k
  <2>6. K[x].refs \in Nat \ {0}
    <3>1. CASE x = o
      <4>1. gone = {}
        BY <1>1, <2>1, <3>1
      <4>2. FromGone(L, gone, x) = {}
        BY <4>1 DEF FromGone
      <4>3. Cardinality(FromGone(L, gone, x)) = 0
        BY <4>2, FS_EmptySet
      <4>4. L[x].refs # 1
        BY <1>1, <1>3, <2>1, <3>1 DEF LastReference, Counted
      <4>5. L[x].refs \in Nat /\ L[x].refs > 0
        BY <1>3, <1>5, <2>1
      <4> QED BY <2>4, <3>1, <4>3, <4>4, <4>5
    <3>2. CASE x # o /\ FromGone(L, gone, x) = {}
      <4>1. Cardinality(FromGone(L, gone, x)) = 0
        BY <3>2, FS_EmptySet
      <4>2. L[x].refs \in Nat /\ L[x].refs > 0
        BY <1>3, <1>5, <2>1
      <4> QED BY <2>4, <3>2, <4>1, <4>2
    <3>3. CASE x # o /\ FromGone(L, gone, x) # {}
      <4>1. PICK y \in FromGone(L, gone, x) : TRUE
        BY <3>3
      <4>2. FromGone(L, gone, x) = {y}
        BY <1>1, <2>1, <4>1 DEF FromGone
      <4>3. Cardinality(FromGone(L, gone, x)) = 1
        BY <4>2, FS_Singleton
      <4>4. L[x].refs # 1
        BY <1>1, <1>3, <2>1, <4>1 DEF LastReference, Counted, FromGone
      <4>5. L[x].refs \in Nat /\ L[x].refs > 0
        BY <1>3, <1>5, <2>1
      <4> QED BY <2>4, <3>3, <4>3, <4>4, <4>5
    <3> QED BY <3>1, <3>2, <3>3
  <2> QED BY <2>5, <2>6
<1>8. \A y \in DOMAIN K \ X : L[y].next \notin gone
  BY <1>2, <1>6
<1>9. ASSUME NEW x \in DOMAIN K
      PROVE  K[x] \in LoggerRec
  <2>1. x \in DOMAIN L \ gone /\ L[x] \in LoggerRec
    BY <1>2, <1>3, <1>9
  <2>2. K[x].refs \in Nat
    BY <1>2, <1>3, <1>7, <1>9, <2>1
  <2> QED BY <1>2, <2>1, <2>2
<1>10. K \in [DOMAIN K -> LoggerRec]
  <2>1. K = [x \in DOMAIN K |-> K[x]]
    BY DEF Freed
  <2> QED BY <1>9, <2>1
<1>11. LoggerMap(K) \/ \E y \in X : L[y].next \in gone
  <2>1. SUFFICES ASSUME \A y \in X : L[y].next \notin gone
                 PROVE  LoggerMap(K)
    OBVIOUS
  <2>2. \A y \in DOMAIN K : K[y].next \in DOMAIN K \cup {None}
    <3>1. TAKE y \in DOMAIN K
    <3>2. y \in DOMAIN L \ gone /\ K[y].next = L[y].next /\ L[y].next \in DOMAIN L \cup {None}
      BY <1>2 DEF LoggerMap
    <3>3. L[y].next \notin gone
      BY <1>8, <2>1
    <3> QED BY <1>2, <3>2, <3>3
  <2> QED BY <1>1, <1>2, <1>10, <2>2 DEF LoggerMap
<1> QED BY <1>6, <1>7, <1>8, <1>10, <1>11 DEF FreeRight

-----------------------------------------------------------------------------
(* The other changes of loggers. *)

(* A change of state is no more than that.                                   *)
LEMMA StateSetFacts ==
  ASSUME NEW L, LoggerMap(L), NEW o \in DOMAIN L, NEW state \in States,
         NEW K, K = StateSet(L, o, state)
  PROVE  /\ LoggerMap(K) /\ DOMAIN K = DOMAIN L
         /\ \A x \in DOMAIN L :
              K[x].name = L[x].name /\ K[x].next = L[x].next /\ K[x].refs = L[x].refs
<1>1. L \in [DOMAIN L -> LoggerRec]
  BY DEF LoggerMap
<1>2. AfterSetState(L[o].state, state) \in States
  BY <1>1 DEF AfterSetState, LoggerRec
<1>3. K = [L EXCEPT ![o].state = AfterSetState(L[o].state, state)]
  BY DEF StateSet
<1>4. K \in [DOMAIN L -> LoggerRec]
  BY <1>1, <1>2, <1>3 DEF LoggerRec
<1>5. \A x \in DOMAIN L :
        K[x].name = L[x].name /\ K[x].next = L[x].next /\ K[x].refs = L[x].refs
  BY <1>1, <1>3 DEF LoggerRec
<1> QED BY <1>4, <1>5 DEF LoggerMap

(* iot_logger_add_ref counts one more.                                       *)
LEMMA ReferencedFacts ==
  ASSUME NEW L, L \in [DOMAIN L -> LoggerRec], NEW o \in DOMAIN L \cup {None},
         NEW K, K = Referenced(L, o)
  PROVE  /\ K \in [DOMAIN L -> LoggerRec] /\ DOMAIN K = DOMAIN L
         /\ \A x \in DOMAIN L :
              /\ K[x].name = L[x].name /\ K[x].next = L[x].next
              /\ x \notin {Default, None} => K[x].refs = L[x].refs + IF x = o THEN 1 ELSE 0
              /\ x = Default => K[x].refs = L[x].refs
<1>1. CASE o \in {None, Default}
  <2>1. K = L
    BY <1>1 DEF Referenced
  <2>2. \A x \in DOMAIN L : L[x].refs \in Nat
    BY DEF LoggerRec
  <2> QED BY <1>1, <2>1, <2>2
<1>2. CASE o \notin {None, Default}
  <2>1. K = [L EXCEPT ![o].refs = L[o].refs + 1] /\ o \in DOMAIN L
    BY <1>2 DEF Referenced
  <2>2. \A x \in DOMAIN L : L[x] \in LoggerRec /\ L[x].refs \in Nat
    BY DEF LoggerRec
  <2>3. K \in [DOMAIN L -> LoggerRec] /\ DOMAIN K = DOMAIN L
    BY <2>1, <2>2 DEF LoggerRec
  <2>4. \A x \in DOMAIN L : K[x] = IF x = o THEN [L[o] EXCEPT !.refs = L[o].refs + 1] ELSE L[x]
    BY <2>1
  <2>5. ASSUME NEW x \in DOMAIN L
        PROVE  /\ K[x].name = L[x].name /\ K[x].next = L[x].next
               /\ K[x].refs = L[x].refs + IF x = o THEN 1 ELSE 0
    BY <2>2, <2>4 DEF LoggerRec
  <2>6. \A x \in DOMAIN L : x = Default => K[x].refs = L[x].refs
    BY <1>2, <2>4
  <2> QED BY <2>3, <2>5, <2>6
<1> QED BY <1>1, <1>2

(* References from outside and their count change alike.                     *)
SameChains(L, K) ==
  DOMAIN K = DOMAIN L /\ K \in [DOMAIN L -> LoggerRec] /\ \A x \in DOMAIN L : K[x].next = L[x].next

CountedAlike(L, K, ext, new) == \A x \in DOMAIN L \ {Default} :
  /\ ext[x] \in Nat /\ new[x] - ext[x] \in Nat
  /\ K[x].refs = L[x].refs + (new[x] - ext[x]) /\ new[x] \in Nat

LEMMA SameChainsCounts ==
  ASSUME NEW L, LoggerMap(L), NEW K, SameChains(L, K),
         NEW X, NEW ext, Counts(L, X, ext), NEW new, CountedAlike(L, K, ext, new)
  PROVE  LoggerMap(K) /\ Counts(K, X, new) /\ (NoCycle(L) => NoCycle(K))
<1> USE DEF SameChains, CountedAlike
<1>1. \A x : Sources(K, x, X) = Sources(L, x, X)
  BY DEF Sources
<1>2. Counts(K, X, new)
  <2>1. SUFFICES ASSUME NEW x \in DOMAIN L \ {Default}
                 PROVE  K[x].refs = Cardinality(Sources(L, x, X)) + new[x] /\ K[x].refs > 0
    BY <1>1 DEF Counts
  <2> DEFINE n == Cardinality(Sources(L, x, X))
  <2>2. /\ n \in Nat /\ L[x].refs \in Nat /\ L[x].refs = n + ext[x] /\ L[x].refs > 0
        /\ ext[x] \in Nat /\ new[x] \in Nat /\ new[x] - ext[x] \in Nat
        /\ K[x].refs = L[x].refs + (new[x] - ext[x])
    BY <2>1, MapFacts DEF Counts
  <2> HIDE DEF n
  <2>3. K[x].refs = n + new[x] /\ K[x].refs > 0
    BY <2>2
  <2> QED BY <2>3 DEF n
<1> QED BY <1>2 DEF LoggerMap, NoCycle

(* A new logger refers to its next, and one refers to it.                    *)
CountedNew(L, o, ext, new) ==
  /\ \A x \in DOMAIN L \ {Default} : ext[x] \in Nat /\ new[x] = ext[x]
  /\ new[o] = 1

Allocated(L, K, o, name, next) ==
  /\ LoggerMap(K) /\ DOMAIN K = DOMAIN L \cup {o} /\ o \notin {None, Default}
  /\ \A x \in DOMAIN L : K[x].name = L[x].name /\ K[x].next = L[x].next
  /\ K[o].name = name /\ K[o].next = next /\ K[Default].refs = L[Default].refs
  /\ NoCycle(L) => NoCycle(K)
  /\ \A ext, new : Counts(L, {}, ext) /\ CountedNew(L, o, ext, new) => Counts(K, {}, new)

LEMMA NewAllocFacts ==
  ASSUME NEW L, LoggerMap(L), NEW o \in (1..(MaxLoggers + Default)) \ DOMAIN L,
         NEW name \in Config, NEW next \in DOMAIN L \cup {None},
         NEW K, K = NewAlloc(L, o, name, next)
  PROVE  Allocated(L, K, o, name, next)
<1> DEFINE A == [x \in DOMAIN L \cup {o} |-> IF x = o THEN NewLogger(name, next) ELSE Referenced(L, next)[x]]
<1>1. Default \in DOMAIN L /\ None \notin DOMAIN L /\ o \notin DOMAIN L
  BY MapFacts DEF LoggerMap
<1>2. o \notin {None, Default} /\ o \in 1..(MaxLoggers + Default)
  BY <1>1 DEF None
<1>3. /\ Referenced(L, next) \in [DOMAIN L -> LoggerRec] /\ DOMAIN Referenced(L, next) = DOMAIN L
      /\ \A x \in DOMAIN L :
           /\ Referenced(L, next)[x].name = L[x].name /\ Referenced(L, next)[x].next = L[x].next
           /\ x \notin {Default, None} =>
                Referenced(L, next)[x].refs = L[x].refs + IF x = next THEN 1 ELSE 0
           /\ x = Default => Referenced(L, next)[x].refs = L[x].refs
  BY ReferencedFacts DEF LoggerMap
<1>4. /\ NewLogger(name, next) \in LoggerRec
      /\ NewLogger(name, next).name = name /\ NewLogger(name, next).next = next
      /\ NewLogger(name, next).refs = 1
  <2>1. next \in Nat
    BY MapFacts DEF None
  <2> QED BY <2>1 DEF NewLogger, LoggerRec, States
<1>5. LoggerMap(A)
  <2>1. A \in [DOMAIN L \cup {o} -> LoggerRec]
    BY <1>3, <1>4
  <2>2. \A x \in DOMAIN A : A[x].next \in DOMAIN A \cup {None}
    BY <1>1, <1>3, <1>4 DEF LoggerMap
  <2> QED BY <1>1, <1>2, <2>1, <2>2 DEF LoggerMap
<1>6. /\ DOMAIN A = DOMAIN L \cup {o} /\ A[o] = NewLogger(name, next)
      /\ \A x \in DOMAIN L : A[x] = Referenced(L, next)[x]
  BY <1>1
<1>7. K = StateSet(A, o, "RUNNING")
  BY DEF NewAlloc
<1> HIDE DEF A
<1>8. /\ LoggerMap(K) /\ DOMAIN K = DOMAIN A
      /\ \A x \in DOMAIN A :
           K[x].name = A[x].name /\ K[x].next = A[x].next /\ K[x].refs = A[x].refs
  <2>1. o \in DOMAIN A /\ "RUNNING" \in States
    BY <1>6 DEF States
  <2> QED BY <1>5, <1>7, <2>1, StateSetFacts
<1>9. \A x \in DOMAIN L :
        /\ K[x].name = L[x].name /\ K[x].next = L[x].next
        /\ x # Default => K[x].refs = L[x].refs + IF x = next THEN 1 ELSE 0
  BY <1>1, <1>3, <1>6, <1>8
<1>10. K[o].name = name /\ K[o].next = next /\ K[o].refs = 1
  BY <1>4, <1>6, <1>8
<1>11. DOMAIN K = DOMAIN L \cup {o}
  BY <1>6, <1>8
<1>12. ASSUME NoCycle(L)
       PROVE  NoCycle(K)
  <2>1. SUFFICES ASSUME NEW S \in (SUBSET DOMAIN K) \ {{}}
                 PROVE  \E x \in S : K[x].next \notin S
    BY DEF NoCycle
  <2>2. CASE S \subseteq {o}
    <3>1. o \in S
      BY <2>1, <2>2
    <3>2. next # o
      BY <1>1, <1>2
    <3> QED BY <1>10, <2>2, <3>1, <3>2
  <2>3. CASE ~(S \subseteq {o})
    <3>1. PICK x \in S \ {o} : L[x].next \notin S \ {o}
      BY <1>11, <1>12, <2>1, <2>3 DEF NoCycle
    <3>2. L[x].next # o /\ K[x].next = L[x].next
      BY <1>1, <1>2, <1>9, <1>11, <2>1, <3>1 DEF LoggerMap
    <3> QED BY <3>1, <3>2
  <2> QED BY <2>2, <2>3
<1>13. ASSUME NEW ext, NEW new, Counts(L, {}, ext), CountedNew(L, o, ext, new)
       PROVE  Counts(K, {}, new)
  <2> USE DEF CountedNew
  <2>1. Sources(K, o, {}) = {}
    BY <1>1, <1>2, <1>9, <1>10, <1>11 DEF Sources, LoggerMap
  <2>2. Cardinality(Sources(K, o, {})) = 0
    BY <2>1, FS_EmptySet
  <2>3. ASSUME NEW x \in DOMAIN L \ {Default}
        PROVE  K[x].refs = Cardinality(Sources(K, x, {})) + new[x] /\ K[x].refs > 0
    <3> DEFINE n == Cardinality(Sources(L, x, {}))
               k == Cardinality(Sources(K, x, {}))
    <3>1. /\ n \in Nat /\ L[x].refs = n + ext[x] /\ L[x].refs > 0 /\ ext[x] \in Nat
          /\ L[x].refs \in Nat /\ new[x] = ext[x] /\ IsFiniteSet(Sources(L, x, {}))
      BY <1>13, <2>3, MapFacts DEF Counts
    <3>2. K[x].refs = L[x].refs + IF x = next THEN 1 ELSE 0
      BY <1>9, <2>3
    <3>3. CASE x = next
      <4>1. Sources(K, x, {}) = Sources(L, x, {}) \cup {o} /\ o \notin Sources(L, x, {})
        BY <1>1, <1>9, <1>10, <1>11, <3>3 DEF Sources
      <4>2. k = n + 1
        BY <3>1, <4>1, FS_AddElement
      <4> HIDE DEF n, k
      <4>3. K[x].refs = k + new[x] /\ K[x].refs > 0
        BY <3>1, <3>2, <3>3, <4>2
      <4> QED BY <4>3 DEF k
    <3>4. CASE x # next
      <4>1. Sources(K, x, {}) = Sources(L, x, {})
        BY <1>1, <1>9, <1>10, <1>11, <3>4 DEF Sources
      <4>2. k = n
        BY <4>1
      <4> HIDE DEF n, k
      <4>3. K[x].refs = k + new[x] /\ K[x].refs > 0
        BY <3>1, <3>2, <3>4, <4>2
      <4> QED BY <4>3 DEF k
    <3> QED BY <3>3, <3>4
  <2> QED BY <1>10, <1>11, <1>13, <2>2, <2>3 DEF Counts
<1>14. K[Default].refs = L[Default].refs
  BY <1>1, <1>3, <1>6, <1>8
<1> QED BY <1>2, <1>8, <1>9, <1>10, <1>11, <1>12, <1>13, <1>14 DEF Allocated

(* Loggers that go close no cycle.                                           *)
LEMMA NoCycleKept ==
  ASSUME NEW L, NEW K, DOMAIN K \subseteq DOMAIN L, \A x \in DOMAIN K : K[x].next = L[x].next,
         NoCycle(L)
  PROVE  NoCycle(K)
<1>1. SUFFICES ASSUME NEW S \in (SUBSET DOMAIN K) \ {{}}
               PROVE  \E x \in S : K[x].next \notin S
  BY DEF NoCycle
<1>2. PICK x \in S : L[x].next \notin S
  BY <1>1 DEF NoCycle
<1> QED BY <1>1, <1>2

-----------------------------------------------------------------------------
(* Chains *)

(* A chain holds its first logger and what follows each member, and nothing  *)
(* more.                                                                     *)
LEMMA ChainFacts ==
  ASSUME NEW L, LoggerMap(L), NEW o \in DOMAIN L \cup {None}
  PROVE  /\ o \in Chain(L, o) /\ Chain(L, o) \subseteq DOMAIN L \cup {None}
         /\ \A x \in Chain(L, o) \ {None} : L[x].next \in Chain(L, o)
         /\ \A S : o \in S /\ (\A x \in (S \cap DOMAIN L) \ {None} : L[x].next \in S) => Chain(L, o) \subseteq S
<1> DEFINE D == DOMAIN L \cup {None}
           Visits(S) == o \in S /\ \A x \in S \ {None} : L[x].next \in S
           C == {x \in D : \A S \in SUBSET D : Visits(S) => x \in S}
<1>1. Chain(L, o) = C
  BY DEF Chain
<1>2. \A x \in DOMAIN L : L[x].next \in D
  BY DEF LoggerMap
<1>3. o \in C
  OBVIOUS
<1>4. ASSUME NEW x \in C \ {None}
      PROVE  L[x].next \in C
  <2>1. L[x].next \in D
    BY <1>2, <1>4
  <2>2. \A S \in SUBSET D : Visits(S) => L[x].next \in S
    BY <1>4
  <2> QED BY <2>1, <2>2
<1>5. ASSUME NEW S, o \in S, \A x \in (S \cap DOMAIN L) \ {None} : L[x].next \in S
      PROVE  C \subseteq S
  <2>1. S \cap D \in SUBSET D
    OBVIOUS
  <2>2. Visits(S \cap D)
    BY <1>2, <1>5
  <2> HIDE DEF Visits
  <2> QED BY <2>1, <2>2
<1> QED BY <1>1, <1>3, <1>4, <1>5

(* A part of the loggers that is closed and does not change keeps its        *)
(* chains.                                                                   *)
LEMMA ChainKept ==
  ASSUME NEW L, LoggerMap(L), NEW K, LoggerMap(K), NEW R,
         R \subseteq DOMAIN L, R \subseteq DOMAIN K,
         \A x \in R : K[x].next = L[x].next /\ L[x].next \in R \cup {None},
         NEW o \in R
  PROVE  Chain(K, o) = Chain(L, o) /\ Chain(L, o) \subseteq R \cup {None}
<1>1. Chain(L, o) \subseteq R \cup {None} /\ Chain(K, o) \subseteq R \cup {None}
  <2> DEFINE S == R \cup {None}
  <2>1. o \in S /\ \A x \in (S \cap DOMAIN L) \ {None} : L[x].next \in S
    OBVIOUS
  <2>2. \A x \in (S \cap DOMAIN K) \ {None} : K[x].next \in S
    OBVIOUS
  <2>3. o \in DOMAIN L \cup {None} /\ o \in DOMAIN K \cup {None}
    OBVIOUS
  <2> HIDE DEF S
  <2>4. Chain(L, o) \subseteq S
    BY <2>1, <2>3, ChainFacts
  <2>5. Chain(K, o) \subseteq S
    BY <2>1, <2>2, <2>3, ChainFacts
  <2> QED BY <2>4, <2>5 DEF S
<1>2. Chain(L, o) \subseteq Chain(K, o)
  <2> DEFINE S == Chain(K, o)
  <2>1. o \in S /\ \A x \in S \ {None} : K[x].next \in S
    BY ChainFacts
  <2>2. \A x \in (S \cap DOMAIN L) \ {None} : L[x].next \in S
    BY <1>1, <2>1
  <2> HIDE DEF S
  <2>3. Chain(L, o) \subseteq S
    BY <2>1, <2>2, ChainFacts
  <2> QED BY <2>3 DEF S
<1>3. Chain(K, o) \subseteq Chain(L, o)
  <2> DEFINE S == Chain(L, o)
  <2>1. o \in S /\ \A x \in S \ {None} : L[x].next \in S
    BY ChainFacts
  <2>2. \A x \in (S \cap DOMAIN K) \ {None} : K[x].next \in S
    BY <1>1, <2>1
  <2> HIDE DEF S
  <2>3. Chain(K, o) \subseteq S
    BY <2>1, <2>2, ChainFacts
  <2> QED BY <2>3 DEF S
<1> QED BY <1>1, <1>2, <1>3

(* Without cycles no logger is on the chain of its next.                     *)
LEMMA NotBehindItself ==
  ASSUME NEW L, LoggerMap(L), NoCycle(L), NEW o \in DOMAIN L
  PROVE  o \notin Chain(L, L[o].next)
<1> DEFINE n == L[o].next
           Reaches(x) == \A S : x \in S /\ (\A y \in (S \cap DOMAIN L) \ {None} : L[y].next \in S) => o \in S
           T == {x \in DOMAIN L : x \in Chain(L, n) /\ Reaches(x)}
<1>1. SUFFICES ASSUME o \in Chain(L, n)
               PROVE  FALSE
  OBVIOUS
<1>2. n \in DOMAIN L \cup {None} /\ o # None
  BY MapFacts DEF LoggerMap
<1>3. Reaches(n)
  BY <1>1, <1>2, ChainFacts
<1>4. o \in T
  BY <1>1
<1>5. ASSUME NEW x \in T
      PROVE  L[x].next \in T
  <2>1. x # None /\ L[x].next \in DOMAIN L \cup {None}
    BY <1>5, MapFacts DEF LoggerMap
  <2>2. L[x].next \in Chain(L, n)
    BY <1>2, <1>5, <2>1, ChainFacts
  <2>3. Reaches(L[x].next)
    <3>1. CASE x = o
      BY <1>3, <3>1
    <3>2. CASE x # o
      <4>1. SUFFICES ASSUME NEW S, L[x].next \in S,
                            \A y \in (S \cap DOMAIN L) \ {None} : L[y].next \in S
                     PROVE  o \in S
        OBVIOUS
      <4>2. \A y \in ((S \cup {x}) \cap DOMAIN L) \ {None} : L[y].next \in S \cup {x}
        BY <4>1
      <4>3. Reaches(x)
        BY <1>5
      <4>4. x \in S \cup {x}
        OBVIOUS
      <4>5. o \in S \cup {x}
        BY <4>2, <4>3, <4>4
      <4> QED BY <3>2, <4>5
    <3> QED BY <3>1, <3>2
  <2>4. L[x].next # None
    <3>1. SUFFICES ASSUME L[x].next = None
                   PROVE  FALSE
      OBVIOUS
    <3>2. \A y \in ({None} \cap DOMAIN L) \ {None} : L[y].next \in {None}
      OBVIOUS
    <3>3. o \in {None}
      BY <2>3, <3>1, <3>2
    <3> QED BY <1>2, <3>3
  <2> QED BY <2>1, <2>2, <2>3, <2>4
<1>6. T \in (SUBSET DOMAIN L) \ {{}}
  BY <1>4
<1> HIDE DEF T
<1> QED BY <1>5, <1>6 DEF NoCycle

-----------------------------------------------------------------------------
(* The list and who refers to a logger from outside. *)

(* The list holds loggers; looking for one finds it.                         *)
LEMMA ListFacts ==
  ASSUME ListInv
  PROVE  /\ Len(components) \in Nat /\ DOMAIN components = 1..Len(components)
         /\ Listed \subseteq Live \ {Default}
         /\ \A i \in DOMAIN components : components[i] \in Listed
         /\ \A o \in Listed : Place(o) \in DOMAIN components /\ components[Place(o)] = o
         /\ \A n : Present(n) <=> \E o \in Listed : logger[o].name = n
         /\ \A n : Found(n) \in Listed \cup {None}
         /\ \A n : Present(n) => Found(n) \in Listed /\ logger[Found(n)].name = n
<1>1. Len(components) \in Nat /\ DOMAIN components = 1..Len(components)
  BY LenProperties DEF ListInv
<1>2. \A i \in DOMAIN components : components[i] \in Listed /\ components[i] \in Live \ {Default}
  BY <1>1, ElementOfSeq DEF ListInv, Listed
<1>3. Listed \subseteq Live \ {Default}
  BY <1>2 DEF Listed
<1>4. ASSUME NEW I, I \subseteq 1..Len(components), I # {}
      PROVE  Min(I) \in I
  <2>1. I \subseteq Nat
    BY <1>1, <1>4
  <2>2. \E m \in I : \A n \in I : m =< n
    BY <1>4, <2>1, LeastNat
  <2> QED BY <2>2 DEF Min
<1>5. ASSUME NEW o \in Listed
      PROVE  Place(o) \in DOMAIN components /\ components[Place(o)] = o
  <2> DEFINE I == {i \in 1..Len(components) : components[i] = o}
  <2>1. I # {}
    BY <1>1 DEF Listed
  <2>2. Place(o) = Min(I)
    BY <2>1 DEF Place, SelectInSeq
  <2>3. Min(I) \in I
    BY <1>4, <2>1
  <2> QED BY <1>1, <2>2, <2>3
<1>6. ASSUME NEW n
      PROVE  /\ Present(n) <=> \E o \in Listed : logger[o].name = n
             /\ Found(n) \in Listed \cup {None}
             /\ Present(n) => Found(n) \in Listed /\ logger[Found(n)].name = n
  <2> DEFINE I == {i \in 1..Len(components) : logger[components[i]].name = n}
  <2>1. NamedBy(n) = IF I # {} THEN Min(I) ELSE 0
    BY DEF NamedBy, SelectInSeq
  <2>2. I # {} => Min(I) \in I
    BY <1>4
  <2>3. I # {} <=> \E o \in Listed : logger[o].name = n
    BY <1>1 DEF Listed
  <2>4. I # {} => NamedBy(n) # 0
    BY <2>1, <2>2
  <2>5. Present(n) <=> I # {}
    BY <2>1, <2>4 DEF Present
  <2>6. I # {} => components[NamedBy(n)] \in Listed /\ logger[components[NamedBy(n)]].name = n
    BY <1>1, <1>2, <2>1, <2>2
  <2> HIDE DEF I
  <2> QED BY <2>3, <2>5, <2>6 DEF Found
<1> QED BY <1>1, <1>2, <1>3, <1>5, <1>6

(* How many refer to a logger from outside.                                  *)
Outside ==
  /\ External \in [Live -> Nat]
  /\ \A x : Cardinality(Owners(x)) \in Nat /\ IsFiniteSet(Owners(x))
  /\ \A x : InList(x) \in 0..1 /\ (InList(x) = 1 <=> x \in Listed)
  /\ \A x \in Live : External[x] = InList(x) + Cardinality(Owners(x))
  /\ \A x \in Live : External[x] > 0 <=> x \in Listed \/ \E t \in Threads : x \in own[t]

LEMMA ExternalFacts == Outside
<1>1. ASSUME NEW x
      PROVE  Cardinality(Owners(x)) \in Nat /\ IsFiniteSet(Owners(x))
  <2>1. Owners(x) \subseteq Threads /\ IsFiniteSet(Threads)
    BY LoggerAssumption DEF Owners
  <2> QED BY <2>1, FS_Subset, FS_CardinalityType
<1>2. \A x : InList(x) \in 0..1 /\ (InList(x) = 1 <=> x \in Listed)
  BY DEF InList
<1>3. \A x \in Live : External[x] = InList(x) + Cardinality(Owners(x))
  BY DEF External
<1>4. \A x : InList(x) + Cardinality(Owners(x)) \in Nat
  BY <1>1, <1>2
<1>5. External \in [Live -> Nat]
  BY <1>4 DEF External
<1>6. ASSUME NEW x \in Live
      PROVE  External[x] > 0 <=> x \in Listed \/ \E t \in Threads : x \in own[t]
  <2>1. Cardinality(Owners(x)) = 0 <=> Owners(x) = {}
    BY <1>1, FS_EmptySet
  <2>2. Owners(x) = {} <=> ~ \E t \in Threads : x \in own[t]
    BY DEF Owners
  <2> DEFINE n == Cardinality(Owners(x))
             i == InList(x)
  <2>3. n \in Nat /\ i \in 0..1 /\ (i = 1 <=> x \in Listed) /\ External[x] = i + n
    BY <1>1, <1>2, <1>3
  <2>4. External[x] > 0 <=> n # 0 \/ i = 1
    <3> HIDE DEF n, i
    <3> QED BY <2>3
  <2> QED BY <2>1, <2>2, <2>3, <2>4
<1> QED BY <1>1, <1>2, <1>3, <1>5, <1>6 DEF Outside

LEMMA ExternalNext == Outside'
BY ExternalFacts, PTL

(* A thread takes a reference, or drops one.                                 *)
LEMMA OwnersTaken ==
  ASSUME own \in [Threads -> SUBSET Nat], NEW t \in Threads, NEW o, o \notin own[t],
         own' = [own EXCEPT ![t] = @ \cup {o}]
  PROVE  \A x : Cardinality(Owners(x)') = Cardinality(Owners(x)) + IF x = o THEN 1 ELSE 0
<1>1. SUFFICES ASSUME NEW x
               PROVE  Cardinality(Owners(x)') = Cardinality(Owners(x)) + IF x = o THEN 1 ELSE 0
  OBVIOUS
<1>2. \A u \in Threads : own'[u] = IF u = t THEN own[u] \cup {o} ELSE own[u]
  OBVIOUS
<1>3. Cardinality(Owners(x)) \in Nat /\ IsFiniteSet(Owners(x))
  BY ExternalFacts DEF Outside
<1>4. CASE x = o
  <2>1. Owners(x)' = Owners(x) \cup {t} /\ t \notin Owners(x)
    BY <1>2, <1>4 DEF Owners
  <2> QED BY <1>3, <1>4, <2>1, FS_AddElement
<1>5. CASE x # o
  <2>1. Owners(x)' = Owners(x)
    BY <1>2, <1>5 DEF Owners
  <2> QED BY <1>3, <1>5, <2>1
<1> QED BY <1>4, <1>5

LEMMA OwnersDropped ==
  ASSUME own \in [Threads -> SUBSET Nat], NEW t \in Threads, NEW o \in own[t],
         own' = [own EXCEPT ![t] = @ \ {o}]
  PROVE  \A x : Cardinality(Owners(x)') = Cardinality(Owners(x)) - IF x = o THEN 1 ELSE 0
<1>1. SUFFICES ASSUME NEW x
               PROVE  Cardinality(Owners(x)') = Cardinality(Owners(x)) - IF x = o THEN 1 ELSE 0
  OBVIOUS
<1>2. \A u \in Threads : own'[u] = IF u = t THEN own[u] \ {o} ELSE own[u]
  OBVIOUS
<1>3. Cardinality(Owners(x)) \in Nat /\ IsFiniteSet(Owners(x))
  BY ExternalFacts DEF Outside
<1>4. CASE x = o
  <2>1. Owners(x)' = Owners(x) \ {t} /\ t \in Owners(x)
    BY <1>2, <1>4 DEF Owners
  <2> QED BY <1>3, <1>4, <2>1, FS_RemoveElement
<1>5. CASE x # o
  <2>1. Owners(x)' = Owners(x)
    BY <1>2, <1>5 DEF Owners
  <2> QED BY <1>3, <1>5, <2>1
<1> QED BY <1>4, <1>5

-----------------------------------------------------------------------------
(* The steps that change loggers. *)

(* A sequence is one over whatever holds its elements.                       *)
LEMMA SeqOver ==
  ASSUME NEW S, NEW s \in Seq(S), NEW T, \A i \in 1..Len(s) : s[i] \in T
  PROVE  s \in Seq(T)
<1>1. Len(s) \in Nat /\ s \in [1..Len(s) -> S]
  BY LenProperties
<1>2. s \in [1..Len(s) -> T]
  BY <1>1
<1> QED BY <1>1, <1>2, SeqDef

(* The list stays right when its loggers stay what they are to it.           *)
LEMMA ListKept ==
  ASSUME ListInv, UNCHANGED components, Listed \subseteq Live',
         \A o \in Listed : logger'[o].name = logger[o].name /\ logger'[o].next = logger[o].next
  PROVE  ListInv'
<1>1. /\ DOMAIN components = 1..Len(components)
      /\ Listed \subseteq Live \ {Default}
      /\ \A i \in DOMAIN components : components[i] \in Listed
  BY ListFacts
<1>2. components \in Seq(Live' \ {Default})
  BY <1>1, SeqOver DEF ListInv
<1>3. Listed' = Listed
  BY DEF Listed
<1> QED BY <1>1, <1>2, <1>3 DEF ListInv

(* iot_component_set_state.                                                  *)
LEMMA StateStep ==
  ASSUME LoggerInv, NEW o \in Live, NEW state \in States,
         logger' = StateSet(logger, o, state), UNCHANGED <<own, components>>
  PROVE  /\ LoggerInv' /\ Live' = Live
         /\ \A x \in Live : logger'[x].name = logger[x].name /\ logger'[x].next = logger[x].next
<1>1. /\ LoggerMap(logger') /\ Live' = Live
      /\ \A x \in Live : /\ logger'[x].name = logger[x].name /\ logger'[x].next = logger[x].next
                         /\ logger'[x].refs = logger[x].refs
  BY StateSetFacts DEF LoggerInv, Live
<1>2. External' = External
  BY <1>1 DEF External, InList, Owners, Listed
<1>3. LoggerMap(logger') /\ Counts(logger', {}, External') /\ NoCycle(logger')
  <2>1. SameChains(logger, logger')
    BY <1>1 DEF LoggerMap, Live, SameChains
  <2>2. \A x \in DOMAIN logger \ {Default} :
          /\ External[x] \in Nat /\ External'[x] - External[x] \in Nat
          /\ logger'[x].refs = logger[x].refs + (External'[x] - External[x]) /\ External'[x] \in Nat
    <3>1. TAKE x \in DOMAIN logger \ {Default}
    <3>2. External[x] \in Nat /\ logger[x].refs \in Nat /\ logger'[x].refs = logger[x].refs
      BY <1>1, ExternalFacts, MapFacts DEF LoggerInv, Live, Outside
    <3> QED BY <1>2, <3>2
  <2>3. CountedAlike(logger, logger', External, External')
    BY <2>2 DEF CountedAlike
  <2>4. LoggerMap(logger) /\ NoCycle(logger) /\ Counts(logger, {}, External)
    BY DEF LoggerInv
  <2> QED BY <2>1, <2>3, <2>4, SameChainsCounts
<1>4. ListInv'
  <2>1. Listed \subseteq Live
    BY ListFacts DEF LoggerInv
  <2> QED BY <1>1, <2>1, ListKept DEF LoggerInv
<1>5. Default \in Live
  BY DEF LoggerInv, LoggerMap, Live
<1> QED BY <1>1, <1>3, <1>4, <1>5 DEF LoggerInv, OwnTypes

(* iot_logger_add_ref by a thread.                                           *)
LEMMA AddRefStep ==
  ASSUME LoggerInv, NEW t \in Threads, NEW o \in Live \ {Default}, o \notin own[t],
         logger' = Referenced(logger, o), own' = [own EXCEPT ![t] = @ \cup {o}],
         UNCHANGED components
  PROVE  /\ LoggerInv' /\ Live' = Live
         /\ \A x \in Live : logger'[x].name = logger[x].name /\ logger'[x].next = logger[x].next
<1>1. None \notin Live /\ Live \subseteq Nat /\ logger \in [Live -> LoggerRec]
  BY MapFacts DEF LoggerInv, Live, LoggerMap
<1>2. /\ logger' \in [Live -> LoggerRec] /\ Live' = Live
      /\ \A x \in Live :
           /\ logger'[x].name = logger[x].name /\ logger'[x].next = logger[x].next
           /\ x # Default => logger'[x].refs = logger[x].refs + IF x = o THEN 1 ELSE 0
           /\ x = Default => logger'[x].refs = logger[x].refs
  <2>1. o \in DOMAIN logger \cup {None} /\ logger \in [DOMAIN logger -> LoggerRec]
    BY <1>1 DEF Live
  <2>2. PICK K : K = Referenced(logger, o)
    OBVIOUS
  <2>3. /\ K \in [DOMAIN logger -> LoggerRec] /\ DOMAIN K = DOMAIN logger
        /\ \A x \in DOMAIN logger :
             /\ K[x].name = logger[x].name /\ K[x].next = logger[x].next
             /\ x \notin {Default, None} => K[x].refs = logger[x].refs + IF x = o THEN 1 ELSE 0
             /\ x = Default => K[x].refs = logger[x].refs
    BY <2>1, <2>2, ReferencedFacts
  <2>4. None \notin DOMAIN logger
    BY <1>1 DEF Live
  <2> QED BY <2>2, <2>3, <2>4 DEF Live
<1>3. \A x : Cardinality(Owners(x)') = Cardinality(Owners(x)) + IF x = o THEN 1 ELSE 0
  <2>1. own \in [Threads -> SUBSET Nat]
    BY <1>1 DEF LoggerInv, OwnTypes
  <2> QED BY <2>1, OwnersTaken
<1>4. LoggerMap(logger') /\ Counts(logger', {}, External') /\ NoCycle(logger')
  <2>1. SameChains(logger, logger')
    BY <1>2 DEF Live, SameChains
  <2>2. \A x \in DOMAIN logger \ {Default} :
          /\ External[x] \in Nat /\ External'[x] - External[x] \in Nat
          /\ logger'[x].refs = logger[x].refs + (External'[x] - External[x]) /\ External'[x] \in Nat
    <3>1. TAKE x \in DOMAIN logger \ {Default}
    <3> DEFINE n == Cardinality(Owners(x))
               m == Cardinality(Owners(x)')
               i == InList(x)
    <3>2. External[x] \in Nat /\ logger[x].refs \in Nat /\ External[x] = i + n /\ n \in Nat /\ i \in 0..1
      BY ExternalFacts, MapFacts DEF LoggerInv, Live, Outside
    <3>3. External'[x] = i + m /\ External'[x] \in Nat
      BY <1>2, ExternalNext DEF Live, Outside, InList, Listed
    <3>4. m = n + IF x = o THEN 1 ELSE 0
      BY <1>3
    <3>5. logger'[x].refs = logger[x].refs + IF x = o THEN 1 ELSE 0
      BY <1>2 DEF Live
    <3> HIDE DEF n, m, i
    <3> QED BY <3>2, <3>3, <3>4, <3>5
  <2>3. CountedAlike(logger, logger', External, External')
    BY <2>2 DEF CountedAlike
  <2>4. LoggerMap(logger) /\ NoCycle(logger) /\ Counts(logger, {}, External)
    BY DEF LoggerInv
  <2> QED BY <2>1, <2>3, <2>4, SameChainsCounts
<1>5. ListInv'
  <2>1. Listed \subseteq Live
    BY ListFacts DEF LoggerInv
  <2> QED BY <1>2, <2>1, ListKept DEF LoggerInv
<1>6. OwnTypes'
  BY <1>2 DEF OwnTypes, LoggerInv
<1>7. Default \in Live
  BY DEF LoggerInv, LoggerMap, Live
<1> QED BY <1>2, <1>4, <1>5, <1>6, <1>7 DEF LoggerInv

(* A new logger gets a number that is free.                                  *)
LEMMA AddressFacts ==
  ASSUME LoggerMap(logger), RoomFor(1)
  PROVE  Address \in (1..(MaxLoggers + Default)) \ Live
<1>1. Unused \subseteq Nat /\ IsFiniteSet(Unused)
  <2>1. MaxLoggers + Default \in Nat
    BY LoggerAssumption DEF Default
  <2>2. IsFiniteSet(1..(MaxLoggers + Default))
    BY <2>1, FS_Interval
  <2> QED BY <2>1, <2>2, FS_Subset DEF Unused
<1>2. Unused # {}
  BY <1>1, FS_EmptySet DEF RoomFor
<1>3. \E o \in Unused : \A x \in Unused : o =< x
  BY <1>1, <1>2, LeastNat
<1>4. Address \in Unused
  BY <1>3 DEF Address
<1> QED BY <1>4 DEF Unused

(* A thread makes a logger.                                                  *)
LEMMA AllocStep ==
  ASSUME LoggerInv, NEW t \in Threads, NEW next \in Live \cup {None}, RoomFor(1),
         logger' = NewAlloc(logger, Address, NoName, next),
         own' = [own EXCEPT ![t] = @ \cup {Address}], UNCHANGED components
  PROVE  /\ LoggerInv' /\ Live' = Live \cup {Address}
         /\ \A x \in Live : logger'[x].name = logger[x].name /\ logger'[x].next = logger[x].next
<1>1. LoggerMap(logger) /\ NoCycle(logger) /\ Counts(logger, {}, External) /\ OwnTypes /\ ListInv
  BY DEF LoggerInv
<1>2. PICK o \in (1..(MaxLoggers + Default)) \ DOMAIN logger : o = Address
  BY <1>1, AddressFacts DEF Live
<1>3. NoName \in Config /\ next \in DOMAIN logger \cup {None}
  BY DEF Config, Live
<1>4. /\ LoggerMap(logger') /\ DOMAIN logger' = DOMAIN logger \cup {o} /\ o \notin {None, Default}
      /\ \A x \in DOMAIN logger : logger'[x].name = logger[x].name /\ logger'[x].next = logger[x].next
      /\ NoCycle(logger') /\ logger'[Default].refs = logger[Default].refs
      /\ CountedNew(logger, o, External, External') => Counts(logger', {}, External')
  <2>1. Allocated(logger, logger', o, NoName, next)
    BY <1>1, <1>2, <1>3, NewAllocFacts
  <2> QED BY <1>1, <2>1 DEF Allocated
<1>5. None \notin Live /\ Live \subseteq Nat /\ o \notin Live
  BY <1>1, <1>2, MapFacts DEF Live
<1>6. Listed \subseteq Live
  BY <1>1, ListFacts
<1>7. \A u \in Threads : own[u] \subseteq Live \ {Default}
  BY <1>1 DEF OwnTypes
<1>8. \A x : Cardinality(Owners(x)') = Cardinality(Owners(x)) + IF x = o THEN 1 ELSE 0
  <2>1. own \in [Threads -> SUBSET Nat] /\ o \notin own[t]
    BY <1>1, <1>5, <1>7 DEF OwnTypes
  <2> QED BY <1>2, <2>1, OwnersTaken
<1>9. CountedNew(logger, o, External, External')
  <2>1. ASSUME NEW x \in DOMAIN logger \ {Default}
        PROVE  External[x] \in Nat /\ External'[x] = External[x]
    <3> DEFINE n == Cardinality(Owners(x))
               m == Cardinality(Owners(x)')
    <3>1. External[x] \in Nat /\ External[x] = InList(x) + n /\ n \in Nat
      BY ExternalFacts DEF Live, Outside
    <3>2. External'[x] = InList(x) + m
      BY <1>4, ExternalNext DEF Live, Outside, InList, Listed
    <3>3. m = n + IF x = o THEN 1 ELSE 0
      BY <1>8
    <3>4. m = n
      <4> HIDE DEF n, m
      <4> QED BY <1>2, <2>1, <3>1, <3>3
    <3> QED BY <3>1, <3>2, <3>4
  <2>2. External'[o] = 1
    <3>1. Owners(o) = {}
      BY <1>5, <1>7 DEF Owners
    <3>2. Cardinality(Owners(o)') = 1
      BY <1>8, <3>1, FS_EmptySet
    <3>3. External'[o] = InList(o)' + Cardinality(Owners(o)')
      BY <1>4, ExternalNext DEF Live, Outside
    <3>4. InList(o)' = 0
      BY <1>5, <1>6 DEF InList, Listed
    <3> QED BY <3>2, <3>3, <3>4
  <2> QED BY <2>1, <2>2 DEF CountedNew
<1>10. ListInv'
  <2>1. Listed \subseteq Live' /\ \A x \in Listed : logger'[x].name = logger[x].name /\ logger'[x].next = logger[x].next
    BY <1>4, <1>6 DEF Live
  <2> QED BY <1>1, <2>1, ListKept
<1>11. OwnTypes'
  BY <1>1, <1>2, <1>4, <1>7 DEF OwnTypes, Live
<1> QED BY <1>2, <1>4, <1>9, <1>10, <1>11 DEF LoggerInv, Live

(* The container makes a component, for which it asks its list for the next. *)
LEMMA CreateStep ==
  ASSUME LoggerInv, NEW name \in Names, NEW config, RoomFor(1),
         logger' = NewAlloc(logger, Address, name, Found(config)),
         components' = Append(components, Address), UNCHANGED own
  PROVE  /\ LoggerInv' /\ Live' = Live \cup {Address} /\ Listed' = Listed \cup {Address}
         /\ \A x \in Live : logger'[x].name = logger[x].name /\ logger'[x].next = logger[x].next
<1>1. LoggerMap(logger) /\ NoCycle(logger) /\ Counts(logger, {}, External) /\ OwnTypes /\ ListInv
  BY DEF LoggerInv
<1>2. PICK o \in (1..(MaxLoggers + Default)) \ DOMAIN logger : o = Address
  BY <1>1, AddressFacts DEF Live
<1>3. /\ Len(components) \in Nat /\ DOMAIN components = 1..Len(components)
      /\ Listed \subseteq Live \ {Default}
      /\ \A i \in DOMAIN components : components[i] \in Listed
      /\ Found(config) \in Listed \cup {None}
  BY <1>1, ListFacts
<1>4. PICK next \in DOMAIN logger \cup {None} : next = Found(config)
  BY <1>3 DEF Live
<1>5. /\ LoggerMap(logger') /\ DOMAIN logger' = DOMAIN logger \cup {o} /\ o \notin {None, Default}
      /\ \A x \in DOMAIN logger : logger'[x].name = logger[x].name /\ logger'[x].next = logger[x].next
      /\ logger'[o].name = name /\ logger'[o].next = next
      /\ NoCycle(logger') /\ logger'[Default].refs = logger[Default].refs
      /\ CountedNew(logger, o, External, External') => Counts(logger', {}, External')
  <2>1. name \in Config
    BY DEF Config
  <2>2. logger' = NewAlloc(logger, o, name, next)
    BY <1>2, <1>4
  <2>3. o \in (1..(MaxLoggers + Default)) \ DOMAIN logger /\ next \in DOMAIN logger \cup {None}
    OBVIOUS
  <2>4. Allocated(logger, logger', o, name, next)
    BY <1>1, <2>1, <2>2, <2>3, NewAllocFacts
  <2> QED BY <1>1, <2>4 DEF Allocated
<1>6. None \notin Live /\ Live \subseteq Nat /\ o \notin Live
  BY <1>1, <1>2, MapFacts DEF Live
<1>7. \A u \in Threads : own[u] \subseteq Live \ {Default}
  BY <1>1 DEF OwnTypes
<1>8. /\ components' \in Seq(Live' \ {Default}) /\ Len(components') = Len(components) + 1
      /\ DOMAIN components' = 1..(Len(components) + 1)
      /\ \A i \in DOMAIN components : components'[i] = components[i]
      /\ components'[Len(components) + 1] = o
  <2>1. components \in Seq(Live' \ {Default}) /\ o \in Live' \ {Default}
    <3>1. \A i \in 1..Len(components) : components[i] \in Live' \ {Default}
      BY <1>3, <1>5 DEF Live
    <3> QED BY <1>1, <1>5, <3>1, SeqOver DEF ListInv, Live
  <2>2. /\ components' \in Seq(Live' \ {Default}) /\ Len(components') = Len(components) + 1
        /\ \A i \in 1..Len(components) : components'[i] = components[i]
        /\ components'[Len(components) + 1] = o
    BY <1>2, <2>1, AppendProperties
  <2> QED BY <1>3, <2>2, LenProperties
<1>9. Listed' = Listed \cup {o}
  <2>1. DOMAIN components' = DOMAIN components \cup {Len(components) + 1}
    BY <1>3, <1>8
  <2> QED BY <1>8, <2>1 DEF Listed
<1>10. CountedNew(logger, o, External, External')
  <2>1. ASSUME NEW x \in DOMAIN logger \ {Default}
        PROVE  External[x] \in Nat /\ External'[x] = External[x]
    <3>1. External[x] \in Nat /\ External[x] = InList(x) + Cardinality(Owners(x))
      BY ExternalFacts DEF Live, Outside
    <3>2. External'[x] = InList(x)' + Cardinality(Owners(x)')
      BY <1>5, ExternalNext DEF Live, Outside
    <3>3. Owners(x)' = Owners(x)
      BY DEF Owners
    <3>4. InList(x)' = InList(x)
      BY <1>2, <1>9, <2>1 DEF InList
    <3> QED BY <3>1, <3>2, <3>3, <3>4
  <2>2. External'[o] = 1
    <3>1. Owners(o)' = {}
      BY <1>6, <1>7 DEF Owners
    <3>2. Cardinality(Owners(o)') = 0
      BY <3>1, FS_EmptySet
    <3>3. External'[o] = InList(o)' + Cardinality(Owners(o)')
      BY <1>5, ExternalNext DEF Live, Outside
    <3>4. InList(o)' = 1
      BY <1>9 DEF InList
    <3> QED BY <3>2, <3>3, <3>4
  <2> QED BY <2>1, <2>2 DEF CountedNew
<1>11. ListInv'
  <2>1. \A i, j \in DOMAIN components' : components'[i] = components'[j] => i = j
    <3>1. \A i \in DOMAIN components : components[i] # o
      BY <1>3, <1>6
    <3> QED BY <1>1, <1>3, <1>8, <3>1 DEF ListInv
  <2>2. \A x \in Listed' : logger'[x].name \in Names
    BY <1>1, <1>3, <1>5, <1>9 DEF ListInv, Live
  <2>3. ASSUME NEW i \in DOMAIN components', NEW j \in DOMAIN components',
               logger'[components'[i]].next = components'[j]
        PROVE  j < i
    <3>1. CASE i \in DOMAIN components
      <4>1. components[i] \in DOMAIN logger /\ logger'[components'[i]].next = logger[components[i]].next
        BY <1>3, <1>5, <1>8, <3>1 DEF Live
      <4>2. logger[components[i]].next \in Live \cup {None}
        BY <1>1, <4>1 DEF LoggerMap, Live
      <4>3. components'[j] # o
        BY <1>5, <1>6, <2>3, <4>1, <4>2
      <4>4. j \in DOMAIN components
        BY <1>3, <1>8, <4>3
      <4> QED BY <1>1, <1>8, <2>3, <3>1, <4>1, <4>4 DEF ListInv
    <3>2. CASE i \notin DOMAIN components
      <4>1. i = Len(components) + 1 /\ components'[i] = o
        BY <1>3, <1>8, <3>2
      <4>2. components'[j] = next /\ next # o
        BY <1>2, <1>5, <2>3, <4>1
      <4>3. j # i
        BY <4>1, <4>2
      <4> QED BY <1>3, <1>8, <4>1, <4>3
    <3> QED BY <3>1, <3>2
  <2> QED BY <1>8, <2>1, <2>2, <2>3 DEF ListInv
<1>12. OwnTypes'
  BY <1>1, <1>5 DEF OwnTypes, Live
<1> QED BY <1>2, <1>5, <1>9, <1>10, <1>11, <1>12 DEF LoggerInv, Live

(* iot_logger_free by one of those that refer to o; what it frees, nobody    *)
(* refers to any more.                                                       *)
LEMMA FreedStep ==
  ASSUME LoggerInv, NEW o \in Live \ {Default}, External[o] > 0,
         NEW L, LoggerMap(L), DOMAIN L = Live,
         \A x \in Live : /\ L[x].name = logger[x].name /\ L[x].next = logger[x].next
                         /\ L[x].refs = logger[x].refs,
         logger' = Freed(L, o),
         own' \in [Threads -> SUBSET (Live \ {Default})], Listed' \subseteq Listed,
         \A x \in Live : InList(x)' + Cardinality(Owners(x)') = External[x] - IF x = o THEN 1 ELSE 0,
         components' \in Seq(Live \ {Default}),
         \A i, j \in DOMAIN components' : components'[i] = components'[j] => i = j,
         \A i, j \in DOMAIN components' : logger[components'[i]].next = components'[j] => j < i
  PROVE  /\ LoggerInv' /\ Live' \subseteq Live
         /\ \A x \in Live' : logger'[x].name = logger[x].name /\ logger'[x].next = logger[x].next
<1> DEFINE gone == FreedWith(L, o)
<1>1. LoggerMap(logger) /\ NoCycle(logger) /\ Counts(logger, {}, External) /\ OwnTypes /\ ListInv
  BY DEF LoggerInv
<1>2. o \in DOMAIN L \cup {None}
  OBVIOUS
<1>3. gone \subseteq DOMAIN L \ {Default}
  BY <1>2, FreedWithFacts
<1>4. /\ DOMAIN logger' = DOMAIN L \ gone
      /\ \A x \in DOMAIN L \ gone : logger'[x].name = L[x].name /\ logger'[x].next = L[x].next
      /\ \A x \in DOMAIN L \ gone : x = Default => logger'[x] = L[x]
  <2> HIDE DEF gone
  <2>1. gone = FreedWith(L, o)
    BY DEF gone
  <2>2. FieldsLeft(L, logger', o, gone)
    BY <1>2, <2>1, FreedFields
  <2> QED BY <2>2 DEF FieldsLeft
<1>5. FreeRight(L, logger', {}, External, o, gone)
  <2>1. Counts(L, {}, External)
    <3>1. \A x : Sources(L, x, {}) = Sources(logger, x, {})
      BY DEF Sources, Live
    <3> QED BY <1>1, <3>1 DEF Counts, Live
  <2>2. External \in [DOMAIN L -> Nat]
    BY ExternalFacts DEF Outside
  <2> HIDE DEF gone
  <2>3. gone = FreedWith(L, o) /\ {} \in SUBSET DOMAIN L /\ gone \cap {} = {}
    BY DEF gone
  <2> QED BY <1>2, <2>1, <2>2, <2>3, FreedCounts
<1> HIDE DEF gone
<1>6. /\ LoggerMap(logger')
      /\ \A x \in DOMAIN logger' \ {Default} :
           /\ logger'[x].refs = Cardinality(Sources(logger', x, {})) + External[x] - IF x = o THEN 1 ELSE 0
           /\ logger'[x].refs \in Nat \ {0}
      /\ \A z \in gone : External[z] = IF z = o THEN 1 ELSE 0
  BY <1>5 DEF FreeRight
<1>7. Live' = Live \ gone
  BY <1>4 DEF Live
<1>8. Counts(logger', {}, External')
  <2>1. SUFFICES ASSUME NEW x \in DOMAIN logger' \ {Default}
                 PROVE  logger'[x].refs = Cardinality(Sources(logger', x, {})) + External'[x] /\ logger'[x].refs > 0
    BY DEF Counts
  <2> DEFINE n == Cardinality(Sources(logger', x, {}))
             d == IF x = o THEN 1 ELSE 0
  <2>2. External'[x] = External[x] - d
    BY <1>7, <2>1, ExternalNext DEF Live, Outside
  <2>3. External[x] \in Nat
    BY <1>7, <2>1, ExternalFacts DEF Live, Outside
  <2>4. n \in Nat /\ d \in 0..1
    BY <1>6, MapFacts
  <2>5. logger'[x].refs = n + External[x] - d /\ logger'[x].refs \in Nat \ {0}
    BY <1>6, <2>1
  <2>6. logger'[x].refs = n + External'[x] /\ logger'[x].refs > 0
    <3> HIDE DEF n, d
    <3> QED BY <2>2, <2>3, <2>4, <2>5
  <2> QED BY <2>6
<1>9. NoCycle(logger')
  <2>1. DOMAIN logger' \subseteq DOMAIN logger /\ \A x \in DOMAIN logger' : logger'[x].next = logger[x].next
    BY <1>4 DEF Live
  <2> QED BY <1>1, <2>1, NoCycleKept
<1>10. \A z \in gone : z \notin Listed' /\ \A u \in Threads : z \notin own'[u]
  <2>1. SUFFICES ASSUME NEW z \in gone
                 PROVE  z \notin Listed' /\ \A u \in Threads : z \notin own'[u]
    OBVIOUS
  <2> DEFINE n == Cardinality(Owners(z)')
             i == InList(z)'
             d == IF z = o THEN 1 ELSE 0
  <2>2. i + n = External[z] - d /\ External[z] = d
    BY <1>3, <1>6, <2>1
  <2>3. /\ n \in Nat /\ i \in 0..1 /\ (i = 1 <=> z \in Listed')
        /\ IsFiniteSet(Owners(z)')
    BY ExternalNext DEF Outside
  <2>4. d \in 0..1
    OBVIOUS
  <2>5. n = 0 /\ i = 0
    <3> HIDE DEF n, i, d
    <3> QED BY <2>2, <2>3, <2>4
  <2>6. Owners(z)' = {}
    BY <2>3, <2>5, FS_EmptySet
  <2> QED BY <2>3, <2>5, <2>6 DEF Owners
<1>11. OwnTypes'
  BY <1>7, <1>10 DEF OwnTypes
<1>12. ListInv'
  <2>1. /\ Len(components') \in Nat /\ DOMAIN components' = 1..Len(components')
        /\ \A i \in DOMAIN components' : components'[i] \in Live \ {Default}
    BY LenProperties, ElementOfSeq
  <2>2. \A i \in DOMAIN components' : components'[i] \in Listed'
    BY DEF Listed
  <2>3. \A i \in DOMAIN components' : components'[i] \in Live' \ {Default}
    BY <1>7, <1>10, <2>1, <2>2
  <2>4. components' \in Seq(Live' \ {Default})
    BY <2>1, <2>3, SeqOver
  <2>5. \A x \in Listed' : x \in Live' /\ logger'[x].name = logger[x].name /\ logger'[x].next = logger[x].next
    <3>1. \A x \in Listed' : x \in Live'
      BY <2>3 DEF Listed
    <3> QED BY <1>4, <1>7, <3>1 DEF Live
  <2>6. \A x \in Listed' : logger'[x].name \in Names
    BY <1>1, <2>5 DEF ListInv
  <2>7. \A i, j \in DOMAIN components' : logger'[components'[i]].next = components'[j] => j < i
    BY <2>2, <2>5
  <2> QED BY <2>4, <2>6, <2>7 DEF ListInv
<1>13. logger'[Default].refs = 1
  <2>1. Default \in DOMAIN L \ gone
    BY <1>1, <1>3 DEF LoggerMap, Live
  <2> QED BY <1>4, <2>1 DEF LoggerInv
<1> QED BY <1>4, <1>6, <1>7, <1>8, <1>9, <1>11, <1>12, <1>13 DEF LoggerInv, Live

(* A thread frees one of its own.                                            *)
LEMMA FreeLoggerStep ==
  ASSUME LoggerInv, NEW t \in Threads, NEW o \in own[t],
         logger' = Freed(logger, o), own' = [own EXCEPT ![t] = @ \ {o}], UNCHANGED components
  PROVE  /\ LoggerInv' /\ Live' \subseteq Live
         /\ \A x \in Live' : logger'[x].name = logger[x].name /\ logger'[x].next = logger[x].next
<1>1. LoggerMap(logger) /\ OwnTypes /\ ListInv
  BY DEF LoggerInv
<1>2. o \in Live \ {Default} /\ Live \subseteq Nat /\ own \in [Threads -> SUBSET Nat]
  BY <1>1, MapFacts DEF OwnTypes, Live
<1>3. External[o] > 0
  BY <1>2, ExternalFacts DEF Outside
<1>4. own' \in [Threads -> SUBSET (Live \ {Default})]
  BY <1>1 DEF OwnTypes
<1>5. Listed' = Listed
  BY DEF Listed
<1>6. ASSUME NEW x \in Live
      PROVE  InList(x)' + Cardinality(Owners(x)') = External[x] - IF x = o THEN 1 ELSE 0
  <2> DEFINE n == Cardinality(Owners(x))
             m == Cardinality(Owners(x)')
             i == InList(x)
  <2>1. External[x] = i + n /\ n \in Nat /\ i \in 0..1
    BY ExternalFacts DEF Outside
  <2>2. InList(x)' = i
    BY <1>5 DEF InList
  <2>3. m = n - IF x = o THEN 1 ELSE 0
    BY <1>2, OwnersDropped
  <2>4. i + m = External[x] - IF x = o THEN 1 ELSE 0
    <3> HIDE DEF n, m, i
    <3> QED BY <2>1, <2>3
  <2> QED BY <2>2, <2>4
<1>7. components' \in Seq(Live \ {Default})
  BY <1>1 DEF ListInv
<1>8. /\ \A i, j \in DOMAIN components' : components'[i] = components'[j] => i = j
      /\ \A i, j \in DOMAIN components' : logger[components'[i]].next = components'[j] => j < i
  BY <1>1 DEF ListInv
<1>9. DOMAIN logger = Live
  BY DEF Live
<1> QED BY <1>1, <1>2, <1>3, <1>4, <1>5, <1>6, <1>7, <1>8, <1>9, FreedStep

(* A list without the element at p.                                          *)
Without(s, p, r) ==
  /\ Len(r) = Len(s) - 1 /\ DOMAIN r = 1..(Len(s) - 1)
  /\ \A k \in 1..(Len(s) - 1) : r[k] = s[IF k < p THEN k ELSE k + 1]

LEMMA RemoveAtFacts ==
  ASSUME NEW S, NEW s \in Seq(S), NEW p \in 1..Len(s)
  PROVE  RemoveAt(s, p) \in Seq(S) /\ Without(s, p, RemoveAt(s, p))
<1> DEFINE a == SubSeq(s, 1, p - 1)
           b == SubSeq(s, p + 1, Len(s))
<1>1. Len(s) \in Nat /\ p \in Nat /\ \A i \in 1..Len(s) : s[i] \in S
  BY LenProperties, ElementOfSeq
<1>2. /\ a \in Seq(S) /\ Len(a) = p - 1
      /\ \A i \in 1..(p - 1) : a[i] = s[i]
  <2>1. \A i \in 1..(p - 1) : s[i] \in S
    BY <1>1
  <2>2. /\ a \in Seq(S) /\ Len(a) = IF 1 <= p - 1 THEN p - 1 - 1 + 1 ELSE 0
        /\ \A i \in 1..(p - 1 - 1 + 1) : a[i] = s[1 + i - 1]
    BY <1>1, <2>1, SubSeqProperties
  <2> HIDE DEF a
  <2> QED BY <1>1, <2>2
<1>3. /\ b \in Seq(S) /\ Len(b) = Len(s) - p
      /\ \A i \in 1..(Len(s) - p) : b[i] = s[p + i]
  <2>1. \A i \in (p + 1)..Len(s) : s[i] \in S
    BY <1>1
  <2>2. /\ b \in Seq(S) /\ Len(b) = IF p + 1 <= Len(s) THEN Len(s) - (p + 1) + 1 ELSE 0
        /\ \A i \in 1..(Len(s) - (p + 1) + 1) : b[i] = s[p + 1 + i - 1]
    BY <1>1, <2>1, SubSeqProperties
  <2> HIDE DEF b
  <2> QED BY <1>1, <2>2
<1>4. RemoveAt(s, p) = a \o b
  BY DEF RemoveAt
<1> HIDE DEF a, b
<1>5. /\ a \o b \in Seq(S) /\ Len(a \o b) = Len(a) + Len(b)
      /\ \A i \in 1..(Len(a) + Len(b)) : (a \o b)[i] = IF i <= Len(a) THEN a[i] ELSE b[i - Len(a)]
  BY <1>2, <1>3, ConcatProperties
<1>6. Len(a) + Len(b) = Len(s) - 1
  BY <1>1, <1>2, <1>3
<1>7. ASSUME NEW k \in 1..(Len(s) - 1)
      PROVE  (a \o b)[k] = s[IF k < p THEN k ELSE k + 1]
  <2>1. CASE k < p
    BY <1>1, <1>2, <1>5, <1>6, <2>1
  <2>2. CASE ~(k < p)
    <3>1. (a \o b)[k] = b[k - Len(a)] /\ k - Len(a) \in 1..(Len(s) - p)
      BY <1>1, <1>2, <1>5, <1>6, <2>2
    <3>2. p + (k - Len(a)) = k + 1
      BY <1>1, <1>2
    <3> QED BY <1>3, <2>2, <3>1, <3>2
  <2> QED BY <2>1, <2>2
<1>8. DOMAIN (a \o b) = 1..(Len(s) - 1)
  BY <1>5, <1>6, LenProperties
<1> QED BY <1>4, <1>5, <1>6, <1>7, <1>8 DEF Without

LEMMA TailFacts ==
  ASSUME NEW S, NEW s \in Seq(S), s # <<>>
  PROVE  Tail(s) \in Seq(S) /\ Without(s, 1, Tail(s)) /\ Head(s) = s[1] /\ 1 \in 1..Len(s)
<1>1. Len(s) \in Nat \ {0}
  BY EmptySeq
<1>2. /\ Tail(s) \in Seq(S) /\ Len(Tail(s)) = Len(s) - 1
      /\ \A i \in 1..Len(Tail(s)) : Tail(s)[i] = s[i + 1]
  BY HeadTailProperties
<1>3. DOMAIN Tail(s) = 1..(Len(s) - 1)
  BY <1>2, LenProperties
<1>4. \A k \in 1..(Len(s) - 1) : ~(k < 1)
  BY <1>1
<1> QED BY <1>1, <1>2, <1>3, <1>4 DEF Without

(* iot_component_free by the container, of the component that goes from its  *)
(* list.                                                                     *)
LEMMA ComponentFreedStep ==
  ASSUME LoggerInv, NEW p \in DOMAIN components,
         logger' = ComponentFreed(logger, components[p]), UNCHANGED own,
         components' \in Seq(Live \ {Default}), Without(components, p, components')
  PROVE  /\ LoggerInv' /\ Live' \subseteq Live /\ Listed' = Listed \ {components[p]}
         /\ \A x \in Live' : logger'[x].name = logger[x].name /\ logger'[x].next = logger[x].next
<1> DEFINE o == components[p]
           at(k) == IF k < p THEN k ELSE k + 1
<1>1. LoggerMap(logger) /\ OwnTypes /\ ListInv
  BY DEF LoggerInv
<1>2. /\ Len(components) \in Nat /\ DOMAIN components = 1..Len(components)
      /\ Listed \subseteq Live \ {Default}
      /\ \A i \in DOMAIN components : components[i] \in Listed
  BY <1>1, ListFacts
<1>3. o \in Listed /\ o \in Live \ {Default}
  BY <1>2
<1>4. External[o] > 0
  BY <1>3, ExternalFacts DEF Outside
<1>5. /\ DOMAIN components' = 1..(Len(components) - 1)
      /\ \A k \in DOMAIN components' : components'[k] = components[at(k)]
  BY DEF Without
<1>6. \A k \in DOMAIN components' : at(k) \in DOMAIN components /\ at(k) # p
  BY <1>2, <1>5
<1>7. \A j, k \in DOMAIN components' : (at(j) < at(k) => j < k) /\ (at(j) = at(k) => j = k)
  BY <1>2, <1>5
<1>8. \A j \in DOMAIN components : j # p => \E k \in DOMAIN components' : at(k) = j
  <2>1. ASSUME NEW j \in DOMAIN components, j < p
        PROVE  j \in DOMAIN components' /\ at(j) = j
    BY <1>2, <1>5, <2>1
  <2>2. ASSUME NEW j \in DOMAIN components, j > p
        PROVE  j - 1 \in DOMAIN components' /\ at(j - 1) = j
    BY <1>2, <1>5, <2>2
  <2>3. \A j \in DOMAIN components : j # p => j < p \/ j > p
    BY <1>2
  <2> HIDE DEF at
  <2> QED BY <2>1, <2>2, <2>3
<1> HIDE DEF at
<1>9. Listed' = Listed \ {o}
  <2>1. \A k \in DOMAIN components' : components'[k] \in Listed \ {o}
    BY <1>1, <1>2, <1>5, <1>6 DEF ListInv
  <2>2. \A x \in Listed \ {o} : \E k \in DOMAIN components' : components'[k] = x
    BY <1>5, <1>8 DEF Listed
  <2> QED BY <2>1, <2>2 DEF Listed
<1>10. /\ \A i, j \in DOMAIN components' : components'[i] = components'[j] => i = j
       /\ \A i, j \in DOMAIN components' : logger[components'[i]].next = components'[j] => j < i
  BY <1>1, <1>5, <1>6, <1>7 DEF ListInv
<1> HIDE DEF o
<1>11. ASSUME NEW x \in Live
       PROVE  InList(x)' + Cardinality(Owners(x)') = External[x] - IF x = o THEN 1 ELSE 0
  <2>1. External[x] = InList(x) + Cardinality(Owners(x)) /\ Cardinality(Owners(x)) \in Nat
    BY ExternalFacts DEF Outside
  <2>2. Owners(x)' = Owners(x)
    BY DEF Owners
  <2>3. InList(x)' = InList(x) - IF x = o THEN 1 ELSE 0
    BY <1>3, <1>9 DEF InList
  <2>4. InList(x) \in 0..1
    BY DEF InList
  <2> DEFINE n == Cardinality(Owners(x))
             i == InList(x)
             j == InList(x)'
             d == IF x = o THEN 1 ELSE 0
  <2>5. External[x] = i + n /\ n \in Nat /\ j = i - d /\ i \in 0..1 /\ d \in 0..1
    BY <2>1, <2>3, <2>4
  <2>6. j + n = External[x] - d
    <3> HIDE DEF n, i, j, d
    <3> QED BY <2>5
  <2> QED BY <2>2, <2>6
<1>12. PICK L : /\ LoggerMap(L) /\ DOMAIN L = Live
                /\ \A x \in Live : /\ L[x].name = logger[x].name /\ L[x].next = logger[x].next
                                   /\ L[x].refs = logger[x].refs
                /\ logger' = Freed(L, o)
  <2>1. CASE logger[o].state = "STOPPED"
    <3>1. logger' = Freed(logger, o)
      BY <2>1 DEF ComponentFreed, o
    <3> QED BY <1>1, <3>1 DEF Live
  <2>2. CASE logger[o].state # "STOPPED"
    <3>1. PICK L : L = StateSet(logger, o, "STOPPED")
      OBVIOUS
    <3>2. logger' = Freed(L, o)
      BY <2>2, <3>1 DEF ComponentFreed, o
    <3>3. o \in DOMAIN logger /\ "STOPPED" \in States
      BY <1>3 DEF Live, States
    <3>4. /\ LoggerMap(L) /\ DOMAIN L = DOMAIN logger
          /\ \A x \in DOMAIN logger :
               L[x].name = logger[x].name /\ L[x].next = logger[x].next /\ L[x].refs = logger[x].refs
      BY <1>1, <3>1, <3>3, StateSetFacts
    <3> QED BY <3>2, <3>4 DEF Live
  <2> QED BY <2>1, <2>2
<1>13. own' \in [Threads -> SUBSET (Live \ {Default})] /\ Listed' \subseteq Listed
  BY <1>1, <1>9 DEF OwnTypes
<1>14. /\ LoggerInv' /\ Live' \subseteq Live
       /\ \A x \in Live' : logger'[x].name = logger[x].name /\ logger'[x].next = logger[x].next
  BY <1>3, <1>4, <1>10, <1>11, <1>12, <1>13, FreedStep
<1> QED BY <1>9, <1>14 DEF o

(* What iot_logger_free frees is on the chain it starts at.                  *)
LEMMA FreedOnChain ==
  ASSUME NEW L, LoggerMap(L), NEW o \in DOMAIN L \cup {None}
  PROVE  FreedWith(L, o) \subseteq Chain(L, o)
<1> DEFINE S == Chain(L, o) \cap DOMAIN L
<1>1. /\ o \in Chain(L, o)
      /\ \A x \in Chain(L, o) \ {None} : L[x].next \in Chain(L, o)
  BY ChainFacts
<1>2. None \notin DOMAIN L /\ \A x \in DOMAIN L : L[x].next \in DOMAIN L \cup {None}
  BY MapFacts DEF LoggerMap
<1>3. \A x : LastReference(L, x) => x # None
  BY DEF LastReference, Counted
<1>4. LastReference(L, o) => o \in S
  BY <1>1, <1>3
<1>5. \A x \in S : LastReference(L, L[x].next) => L[x].next \in S
  BY <1>1, <1>2, <1>3
<1>6. S \in SUBSET DOMAIN L
  OBVIOUS
<1> HIDE DEF S
<1>7. FreedWith(L, o) \subseteq S
  BY <1>4, <1>5, <1>6, FreedWithFacts
<1> QED BY <1>7 DEF S

(* iot_logger_set_next, first half: the old next loses the reference of o.   *)
NextLost(L, M, o, ext) ==
  /\ o \in DOMAIN M /\ DOMAIN M \subseteq DOMAIN L /\ M \in [DOMAIN M -> LoggerRec]
  /\ Default \in DOMAIN M /\ M[Default].refs = L[Default].refs
  /\ \A x \in DOMAIN M : M[x].next = L[x].next /\ M[x].name = L[x].name
  /\ \A x \in DOMAIN M \ {o} : M[x].next \in DOMAIN M \cup {None}
  /\ \A x \in DOMAIN M \ {Default} :
       M[x].refs = Cardinality(Sources(M, x, {o})) + ext[x] /\ M[x].refs > 0
  /\ \A x \in DOMAIN L : ext[x] > 0 => x \in DOMAIN M

LEMMA NextFreed ==
  ASSUME NEW L, LoggerMap(L), NoCycle(L), NEW ext \in [DOMAIN L -> Nat], Counts(L, {}, ext),
         NEW o \in DOMAIN L \ {Default}, NEW M, M = Freed(L, L[o].next)
  PROVE  NextLost(L, M, o, ext)
<1> DEFINE p == L[o].next
           gone == FreedWith(L, p)
           more == [x \in DOMAIN L |-> ext[x] + IF x = p THEN 1 ELSE 0]
<1>1. p \in DOMAIN L \cup {None} /\ None \notin DOMAIN L /\ Default \in DOMAIN L
  BY MapFacts DEF LoggerMap
<1>2. o \notin Chain(L, p)
  BY NotBehindItself
<1>3. gone \subseteq DOMAIN L \ {Default} /\ o \notin gone
  BY <1>1, <1>2, FreedOnChain, FreedWithFacts
<1>4. FieldsLeft(L, M, p, gone)
  <2>1. \A g, q : q = p /\ g = FreedWith(L, q) /\ M = Freed(L, q) => FieldsLeft(L, M, q, g)
    BY <1>1, FreedFields
  <2> QED BY <2>1
<1>5. Counts(L, {o}, more)
  <2>1. SUFFICES ASSUME NEW x \in DOMAIN L \ {Default}
                 PROVE  L[x].refs = Cardinality(Sources(L, x, {o})) + more[x] /\ L[x].refs > 0
    BY DEF Counts
  <2> DEFINE n == Cardinality(Sources(L, x, {}))
             m == Cardinality(Sources(L, x, {o}))
  <2>2. /\ L[x].refs = n + ext[x] /\ L[x].refs > 0 /\ n \in Nat /\ m \in Nat /\ ext[x] \in Nat
        /\ IsFiniteSet(Sources(L, x, {o}))
    BY MapFacts DEF Counts
  <2>3. CASE x = p
    <3>1. Sources(L, x, {}) = Sources(L, x, {o}) \cup {o} /\ o \notin Sources(L, x, {o})
      BY <2>3 DEF Sources
    <3>2. n = m + 1
      BY <2>2, <3>1, FS_AddElement
    <3>3. more[x] = ext[x] + 1
      BY <2>1, <2>3
    <3>4. L[x].refs = m + more[x] /\ L[x].refs > 0
      <4> HIDE DEF n, m, more
      <4> QED BY <2>2, <3>2, <3>3
    <3> QED BY <3>4
  <2>4. CASE x # p
    <3>1. Sources(L, x, {}) = Sources(L, x, {o})
      BY <2>4 DEF Sources
    <3>2. more[x] = ext[x]
      BY <2>1, <2>2, <2>4
    <3> QED BY <2>2, <3>1, <3>2
  <2> QED BY <2>3, <2>4
<1>7. \A x \in DOMAIN L : more[x] = ext[x] + IF x = p THEN 1 ELSE 0
  OBVIOUS
<1>8. more \in [DOMAIN L -> Nat]
  OBVIOUS
<1>9. p \in DOMAIN L \ {Default} => more[p] > 0
  BY <1>7
<1>10. \A x \in DOMAIN L : ext[x] \in Nat
  OBVIOUS
<1> HIDE DEF more, gone, p
<1>11. FreeRight(L, M, {o}, more, p, gone)
  <2>1. gone = FreedWith(L, p) /\ M = Freed(L, p) /\ {o} \in SUBSET DOMAIN L /\ gone \cap {o} = {}
    BY <1>3 DEF gone, p
  <2> QED BY <1>1, <1>5, <1>8, <1>9, <2>1, FreedCounts
<1>12. /\ DOMAIN M = DOMAIN L \ gone
       /\ \A x \in DOMAIN M : M[x].next = L[x].next /\ M[x].name = L[x].name
  BY <1>4 DEF FieldsLeft
<1>13. \A x \in DOMAIN M \ {Default} :
         M[x].refs = Cardinality(Sources(M, x, {o})) + ext[x] /\ M[x].refs > 0
  <2>1. TAKE x \in DOMAIN M \ {Default}
  <2> DEFINE n == Cardinality(Sources(M, x, {o}))
             d == IF x = p THEN 1 ELSE 0
  <2>2. M[x].refs = n + more[x] - d /\ M[x].refs \in Nat \ {0}
    BY <1>11 DEF FreeRight
  <2>3. more[x] = ext[x] + d /\ ext[x] \in Nat /\ d \in 0..1
    BY <1>7, <1>10, <1>12
  <2>4. IsFiniteSet(Sources(M, x, {o}))
    <3>1. Sources(M, x, {o}) \subseteq DOMAIN L
      BY <1>12 DEF Sources
    <3> QED BY <3>1, MapFacts
  <2>5. n \in Nat
    BY <2>4, FS_CardinalityType
  <2>6. M[x].refs = n + ext[x] /\ M[x].refs > 0
    <3> HIDE DEF n, d
    <3> QED BY <2>2, <2>3, <2>5
  <2> QED BY <2>6
<1>14. \A x \in DOMAIN M \ {o} : M[x].next \in DOMAIN M \cup {None}
  <2>1. TAKE x \in DOMAIN M \ {o}
  <2>2. L[x].next \notin gone /\ L[x].next \in DOMAIN L \cup {None}
    BY <1>11, <1>12 DEF FreeRight, LoggerMap
  <2> QED BY <1>12, <2>2
<1>15. ASSUME NEW x \in DOMAIN L, ext[x] > 0
       PROVE  x \in DOMAIN M
  <2>1. SUFFICES ASSUME x \in gone
                 PROVE  FALSE
    BY <1>12
  <2>2. more[x] = (IF x = p THEN 1 ELSE 0) /\ more[x] = ext[x] + (IF x = p THEN 1 ELSE 0)
    BY <1>7, <1>11, <2>1 DEF FreeRight
  <2>3. ext[x] \in Nat
    BY <1>10
  <2> QED BY <1>15, <2>2, <2>3
<1>16. M \in [DOMAIN M -> LoggerRec]
  BY <1>11 DEF FreeRight
<1>17. Default \in DOMAIN M /\ M[Default].refs = L[Default].refs
  BY <1>1, <1>3, <1>4 DEF FieldsLeft
<1> QED BY <1>3, <1>12, <1>13, <1>14, <1>15, <1>16, <1>17 DEF NextLost

(* Second half: o refers to a logger whose chain does not lead to o.         *)
LEMMA NextSetFacts ==
  ASSUME NEW L, LoggerMap(L), NoCycle(L), NEW ext \in [DOMAIN L -> Nat], Counts(L, {}, ext),
         NEW o \in DOMAIN L \ {Default}, NEW next \in DOMAIN L \cup {None},
         next \in DOMAIN L \ {Default} => ext[next] > 0, o \notin Chain(L, next),
         NEW K, K = NextSet(L, o, next)
  PROVE  /\ LoggerMap(K) /\ NoCycle(K) /\ Counts(K, {}, ext) /\ o \in DOMAIN K
         /\ DOMAIN K \subseteq DOMAIN L /\ K[Default].refs = L[Default].refs
         /\ \A x \in DOMAIN K : K[x].name = L[x].name /\ (x # o => K[x].next = L[x].next)
         /\ \A x \in DOMAIN L : ext[x] > 0 => x \in DOMAIN K
<1>1. PICK M : M = Freed(L, L[o].next)
  OBVIOUS
<1>2. /\ o \in DOMAIN M /\ DOMAIN M \subseteq DOMAIN L /\ M \in [DOMAIN M -> LoggerRec]
      /\ Default \in DOMAIN M /\ M[Default].refs = L[Default].refs
      /\ \A x \in DOMAIN M : M[x].next = L[x].next /\ M[x].name = L[x].name
      /\ \A x \in DOMAIN M \ {o} : M[x].next \in DOMAIN M \cup {None}
      /\ \A x \in DOMAIN M \ {Default} :
           M[x].refs = Cardinality(Sources(M, x, {o})) + ext[x] /\ M[x].refs > 0
      /\ \A x \in DOMAIN L : ext[x] > 0 => x \in DOMAIN M
  <2>1. NextLost(L, M, o, ext)
    BY <1>1, NextFreed
  <2> QED BY <2>1 DEF NextLost
<1>3. None \notin DOMAIN L /\ DOMAIN L \subseteq Nat /\ next \in Nat
  BY MapFacts DEF None
<1>4. next \in DOMAIN M \cup {None} /\ next # o
  <2>1. next # o
    BY ChainFacts
  <2> QED BY <1>2, <2>1
<1>5. PICK N : N = Referenced(M, next)
  OBVIOUS
<1>6. /\ N \in [DOMAIN M -> LoggerRec] /\ DOMAIN N = DOMAIN M
      /\ \A x \in DOMAIN M :
           /\ N[x].name = M[x].name /\ N[x].next = M[x].next
           /\ x \notin {Default, None} => N[x].refs = M[x].refs + IF x = next THEN 1 ELSE 0
           /\ x = Default => N[x].refs = M[x].refs
  BY <1>2, <1>4, <1>5, ReferencedFacts
<1>7. K = [N EXCEPT ![o].next = next]
  BY <1>1, <1>5 DEF NextSet
<1>8. /\ K \in [DOMAIN M -> LoggerRec] /\ DOMAIN K = DOMAIN M
      /\ \A x \in DOMAIN M :
           /\ K[x].name = L[x].name /\ K[x].next = IF x = o THEN next ELSE L[x].next
           /\ x # Default => K[x].refs = M[x].refs + IF x = next THEN 1 ELSE 0
           /\ x = Default => K[x].refs = M[x].refs
  <2>1. ASSUME NEW x \in DOMAIN M
        PROVE  /\ K[x] \in LoggerRec
               /\ K[x].name = N[x].name /\ K[x].next = IF x = o THEN next ELSE N[x].next
               /\ K[x].refs = N[x].refs
    <3>1. N[x] \in LoggerRec
      BY <1>6
    <3>2. K[x] = IF x = o THEN [N[x] EXCEPT !.next = next] ELSE N[x]
      BY <1>6, <1>7, <2>1
    <3> QED BY <1>3, <3>1, <3>2 DEF LoggerRec
  <2>2. DOMAIN K = DOMAIN M /\ K = [x \in DOMAIN M |-> K[x]]
    BY <1>6, <1>7
  <2>3. K \in [DOMAIN M -> LoggerRec]
    BY <2>1, <2>2
  <2> QED BY <1>2, <1>3, <1>6, <2>1, <2>2, <2>3
<1>9. LoggerMap(K)
  <2>1. \A x \in DOMAIN K : K[x].next \in DOMAIN K \cup {None}
    BY <1>2, <1>4, <1>8
  <2>2. DOMAIN K \subseteq 1..(MaxLoggers + Default)
    BY <1>2, <1>8 DEF LoggerMap
  <2> QED BY <1>2, <1>8, <2>1, <2>2 DEF LoggerMap
<1>10. Counts(K, {}, ext)
  <2>1. SUFFICES ASSUME NEW x \in DOMAIN K \ {Default}
                 PROVE  K[x].refs = Cardinality(Sources(K, x, {})) + ext[x] /\ K[x].refs > 0
    BY DEF Counts
  <2> DEFINE n == Cardinality(Sources(M, x, {o}))
             k == Cardinality(Sources(K, x, {}))
             d == IF x = next THEN 1 ELSE 0
  <2>2. Sources(K, x, {}) = Sources(M, x, {o}) \cup (IF x = next THEN {o} ELSE {})
    BY <1>2, <1>8 DEF Sources
  <2>3. IsFiniteSet(Sources(M, x, {o})) /\ o \notin Sources(M, x, {o})
    <3>1. Sources(M, x, {o}) \subseteq DOMAIN L
      BY <1>2 DEF Sources
    <3> QED BY <3>1, MapFacts DEF Sources
  <2>4. n \in Nat
    BY <2>3, FS_CardinalityType
  <2>5. k = n + d
    <3>1. CASE x = next
      <4>1. Sources(K, x, {}) = Sources(M, x, {o}) \cup {o}
        BY <2>2, <3>1
      <4> QED BY <2>3, <3>1, <4>1, FS_AddElement
    <3>2. CASE x # next
      <4>1. Sources(K, x, {}) = Sources(M, x, {o})
        BY <2>2, <3>2
      <4> QED BY <2>4, <3>2, <4>1
    <3> QED BY <3>1, <3>2
  <2>6. M[x].refs = n + ext[x] /\ M[x].refs > 0 /\ K[x].refs = M[x].refs + d
    BY <1>2, <1>8, <2>1
  <2>7. ext[x] \in Nat /\ d \in 0..1
    BY <1>2, <1>8, <2>1
  <2>8. K[x].refs = k + ext[x] /\ K[x].refs > 0
    <3> HIDE DEF n, k, d
    <3> QED BY <2>4, <2>5, <2>6, <2>7
  <2> QED BY <2>8
<1>11. NoCycle(K)
  <2>1. SUFFICES ASSUME NEW S \in (SUBSET DOMAIN K) \ {{}}, \A x \in S : K[x].next \in S
                 PROVE  FALSE
    BY DEF NoCycle
  <2>2. S \subseteq DOMAIN L /\ S \subseteq DOMAIN M
    BY <1>2, <1>8, <2>1
  <2>3. CASE o \notin S
    <3>1. \A x \in S : L[x].next \in S
      BY <1>8, <2>1, <2>2, <2>3
    <3> QED BY <2>1, <2>2, <3>1 DEF NoCycle
  <2>4. CASE o \in S
    <3> DEFINE T == S \cap Chain(L, next)
    <3>1. next \in Chain(L, next) /\ \A x \in Chain(L, next) \ {None} : L[x].next \in Chain(L, next)
      BY ChainFacts
    <3>2. next \in T
      BY <1>2, <1>8, <2>1, <2>4, <3>1
    <3>3. ASSUME NEW x \in T
          PROVE  L[x].next \in T
      <4>1. x # o /\ x # None /\ x \in DOMAIN M
        BY <1>3, <2>2
      <4>2. K[x].next = L[x].next
        BY <1>8, <4>1
      <4> QED BY <2>1, <3>1, <3>3, <4>1, <4>2
    <3>4. T \in (SUBSET DOMAIN L) \ {{}}
      BY <2>2, <3>2
    <3> HIDE DEF T
    <3> QED BY <3>3, <3>4 DEF NoCycle
  <2> QED BY <2>3, <2>4
<1>12. K[Default].refs = L[Default].refs
  BY <1>2, <1>8
<1> QED BY <1>2, <1>8, <1>9, <1>10, <1>11, <1>12

(* A thread sets the next of a logger of its own that is no component.       *)
LEMMA SetNextStep ==
  ASSUME LoggerInv, NEW t \in Threads, NEW o \in own[t], logger[o].name = NoName,
         NEW next \in Live \cup {None}, next \in Live \ {Default} => External[next] > 0,
         o \notin Chain(logger, next),
         logger' = NextSet(logger, o, next), UNCHANGED <<own, components>>
  PROVE  LoggerInv' /\ Live' \subseteq Live /\ \A x \in Live' : logger'[x].name = logger[x].name
<1>1. /\ LoggerMap(logger) /\ NoCycle(logger) /\ Counts(logger, {}, External)
      /\ OwnTypes /\ ListInv
  BY DEF LoggerInv
<1>2. o \in DOMAIN logger \ {Default} /\ next \in DOMAIN logger \cup {None}
  BY <1>1 DEF OwnTypes, Live
<1>3. External \in [DOMAIN logger -> Nat] /\ (next \in DOMAIN logger \ {Default} => External[next] > 0)
  BY ExternalFacts DEF Outside, Live
<1>4. PICK K : K = logger'
  OBVIOUS
<1>5. /\ LoggerMap(K) /\ NoCycle(K) /\ Counts(K, {}, External) /\ o \in DOMAIN K
      /\ DOMAIN K \subseteq DOMAIN logger /\ K[Default].refs = logger[Default].refs
      /\ \A x \in DOMAIN K :
           K[x].name = logger[x].name /\ (x # o => K[x].next = logger[x].next)
      /\ \A x \in DOMAIN logger : External[x] > 0 => x \in DOMAIN K
  <2>1. K = NextSet(logger, o, next)
    BY <1>4
  <2> QED BY <1>1, <1>2, <1>3, <2>1, NextSetFacts
<1>6. \A x : InList(x)' = InList(x) /\ Owners(x)' = Owners(x)
  BY DEF InList, Listed, Owners
<1>7. Counts(logger', {}, External')
  <2>1. \A x \in DOMAIN K : External'[x] = External[x]
    <3>1. TAKE x \in DOMAIN K
    <3>2. External[x] = InList(x) + Cardinality(Owners(x))
      BY <1>5, <3>1, ExternalFacts DEF Outside, Live
    <3>3. External'[x] = InList(x)' + Cardinality(Owners(x)')
      BY <1>4, <3>1, ExternalNext DEF Outside, Live
    <3> QED BY <1>6, <3>2, <3>3
  <2> QED BY <1>4, <1>5, <2>1 DEF Counts
<1>8. \A x \in Live : x \in Listed \/ (\E u \in Threads : x \in own[u]) => x \in Live'
  BY <1>4, <1>5, ExternalFacts DEF Outside, Live
<1>9. ListInv'
  <2>1. Listed \subseteq Live
    BY <1>1, ListFacts
  <2>2. o \notin Listed
    BY <1>1, LoggerAssumption DEF ListInv
  <2>3. Listed \subseteq Live' /\ \A x \in Listed : logger'[x].name = logger[x].name /\ logger'[x].next = logger[x].next
    BY <1>4, <1>5, <1>8, <2>1, <2>2 DEF Live
  <2> QED BY <1>1, <2>3, ListKept
<1>10. OwnTypes'
  BY <1>1, <1>8 DEF OwnTypes
<1> QED BY <1>4, <1>5, <1>7, <1>9, <1>10 DEF LoggerInv, Live

-----------------------------------------------------------------------------
(* The calls under way. *)

(* A name is there when a component of the list has it.                      *)
PresentRight == ListInv => \A n : Present(n) <=> \E o \in Listed : logger[o].name = n

LEMMA PresentFacts == PresentRight
BY ListFacts DEF PresentRight

LEMMA PresentNext == PresentRight'
BY PresentFacts, PTL

(* Walks stay on their chains while the loggers that are there before and    *)
(* after keep what they refer to.                                            *)
LEMMA WalksKept ==
  ASSUME LoggerMap(logger), LoggerMap(logger'),
         \A x \in Live \cap Live' : logger'[x].next = logger[x].next,
         NEW o \in Live \cap Live'
  PROVE  Chain(logger', o) = Chain(logger, o)
<1> DEFINE R == Live \cap Live'
<1>1. R \subseteq DOMAIN logger /\ R \subseteq DOMAIN logger'
  BY DEF Live
<1>2. \A x \in R : logger'[x].next = logger[x].next /\ logger[x].next \in R \cup {None}
  <2>1. TAKE x \in R
  <2>2. logger[x].next \in Live \cup {None} /\ logger'[x].next \in Live' \cup {None}
    BY DEF LoggerMap, Live
  <2> QED BY <2>2
<1>3. o \in R
  OBVIOUS
<1> HIDE DEF R
<1> QED BY <1>1, <1>2, <1>3, ChainKept

(* Calls that change loggers and who holds them do not disturb the calls     *)
(* under way: what those use stays.                                          *)
LEMMA ClientKept ==
  ASSUME IInv, LoggerInv', UNCHANGED <<call, containerVars>>,
         \A x \in Listed : logger'[x].name = logger[x].name,
         \A u \in Threads : call[u].op = "log" =>
           own'[u] = own[u] /\ \A x \in Live \cap Live' : logger'[x].next = logger[x].next
  PROVE  CallInv'
<1> USE DEF containerVars
<1>1. /\ LoggerMap(logger) /\ ListInv /\ CallTypes /\ WalkInv /\ BorrowInv /\ DeleteInv
      /\ FreedInv /\ StoreTypes /\ LoadsInv
  BY DEF IInv, LoggerInv, CallInv
<1>2. LoggerMap(logger') /\ ListInv' /\ OwnTypes'
  BY DEF LoggerInv
<1>3. Listed' = Listed /\ Deleting' = Deleting
  BY DEF Listed, Deleting
<1>4. \A o : Borrowed(o)' <=> Borrowed(o)
  BY DEF Borrowed
<1>5. BorrowInv'
  <2>1. SUFFICES ASSUME NEW o, Borrowed(o)', o # Default
                 PROVE  o \in Listed' /\ logger'[o].name \notin Deleting' /\ ~freed'
    BY DEF BorrowInv
  <2>2. o \in Listed /\ logger[o].name \notin Deleting /\ ~freed
    BY <1>1, <1>4, <2>1 DEF BorrowInv
  <2> QED BY <1>3, <2>2
<1>6. WalkInv'
  <2>1. SUFFICES ASSUME NEW t \in Threads
                 PROVE  /\ call[t].op \in {"start", "stop"} => call[t].at \in Listed
                        /\ call[t].op = "log" => /\ call[t].via \in Live'
                                                 /\ call[t].at \in Chain(logger', call[t].via) \ {None}
                        /\ call[t].op \notin {"start", "stop", "log"} => call[t].at = None
    BY <1>3 DEF WalkInv
  <2>2. ASSUME call[t].op = "log"
        PROVE  call[t].via \in Live' /\ call[t].at \in Chain(logger', call[t].via) \ {None}
    <3>1. call[t].via \in Live /\ call[t].at \in Chain(logger, call[t].via) \ {None}
      BY <1>1, <2>2 DEF WalkInv
    <3>2. call[t].via \in Live'
      <4>1. CASE call[t].via \in own[t]
        BY <1>2, <2>2, <4>1 DEF OwnTypes
      <4>2. CASE call[t].via \notin own[t]
        <5>1. Borrowed(call[t].via)
          BY <2>2, <4>2 DEF Borrowed
        <5>2. call[t].via = Default \/ call[t].via \in Listed
          BY <1>1, <5>1 DEF BorrowInv
        <5>3. Default \in Live' /\ Listed' \subseteq Live'
          <6>1. \A i \in DOMAIN components' : components'[i] \in Live'
            BY <1>2, LenProperties, ElementOfSeq DEF ListInv
          <6> QED BY <1>2, <6>1 DEF LoggerMap, Live, Listed
        <5> QED BY <1>3, <5>2, <5>3
      <4> QED BY <4>1, <4>2
    <3>3. Chain(logger', call[t].via) = Chain(logger, call[t].via)
      BY <1>1, <1>2, <2>2, <3>1, <3>2, WalksKept
    <3> QED BY <3>1, <3>2, <3>3
  <2> QED BY <1>1, <2>2 DEF WalkInv
<1>7. DeleteInv'
  <2>1. \A n : Present(n)' <=> Present(n)
    <3>1. TAKE n
    <3>2. Present(n) <=> \E o \in Listed : logger[o].name = n
      BY <1>1, PresentFacts DEF PresentRight
    <3>3. Present(n)' <=> \E o \in Listed' : logger'[o].name = n
      BY <1>2, PresentNext DEF PresentRight
    <3> QED BY <1>3, <3>2, <3>3
  <2> QED BY <1>1, <2>1 DEF DeleteInv
<1>8. CallTypes' /\ FreedInv' /\ StoreTypes' /\ LoadsInv'
  BY <1>1 DEF CallTypes, FreedInv, StoreTypes, LoadsInv
<1> QED BY <1>5, <1>6, <1>7, <1>8 DEF CallInv

(* What a thread's call may become in a step that frees nothing.             *)
CallRight(t, c) ==
  /\ c \in CallRec /\ c.op # "delete"
  /\ c.op \in {"start", "stop"} => c.at \in Listed
  /\ c.op = "log" =>
       /\ c.via \in Live /\ c.at \in Chain(logger, c.via) \ {None}
       /\ c.via \notin own[t] \cup {Default} =>
            c.via \in Listed /\ logger[c.via].name \notin Deleting /\ ~freed
  /\ c.op \notin {"start", "stop", "log"} => c.at = None
  /\ freed => c.op \in {"idle", "log", "free"}
  /\ c.op = "free" => freed

CallsKept == CallTypes /\ WalkInv /\ BorrowInv /\ DeleteInv /\ FreedInv

LEMMA CallChanged ==
  ASSUME IInv, LoggerInv', NEW t \in Threads, NEW c, CallRight(t, c),
         call' = [call EXCEPT ![t] = c], UNCHANGED <<own, freed>>,
         Live \subseteq Live', Listed \subseteq Listed',
         \A x \in Live : logger'[x].name = logger[x].name /\ logger'[x].next = logger[x].next
  PROVE  CallsKept'
<1>1. LoggerMap(logger) /\ ListInv /\ CallTypes /\ WalkInv /\ BorrowInv /\ DeleteInv /\ FreedInv
  BY DEF IInv, LoggerInv, CallInv
<1>2. LoggerMap(logger') /\ ListInv'
  BY DEF LoggerInv
<1>3. \A u \in Threads : call'[u] = IF u = t THEN c ELSE call[u]
  BY <1>1 DEF CallTypes
<1>4. Deleting' \subseteq Deleting
  BY <1>3 DEF Deleting, CallRight
<1>5. Listed \subseteq Live
  BY <1>1, ListFacts
<1>6. CallTypes'
  BY <1>1 DEF CallTypes, CallRight
<1>7. \A o \in Live : Chain(logger', o) = Chain(logger, o)
  BY <1>1, <1>2, WalksKept
<1>8. WalkInv'
  BY <1>1, <1>3, <1>7 DEF WalkInv, CallRight
<1>9. BorrowInv'
  <2>1. SUFFICES ASSUME NEW o, NEW u \in Threads, call'[u].op = "log", call'[u].via = o,
                        o \notin own[u], o # Default
                 PROVE  o \in Listed /\ logger[o].name \notin Deleting /\ ~freed
    <3>1. \A o \in Listed : o \in Listed' /\ logger'[o].name = logger[o].name
      BY <1>5
    <3> QED BY <1>4, <2>1, <3>1 DEF BorrowInv, Borrowed
  <2>2. CASE u = t
    BY <1>3, <2>1, <2>2 DEF CallRight
  <2>3. CASE u # t
    <3>1. Borrowed(o)
      BY <1>3, <2>1, <2>3 DEF Borrowed
    <3> QED BY <1>1, <2>1, <3>1 DEF BorrowInv
  <2> QED BY <2>2, <2>3
<1>10. DeleteInv'
  <2>1. ASSUME NEW n, Present(n)
        PROVE  Present(n)'
    <3>1. PICK o \in Listed : logger[o].name = n
      BY <1>1, <2>1, PresentFacts DEF PresentRight
    <3>2. o \in Listed' /\ logger'[o].name = n
      BY <1>5, <3>1
    <3> QED BY <1>2, <3>2, PresentNext DEF PresentRight
  <2> QED BY <1>1, <1>3, <2>1 DEF DeleteInv, CallRight
<1>11. FreedInv'
  BY <1>1, <1>3 DEF FreedInv, CallRight
<1> QED BY <1>6, <1>8, <1>9, <1>10, <1>11 DEF CallsKept

(* The loads under way when one begins, ends or leads to another.            *)
LEMMA LoadBegins ==
  ASSUME NEW n \in Names, NEW config \in Config \cup {NoConfig}, NEW listed \in BOOLEAN,
         loads' = <<Frame(n, config, listed)>>
  PROVE  LoadsInv'
<1>1. Frame(n, config, listed) \in FrameRec
  BY DEF Frame, FrameRec
<1>2. loads' \in Seq(FrameRec) /\ DOMAIN loads' = {1}
  BY <1>1
<1> QED BY <1>2 DEF LoadsInv

LEMMA LoadEnds ==
  ASSUME LoadsInv, loads # <<>>, loads' = Front(loads)
  PROVE  LoadsInv'
<1>1. Len(loads) \in Nat \ {0} /\ DOMAIN loads = 1..Len(loads) /\ \A i \in 1..Len(loads) : loads[i] \in FrameRec
  BY EmptySeq, LenProperties, ElementOfSeq DEF LoadsInv
<1>2. /\ loads' \in Seq(FrameRec) /\ Len(loads') = Len(loads) - 1
      /\ \A i \in 1..(Len(loads) - 1) : loads'[i] = loads[i]
  <2> DEFINE k == Len(loads) - 1
  <2>1. k \in Int /\ \A i \in 1..k : loads[i] \in FrameRec
    BY <1>1
  <2>2. /\ SubSeq(loads, 1, k) \in Seq(FrameRec)
        /\ Len(SubSeq(loads, 1, k)) = IF 1 <= k THEN k - 1 + 1 ELSE 0
        /\ \A i \in 1..(k - 1 + 1) : SubSeq(loads, 1, k)[i] = loads[1 + i - 1]
    <3> HIDE DEF k
    <3> QED BY <2>1, SubSeqProperties
  <2>3. loads' = SubSeq(loads, 1, k)
    BY DEF Front
  <2> QED BY <1>1, <2>2, <2>3
<1>3. DOMAIN loads' = 1..(Len(loads) - 1)
  BY <1>2, LenProperties
<1>4. DOMAIN loads' \subseteq DOMAIN loads /\ \A i \in DOMAIN loads' : loads'[i] = loads[i]
  BY <1>1, <1>2, <1>3
<1> QED BY <1>2, <1>4 DEF LoadsInv

LEMMA LoadNests ==
  ASSUME LoadsInv, loads # <<>>, StoreTypes, NEW n \in Names, n \notin InProgress,
         loads' = Append([loads EXCEPT ![Len(loads)].asked = TRUE], Frame(n, store[n], TRUE))
  PROVE  LoadsInv'
<1> DEFINE k == Len(loads)
           front == [loads EXCEPT ![k] = [loads[k] EXCEPT !.asked = TRUE]]
           f == Frame(n, store[n], TRUE)
<1>1. k \in Nat \ {0} /\ DOMAIN loads = 1..k /\ \A i \in 1..k : loads[i] \in FrameRec
  BY EmptySeq, LenProperties, ElementOfSeq DEF LoadsInv
<1>2. f \in FrameRec /\ f.name = n /\ f.listed
  BY DEF Frame, FrameRec, StoreTypes
<1>3. /\ [loads[k] EXCEPT !.asked = TRUE] \in FrameRec
      /\ [loads[k] EXCEPT !.asked = TRUE].name = loads[k].name
      /\ [loads[k] EXCEPT !.asked = TRUE].listed = loads[k].listed
  <2>1. loads[k] \in FrameRec
    BY <1>1
  <2> QED BY <2>1 DEF FrameRec
<1>4. /\ front \in Seq(FrameRec) /\ Len(front) = k
      /\ \A i \in 1..k : front[i].name = loads[i].name /\ front[i].listed = loads[i].listed
  <2>1. k \in 1..Len(loads) /\ loads \in Seq(FrameRec)
    BY <1>1 DEF LoadsInv
  <2>2. /\ front \in Seq(FrameRec) /\ Len(front) = Len(loads)
        /\ \A i \in 1..Len(loads) : front[i] = IF i = k THEN [loads[k] EXCEPT !.asked = TRUE] ELSE loads[i]
    BY <1>3, <2>1, ExceptSeq
  <2> QED BY <1>3, <2>2
<1>5. loads' = Append(front, f)
  OBVIOUS
<1> HIDE DEF front, f, k
<1>6. /\ loads' \in Seq(FrameRec) /\ Len(loads') = k + 1
      /\ \A i \in 1..k : loads'[i] = front[i]
      /\ loads'[k + 1] = f
  <2>1. /\ Append(front, f) \in Seq(FrameRec) /\ Len(Append(front, f)) = Len(front) + 1
        /\ \A i \in 1..Len(front) : Append(front, f)[i] = front[i]
        /\ Append(front, f)[Len(front) + 1] = f
    BY <1>2, <1>4, AppendProperties
  <2> QED BY <1>4, <1>5, <2>1
<1>7. DOMAIN loads' = 1..(k + 1)
  BY <1>6, LenProperties
<1>8. \A i \in 1..k : loads'[i].name = loads[i].name /\ loads'[i].listed = loads[i].listed
  BY <1>4, <1>6
<1>9. \A i \in 1..k : loads[i].listed => loads[i].name # n
  BY <1>1 DEF InProgress
<1>10. \A i \in DOMAIN loads' : i # 1 => loads'[i].listed
  <2>1. \A i \in 1..k : i # 1 => loads'[i].listed
    BY <1>1, <1>8 DEF LoadsInv
  <2>2. loads'[k + 1].listed
    BY <1>2, <1>6
  <2>3. \A i \in DOMAIN loads' : i \in 1..k \/ i = k + 1
    BY <1>1, <1>7
  <2> QED BY <2>1, <2>2, <2>3
<1>11. ASSUME NEW i \in DOMAIN loads', NEW j \in DOMAIN loads',
              loads'[i].listed /\ loads'[j].listed /\ loads'[i].name = loads'[j].name
       PROVE  i = j
  <2>1. CASE i \in 1..k /\ j \in 1..k
    BY <1>1, <1>8, <1>11, <2>1 DEF LoadsInv
  <2>2. CASE i = k + 1 /\ j = k + 1
    BY <2>2
  <2>3. CASE i \in 1..k /\ j = k + 1
    BY <1>2, <1>6, <1>8, <1>9, <1>11, <2>3
  <2>4. CASE i = k + 1 /\ j \in 1..k
    BY <1>2, <1>6, <1>8, <1>9, <1>11, <2>4
  <2> QED BY <1>1, <1>7, <2>1, <2>2, <2>3, <2>4
<1> QED BY <1>6, <1>10, <1>11 DEF LoadsInv

(* A step that changes a call and no logger.                                 *)
LEMMA CallOnly ==
  ASSUME IInv, NEW t \in Threads, NEW c, CallRight(t, c), call' = [call EXCEPT ![t] = c],
         UNCHANGED <<logger, own, components, freed>>, StoreTypes', LoadsInv'
  PROVE  IInv'
<1>1. LoggerInv' /\ Live' = Live /\ Listed' = Listed
  <2>1. LoggerInv
    BY DEF IInv
  <2>2. External' = External
    BY DEF External, Live, InList, Listed, Owners
  <2> QED BY <2>1, <2>2 DEF LoggerInv, OwnTypes, ListInv, Live, Listed
<1>2. CallsKept'
  BY <1>1, CallChanged
<1> QED BY <1>1, <1>2 DEF IInv, CallInv, CallsKept

(* What the current calls are and what an idle thread's is not.              *)
LEMMA CallFacts ==
  ASSUME IInv, NEW t \in Threads
  PROVE  /\ call[t] \in CallRec /\ Idle \in CallRec /\ CallRight(t, Idle)
         /\ call[t].op \in {"idle", "find", "init", "add", "running"} =>
              CallRight(t, call[t]) /\ call[t].at = None
         /\ call = [call EXCEPT ![t] = call[t]]
<1>1. call[t] \in CallRec
  BY DEF IInv, CallInv, CallTypes
<1>2. Idle \in CallRec /\ Idle.op = "idle" /\ Idle.at = None
  BY DEF Idle, CallRec, Ops, None, Config
<1>3. CallRight(t, Idle)
  BY <1>2 DEF CallRight
<1>4. call = [call EXCEPT ![t] = call[t]]
  BY DEF IInv, CallInv, CallTypes
<1>5. call[t].op \in {"idle", "find", "init", "add", "running"} => CallRight(t, call[t]) /\ call[t].at = None
  BY <1>1 DEF CallRight, IInv, CallInv, WalkInv, FreedInv
<1> QED BY <1>1, <1>2, <1>3, <1>4, <1>5

-----------------------------------------------------------------------------
(* Every step keeps the invariant.  First those of the clients. *)

(* What a thread may pass to a call lives, and somebody holds it.            *)
LEMMA UsableFacts ==
  ASSUME LoggerInv, NEW t \in Threads, NEW o \in Usable(t)
  PROVE  /\ o \in Live /\ (o # Default => External[o] > 0)
         /\ o \notin own[t] \cup {Default} =>
              o \in Listed /\ logger[o].name \notin Deleting /\ ~freed
<1>1. Default \in Live /\ OwnTypes /\ Listed \subseteq Live
  BY ListFacts DEF LoggerInv, LoggerMap, Live
<1>2. o = Default \/ o \in own[t] \/ (o \in Listed /\ logger[o].name \notin Deleting /\ ~freed)
  BY DEF Usable
<1>3. o \in Live
  BY <1>1, <1>2 DEF OwnTypes
<1>4. o # Default => External[o] > 0
  BY <1>2, <1>3, ExternalFacts DEF Outside
<1> QED BY <1>2, <1>3, <1>4

(* The names of components that are there stay.                              *)
LEMMA NamesKept ==
  ASSUME LoggerInv, LoggerInv', UNCHANGED components,
         \A x \in Live \cap Live' : logger'[x].name = logger[x].name
  PROVE  \A x \in Listed : logger'[x].name = logger[x].name
<1>1. \A i \in DOMAIN components : components[i] \in Live /\ components[i] \in Live'
  BY LenProperties, ElementOfSeq DEF LoggerInv, ListInv
<1> QED BY <1>1 DEF Listed

LEMMA AllocSafe ==
  ASSUME IInv, NEW t \in Threads, NEW next \in Usable(t) \cup {None}, AllocLogger(t, next),
         UNCHANGED containerVars
  PROVE  IInv'
<1>1. LoggerInv
  BY DEF IInv
<1>2. next \in Live \cup {None}
  BY <1>1, UsableFacts
<1>3. /\ LoggerInv'
      /\ \A x \in Live : logger'[x].name = logger[x].name /\ logger'[x].next = logger[x].next
  BY <1>1, <1>2, AllocStep DEF AllocLogger, containerVars
<1>4. \A u \in Threads : call[u].op = "log" => own'[u] = own[u]
  BY <1>1 DEF AllocLogger, LoggerInv, OwnTypes
<1>5. \A x \in Listed : logger'[x].name = logger[x].name
  BY <1>1, <1>3, NamesKept DEF containerVars
<1>6. CallInv'
  BY <1>3, <1>4, <1>5, ClientKept DEF AllocLogger
<1> QED BY <1>3, <1>6 DEF IInv

LEMMA AddRefSafe ==
  ASSUME IInv, NEW t \in Threads, NEW o \in Usable(t), AddRef(t, o), UNCHANGED containerVars
  PROVE  IInv'
<1>1. LoggerInv
  BY DEF IInv
<1>2. o \in Live \ {Default} /\ o \notin own[t]
  BY <1>1, UsableFacts DEF AddRef
<1>3. /\ LoggerInv'
      /\ \A x \in Live : logger'[x].name = logger[x].name /\ logger'[x].next = logger[x].next
  BY <1>1, <1>2, AddRefStep DEF AddRef, containerVars
<1>4. \A u \in Threads : call[u].op = "log" => own'[u] = own[u]
  BY <1>1 DEF AddRef, LoggerInv, OwnTypes
<1>5. \A x \in Listed : logger'[x].name = logger[x].name
  BY <1>1, <1>3, NamesKept DEF containerVars
<1>6. CallInv'
  BY <1>3, <1>4, <1>5, ClientKept DEF AddRef
<1> QED BY <1>3, <1>6 DEF IInv

LEMMA FreeLoggerSafe ==
  ASSUME IInv, NEW t \in Threads, NEW o \in own[t], FreeLogger(t, o), UNCHANGED containerVars
  PROVE  IInv'
<1>1. LoggerInv
  BY DEF IInv
<1>2. /\ LoggerInv'
      /\ \A x \in Live' : logger'[x].name = logger[x].name /\ logger'[x].next = logger[x].next
  BY <1>1, FreeLoggerStep DEF FreeLogger, containerVars
<1>3. \A u \in Threads : call[u].op = "log" => own'[u] = own[u]
  BY <1>1 DEF FreeLogger, LoggerInv, OwnTypes
<1>4. \A x \in Listed : logger'[x].name = logger[x].name
  BY <1>1, <1>2, NamesKept DEF containerVars
<1>5. CallInv'
  BY <1>2, <1>3, <1>4, ClientKept DEF FreeLogger
<1> QED BY <1>2, <1>5 DEF IInv

LEMMA SetNextSafe ==
  ASSUME IInv, NEW t \in Threads, NEW o \in own[t], NEW next \in Usable(t) \cup {None},
         logger[o].name = NoName, SetNext(t, o, next), UNCHANGED containerVars
  PROVE  IInv'
<1>1. LoggerInv
  BY DEF IInv
<1>2. next \in Live \cup {None} /\ (next \in Live \ {Default} => External[next] > 0)
  <2>1. None \notin Live
    BY <1>1, MapFacts DEF LoggerInv, Live
  <2> QED BY <1>1, <2>1, UsableFacts
<1>3. LoggerInv' /\ \A x \in Live' : logger'[x].name = logger[x].name
  BY <1>1, <1>2, SetNextStep DEF SetNext, containerVars
<1>4. \A u \in Threads : call[u].op # "log"
  BY DEF SetNext, ChainQuiet
<1>5. \A x \in Listed : logger'[x].name = logger[x].name
  BY <1>1, <1>3, NamesKept DEF containerVars
<1>6. CallInv'
  BY <1>3, <1>4, <1>5, ClientKept DEF SetNext
<1> QED BY <1>3, <1>6 DEF IInv

LEMMA StateSafe ==
  ASSUME IInv, NEW t \in Threads, NEW o \in own[t],
         StartLogger(t, o) \/ StopLogger(t, o), UNCHANGED containerVars
  PROVE  IInv'
<1>1. LoggerInv
  BY DEF IInv
<1>2. o \in Live
  BY <1>1 DEF LoggerInv, OwnTypes
<1>3. PICK state \in States : logger' = StateSet(logger, o, state)
  BY DEF StartLogger, StopLogger, States
<1>4. UNCHANGED <<own, components, call>>
  BY DEF StartLogger, StopLogger, containerVars
<1>5. /\ LoggerInv'
      /\ \A x \in Live : logger'[x].name = logger[x].name /\ logger'[x].next = logger[x].next
  BY <1>1, <1>2, <1>3, <1>4, StateStep
<1>6. \A x \in Listed : logger'[x].name = logger[x].name
  BY <1>1, <1>4, <1>5, NamesKept
<1>7. CallInv'
  BY <1>4, <1>5, <1>6, ClientKept
<1> QED BY <1>5, <1>7 DEF IInv

LEMMA LogSafe ==
  ASSUME IInv, NEW t \in Threads, NEW o \in Usable(t), Log(t, o), UNCHANGED containerVars
  PROVE  IInv'
<1> DEFINE c == [Idle EXCEPT !.op = "log", !.at = o, !.via = o]
<1>1. /\ LoggerMap(logger) /\ LoggerInv /\ CallInv
  BY DEF IInv, LoggerInv
<1>2. /\ o \in Live /\ (o \notin own[t] \cup {Default} =>
              o \in Listed /\ logger[o].name \notin Deleting /\ ~freed)
  BY <1>1, UsableFacts
<1>3. o \in Nat /\ o # None /\ o \in Chain(logger, o)
  BY <1>1, <1>2, MapFacts, ChainFacts DEF Live
<1>4. c \in CallRec /\ c.op = "log" /\ c.at = o /\ c.via = o
  BY <1>3 DEF Idle, CallRec, Ops, None, Config
<1> HIDE DEF c
<1>5. CallRight(t, c)
  BY <1>2, <1>3, <1>4 DEF CallRight
<1>6. /\ call' = [call EXCEPT ![t] = c]
      /\ UNCHANGED <<logger, own, components, freed>> /\ StoreTypes' /\ LoadsInv'
  BY <1>1 DEF Log, c, containerVars, CallInv, StoreTypes, LoadsInv
<1> QED BY <1>5, <1>6, CallOnly

LEMMA LogNextSafe ==
  ASSUME IInv, NEW t \in Threads, LogNext(t), UNCHANGED containerVars
  PROVE  IInv'
<1> DEFINE next == logger[call[t].at].next
           on == [call[t] EXCEPT !.at = next]
           c == IF next = None THEN Idle ELSE on
<1>1. LoggerMap(logger) /\ CallInv /\ call[t].op = "log"
  BY DEF IInv, LoggerInv, LogNext
<1>2. /\ call[t] \in CallRec /\ CallRight(t, Idle)
  BY CallFacts
<1>3. call[t].via \in Live /\ call[t].at \in Chain(logger, call[t].via) \ {None}
  BY <1>1 DEF CallInv, WalkInv
<1>4. next \in Chain(logger, call[t].via) /\ next \in Nat
  <2>1. call[t].via \in DOMAIN logger \cup {None}
    BY <1>3 DEF Live
  <2>2. next \in Chain(logger, call[t].via) /\ Chain(logger, call[t].via) \subseteq DOMAIN logger \cup {None}
    BY <1>1, <1>3, <2>1, ChainFacts
  <2> QED BY <1>1, <2>2, MapFacts DEF None
<1> HIDE DEF next
<1>5. on \in CallRec /\ on.op = "log" /\ on.at = next /\ on.via = call[t].via
  BY <1>1, <1>2, <1>4 DEF CallRec
<1>6. call[t].via \notin own[t] \cup {Default} =>
        call[t].via \in Listed /\ logger[call[t].via].name \notin Deleting /\ ~freed
  BY <1>1 DEF CallInv, BorrowInv, Borrowed
<1>7. next # None => CallRight(t, on)
  <2> HIDE DEF on
  <2> QED BY <1>3, <1>4, <1>5, <1>6 DEF CallRight
<1>8. CallRight(t, c)
  BY <1>2, <1>7
<1>9. /\ call' = [call EXCEPT ![t] = c]
      /\ UNCHANGED <<logger, own, components, freed>> /\ StoreTypes' /\ LoadsInv'
  BY <1>1 DEF LogNext, next, containerVars, CallInv, StoreTypes, LoadsInv
<1> HIDE DEF c
<1> QED BY <1>8, <1>9, CallOnly

LEMMA ClientSafe ==
  ASSUME IInv, NEW t \in Threads, ClientCall(t)
  PROVE  IInv'
<1>1. CASE \E next \in Usable(t) \cup {None} : AllocLogger(t, next)
  BY <1>1, AllocSafe DEF ClientCall
<1>2. CASE \E o \in Usable(t) : AddRef(t, o)
  BY <1>2, AddRefSafe DEF ClientCall
<1>3. CASE \E o \in own[t] : FreeLogger(t, o)
  BY <1>3, FreeLoggerSafe DEF ClientCall
<1>4. CASE \E o \in own[t], next \in Usable(t) \cup {None} :
             logger[o].name = NoName /\ SetNext(t, o, next)
  BY <1>4, SetNextSafe DEF ClientCall
<1>5. CASE \E o \in own[t] : StartLogger(t, o) \/ StopLogger(t, o)
  BY <1>5, StateSafe DEF ClientCall
<1>6. CASE \E o \in Usable(t) : Log(t, o)
  BY <1>6, LogSafe DEF ClientCall
<1>7. CASE LogNext(t)
  BY <1>7, LogNextSafe DEF ClientCall
<1> QED BY <1>1, <1>2, <1>3, <1>4, <1>5, <1>6, <1>7 DEF ClientCall

-----------------------------------------------------------------------------
(* Steps of the managers that change no logger. *)

(* An idle thread begins to load.                                            *)
LEMMA LoadingRight ==
  ASSUME IInv, NEW t \in Threads, call[t].op \in {"idle", "init"}, ~freed,
         NEW op \in {"find", "init", "add"}, NEW todo \in SUBSET Names
  PROVE  /\ CallRight(t, [call[t] EXCEPT !.op = op])
         /\ CallRight(t, [call[t] EXCEPT !.op = op, !.todo = todo])
<1>1. call[t] \in CallRec /\ call[t].at = None
  BY CallFacts
<1>2. op \in Ops /\ op \notin {"delete", "start", "stop", "log", "free"}
  BY DEF Ops
<1>3. /\ [call[t] EXCEPT !.op = op] \in CallRec
      /\ [call[t] EXCEPT !.op = op].op = op /\ [call[t] EXCEPT !.op = op].at = None
  BY <1>1, <1>2 DEF CallRec
<1>4. /\ [call[t] EXCEPT !.op = op, !.todo = todo] \in CallRec
      /\ [call[t] EXCEPT !.op = op, !.todo = todo].op = op
      /\ [call[t] EXCEPT !.op = op, !.todo = todo].at = None
  BY <1>1, <1>2 DEF CallRec
<1> QED BY <1>2, <1>3, <1>4 DEF CallRight

LEMMA FactoryAddSafe ==
  ASSUME IInv, NEW t \in Threads, FactoryAdd(t)
  PROVE  IInv'
<1>1. CallRight(t, call[t]) /\ call = [call EXCEPT ![t] = call[t]]
  BY CallFacts DEF FactoryAdd
<1>2. UNCHANGED <<logger, own, call, components, loads, store, freed>>
  BY DEF FactoryAdd, loggerVars
<1>3. StoreTypes' /\ LoadsInv'
  BY <1>2 DEF IInv, CallInv, StoreTypes, LoadsInv
<1>4. call' = [call EXCEPT ![t] = call[t]]
  BY <1>1, <1>2
<1> QED BY <1>1, <1>2, <1>3, <1>4, CallOnly

LEMMA FindSafe ==
  ASSUME IInv, NEW t \in Threads, NEW n \in Names, FindComponent(t, n)
  PROVE  IInv'
<1> DEFINE c == [call[t] EXCEPT !.op = "find"]
<1>1. CallRight(t, c)
  BY LoadingRight DEF FindComponent
<1>2. call' = [call EXCEPT ![t] = c] /\ UNCHANGED <<logger, own, components, freed, store>>
  BY DEF FindComponent
<1>3. store[n] \in Config \cup {NoConfig} /\ StoreTypes'
  BY <1>2 DEF IInv, CallInv, StoreTypes
<1>4. LoadsInv'
  BY <1>3, LoadBegins DEF FindComponent
<1> HIDE DEF c
<1> QED BY <1>1, <1>2, <1>3, <1>4, CallOnly

LEMMA AddSafe ==
  ASSUME IInv, NEW t \in Threads, NEW n \in Names, NEW config \in Config, AddComponent(t, n, config)
  PROVE  IInv'
<1> DEFINE c == [call[t] EXCEPT !.op = "add"]
<1>1. CallRight(t, c)
  BY LoadingRight DEF AddComponent
<1>2. call' = [call EXCEPT ![t] = c] /\ UNCHANGED <<logger, own, components, freed, store>>
  BY DEF AddComponent
<1>3. StoreTypes'
  BY <1>2 DEF IInv, CallInv, StoreTypes
<1>4. LoadsInv'
  <2>1. config \in Config \cup {NoConfig}
    OBVIOUS
  <2> QED BY <2>1, LoadBegins DEF AddComponent
<1> HIDE DEF c
<1> QED BY <1>1, <1>2, <1>3, <1>4, CallOnly

LEMMA InitSafe ==
  ASSUME IInv, NEW t \in Threads, ContainerInit(t)
  PROVE  IInv'
<1> DEFINE c == [call[t] EXCEPT !.op = "init", !.todo = Names]
<1>1. CallRight(t, c)
  BY LoadingRight DEF ContainerInit
<1>2. call' = [call EXCEPT ![t] = c] /\ UNCHANGED <<logger, own, components, freed, store, loads>>
  BY DEF ContainerInit, containerVars
<1>3. StoreTypes' /\ LoadsInv'
  BY <1>2 DEF IInv, CallInv, StoreTypes, LoadsInv
<1> HIDE DEF c
<1> QED BY <1>1, <1>2, <1>3, CallOnly

LEMMA InitNextSafe ==
  ASSUME IInv, NEW t \in Threads, InitNext(t)
  PROVE  IInv'
<1>1. call[t] \in CallRec /\ call[t].op = "init"
  BY CallFacts DEF InitNext
<1>2. PICK n \in call[t].todo :
        /\ loads' = IF Present(n) THEN <<>> ELSE <<Frame(n, store[n], FALSE)>>
        /\ call' = [call EXCEPT ![t].todo = @ \ {n}]
  BY DEF InitNext
<1> DEFINE todo == call[t].todo \ {n}
           c == [call[t] EXCEPT !.op = "init", !.todo = todo]
<1>3. n \in Names /\ todo \in SUBSET Names
  BY <1>1, <1>2 DEF CallRec
<1>4. ~freed
  BY <1>1 DEF IInv, CallInv, FreedInv
<1>5. CallRight(t, c)
  <2> HIDE DEF todo
  <2> QED BY <1>1, <1>3, <1>4, LoadingRight
<1>6. call' = [call EXCEPT ![t] = c]
  <2>1. c = [call[t] EXCEPT !.todo = todo]
    BY <1>1 DEF CallRec
  <2> QED BY <1>2, <2>1
<1>7. UNCHANGED <<logger, own, components, freed, store>>
  BY DEF InitNext
<1>8. store[n] \in Config \cup {NoConfig} /\ StoreTypes'
  BY <1>3, <1>7 DEF IInv, CallInv, StoreTypes
<1>9. LoadsInv'
  <2>1. CASE Present(n)
    BY <1>2, <2>1 DEF LoadsInv
  <2>2. CASE ~Present(n)
    BY <1>2, <1>3, <1>8, <2>2, LoadBegins
  <2> QED BY <2>1, <2>2
<1> HIDE DEF c
<1> QED BY <1>5, <1>6, <1>7, <1>8, <1>9, CallOnly

LEMMA LoadNextSafe ==
  ASSUME IInv, NEW t \in Threads, LoadNext(t)
  PROVE  IInv'
<1> DEFINE f == Last(loads)
<1>1. /\ call[t].op \in {"find", "init", "add"} /\ loads # <<>>
      /\ f.config # NoConfig /\ f.config # NoName /\ f.config \notin InProgress
      /\ loads' = Append([loads EXCEPT ![Len(loads)].asked = TRUE],
                         Frame(f.config, store[f.config], TRUE))
      /\ UNCHANGED <<logger, own, call, components, store, freed>>
  BY DEF LoadNext, Innermost, Loading, Loadable, Asks, loggerVars
<1>2. CallRight(t, call[t]) /\ call' = [call EXCEPT ![t] = call[t]]
  BY <1>1, CallFacts
<1>3. f.config \in Names
  <2>1. Len(loads) \in Nat \ {0} /\ loads \in Seq(FrameRec)
    BY <1>1, EmptySeq DEF IInv, CallInv, LoadsInv
  <2>2. f \in FrameRec
    BY <2>1, ElementOfSeq DEF Last
  <2> QED BY <1>1, <2>2 DEF FrameRec, Config
<1>4. LoadsInv'
  BY <1>1, <1>3, LoadNests DEF IInv, CallInv
<1>5. StoreTypes'
  BY <1>1 DEF IInv, CallInv, StoreTypes
<1> QED BY <1>1, <1>2, <1>4, <1>5, CallOnly

(* The innermost load returns, and with the outermost the call.              *)
LEMMA ReturnRight ==
  ASSUME IInv, NEW t \in Threads, Innermost(t), Return(t)
  PROVE  LoadsInv' /\ \E c : CallRight(t, c) /\ call' = [call EXCEPT ![t] = c]
<1>1. LoadsInv'
  BY LoadEnds DEF IInv, CallInv, Innermost, Return
<1>2. CallRight(t, Idle) /\ CallRight(t, call[t]) /\ call = [call EXCEPT ![t] = call[t]]
  BY CallFacts DEF Innermost, Loading
<1>3. call' = [call EXCEPT ![t] = Idle] \/ call' = call
  BY DEF Return
<1> QED BY <1>1, <1>2, <1>3

LEMMA LoadFailsSafe ==
  ASSUME IInv, NEW t \in Threads, LoadFails(t)
  PROVE  IInv'
<1>1. LoadsInv' /\ \E c : CallRight(t, c) /\ call' = [call EXCEPT ![t] = c]
  BY ReturnRight DEF LoadFails
<1>2. UNCHANGED <<logger, own, components, freed, store>>
  BY DEF LoadFails
<1>3. StoreTypes'
  BY <1>2 DEF IInv, CallInv, StoreTypes
<1> QED BY <1>1, <1>2, <1>3, CallOnly

(* Calls that end.                                                           *)
LEMMA DoneSafe ==
  ASSUME IInv, NEW t \in Threads, InitDone(t) \/ FreeDone(t)
  PROVE  IInv'
<1>1. call' = [call EXCEPT ![t] = Idle] /\ UNCHANGED <<logger, own, components, freed, store, loads>>
  BY DEF InitDone, FreeDone, containerVars
<1>2. CallRight(t, Idle)
  BY CallFacts
<1>3. StoreTypes' /\ LoadsInv'
  BY <1>1 DEF IInv, CallInv, StoreTypes, LoadsInv
<1> QED BY <1>1, <1>2, <1>3, CallOnly

(* iot_container_start and iot_container_stop begin at an end of the list.   *)
LEMMA EnterSafe ==
  ASSUME IInv, NEW t \in Threads, ContainerStart(t) \/ ContainerStop(t)
  PROVE  IInv'
<1>1. PICK op \in {"start", "stop"}, o \in Listed : Enter(t, op, o)
  <2>1. components # <<>> /\ (Enter(t, "start", Head(components)) \/ Enter(t, "stop", Last(components)))
    BY DEF ContainerStart, ContainerStop
  <2>2. components \in Seq(Live \ {Default})
    BY DEF IInv, LoggerInv, ListInv
  <2>3. Len(components) \in Nat \ {0} /\ DOMAIN components = 1..Len(components)
    BY <2>1, <2>2, EmptySeq, LenProperties
  <2>4. Head(components) = components[1]
    BY <2>1, <2>2, TailFacts
  <2>5. Head(components) \in Listed /\ Last(components) \in Listed
    BY <2>3, <2>4 DEF Listed, Last
  <2> QED BY <2>1, <2>5
<1> DEFINE c == [Idle EXCEPT !.op = op, !.at = o]
<1>2. /\ call' = [call EXCEPT ![t] = c] /\ ~freed
      /\ UNCHANGED <<logger, own, components, freed, store, loads>>
  BY <1>1 DEF Enter, containerVars
<1>3. o \in Nat
  BY <1>1, ListFacts, MapFacts DEF IInv, LoggerInv, Live
<1>4. c \in CallRec /\ c.op = op /\ c.at = o
  BY <1>1, <1>3 DEF Idle, CallRec, Ops, None, Config
<1> HIDE DEF c
<1>5. CallRight(t, c)
  BY <1>1, <1>2, <1>4 DEF CallRight
<1>6. StoreTypes' /\ LoadsInv'
  BY <1>2 DEF IInv, CallInv, StoreTypes, LoadsInv
<1> QED BY <1>2, <1>5, <1>6, CallOnly

LEMMA RunningSafe ==
  ASSUME IInv, NEW t \in Threads, Running(t)
  PROVE  IInv'
<1> DEFINE again == [call[t] EXCEPT !.tries = call[t].tries + 1]
           over == (\A o \in Listed : logger[o].state = "RUNNING") \/ call[t].tries + 1 = RunRetries
<1>1. /\ call[t].op = "running"
      /\ call' = [call EXCEPT ![t] = Idle] \/ call' = [call EXCEPT ![t] = again]
      /\ UNCHANGED <<logger, own, components, freed, store, loads>>
  <2>1. call[t].op = "running" /\ UNCHANGED <<logger, own, components, freed, store, loads>>
    BY DEF Running, containerVars
  <2>2. CASE over
    <3>1. call' = [call EXCEPT ![t] = Idle]
      BY <2>2 DEF Running
    <3> QED BY <2>1, <3>1
  <2>3. CASE ~over
    <3>1. call' = [call EXCEPT ![t] = again]
      BY <2>3 DEF Running
    <3> QED BY <2>1, <3>1
  <2> QED BY <2>2, <2>3
<1>2. CallRight(t, Idle) /\ CallRight(t, call[t]) /\ call[t] \in CallRec
  BY <1>1, CallFacts
<1>3. /\ again \in CallRec /\ again.op = call[t].op /\ again.at = call[t].at
      /\ again.via = call[t].via
  BY <1>2 DEF CallRec
<1> HIDE DEF again
<1>4. CallRight(t, again)
  BY <1>2, <1>3 DEF CallRight
<1>5. StoreTypes' /\ LoadsInv'
  BY <1>1 DEF IInv, CallInv, StoreTypes, LoadsInv
<1> QED BY <1>1, <1>2, <1>4, <1>5, CallOnly

LEMMA ReconfigSafe ==
  ASSUME IInv, NEW t \in Threads, NEW o \in Listed, NEW config \in Config, Reconfig(t, o, config)
  PROVE  IInv'
<1>1. /\ call[t].op = "idle" /\ store' = [store EXCEPT ![logger[o].name] = config]
      /\ UNCHANGED <<logger, own, call, components, loads, freed>>
  BY DEF Reconfig, loggerVars
<1>2. CallRight(t, call[t]) /\ call' = [call EXCEPT ![t] = call[t]]
  BY <1>1, CallFacts
<1>3. StoreTypes' /\ LoadsInv'
  BY <1>1 DEF IInv, CallInv, StoreTypes, LoadsInv
<1> QED BY <1>1, <1>2, <1>3, CallOnly

-----------------------------------------------------------------------------
(* Steps of the managers that change loggers. *)

(* The walks of iot_container_start and iot_container_stop go from a member  *)
(* of the list to its neighbour.                                             *)
LEMMA WalkSafe ==
  ASSUME IInv, NEW t \in Threads, StartComponent(t) \/ StopComponent(t)
  PROVE  IInv'
<1> DEFINE i == Place(call[t].at)
           run == [Idle EXCEPT !.op = "running"]
           up == [call[t] EXCEPT !.at = components[i + 1]]
           down == [call[t] EXCEPT !.at = components[i - 1]]
<1>1. LoggerInv /\ CallInv /\ ListInv /\ call[t].op \in {"start", "stop"}
  BY DEF IInv, LoggerInv, StartComponent, StopComponent
<1>2. call[t].at \in Listed
  BY <1>1 DEF CallInv, WalkInv
<1>3. /\ Len(components) \in Nat /\ DOMAIN components = 1..Len(components)
      /\ Listed \subseteq Live \ {Default}
      /\ \A k \in DOMAIN components : components[k] \in Listed
      /\ i \in DOMAIN components
  BY <1>1, <1>2, ListFacts
<1>4. /\ CallRight(t, Idle) /\ call[t] \in CallRec /\ Idle \in CallRec /\ Idle.at = None
  BY CallFacts DEF Idle
<1>5. ~freed
  BY <1>1 DEF CallInv, FreedInv
<1>6. UNCHANGED <<own, containerVars>> /\ \E state \in States : logger' = StateSet(logger, call[t].at, state)
  BY DEF StartComponent, StopComponent, States
<1>7. /\ LoggerInv' /\ Live' = Live
      /\ \A x \in Live : logger'[x].name = logger[x].name /\ logger'[x].next = logger[x].next
  BY <1>1, <1>2, <1>3, <1>6, StateStep DEF containerVars
<1>8. CallRight(t, run)
  <2>1. run \in CallRec /\ run.op = "running" /\ run.at = None
    BY <1>4 DEF CallRec, Ops, Idle
  <2> HIDE DEF run
  <2> QED BY <1>5, <2>1 DEF CallRight
<1>9. ASSUME NEW o \in Listed
      PROVE  CallRight(t, [call[t] EXCEPT !.at = o])
  <2> DEFINE c == [call[t] EXCEPT !.at = o]
  <2>1. o \in Nat
    BY <1>1, <1>3, MapFacts DEF LoggerInv, Live
  <2>2. c \in CallRec /\ c.op = call[t].op /\ c.at = o
    BY <1>4, <2>1 DEF CallRec
  <2> HIDE DEF c
  <2>3. CallRight(t, c)
    BY <1>1, <1>5, <2>2 DEF CallRight
  <2> QED BY <2>3 DEF c
<1>10. PICK c : CallRight(t, c) /\ call' = [call EXCEPT ![t] = c]
  <2>1. CASE StartComponent(t)
    <3>1. CASE i = Len(components)
      <4>1. call' = [call EXCEPT ![t] = run]
        BY <2>1, <3>1 DEF StartComponent
      <4> QED BY <1>8, <4>1
    <3>2. CASE i # Len(components)
      <4>1. call' = [call EXCEPT ![t] = up]
        BY <2>1, <3>2 DEF StartComponent
      <4>2. components[i + 1] \in Listed
        BY <1>3, <3>2
      <4> QED BY <1>9, <4>1, <4>2
    <3> QED BY <3>1, <3>2
  <2>2. CASE StopComponent(t)
    <3>1. CASE i = 1
      <4>1. call' = [call EXCEPT ![t] = Idle]
        BY <2>2, <3>1 DEF StopComponent
      <4> QED BY <1>4, <4>1
    <3>2. CASE i # 1
      <4>1. call' = [call EXCEPT ![t] = down]
        BY <2>2, <3>2 DEF StopComponent
      <4>2. components[i - 1] \in Listed
        BY <1>3, <3>2
      <4> QED BY <1>9, <4>1, <4>2
    <3> QED BY <3>1, <3>2
  <2> QED BY <2>1, <2>2
<1>11. Listed' = Listed /\ StoreTypes' /\ LoadsInv' /\ UNCHANGED <<own, freed>>
  BY <1>1, <1>6 DEF containerVars, Listed, CallInv, StoreTypes, LoadsInv
<1>12. CallsKept'
  BY <1>7, <1>10, <1>11, CallChanged
<1> QED BY <1>7, <1>11, <1>12 DEF IInv, CallInv, CallsKept

LEMMA CreateSafe ==
  ASSUME IInv, NEW t \in Threads, ComponentCreate(t)
  PROVE  IInv'
<1> DEFINE f == Last(loads)
<1>1. /\ Innermost(t) /\ RoomFor(1)
      /\ logger' = NewAlloc(logger, Address, f.name, Found(f.config))
      /\ components' = Append(components, Address)
      /\ Return(t)
      /\ UNCHANGED <<own, configured, factory, store, freed>>
  BY DEF ComponentCreate, HeadPush
<1>2. f.name \in Names
  <2>1. Len(loads) \in Nat \ {0} /\ loads \in Seq(FrameRec)
    BY <1>1, EmptySeq DEF IInv, CallInv, LoadsInv, Innermost
  <2>2. f \in FrameRec
    BY <2>1, ElementOfSeq DEF Last
  <2> QED BY <2>2 DEF FrameRec
<1> HIDE DEF f
<1>3. /\ LoggerInv' /\ Live' = Live \cup {Address} /\ Listed' = Listed \cup {Address}
      /\ \A x \in Live : logger'[x].name = logger[x].name /\ logger'[x].next = logger[x].next
  BY <1>1, <1>2, CreateStep DEF IInv
<1>4. LoadsInv' /\ \E c : CallRight(t, c) /\ call' = [call EXCEPT ![t] = c]
  BY <1>1, ReturnRight
<1>5. Live \subseteq Live' /\ Listed \subseteq Listed' /\ UNCHANGED <<own, freed>>
  BY <1>1, <1>3
<1>6. CallsKept'
  BY <1>3, <1>4, <1>5, CallChanged
<1>7. StoreTypes'
  BY <1>1 DEF IInv, CallInv, StoreTypes
<1> QED BY <1>3, <1>4, <1>6, <1>7 DEF IInv, CallInv, CallsKept

(* iot_container_delete_component begins: nobody borrows what goes.          *)
LEMMA DeleteSafe ==
  ASSUME IInv, NEW t \in Threads, NEW n \in Names, DeleteComponent(t, n)
  PROVE  IInv'
<1> DEFINE c == [Idle EXCEPT !.op = "delete", !.name = n]
<1>1. /\ call[t].op = "idle" /\ ~freed /\ Present(n) /\ n \notin Deleting
      /\ \A o \in Listed : logger[o].name = n => ~Borrowed(o)
      /\ call' = [call EXCEPT ![t] = c]
      /\ UNCHANGED <<logger, own, components, loads, store, freed>>
  BY DEF DeleteComponent, containerVars
<1>2. CallInv
  BY DEF IInv
<1>3. c \in CallRec /\ c.op = "delete" /\ c.at = None /\ c.name = n
  BY DEF Idle, CallRec, Ops, None, Config
<1> HIDE DEF c
<1>4. \A u \in Threads : call'[u] = IF u = t THEN c ELSE call[u]
  BY <1>1, <1>2 DEF CallInv, CallTypes
<1>5. LoggerInv' /\ Listed' = Listed
  <2>1. External' = External
    BY <1>1 DEF External, Live, InList, Listed, Owners
  <2> QED BY <1>1, <2>1 DEF IInv, LoggerInv, OwnTypes, ListInv, Live, Listed
<1>6. Deleting' \subseteq Deleting \cup {n}
  BY <1>3, <1>4 DEF Deleting
<1>7. CallTypes'
  BY <1>1, <1>2, <1>3 DEF CallInv, CallTypes
<1>8. WalkInv'
  BY <1>1, <1>2, <1>3, <1>4, <1>5 DEF CallInv, WalkInv, Live
<1>9. BorrowInv'
  <2>1. SUFFICES ASSUME NEW o, Borrowed(o)', o # Default
                 PROVE  o \in Listed' /\ logger'[o].name \notin Deleting' /\ ~freed'
    BY DEF BorrowInv
  <2>2. Borrowed(o)
    BY <1>1, <1>3, <1>4, <2>1 DEF Borrowed
  <2>3. o \in Listed /\ logger[o].name \notin Deleting /\ ~freed
    BY <1>2, <2>1, <2>2 DEF CallInv, BorrowInv
  <2>4. logger[o].name # n
    BY <1>1, <2>2, <2>3
  <2> QED BY <1>1, <1>5, <1>6, <2>3, <2>4
<1>10. DeleteInv'
  <2>1. ASSUME NEW m, Present(m)
        PROVE  Present(m)'
    <3>1. ListInv /\ ListInv'
      BY <1>5 DEF IInv, LoggerInv
    <3>2. PICK o \in Listed : logger[o].name = m
      BY <2>1, <3>1, PresentFacts DEF PresentRight
    <3>3. o \in Listed' /\ logger'[o].name = m
      BY <1>1, <1>5, <3>2
    <3> QED BY <3>1, <3>3, PresentNext DEF PresentRight
  <2>2. \A u \in Threads : call[u].op = "delete" => call[u].name # n
    BY <1>1 DEF Deleting
  <2> QED BY <1>1, <1>2, <1>3, <1>4, <2>1, <2>2 DEF CallInv, DeleteInv
<1>11. FreedInv' /\ StoreTypes' /\ LoadsInv'
  BY <1>1, <1>2, <1>3, <1>4 DEF CallInv, FreedInv, StoreTypes, LoadsInv
<1> QED BY <1>5, <1>7, <1>8, <1>9, <1>10, <1>11 DEF IInv, CallInv

(* iot_container_free begins: nobody is in the container.                    *)
LEMMA ContainerFreeSafe ==
  ASSUME IInv, NEW t \in Threads, ContainerFree(t)
  PROVE  IInv'
<1> DEFINE c == [call[t] EXCEPT !.op = "free"]
<1>1. /\ call[t].op = "idle" /\ Alone(t) /\ ~freed /\ freed'
      /\ \A o \in Listed : ~Borrowed(o)
      /\ call' = [call EXCEPT ![t] = c]
      /\ UNCHANGED <<logger, own, components, loads, store>>
  BY DEF ContainerFree
<1>2. CallInv /\ call[t] \in CallRec /\ call[t].at = None
  BY <1>1, CallFacts DEF IInv
<1>3. c \in CallRec /\ c.op = "free" /\ c.at = None
  BY <1>2 DEF CallRec, Ops
<1> HIDE DEF c
<1>4. \A u \in Threads : call'[u] = IF u = t THEN c ELSE call[u]
  BY <1>1, <1>2 DEF CallInv, CallTypes
<1>5. LoggerInv' /\ Listed' = Listed
  <2>1. External' = External
    BY <1>1 DEF External, Live, InList, Listed, Owners
  <2> QED BY <1>1, <2>1 DEF IInv, LoggerInv, OwnTypes, ListInv, Live, Listed
<1>6. \A u \in Threads \ {t} : call[u].op \in {"idle", "log", "free"}
  <2>1. TAKE u \in Threads \ {t}
  <2>2. call[u].op \in Ops
    BY <1>2 DEF CallInv, CallTypes, CallRec
  <2> QED BY <1>1, <2>2 DEF Alone, Reads, Loading, Ops
<1>7. CallTypes'
  BY <1>1, <1>2, <1>3 DEF CallInv, CallTypes
<1>8. WalkInv'
  BY <1>1, <1>2, <1>3, <1>4, <1>5 DEF CallInv, WalkInv, Live
<1>9. BorrowInv'
  <2>1. SUFFICES ASSUME NEW o, Borrowed(o)'
                 PROVE  o = Default
    BY DEF BorrowInv
  <2>2. Borrowed(o)
    BY <1>1, <1>3, <1>4, <2>1 DEF Borrowed
  <2> QED BY <1>1, <1>2, <2>2 DEF CallInv, BorrowInv
<1>10. DeleteInv' /\ FreedInv'
  BY <1>1, <1>3, <1>4, <1>6 DEF DeleteInv, FreedInv
<1>11. StoreTypes' /\ LoadsInv'
  BY <1>1, <1>2 DEF CallInv, StoreTypes, LoadsInv
<1> QED BY <1>5, <1>7, <1>8, <1>9, <1>10, <1>11 DEF IInv, CallInv

(* A component goes from the list: it is being deleted, or the container is  *)
(* freed, so that nobody borrows it and nobody walks over the list.          *)
LEMMA RemovedSafe ==
  ASSUME IInv, LoggerInv', NEW o \in Listed, Listed' = Listed \ {o}, Live' \subseteq Live,
         \A x \in Live' : logger'[x].name = logger[x].name /\ logger'[x].next = logger[x].next,
         UNCHANGED <<own, loads, store, freed>>,
         logger[o].name \in Deleting \/ freed,
         call' \in [Threads -> CallRec],
         \A u \in Threads : /\ call[u].op \notin {"start", "stop"}
                            /\ call'[u] = call[u] \/ call'[u] = Idle
                            /\ call'[u].op = "delete" => call'[u].name # logger[o].name
  PROVE  IInv'
<1>1. LoggerMap(logger) /\ ListInv /\ WalkInv /\ BorrowInv /\ DeleteInv /\ FreedInv
  BY DEF IInv, LoggerInv, CallInv
<1>2. LoggerMap(logger') /\ ListInv' /\ OwnTypes'
  BY DEF LoggerInv
<1>3. \A u \in Threads : call'[u].op \notin {"start", "stop"} /\ (call'[u].op # "idle" => call'[u] = call[u])
  BY DEF Idle
<1>4. Idle.op = "idle" /\ Idle.at = None
  BY DEF Idle
<1>5. Listed' \subseteq Live' /\ Default \in Live' /\ o # Default
  <2>1. \A i \in DOMAIN components' : components'[i] \in Live'
    BY <1>2, LenProperties, ElementOfSeq DEF ListInv
  <2>2. o # Default
    BY <1>1, ListFacts
  <2> QED BY <1>2, <2>1, <2>2 DEF Listed, LoggerMap, Live
<1>6. Deleting' \subseteq Deleting
  BY <1>3 DEF Deleting
<1>7. \A x : Borrowed(x) /\ x # Default => x \in Listed' /\ logger[x].name \notin Deleting /\ ~freed
  BY <1>1 DEF BorrowInv
<1>8. BorrowInv'
  <2>1. SUFFICES ASSUME NEW x, Borrowed(x)', x # Default
                 PROVE  x \in Listed' /\ logger'[x].name \notin Deleting' /\ ~freed'
    BY DEF BorrowInv
  <2>2. Borrowed(x)
    BY <1>3, <2>1 DEF Borrowed
  <2>3. x \in Listed' /\ logger[x].name \notin Deleting /\ ~freed
    BY <1>7, <2>1, <2>2
  <2> QED BY <1>5, <1>6, <2>3
<1>9. WalkInv'
  <2>1. SUFFICES ASSUME NEW u \in Threads
                 PROVE  /\ call'[u].op = "log" => /\ call'[u].via \in Live'
                                                  /\ call'[u].at \in Chain(logger', call'[u].via) \ {None}
                        /\ call'[u].op \notin {"start", "stop", "log"} => call'[u].at = None
    BY <1>3 DEF WalkInv
  <2>2. ASSUME call'[u].op = "log"
        PROVE  call'[u].via \in Live' /\ call'[u].at \in Chain(logger', call'[u].via) \ {None}
    <3> DEFINE via == call[u].via
    <3>1. call'[u] = call[u]
      BY <1>3, <2>2
    <3>2. via \in Live /\ call[u].at \in Chain(logger, via) \ {None}
      BY <1>1, <2>2, <3>1 DEF WalkInv
    <3>3. via \in Live'
      <4>1. CASE via \in own[u]
        BY <1>2, <4>1 DEF OwnTypes
      <4>2. CASE via \notin own[u]
        <5>1. Borrowed(via)
          BY <2>2, <3>1, <4>2 DEF Borrowed
        <5> QED BY <1>5, <1>7, <5>1
      <4> QED BY <4>1, <4>2
    <3> HIDE DEF via
    <3>4. Chain(logger', via) = Chain(logger, via)
      BY <1>1, <1>2, <3>2, <3>3, WalksKept
    <3> QED BY <3>1, <3>2, <3>3, <3>4 DEF via
  <2>3. ASSUME call'[u].op \notin {"start", "stop", "log"}
        PROVE  call'[u].at = None
    BY <1>1, <1>4, <2>3 DEF WalkInv
  <2> QED BY <2>2, <2>3
<1>10. DeleteInv'
  <2>1. ASSUME NEW m, Present(m), m # logger[o].name
        PROVE  Present(m)'
    <3>1. PICK x \in Listed : logger[x].name = m
      BY <1>1, <2>1, PresentFacts DEF PresentRight
    <3>2. x \in Listed' /\ logger'[x].name = m
      BY <1>5, <2>1, <3>1
    <3> QED BY <1>2, <3>2, PresentNext DEF PresentRight
  <2>2. \A u \in Threads : call'[u].op = "delete" => call'[u] = call[u]
    BY <1>3
  <2> QED BY <1>1, <2>1, <2>2 DEF DeleteInv
<1>11. FreedInv'
  BY <1>1, <1>3 DEF FreedInv
<1>12. CallTypes' /\ StoreTypes' /\ LoadsInv'
  BY DEF CallTypes, IInv, CallInv, StoreTypes, LoadsInv
<1> QED BY <1>8, <1>9, <1>10, <1>11, <1>12 DEF IInv, CallInv

LEMMA DeleteLockedSafe ==
  ASSUME IInv, NEW t \in Threads, DeleteLocked(t)
  PROVE  IInv'
<1> DEFINE n == call[t].name
           o == Found(n)
           p == Place(o)
<1>1. /\ call[t].op = "delete" /\ MayWrite(t)
      /\ components' = RemoveAt(components, p) /\ logger' = ComponentFreed(logger, o)
      /\ call' = [call EXCEPT ![t] = Idle]
      /\ UNCHANGED <<own, loads, store, freed>>
  BY DEF DeleteLocked
<1>2. LoggerInv /\ ListInv /\ CallTypes /\ DeleteInv
  BY DEF IInv, LoggerInv, CallInv
<1>3. Present(n)
  BY <1>1, <1>2 DEF DeleteInv
<1> HIDE DEF n
<1>4. o \in Listed /\ logger[o].name = n
  BY <1>2, <1>3, ListFacts
<1> HIDE DEF o
<1>5. p \in DOMAIN components /\ components[p] = o /\ DOMAIN components = 1..Len(components)
  BY <1>2, <1>4, ListFacts
<1> HIDE DEF p
<1>6. components' \in Seq(Live \ {Default}) /\ Without(components, p, components')
  BY <1>1, <1>2, <1>5, RemoveAtFacts DEF ListInv
<1>7. /\ LoggerInv' /\ Live' \subseteq Live /\ Listed' = Listed \ {o}
      /\ \A x \in Live' : logger'[x].name = logger[x].name /\ logger'[x].next = logger[x].next
  BY <1>1, <1>2, <1>5, <1>6, ComponentFreedStep
<1>8. logger[o].name \in Deleting
  BY <1>1, <1>4 DEF Deleting, n
<1>9. Idle \in CallRec /\ Idle.op = "idle"
  BY CallFacts DEF Idle
<1>10. call' \in [Threads -> CallRec]
  BY <1>1, <1>2, <1>9 DEF CallTypes
<1>11. ASSUME NEW u \in Threads
       PROVE  /\ call[u].op \notin {"start", "stop"}
              /\ call'[u] = call[u] \/ call'[u] = Idle
              /\ call'[u].op = "delete" => call'[u].name # logger[o].name
  <2>1. call[u].op \notin {"start", "stop"}
    BY <1>1 DEF MayWrite, Reads
  <2>2. call'[u] = IF u = t THEN Idle ELSE call[u]
    BY <1>1, <1>2 DEF CallTypes
  <2>3. u # t /\ call[u].op = "delete" => call[u].name # n
    BY <1>1, <1>2 DEF DeleteInv, n
  <2> QED BY <1>4, <1>9, <2>1, <2>2, <2>3
<1> QED BY <1>1, <1>4, <1>7, <1>8, <1>10, <1>11, RemovedSafe

LEMMA FreeNextSafe ==
  ASSUME IInv, NEW t \in Threads, FreeNext(t)
  PROVE  IInv'
<1>1. /\ call[t].op = "free" /\ components # <<>>
      /\ logger' = ComponentFreed(logger, Head(components)) /\ components' = Tail(components)
      /\ UNCHANGED <<own, call, loads, store, freed>>
  BY DEF FreeNext
<1>2. LoggerInv /\ ListInv /\ CallTypes /\ FreedInv
  BY DEF IInv, LoggerInv, CallInv
<1>3. freed /\ \A u \in Threads : call[u].op \in {"idle", "log", "free"}
  BY <1>1, <1>2 DEF FreedInv
<1>4. /\ components' \in Seq(Live \ {Default}) /\ Without(components, 1, components')
      /\ Head(components) = components[1] /\ 1 \in DOMAIN components
  BY <1>1, <1>2, TailFacts, LenProperties DEF ListInv
<1>5. /\ LoggerInv' /\ Live' \subseteq Live /\ Listed' = Listed \ {components[1]}
      /\ \A x \in Live' : logger'[x].name = logger[x].name /\ logger'[x].next = logger[x].next
  <2>1. PICK p \in DOMAIN components : p = 1
    BY <1>4
  <2>2. /\ LoggerInv' /\ Live' \subseteq Live /\ Listed' = Listed \ {components[p]}
        /\ \A x \in Live' : logger'[x].name = logger[x].name /\ logger'[x].next = logger[x].next
    BY <1>1, <1>2, <1>4, <2>1, ComponentFreedStep
  <2> QED BY <2>1, <2>2
<1>6. components[1] \in Listed
  BY <1>4 DEF Listed
<1>7. call' \in [Threads -> CallRec]
  BY <1>1, <1>2 DEF CallTypes
<1>8. \A u \in Threads : /\ call[u].op \notin {"start", "stop"}
                         /\ call'[u] = call[u] \/ call'[u] = Idle
                         /\ call'[u].op = "delete" => call'[u].name # logger[components[1]].name
  BY <1>1, <1>3
<1> QED BY <1>1, <1>3, <1>5, <1>6, <1>7, <1>8, RemovedSafe

LEMMA ManagerSafe ==
  ASSUME IInv, NEW t \in Threads, ManagerCall(t)
  PROVE  IInv'
<1>1. CASE FactoryAdd(t)
  BY <1>1, FactoryAddSafe
<1>2. CASE \E n \in Names : FindComponent(t, n)
  BY <1>2, FindSafe
<1>3. CASE \E n \in Names, config \in Config : AddComponent(t, n, config)
  BY <1>3, AddSafe
<1>4. CASE ContainerInit(t)
  BY <1>4, InitSafe
<1>5. CASE InitNext(t)
  BY <1>5, InitNextSafe
<1>6. CASE InitDone(t) \/ FreeDone(t)
  BY <1>6, DoneSafe
<1>7. CASE LoadNext(t)
  BY <1>7, LoadNextSafe
<1>8. CASE ComponentCreate(t)
  BY <1>8, CreateSafe
<1>9. CASE LoadFails(t)
  BY <1>9, LoadFailsSafe
<1>10. CASE ContainerStart(t) \/ ContainerStop(t)
  BY <1>10, EnterSafe
<1>11. CASE StartComponent(t) \/ StopComponent(t)
  BY <1>11, WalkSafe
<1>12. CASE Running(t)
  BY <1>12, RunningSafe
<1>13. CASE ContainerFree(t)
  BY <1>13, ContainerFreeSafe
<1>14. CASE FreeNext(t)
  BY <1>14, FreeNextSafe
<1>15. CASE \E o \in Usable(t) \cap Listed, config \in Config : Reconfig(t, o, config)
  BY <1>15, ReconfigSafe
<1> QED BY <1>1, <1>2, <1>3, <1>4, <1>5, <1>6, <1>7, <1>8, <1>9, <1>10, <1>11, <1>12, <1>13,
           <1>14, <1>15 DEF ManagerCall

-----------------------------------------------------------------------------
(* The invariant. *)

LEMMA StartsRight ==
  ASSUME Init
  PROVE  IInv
<1> DEFINE first == [NewLogger(NoName, None) EXCEPT !.state = "RUNNING"]
<1>1. /\ first \in LoggerRec /\ first.refs = 1 /\ first.next = None
  BY DEF NewLogger, LoggerRec, Config, None, States
<1> HIDE DEF first
<1>2. /\ DOMAIN logger = {Default} /\ logger[Default] = first /\ logger \in [{Default} -> LoggerRec]
  BY <1>1 DEF Init, LoggerInit, first
<1>3. /\ own = [t \in Threads |-> {}] /\ call = [t \in Threads |-> Idle]
      /\ components = <<>> /\ loads = <<>> /\ freed = FALSE
  BY DEF Init, LoggerInit
<1>4. Listed = {} /\ components \in Seq(Live \ {Default}) /\ DOMAIN components = {}
  BY <1>3 DEF Listed
<1>5. LoggerMap(logger)
  <2>1. Default \in 1..(MaxLoggers + Default)
    BY LoggerAssumption DEF Default
  <2> QED BY <1>1, <1>2, <2>1 DEF LoggerMap
<1>6. NoCycle(logger)
  <2>1. None # Default
    BY DEF None, Default
  <2> QED BY <1>1, <1>2, <2>1 DEF NoCycle
<1>7. LoggerInv
  BY <1>1, <1>2, <1>3, <1>4, <1>5, <1>6 DEF LoggerInv, OwnTypes, Counts, ListInv
<1>8. Idle \in CallRec /\ Idle.op = "idle" /\ Idle.at = None
  BY DEF Idle, CallRec, Ops, None, Config
<1>9. \A t \in Threads : call[t] = Idle
  BY <1>3
<1>10. CallTypes /\ WalkInv /\ BorrowInv /\ DeleteInv /\ FreedInv
  BY <1>3, <1>8, <1>9 DEF CallTypes, WalkInv, BorrowInv, Borrowed, DeleteInv, FreedInv
<1>11. StoreTypes
  BY DEF Init, StoreTypes
<1>12. LoadsInv
  BY <1>3 DEF LoadsInv
<1> QED BY <1>7, <1>10, <1>11, <1>12 DEF IInv, CallInv

LEMMA StepsRight ==
  ASSUME IInv, [Next]_vars
  PROVE  IInv'
<1>1. \A t \in Clients \cup Managers : t \in Threads
  BY ContainerAssumption
<1>2. CASE \E t \in Clients : ClientCall(t)
  BY <1>1, <1>2, ClientSafe
<1>3. CASE \E t \in Managers : ManagerCall(t)
  BY <1>1, <1>3, ManagerSafe
<1>4. CASE \E t \in Threads, n \in Names : DeleteComponent(t, n)
  BY <1>4, DeleteSafe
<1>5. CASE \E t \in Threads : DeleteLocked(t)
  BY <1>5, DeleteLockedSafe
<1>6. CASE UNCHANGED vars
  <2>1. UNCHANGED <<logger, own, call, components, loads, store, freed>>
    BY <1>6 DEF vars, loggerVars, containerVars
  <2>2. External' = External /\ Listed' = Listed /\ Deleting' = Deleting
    BY <2>1 DEF External, Live, InList, Listed, Owners, Deleting
  <2>3. LoggerInv'
    BY <2>1, <2>2 DEF IInv, LoggerInv, OwnTypes, ListInv, Live
  <2>4. \A o : Borrowed(o)' <=> Borrowed(o)
    BY <2>1 DEF Borrowed
  <2>5. \A n : Present(n)' <=> Present(n)
    <3>1. TAKE n
    <3>2. Present(n) <=> \E o \in Listed : logger[o].name = n
      BY PresentFacts DEF PresentRight, IInv, LoggerInv
    <3>3. Present(n)' <=> \E o \in Listed' : logger'[o].name = n
      BY <2>3, PresentNext DEF PresentRight, LoggerInv
    <3> QED BY <2>1, <2>2, <3>2, <3>3
  <2>6. WalkInv' /\ CallTypes' /\ FreedInv' /\ StoreTypes' /\ LoadsInv'
    BY <2>1, <2>2 DEF IInv, CallInv, CallTypes, WalkInv, FreedInv, StoreTypes, LoadsInv, Live
  <2>7. BorrowInv'
    BY <2>1, <2>2, <2>4 DEF IInv, CallInv, BorrowInv
  <2>8. DeleteInv'
    BY <2>1, <2>5 DEF IInv, CallInv, DeleteInv
  <2> QED BY <2>3, <2>6, <2>7, <2>8 DEF IInv, CallInv
<1> QED BY <1>2, <1>3, <1>4, <1>5, <1>6 DEF Next

(* The invariant the theorems below rest on.                                 *)
THEOREM Invariant == Spec => []IInv
<1>1. Init => IInv
  BY StartsRight
<1>2. IInv /\ [Next]_vars => IInv'
  BY StepsRight
<1> QED BY <1>1, <1>2, PTL DEF Spec

(* A count is at least one and at most one for each other logger, each       *)
(* thread and the list.                                                      *)
LEMMA RefsBounded ==
  ASSUME LoggerInv, NEW x \in Live
  PROVE  logger[x].refs \in 1..(MaxLoggers + Cardinality(Threads) + 1)
<1> DEFINE n == Cardinality(Sources(logger, x, {}))
           k == Cardinality(Owners(x))
           m == Cardinality(Live)
           c == Cardinality(Threads)
<1>1. MaxLoggers \in Nat /\ c \in Nat /\ IsFiniteSet(Threads)
  BY LoggerAssumption, FS_CardinalityType
<1>2. CASE x = Default
  <2>1. logger[x].refs = 1
    BY <1>2 DEF LoggerInv
  <2> HIDE DEF c
  <2>2. logger[x].refs \in 1..(MaxLoggers + c + 1)
    BY <1>1, <2>1
  <2> QED BY <2>2 DEF c
<1>3. CASE x # Default
  <2>1. /\ logger[x].refs = n + External[x] /\ logger[x].refs > 0
        /\ n \in Nat /\ logger[x].refs \in Nat
    BY <1>3, MapFacts DEF LoggerInv, Counts, Live
  <2>2. IsFiniteSet(Live) /\ m \in Nat /\ m <= MaxLoggers + 1
    <3>1. Live \subseteq 1..(MaxLoggers + 1)
      BY DEF LoggerInv, LoggerMap, Live, Default
    <3>2. IsFiniteSet(1..(MaxLoggers + 1)) /\ Cardinality(1..(MaxLoggers + 1)) = MaxLoggers + 1
      BY <1>1, FS_Interval
    <3>3. IsFiniteSet(Live) /\ Cardinality(Live) <= Cardinality(1..(MaxLoggers + 1))
      BY <3>1, <3>2, FS_Subset
    <3> QED BY <3>2, <3>3, FS_CardinalityType
  <2>3. n <= m - 1
    <3>1. x \notin Sources(logger, x, {})
      <4>1. {x} \in (SUBSET DOMAIN logger) \ {{}}
        BY DEF Live
      <4>2. \E o \in {x} : logger[o].next \notin {x}
        BY <4>1 DEF LoggerInv, NoCycle
      <4> QED BY <4>2 DEF Sources
    <3>2. Sources(logger, x, {}) \subseteq Live \ {x}
      BY <3>1 DEF Sources, Live
    <3>3. IsFiniteSet(Live \ {x}) /\ Cardinality(Live \ {x}) = m - 1
      BY <2>2, FS_RemoveElement
    <3> QED BY <3>2, <3>3, FS_Subset
  <2>4. External[x] <= 1 + k /\ External[x] \in Nat /\ k \in Nat
    <3>1. External[x] = InList(x) + k /\ InList(x) \in 0..1 /\ k \in Nat
      BY ExternalFacts DEF Outside
    <3> HIDE DEF k
    <3> QED BY <3>1
  <2>5. k <= c
    <3>1. Owners(x) \subseteq Threads
      BY DEF Owners
    <3> QED BY <1>1, <3>1, FS_Subset
  <2> HIDE DEF n, k, m, c
  <2>6. logger[x].refs <= MaxLoggers + c + 1
    BY <1>1, <2>1, <2>2, <2>3, <2>4, <2>5
  <2> QED BY <1>1, <2>1, <2>6 DEF c
<1> QED BY <1>2, <1>3

(* The loads under way but the outermost have different names.               *)
LEMMA LoadsBounded ==
  ASSUME LoadsInv
  PROVE  Len(loads) <= Cardinality(Names) + 1
<1> DEFINE n == Len(loads)
           c == Cardinality(Names)
           f == [i \in 2..n |-> loads[i].name]
<1>1. n \in Nat /\ DOMAIN loads = 1..n /\ \A i \in 1..n : loads[i] \in FrameRec
  BY LenProperties, ElementOfSeq DEF LoadsInv
<1>2. IsFiniteSet(Names) /\ c \in Nat
  BY LoggerAssumption, FS_CardinalityType
<1>3. f \in Injection(2..n, Names)
  <2>1. \A i \in 2..n : i \in DOMAIN loads /\ loads[i].listed /\ loads[i].name \in Names
    BY <1>1 DEF LoadsInv, FrameRec
  <2>2. f \in [2..n -> Names]
    BY <2>1
  <2>3. \A i, j \in 2..n : f[i] = f[j] => i = j
    BY <2>1 DEF LoadsInv
  <2> QED BY <2>2, <2>3 DEF Injection, IsInjective
<1>4. Cardinality(2..n) <= c
  BY <1>2, <1>3, FS_Injection
<1>5. Cardinality(2..n) = IF 2 > n THEN 0 ELSE n - 2 + 1
  BY <1>1, FS_Interval
<1> HIDE DEF n, c, f
<1>6. n <= c + 1
  BY <1>1, <1>2, <1>4, <1>5
<1> QED BY <1>6 DEF n, c

-----------------------------------------------------------------------------
(* The properties. *)

(* Every variable keeps its type, whatever the configuration of the store:   *)
(* a cyclic one does not make iot_container_init load without end, since     *)
(* iot_container_typed_load (container.c) looks in iot_load_in_progress, and *)
(* the count of a logger never exceeds what can refer to it.                 *)
THEOREM TypeCorrect == Spec => []TypeOK
<1>1. IInv => TypeOK
  <2>1. SUFFICES ASSUME IInv
                 PROVE  TypeOK
    OBVIOUS
  <2>2. LoggerInv /\ LoggerMap(logger) /\ OwnTypes /\ ListInv /\ StoreTypes /\ LoadsInv
    BY <2>1 DEF IInv, LoggerInv, CallInv
  <2>3. Live \subseteq 1..(MaxLoggers + Default)
    BY <2>2 DEF LoggerMap, Live
  <2>4. logger \in [Live -> LoggerType]
    <3>1. logger \in [Live -> LoggerRec]
      BY <2>2 DEF LoggerMap, Live
    <3>2. ASSUME NEW x \in Live
          PROVE  logger[x] \in LoggerType
      <4>1. logger[x].refs \in 1..(MaxLoggers + Cardinality(Threads) + 1)
        BY <2>2, RefsBounded
      <4>2. logger[x] \in LoggerRec
        BY <3>1
      <4> HIDE <2>2
      <4> QED BY <4>1, <4>2 DEF LoggerRec, LoggerType
    <3> QED BY <3>1, <3>2
  <2>5. components \in Seq(Live)
    <3>1. \A i \in 1..Len(components) : components[i] \in Live
      BY <2>2, ElementOfSeq DEF ListInv
    <3> QED BY <2>2, <3>1, SeqOver DEF ListInv
  <2>6. Len(loads) <= Cardinality(Names) + 1
    BY <2>2, LoadsBounded
  <2>7. \A i \in DOMAIN loads : loads[i].name \in Names
    <3>1. \A i \in DOMAIN loads : loads[i] \in FrameRec
      BY <2>2, LenProperties, ElementOfSeq DEF LoadsInv
    <3> QED BY <3>1 DEF FrameRec
  <2> QED BY <2>2, <2>3, <2>4, <2>5, <2>6, <2>7 DEF TypeOK, OwnTypes, StoreTypes
<1> QED BY <1>1, Invariant, PTL

(* A logger is freed with its last reference and not before: its count is    *)
(* the number of places that refer to it - the list of the container, other  *)
(* loggers, threads - and no walk of iot_log__va_log, iot_container_start or *)
(* iot_container_stop is at a freed one (logger.c, container.c).             *)
THEOREM ReferencesCounted == Spec => []ReferencesRight
<1>1. IInv => ReferencesRight
  <2>1. SUFFICES ASSUME IInv
                 PROVE  ReferencesRight
    OBVIOUS
  <2>2. /\ LoggerMap(logger) /\ Counts(logger, {}, External) /\ ListInv
        /\ CallTypes /\ WalkInv
    BY <2>1 DEF IInv, LoggerInv, CallInv
  <2>3. /\ DOMAIN components = 1..Len(components) /\ Listed \subseteq Live \ {Default}
    BY <2>2, ListFacts
  <2>4. \A o \in Live : logger[o].next \in Live \cup {None}
    BY <2>2 DEF LoggerMap, Live
  <2>5. ASSUME NEW t \in Threads
        PROVE  call[t].at \in Live \cup {None}
    <3>1. CASE call[t].op \in {"start", "stop"}
      BY <2>2, <2>3, <3>1 DEF WalkInv
    <3>2. CASE call[t].op = "log"
      <4>1. call[t].via \in DOMAIN logger \cup {None} /\ call[t].at \in Chain(logger, call[t].via)
        BY <2>2, <3>2 DEF WalkInv, Live
      <4>2. Chain(logger, call[t].via) \subseteq DOMAIN logger \cup {None}
        BY <2>2, <4>1, ChainFacts
      <4> QED BY <4>1, <4>2 DEF Live
    <3>3. CASE call[t].op \notin {"start", "stop", "log"}
      BY <2>2, <3>3 DEF WalkInv
    <3> QED BY <3>1, <3>2, <3>3
  <2>6. ASSUME NEW o \in Live \ {Default}
        PROVE  logger[o].refs = Holders(o) /\ Holders(o) > 0
    <3> DEFINE places == {i \in DOMAIN components : components[i] = o}
               a == Cardinality(places)
               n == Cardinality(Sources(logger, o, {}))
               k == Cardinality(Owners(o))
    <3>1. a = InList(o)
      <4>1. CASE o \in Listed
        <5>1. PICK i \in DOMAIN components : components[i] = o
          BY <4>1 DEF Listed
        <5>2. places = {i}
          BY <2>2, <5>1 DEF ListInv
        <5>3. a = 1
          BY <5>2, FS_Singleton
        <5> QED BY <4>1, <5>3 DEF InList
      <4>2. CASE o \notin Listed
        <5>1. places = {}
          BY <4>2 DEF Listed
        <5>2. a = 0
          BY <5>1, FS_EmptySet
        <5> QED BY <4>2, <5>2 DEF InList
      <4> QED BY <4>1, <4>2
    <3>2. Sources(logger, o, {}) = {x \in Live : logger[x].next = o}
      BY DEF Sources, Live
    <3>3. Holders(o) = a + n + k
      BY <3>2 DEF Holders, Owners
    <3>4. logger[o].refs = n + External[o] /\ logger[o].refs > 0
      BY <2>2 DEF Counts, Live
    <3>5. External[o] = InList(o) + k /\ k \in Nat /\ InList(o) \in 0..1
      BY ExternalFacts DEF Outside
    <3>6. n \in Nat
      BY <2>2, MapFacts
    <3> HIDE DEF a, n, k
    <3> QED BY <3>1, <3>3, <3>4, <3>5, <3>6
  <2>7. Listed \subseteq Live
    BY <2>3
  <2> QED BY <2>4, <2>5, <2>6, <2>7 DEF ReferencesRight
<1> QED BY <1>1, Invariant, PTL

(* Whatever the names in the configurations and the loggers that threads     *)
(* chain with iot_logger_set_next, chains end, and the list of the container *)
(* has each component after the one it was configured with: the order in     *)
(* which iot_container_start and iot_container_stop rely on (container.c).   *)
THEOREM OrderKept == Spec => []DependenciesFirst
<1>1. IInv => DependenciesFirst
  BY DEF IInv, LoggerInv, NoCycle, ListInv, DependenciesFirst, Live
<1> QED BY <1>1, Invariant, PTL

=============================================================================
