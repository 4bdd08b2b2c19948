---------------------------- MODULE DataMapProofs ----------------------------
(***************************************************************************)
(* Proofs about DataMap: that the nodes form a red-black search tree       *)
(* whatever was added, merged and removed, balanced as long as the code    *)
(* rebalances it; that each node holds one reference to its key and its    *)
(* value, and that a cached hash is that of the entries; and that the map  *)
(* implements OrderedMap; for every finite set of keys and of values.      *)
(***************************************************************************)
EXTENDS DataMap, Extremes

MapRec ==
  [root : Keys \cup {Null}, size : Int, hash : SUBSET (Keys \cup Values), rehash : BOOLEAN,
   child : [Sides -> [Keys -> Keys \cup {Null}]], parent : [Keys -> Keys \cup {Null}],
   red : [Keys -> BOOLEAN], value : [Keys -> Values \cup {Null}],
   keyRefs : [Keys -> Int], valueRefs : [Values -> Int],
   skipped : BOOLEAN, replaced : BOOLEAN]

(* What the operations on links and colours leave alone.                     *)
Contents(m) ==
  <<m.size, m.hash, m.rehash, m.value, m.keyRefs, m.valueRefs, m.skipped, m.replaced>>

(* The order of the keys as seen from a side.                                *)
Before(s, a, b) == IF s = "left" THEN a < b ELSE b < a

Sub(D, n) == IF n = Null THEN {} ELSE D[n]

(* The nodes N are a search tree: D[n] is what is below n and n itself.      *)
Tree(m, N, D) ==
  /\ N \subseteq Keys /\ D \in [N -> SUBSET N]
  /\ m.root \in N \cup {Null} /\ N = Sub(D, m.root)
  /\ m.root # Null => m.parent[m.root] = Null
  /\ \A n \in N, s \in Sides :
       /\ m.child[s][n] \in N \cup {Null}
       /\ m.child[s][n] # Null => m.parent[m.child[s][n]] = n
       /\ \A x \in Sub(D, m.child[s][n]) : Before(s, x, n)
  /\ \A n \in N : D[n] = {n} \cup Sub(D, m.child["left"][n]) \cup Sub(D, m.child["right"][n])

-----------------------------------------------------------------------------
(* Keys and sides *)

(* Null is no key and no value, and every set of keys is finite.             *)
LEMMA KeyFacts ==
  /\ IsFiniteSet(Keys) /\ Cardinality(Keys) \in Nat
  /\ Null \notin Keys /\ Keys \subseteq Nat
  /\ IsFiniteSet(Values) /\ Null \notin Values /\ Values \subseteq Nat
  /\ \A S : S \subseteq Keys =>
       IsFiniteSet(S) /\ Cardinality(S) \in Nat /\ Cardinality(S) =< Cardinality(Keys)
<1>1. IsFiniteSet(Keys) /\ Cardinality(Keys) \in Nat
  BY MapAssumption, FS_CardinalityType
<1>2. \A S : S \subseteq Keys =>
        IsFiniteSet(S) /\ Cardinality(S) \in Nat /\ Cardinality(S) =< Cardinality(Keys)
  BY <1>1, FS_Subset, FS_CardinalityType
<1> QED BY <1>1, <1>2, MapAssumption DEF Null

(* There are two sides.                                                      *)
LEMMA SideFacts ==
  /\ \A s \in Sides : Other(s) \in Sides /\ Other(s) # s /\ Other(Other(s)) = s
  /\ \A s, t \in Sides : s # t => t = Other(s)
  /\ "left" \in Sides /\ "right" \in Sides /\ Other("left") = "right" /\ Other("right") = "left"
BY DEF Sides, Other

(* The order of the keys, seen from either side, is a total order.           *)
LEMMA OrderFacts ==
  ASSUME NEW s \in Sides, NEW a \in Keys, NEW b \in Keys
  PROVE  /\ Before(s, a, b) => a # b
         /\ Before(s, a, b) <=> Before(Other(s), b, a)
         /\ a # b => Before(s, a, b) \/ Before(Other(s), a, b)
         /\ Before(s, a, b) => ~ Before(Other(s), a, b)
         /\ \A c \in Keys : Before(s, a, b) /\ Before(s, b, c) => Before(s, a, c)
<1>1. Keys \subseteq Nat
  BY KeyFacts
<1> QED BY <1>1 DEF Before, Sides, Other

-----------------------------------------------------------------------------
(* Loops *)

(* f is a loop of N turns, and at turn i it is in G[N - i].                  *)
RunsIn(f, N, G, step, x0) ==
  /\ f = [i \in 0..N |-> IF i = 0 THEN x0 ELSE step[f[i - 1]]]
  /\ \A i \in 0..N : f[i] \in G[N - i]

(* A loop that is a function of its turns exists, and at turn i it is where   *)
(* a bound of N - i turns to go allows it to be.                             *)
LEMMA LoopExists ==
  ASSUME NEW N \in Nat, NEW G, NEW step, NEW x0 \in G[N],
         \A j \in 1..N : \A t \in G[j] : step[t] \in G[j - 1]
  PROVE  \E f : RunsIn(f, N, G, step, x0)
<1> DEFINE Runs(j, f) ==
             /\ f = [i \in 0..j |-> IF i = 0 THEN x0 ELSE step[f[i - 1]]]
             /\ \A i \in 0..j : f[i] \in G[N - i]
           Bad == {j \in Nat : j =< N /\ ~ \E f : Runs(j, f)}
<1> SUFFICES ASSUME Bad # {} PROVE FALSE
  <2>1. N \notin Bad => \E f : Runs(N, f)
    OBVIOUS
  <2> QED BY <2>1 DEF RunsIn
<1>1. PICK j \in Bad : \A k \in Bad : j =< k
  BY LeastNat
<1>2. CASE j = 0
  <2> DEFINE f == [i \in 0..0 |-> x0]
  <2>1. Runs(0, f)
    <3>1. \A i \in 0..0 : i = 0
      OBVIOUS
    <3> QED BY <3>1
  <2> QED BY <1>2, <2>1
<1>3. CASE j # 0
  <2>1. j - 1 \in Nat /\ j - 1 \notin Bad /\ j \in 1..N
    <3> HIDE DEF Runs
    <3>1. j \in Nat /\ j =< N /\ \A k \in Bad : j =< k
      BY <1>1
    <3> HIDE DEF Bad
    <3> QED BY <1>3, <3>1
  <2>2. PICK f : Runs(j - 1, f)
    BY <2>1
  <2> DEFINE g == [i \in 0..j |-> IF i = j THEN step[f[j - 1]] ELSE f[i]]
  <2>3. \A i \in 0..(j - 1) : g[i] = f[i] /\ f[i] \in G[N - i] /\ f[i] = IF i = 0 THEN x0 ELSE step[f[i - 1]]
    <3> TAKE i \in 0..(j - 1)
    <3>1. i \in 0..j /\ i # j
      BY <2>1
    <3>2. f[i] \in G[N - i] /\ f[i] = IF i = 0 THEN x0 ELSE step[f[i - 1]]
      BY <2>2
    <3> QED BY <3>1, <3>2
  <2>4. g[j] = step[g[j - 1]] /\ g[j] \in G[N - j]
    <3>1. j - 1 \in 0..(j - 1) /\ N - (j - 1) \in 1..N /\ (N - (j - 1)) - 1 = N - j /\ j \in 0..j
      BY <2>1
    <3>2. f[j - 1] \in G[N - (j - 1)] /\ g[j - 1] = f[j - 1]
      BY <2>3, <3>1
    <3>3. g[j] = step[f[j - 1]]
      BY <3>1
    <3> QED BY <3>1, <3>2, <3>3
  <2> HIDE DEF g
  <2>5. \A i \in 0..j : /\ g[i] = IF i = 0 THEN x0 ELSE step[g[i - 1]]
                        /\ g[i] \in G[N - i]
    <3> TAKE i \in 0..j
    <3>1. CASE i = j
      BY <2>1, <2>4, <3>1
    <3>2. CASE i # j
      <4>1. i \in 0..(j - 1) /\ (i # 0 => i - 1 \in 0..(j - 1))
        BY <2>1, <3>2
      <4> QED BY <2>3, <4>1
    <3> QED BY <3>1, <3>2
  <2>6. g = [i \in 0..j |-> g[i]]
    BY DEF g
  <2>7. g = [i \in 0..j |-> IF i = 0 THEN x0 ELSE step[g[i - 1]]]
    BY <2>5, <2>6
  <2>8. Runs(j, g)
    BY <2>5, <2>7
  <2> QED BY <2>8
<1> QED BY <1>1, <1>2, <1>3

(* If each turn leaves one less to go, none is left after N.                 *)
LEMMA LoopEnds ==
  ASSUME NEW N \in Nat, NEW G, NEW f, f[0] \in G[N],
         \A i \in 1..N : f[i - 1] \in G[(N - i) + 1] => f[i] \in G[N - i]
  PROVE  f[N] \in G[0]
<1> DEFINE Bad == {i \in Nat : i =< N /\ f[i] \notin G[N - i]}
<1> SUFFICES ASSUME Bad # {} PROVE FALSE
  <2>1. N \notin Bad /\ N - N = 0
    OBVIOUS
  <2> QED BY <2>1
<1>1. PICK i \in Bad : \A k \in Bad : i =< k
  BY LeastNat
<1>2. i # 0
  <2>1. N - 0 = N
    OBVIOUS
  <2> QED BY <2>1
<1>3. i - 1 \in Nat /\ i - 1 \notin Bad /\ i \in 1..N /\ N - (i - 1) = (N - i) + 1
  BY <1>1, <1>2
<1> QED BY <1>1, <1>3

(* Where a walk along next ends, if each step but the last leaves less to go. *)
LEMMA WalkEnds ==
  ASSUME NEW n, NEW next, NEW G, n \in G[LastTurn],
         \A j \in 1..LastTurn : \A x \in G[j] : (IF next[x] = Null THEN x ELSE next[x]) \in G[j - 1]
  PROVE  EndOf(n, next) \in G[0]
<1> DEFINE Loop(f) == [i \in Turns |->
                         IF i = 0 THEN n
                         ELSE LET x == f[i - 1] IN IF next[x] = Null THEN x ELSE next[x]]
           at == CHOOSE f : f = Loop(f)
           X == UNION {G[j] : j \in 0..LastTurn}
           step == [x \in X |-> IF next[x] = Null THEN x ELSE next[x]]
<1>0. LastTurn \in Nat
  BY MapAssumption, FS_CardinalityType DEF LastTurn
<1>1. EndOf(n, next) = at[LastTurn]
  BY DEF EndOf
<1>2. \A j \in 0..LastTurn : \A x \in G[j] : x \in X
  OBVIOUS
<1>3. \A j \in 1..LastTurn : \A x \in G[j] : step[x] \in G[j - 1]
  <2> TAKE j \in 1..LastTurn
  <2> TAKE x \in G[j]
  <2>1. x \in X
    BY <1>0, <1>2
  <2> QED BY <2>1
<1> HIDE DEF X
<1>4. PICK f : RunsIn(f, LastTurn, G, step, n)
  <2> HIDE DEF step
  <2> QED BY <1>0, <1>3, LoopExists
<1>5. f = Loop(f)
  <2>1. ASSUME NEW i \in 0..LastTurn, i # 0 PROVE f[i - 1] \in X
    <3>1. i - 1 \in 0..LastTurn /\ LastTurn - (i - 1) \in 0..LastTurn
      BY <1>0, <2>1
    <3> QED BY <1>2, <1>4, <3>1 DEF RunsIn
  <2>2. \A i \in 0..LastTurn : i # 0 =>
          step[f[i - 1]] = (IF next[f[i - 1]] = Null THEN f[i - 1] ELSE next[f[i - 1]])
    BY <2>1
  <2> HIDE DEF step
  <2> QED BY <1>4, <2>2 DEF RunsIn, Turns, LastTurn
<1>6. at = Loop(at)
  <2> HIDE DEF Loop
  <2> QED BY <1>5
<1> HIDE DEF at
<1>7. /\ at[0] = n
      /\ \A i \in 1..LastTurn : at[i] = IF next[at[i - 1]] = Null THEN at[i - 1] ELSE next[at[i - 1]]
  BY <1>0, <1>6 DEF Turns, LastTurn
<1> HIDE DEF Loop
<1>8. \A i \in 1..LastTurn : at[i - 1] \in G[(LastTurn - i) + 1] => at[i] \in G[LastTurn - i]
  <2> TAKE i \in 1..LastTurn
  <2>1. (LastTurn - i) + 1 \in 1..LastTurn /\ ((LastTurn - i) + 1) - 1 = LastTurn - i
    BY <1>0
  <2> QED BY <1>7, <2>1
<1> QED BY <1>0, <1>1, <1>7, <1>8, LoopEnds

-----------------------------------------------------------------------------
(* Trees *)

(* Links alone decide.                                                       *)
LEMMA TreeSame ==
  ASSUME NEW m, NEW n, NEW N, NEW D, Tree(m, N, D),
         n.root = m.root, n.child = m.child, n.parent = m.parent
  PROVE  Tree(n, N, D)
BY DEF Tree

(* Among nodes there is one with the least, and one with the most, below it. *)
LEMMA SmallestBelow ==
  ASSUME NEW m, NEW N, NEW D, Tree(m, N, D), NEW Q, Q \subseteq N, Q # {}
  PROVE  /\ \A n \in N : IsFiniteSet(D[n]) /\ Cardinality(D[n]) \in Nat
         /\ \E q \in Q : \A r \in Q : Cardinality(D[q]) =< Cardinality(D[r])
<1>1. N \subseteq Keys /\ D \in [N -> SUBSET N]
  BY DEF Tree
<1>2. \A n \in N : D[n] \subseteq Keys
  BY <1>1
<1>3. \A n \in N : IsFiniteSet(D[n]) /\ Cardinality(D[n]) \in Nat
  BY <1>2, KeyFacts
<1> DEFINE f == [n \in N |-> Cardinality(D[n])]
<1>4. f \in [N -> Int] /\ \A n \in N : f[n] >= 0
  BY <1>3
<1>5. \E q \in Q : \A r \in Q : f[q] =< f[r]
  BY <1>4, LeastValue, 0 \in Int
<1> QED BY <1>3, <1>5

(* A child and what is below it.                                             *)
LEMMA ChildFacts ==
  ASSUME NEW m, NEW N, NEW D, Tree(m, N, D), NEW n \in N, NEW s \in Sides,
         m.child[s][n] # Null
  PROVE  LET c == m.child[s][n] IN
         /\ c \in N /\ c # n /\ m.parent[c] = n
         /\ c \in D[c] /\ D[c] \subseteq D[n] /\ n \notin D[c]
         /\ Cardinality(D[c]) < Cardinality(D[n])
         /\ m.child[Other(s)][n] # c
         /\ D[c] \cap Sub(D, m.child[Other(s)][n]) = {}
<1> DEFINE c == m.child[s][n]
<1>1. /\ c \in N /\ m.parent[c] = n /\ N \subseteq Keys /\ D \in [N -> SUBSET N] /\ Null \notin N
  BY KeyFacts DEF Tree
<1>2. c \in D[c] /\ \A x \in N : x \in D[x]
  BY <1>1 DEF Tree
<1>3. \A x \in D[c] : Before(s, x, n) /\ x \in Keys
  BY <1>1 DEF Tree, Sub
<1>4. n \notin D[c]
  BY <1>1, <1>3, OrderFacts
<1>5. D[c] \subseteq D[n]
  BY <1>1 DEF Tree, Sub, Sides
<1>6. Cardinality(D[c]) < Cardinality(D[n])
  <2>1. IsFiniteSet(D[n]) /\ D[c] # D[n]
    BY <1>1, <1>2, <1>4, SmallestBelow
  <2> QED BY <1>5, <2>1, FS_Subset, FS_CardinalityType
<1>7. \A x \in Sub(D, m.child[Other(s)][n]) : Before(Other(s), x, n) /\ x \in Keys
  BY <1>1, SideFacts DEF Tree, Sub
<1>8. D[c] \cap Sub(D, m.child[Other(s)][n]) = {}
  BY <1>1, <1>3, <1>7, OrderFacts
<1>9. m.child[Other(s)][n] # c
  BY <1>1, <1>2, <1>8 DEF Sub
<1> QED BY <1>1, <1>2, <1>4, <1>5, <1>6, <1>8, <1>9

(* What is below a node, seen from either side.                              *)
LEMMA BelowFacts ==
  ASSUME NEW m, NEW N, NEW D, Tree(m, N, D), NEW n \in N, NEW s \in Sides
  PROVE  /\ m.child[s][n] \in N \cup {Null} /\ m.child[Other(s)][n] \in N \cup {Null}
         /\ D[n] = {n} \cup Sub(D, m.child[s][n]) \cup Sub(D, m.child[Other(s)][n])
         /\ m.child[s][n] # n /\ m.child[Other(s)][n] # n
         /\ n \notin Sub(D, m.child[s][n]) /\ n \notin Sub(D, m.child[Other(s)][n])
         /\ Sub(D, m.child[s][n]) \cap Sub(D, m.child[Other(s)][n]) = {}
<1>1. Other(s) \in Sides /\ (s = "left" \/ s = "right") /\ Null \notin N
  BY SideFacts, KeyFacts DEF Sides, Tree
<1>2. /\ m.child[s][n] \in N \cup {Null} /\ m.child[Other(s)][n] \in N \cup {Null}
      /\ D[n] = {n} \cup Sub(D, m.child["left"][n]) \cup Sub(D, m.child["right"][n])
  BY <1>1 DEF Tree
<1>3. D[n] = {n} \cup Sub(D, m.child[s][n]) \cup Sub(D, m.child[Other(s)][n])
  BY <1>1, <1>2, SideFacts
<1>4. ASSUME NEW t \in Sides
      PROVE  m.child[t][n] # n /\ n \notin Sub(D, m.child[t][n])
  BY <1>1, ChildFacts DEF Sub
<1>5. Sub(D, m.child[s][n]) \cap Sub(D, m.child[Other(s)][n]) = {}
  BY <1>1, ChildFacts DEF Sub
<1> QED BY <1>1, <1>2, <1>3, <1>4, <1>5

(* Down from a node n to x below it, there is a child at each step.          *)
LEMMA WayDown ==
  ASSUME NEW m, NEW N, NEW D, Tree(m, N, D), NEW n \in N, NEW x \in D[n],
         NEW P, n \in P, x \notin P
  PROVE  \E a \in N, s \in Sides :
           /\ a \in P /\ D[a] \subseteq D[n] /\ a # x /\ m.child[s][a] # Null
           /\ m.child[s][a] \notin P /\ x \in D[m.child[s][a]]
<1> DEFINE Q == {a \in N : a \in P /\ x \in D[a] /\ D[a] \subseteq D[n]}
<1>1. /\ N \subseteq Keys /\ D \in [N -> SUBSET N] /\ Null \notin N
      /\ \A a \in N : a \in D[a]
  BY KeyFacts DEF Tree
<1>2. n \in Q /\ Q \subseteq N
  OBVIOUS
<1>3. PICK a \in Q : \A b \in Q : Cardinality(D[a]) =< Cardinality(D[b])
  BY <1>2, SmallestBelow
<1>4. PICK s \in Sides : x \in Sub(D, m.child[s][a])
  BY <1>2, <1>3 DEF Tree, Sides
<1> DEFINE c == m.child[s][a]
<1>5. c # Null /\ x \in D[c]
  BY <1>4 DEF Sub
<1>6. c \in N /\ D[c] \subseteq D[a] /\ Cardinality(D[c]) < Cardinality(D[a])
  BY <1>2, <1>5, ChildFacts
<1>7. Cardinality(D[c]) \in Nat /\ Cardinality(D[a]) \in Nat
  BY <1>2, <1>6, SmallestBelow
<1>8. c \notin Q
  BY <1>3, <1>6, <1>7
<1> QED BY <1>3, <1>5, <1>6, <1>8

(* What is below a node below n is below n.                                  *)
LEMMA Transitive ==
  ASSUME NEW m, NEW N, NEW D, Tree(m, N, D), NEW n \in N, NEW x \in D[n]
  PROVE  x \in N /\ D[x] \subseteq D[n]
<1>1. D \in [N -> SUBSET N]
  BY DEF Tree
<1> DEFINE P == {a \in N : D[a] \subseteq D[n] /\ a # x}
<1>2. CASE n # x
  <2>0. n \in P /\ x \notin P
    BY <1>2
  <2> HIDE DEF P
  <2>1. PICK a \in N, s \in Sides :
          /\ a \in P /\ D[a] \subseteq D[n] /\ m.child[s][a] # Null
          /\ m.child[s][a] \notin P /\ x \in D[m.child[s][a]]
    BY <2>0, WayDown
  <2> USE DEF P
  <2>2. m.child[s][a] \in N /\ D[m.child[s][a]] \subseteq D[a]
    BY <2>1, ChildFacts
  <2> QED BY <2>1, <2>2
<1> QED BY <1>1, <1>2

(* Below a node one comes to a node from its parent.                         *)
LEMMA ParentFacts ==
  ASSUME NEW m, NEW N, NEW D, Tree(m, N, D), NEW n \in N, NEW x \in D[n], x # n
  PROVE  /\ m.parent[x] \in D[n] /\ m.parent[x] \in N /\ m.parent[x] # x
         /\ m.child[SideOf(m, x)][m.parent[x]] = x /\ SideOf(m, x) \in Sides
<1> DEFINE P == {a \in N : a # x}
<1>0. n \in P /\ x \notin P
  OBVIOUS
<1> HIDE DEF P
<1>1. PICK a \in N, s \in Sides :
        /\ D[a] \subseteq D[n] /\ m.child[s][a] # Null
        /\ m.child[s][a] \notin P
  BY <1>0, WayDown
<1> USE DEF P
<1>2. m.child[s][a] = x /\ m.parent[x] = a /\ x # a
  BY <1>1, ChildFacts
<1>3. a \in D[a]
  BY DEF Tree
<1> QED BY <1>1, <1>2, <1>3 DEF SideOf, Sides

(* Only the root has no parent.                                              *)
LEMMA RootFacts ==
  ASSUME NEW m, NEW N, NEW D, Tree(m, N, D), NEW n \in N
  PROVE  /\ m.root \in N /\ m.root # Null /\ D[m.root] = N /\ n \in D[n]
         /\ n = m.root <=> m.parent[n] = Null
         /\ n # m.root => /\ m.parent[n] \in N /\ m.parent[n] # n
                          /\ m.child[SideOf(m, n)][m.parent[n]] = n
                          /\ SideOf(m, n) \in Sides
<1>1. N = Sub(D, m.root) /\ Null \notin N /\ n \in D[n]
  BY KeyFacts DEF Tree
<1>2. m.root \in N /\ m.root # Null /\ D[m.root] = N
  BY <1>1 DEF Tree, Sub
<1>3. m.parent[m.root] = Null
  BY <1>2 DEF Tree
<1> QED BY <1>1, <1>2, <1>3, ParentFacts

-----------------------------------------------------------------------------
(* Links and colours change one by one.  Each predicate says of the map n    *)
(* what the operation made of m.                                             *)

SameContents(n, m) == n \in MapRec /\ Contents(n) = Contents(m)

RedWasSet(n, m, k, c) ==
  /\ SameContents(n, m) /\ n.root = m.root /\ n.child = m.child /\ n.parent = m.parent
  /\ \A x \in Keys : n.red[x] = IF x = k THEN c ELSE m.red[x]

ParentWasSet(n, m, k, p) ==
  /\ SameContents(n, m) /\ n.root = m.root /\ n.child = m.child /\ n.red = m.red
  /\ \A x \in Keys : n.parent[x] = IF x = k THEN p ELSE m.parent[x]

WasHung(n, m, u, v) ==
  /\ SameContents(n, m) /\ n.red = m.red
  /\ n.root = IF m.parent[u] = Null THEN v ELSE m.root
  /\ \A s \in Sides, x \in Keys :
       n.child[s][x] = IF x = m.parent[u] /\ s = SideOf(m, u) THEN v ELSE m.child[s][x]

WasTransplanted(n, m, u, v) ==
  /\ WasHung(n, m, u, v)
  /\ \A x \in Keys : n.parent[x] = IF x = v THEN m.parent[u] ELSE m.parent[x]

WasLowered(n, m, x, y, c, s) ==
  /\ SameContents(n, m) /\ n.red = m.red /\ n.root = m.root
  /\ \A t \in Sides, k \in Keys :
       n.child[t][k] = IF k = x /\ t = Other(s) THEN c
                       ELSE IF k = y /\ t = s THEN x ELSE m.child[t][k]
  /\ \A k \in Keys : n.parent[k] = IF k = x THEN y ELSE m.parent[k]

(* What SetRed does.                                                         *)
LEMMA RedSet ==
  ASSUME NEW m \in MapRec, NEW n \in Keys \cup {Null}, NEW c \in BOOLEAN
  PROVE  RedWasSet(SetRed(m, n, c), m, n, c)
BY KeyFacts DEF SetRed, MapRec, Contents, RedWasSet, SameContents

(* What SetParent does.                                                      *)
LEMMA ParentSet ==
  ASSUME NEW m \in MapRec, NEW n \in Keys \cup {Null}, NEW p \in Keys \cup {Null}
  PROVE  ParentWasSet(SetParent(m, n, p), m, n, p)
BY KeyFacts DEF SetParent, MapRec, Contents, ParentWasSet, SameContents

(* SideOf is a side.                                                         *)
LEMMA SideTaken ==
  ASSUME NEW m \in MapRec, NEW u \in Keys
  PROVE  m.parent[u] \in Keys \cup {Null} /\ SideOf(m, u) \in Sides
BY DEF MapRec, SideOf, Sides

(* What Hang does.                                                           *)
LEMMA Hung ==
  ASSUME NEW m \in MapRec, NEW u \in Keys, NEW v \in Keys \cup {Null}
  PROVE  WasHung(Hang(m, u, v), m, u, v)
<1>1. CASE m.parent[u] = Null
  BY <1>1, KeyFacts DEF Hang, MapRec, Contents, WasHung, SameContents
<1>2. CASE m.parent[u] # Null
  BY <1>2, SideTaken DEF Hang, MapRec, Contents, WasHung, SameContents
<1> QED BY <1>1, <1>2

(* v takes the place of u.                                                   *)
LEMMA Transplanted ==
  ASSUME NEW m \in MapRec, NEW u \in Keys, NEW v \in Keys \cup {Null}
  PROVE  WasTransplanted(Transplant(m, u, v), m, u, v)
<1> DEFINE h == Hang(m, u, v)
           n == SetParent(h, v, m.parent[u])
<1>1. WasHung(h, m, u, v)
  BY Hung
<1>2. h.parent = m.parent
  BY DEF Hang, MapRec
<1>3. Transplant(m, u, v) = n
  BY DEF Transplant
<1> HIDE DEF h
<1>4. ParentWasSet(n, h, v, m.parent[u])
  BY <1>1, SideTaken, ParentSet DEF WasHung, SameContents
<1> HIDE DEF n
<1> QED BY <1>1, <1>2, <1>3, <1>4 DEF WasTransplanted, ParentWasSet, WasHung, SameContents

(* What a rotation does to the links: y comes up, x goes down to side s.     *)
WasRotated(n, m, x, s, y, c, p) ==
  /\ SameContents(n, m) /\ n.red = m.red
  /\ n.root = IF p = Null THEN y ELSE m.root
  /\ \A t \in Sides, k \in Keys :
       n.child[t][k] = IF k = x /\ t = Other(s) THEN c
                       ELSE IF k = y /\ t = s THEN x
                       ELSE IF k = p /\ t = SideOf(m, x) THEN y ELSE m.child[t][k]
  /\ \A k \in Keys :
       n.parent[k] = IF k = x THEN y ELSE IF k = c THEN x ELSE IF k = y THEN p ELSE m.parent[k]

(* What iot_node_rol and iot_node_ror do to the links.                       *)
LEMMA Rotated ==
  ASSUME NEW m \in MapRec, NEW x \in Keys, NEW s \in Sides, NEW y \in Keys,
         m.child[Other(s)][x] = y
  PROVE  WasRotated(Rotate(m, x, s), m, x, s, y, m.child[s][y], m.parent[x])
<1> DEFINE c == m.child[s][y]
           p == m.parent[x]
           a == Transplant(m, x, y)
           b == SetParent(a, c, x)
           n == Lowered(b, x, y, c, s)
<1>1. /\ Other(s) \in Sides /\ Other(s) # s /\ c \in Keys \cup {Null}
      /\ p \in Keys \cup {Null}
  BY SideFacts DEF MapRec
<1>2. WasTransplanted(a, m, x, y)
  BY Transplanted
<1>3. Rotate(m, x, s) = n
  BY DEF Rotate
<1> HIDE DEF a
<1>4. ParentWasSet(b, a, c, x)
  BY <1>1, <1>2, ParentSet DEF WasTransplanted, WasHung, SameContents
<1> HIDE DEF b, c, p
<1>5. WasLowered(n, b, x, y, c, s)
  BY <1>1, <1>4 DEF MapRec, Contents, Lowered, WasLowered, ParentWasSet, SameContents
<1> HIDE DEF n
<1>6. /\ a.parent = a.parent /\ WasRotated(n, m, x, s, y, c, p)
  BY <1>1, <1>2, <1>4, <1>5 DEF WasRotated, WasTransplanted, WasHung, ParentWasSet, WasLowered, SameContents, p
<1> QED BY <1>3, <1>6 DEF c, p

(* What is below the nodes after the rotation.                               *)
Turned(D, x, y, a, c) ==
  [z \in DOMAIN D |-> IF z = y THEN D[x]
                      ELSE IF z = x THEN {x} \cup Sub(D, a) \cup Sub(D, c) ELSE D[z]]

(* A rotation keeps the tree a search tree of the same nodes.                *)
LEMMA RotatedTree ==
  ASSUME NEW m, NEW N, NEW D, Tree(m, N, D), NEW x \in N, NEW s \in Sides,
         NEW y, y = m.child[Other(s)][x], y # Null, NEW n,
         WasRotated(n, m, x, s, y, m.child[s][y], m.parent[x])
  PROVE  /\ Tree(n, N, Turned(D, x, y, m.child[s][x], m.child[s][y]))
         /\ y \in N /\ y # x
<1> DEFINE o == Other(s)
           a == m.child[s][x]
           c == m.child[s][y]
           b == m.child[o][y]
           p == m.parent[x]
           E == Turned(D, x, y, a, c)
<1>1. /\ o \in Sides /\ o # s /\ Other(o) = s
      /\ N \subseteq Keys /\ D \in [N -> SUBSET N] /\ Null \notin N
  BY SideFacts, KeyFacts DEF Tree
<1>2. /\ y \in N /\ y # x /\ m.parent[y] = x /\ y \in D[y] /\ x \notin D[y] /\ a # y
      /\ D[y] \subseteq D[x] /\ D[y] \cap Sub(D, a) = {}
  BY <1>1, ChildFacts
<1>3. /\ a \in N \cup {Null} /\ b \in N \cup {Null} /\ c \in N \cup {Null}
      /\ D[x] = {x} \cup Sub(D, a) \cup D[y] /\ D[y] = {y} \cup Sub(D, b) \cup Sub(D, c)
      /\ x \notin Sub(D, a) /\ Sub(D, b) \cap Sub(D, c) = {}
      /\ y \notin Sub(D, c) /\ y \notin Sub(D, b)
  <2>1. D[x] = {x} \cup Sub(D, a) \cup Sub(D, y) /\ a \in N \cup {Null} /\ x \notin Sub(D, a)
    BY BelowFacts
  <2>2. /\ D[y] = {y} \cup Sub(D, c) \cup Sub(D, b) /\ b \in N \cup {Null} /\ c \in N \cup {Null}
        /\ y \notin Sub(D, c) /\ y \notin Sub(D, b) /\ Sub(D, b) \cap Sub(D, c) = {}
    BY <1>2, BelowFacts
  <2>3. Sub(D, y) = D[y]
    BY DEF Sub
  <2> QED BY <2>1, <2>2, <2>3
<1>4. /\ a # Null => a # x /\ m.parent[a] = x /\ a \in D[a] /\ x \notin D[a]
      /\ c # Null => c # y /\ m.parent[c] = y /\ c \in D[c] /\ y \notin D[c]
      /\ b # Null => b # y /\ m.parent[b] = y /\ b \in D[b] /\ y \notin D[b] /\ b # c
  <2>1. \A w \in N : w \in D[w]
    BY DEF Tree
  <2>2. a # Null => a # x /\ m.parent[a] = x
    BY ChildFacts
  <2>3. c # Null => c # y /\ m.parent[c] = y
    BY <1>2, ChildFacts
  <2>4. b # Null => b # y /\ m.parent[b] = y
    BY <1>1, <1>2, ChildFacts
  <2>5. (a # Null => Sub(D, a) = D[a]) /\ (b # Null => Sub(D, b) = D[b]) /\ (c # Null => Sub(D, c) = D[c])
    BY DEF Sub
  <2> HIDE DEF a, b, c
  <2> QED BY <1>3, <2>1, <2>2, <2>3, <2>4, <2>5
<1>5. c # x /\ b # x /\ x \notin Sub(D, c) /\ x \notin Sub(D, b)
  <2>1. x \notin Sub(D, c) /\ x \notin Sub(D, b)
    BY <1>2, <1>3
  <2>2. x \in D[x] /\ x # Null
    BY <1>1, <1>3
  <2> QED BY <2>1, <2>2, <1>4 DEF Sub
<1>6. /\ p = Null => x = m.root
      /\ p # Null => p \in N /\ p # x /\ m.child[SideOf(m, x)][p] = x /\ SideOf(m, x) \in Sides
                     /\ x # m.root
  BY <1>1, RootFacts
<1> HIDE DEF b, c
<1>7. p # y /\ (c # Null => p # c) /\ (b # Null => p # b) /\ (a # Null => p # a)
  <2>1. p # Null => x \in D[p] /\ D[x] \subseteq D[p] /\ p \notin D[x]
    <3>1. x \in D[x] /\ x # Null
      BY <1>1, <1>3
    <3> SUFFICES ASSUME p # Null PROVE x \in D[p] /\ D[x] \subseteq D[p] /\ p \notin D[x]
      OBVIOUS
    <3>2. p \in N /\ SideOf(m, x) \in Sides /\ m.child[SideOf(m, x)][p] = x
      BY <1>6, SMTT(30)
    <3> HIDE DEF p
    <3> QED BY <3>1, <3>2, ChildFacts
  <2> QED BY <1>2, <1>3, <1>4, <1>5, <2>1 DEF Sub
<1>8. E \in [N -> SUBSET N] /\ E[y] = D[x] /\ E[x] = {x} \cup Sub(D, a) \cup Sub(D, c)
      /\ \A z \in N : z # x /\ z # y => E[z] = D[z]
  BY <1>1, <1>2, <1>3 DEF Turned, Sub
<1> DEFINE q == SideOf(m, x)
<1>9. /\ n.root = IF p = Null THEN y ELSE m.root
      /\ \A t \in Sides, k \in N :
           n.child[t][k] = IF k = x /\ t = o THEN c ELSE IF k = y /\ t = s THEN x
                           ELSE IF k = p /\ t = q THEN y ELSE m.child[t][k]
      /\ \A k \in N : n.parent[k] = IF k = x THEN y ELSE IF k = c THEN x
                                    ELSE IF k = y THEN p ELSE m.parent[k]
  BY <1>1 DEF WasRotated, c
<1>10. /\ n.child[s][x] = a /\ n.child[o][x] = c /\ n.child[s][y] = x /\ n.child[o][y] = b
       /\ p # Null => n.child[q][p] = y
       /\ \A t \in Sides, k \in N : k # x /\ k # y /\ ~ (k = p /\ t = q) =>
            n.child[t][k] = m.child[t][k] /\ m.child[t][k] # x /\ m.child[t][k] # y
  <2>1. \A t \in Sides, k \in N : k # x /\ k # y /\ ~ (k = p /\ t = q) => m.child[t][k] # x
    BY <1>1, <1>6, ChildFacts DEF Sides, Other
  <2>2. \A t \in Sides, k \in N : k # x => m.child[t][k] # y
    BY <1>1, <1>2 DEF Tree
  <2> HIDE DEF a, b, c, p, q, o
  <2> QED BY <1>1, <1>2, <1>6, <1>7, <1>9, <2>1, <2>2 DEF a, b, c
<1> HIDE DEF E
<1>11. \A t \in Sides, k \in N : k # x /\ k # y /\ ~ (k = p /\ t = q) =>
          Sub(E, n.child[t][k]) = Sub(D, m.child[t][k])
  BY <1>1, <1>8, <1>10 DEF Sub, Tree
<1>12. /\ Sub(E, a) = Sub(D, a) /\ Sub(E, b) = Sub(D, b) /\ Sub(E, c) = Sub(D, c)
       /\ Sub(E, x) = E[x] /\ Sub(E, y) = D[x]
  BY <1>1, <1>2, <1>3, <1>4, <1>5, <1>8 DEF Sub
<1>13. n.root \in N \cup {Null} /\ N = Sub(E, n.root) /\ (n.root # Null => n.parent[n.root] = Null)
  <2>1. m.root \in N /\ m.root # Null /\ D[m.root] = N /\ m.parent[m.root] = Null
    BY <1>1, RootFacts
  <2>2. m.root # y
    BY <1>1, <1>2, <2>1
  <2>3. c # m.root
    BY <1>1, <1>2, <1>4, <2>1
  <2>4. E[m.root] = D[m.root] \/ m.root = x
    BY <1>8, <2>1, <2>2
  <2> HIDE DEF a, b, c, p, q, o
  <2>5. CASE p = Null
    <3>1. n.root = y /\ m.root = x /\ y # c
      BY <1>1, <1>2, <1>4, <1>6, <1>9, <2>5
    <3>2. n.parent[y] = Null
      BY <1>2, <1>9, <2>5, <3>1
    <3> QED BY <1>1, <1>2, <1>8, <2>1, <3>1, <3>2 DEF Sub
  <2>6. CASE p # Null
    <3>1. n.root = m.root /\ m.root # x
      BY <1>6, <1>9, <2>6
    <3>2. n.parent[m.root] = m.parent[m.root]
      BY <1>9, <2>1, <2>2, <2>3, <3>1
    <3> QED BY <2>1, <2>4, <3>1, <3>2 DEF Sub
  <2> QED BY <2>5, <2>6
<1>14. \A k \in N, t \in Sides : n.child[t][k] \in N \cup {Null}
  BY <1>1, <1>2, <1>3, <1>9 DEF Tree
<1>15. \A k \in N, t \in Sides : n.child[t][k] # Null => n.parent[n.child[t][k]] = k
  <2> SUFFICES ASSUME NEW k \in N, NEW t \in Sides, n.child[t][k] # Null
               PROVE  n.parent[n.child[t][k]] = k
    OBVIOUS
  <2>1. t = s \/ t = o
    BY SideFacts
  <2>2. CASE k = x
    <3>1. n.child[t][k] = a \/ n.child[t][k] = c
      BY <1>10, <2>1, <2>2
    <3>2. a # Null => a # c
      BY <1>2, <1>4
    <3> HIDE DEF a, b, c, p, q, o
    <3> QED BY <1>1, <1>2, <1>3, <1>4, <1>9, <2>2, <3>1, <3>2
  <2>3. CASE k = y
    <3>1. n.child[t][k] = x \/ n.child[t][k] = b
      BY <1>10, <2>1, <2>3
    <3>2. b # Null => b # x /\ b # y /\ b # c /\ b \in N /\ m.parent[b] = y
      BY <1>1, <1>3, <1>4, <1>5
    <3> HIDE DEF a, b, c, p, q, o
    <3> QED BY <1>9, <2>3, <3>1, <3>2
  <2>4. CASE k # x /\ k # y /\ k = p /\ t = q
    <3>1. n.child[t][k] = y
      BY <1>1, <1>10, <2>4
    <3>2. y # c
      BY <1>1, <1>2, <1>4
    <3> HIDE DEF a, b, c, p, q, o
    <3> QED BY <1>2, <1>9, <2>4, <3>1, <3>2
  <2>5. CASE k # x /\ k # y /\ ~ (k = p /\ t = q)
    <3>1. n.child[t][k] = m.child[t][k] /\ n.child[t][k] # x /\ n.child[t][k] # y
      BY <1>10, <2>5
    <3>2. m.parent[m.child[t][k]] = k /\ m.child[t][k] \in N
      BY <3>1 DEF Tree
    <3>3. n.child[t][k] # c
      BY <1>4, <2>5, <3>1, <3>2
    <3> HIDE DEF a, b, c, p, q, o
    <3> QED BY <1>9, <3>1, <3>2, <3>3
  <2> QED BY <2>2, <2>3, <2>4, <2>5
<1>16. \A k \in N, t \in Sides : \A z \in Sub(E, n.child[t][k]) : Before(t, z, k)
  <2> SUFFICES ASSUME NEW k \in N, NEW t \in Sides, NEW z \in Sub(E, n.child[t][k])
               PROVE  Before(t, z, k)
    OBVIOUS
  <2>1. t = s \/ t = o
    BY SideFacts
  <2>2. /\ \A w \in Sub(D, a) : Before(s, w, x)
        /\ \A w \in D[y] : Before(o, w, x)
        /\ \A w \in Sub(D, c) : Before(s, w, y)
        /\ \A w \in Sub(D, b) : Before(o, w, y)
    BY <1>1, <1>2 DEF Tree, Sub, b, c
  <2>3. \A w \in D[x] : w \in Keys
    BY <1>1
  <2>4. CASE k = x
    <3>1. t = s => n.child[t][k] = a
      BY <1>10, <2>4
    <3>2. t = o => n.child[t][k] = c
      BY <1>10, <2>4
    <3> HIDE DEF a, b, c, p, q, o
    <3> QED BY <1>3, <1>12, <2>1, <2>2, <2>4, <3>1, <3>2
  <2>5. CASE k = y
    <3>1. t = o => n.child[t][k] = b
      BY <1>10, <2>5
    <3>2. t = s => n.child[t][k] = x
      BY <1>1, <1>10, <2>5
    <3>3. Before(s, x, y)
      BY <1>1, <1>2, <2>2, OrderFacts
    <3>4. \A w \in Sub(D, a) : w \in Keys
      BY <1>3, <2>3
    <3>5. \A w \in Sub(D, a) : Before(s, w, y)
      BY <1>1, <1>2, <2>2, <3>3, <3>4, OrderFacts
    <3> HIDE DEF a, b, c, p, q, o
    <3> QED BY <1>8, <1>12, <2>1, <2>2, <2>5, <3>1, <3>2, <3>3, <3>5
  <2>6. CASE k # x /\ k # y /\ k = p /\ t = q
    <3>1. n.child[t][k] = y /\ m.child[t][k] = x
      BY <1>1, <1>6, <1>10, <2>6
    <3> HIDE DEF a, b, c, p, q, o
    <3> QED BY <1>1, <1>12, <3>1 DEF Tree, Sub
  <2>7. CASE k # x /\ k # y /\ ~ (k = p /\ t = q)
    BY <1>11, <2>7 DEF Tree
  <2> QED BY <2>4, <2>5, <2>6, <2>7
<1>17. \A k \in N :
         E[k] = {k} \cup Sub(E, n.child["left"][k]) \cup Sub(E, n.child["right"][k])
  <2> SUFFICES ASSUME NEW k \in N
               PROVE  E[k] = {k} \cup Sub(E, n.child[s][k]) \cup Sub(E, n.child[o][k])
    BY SideFacts DEF Sides, Other
  <2>1. CASE k = x
    BY <1>8, <1>10, <1>12, <2>1
  <2>2. CASE k = y
    <3> HIDE DEF a, b, c, p, q, o
    <3> QED BY <1>3, <1>8, <1>10, <1>12, <2>2
  <2>3. CASE k # x /\ k # y
    <3>1. D[k] = {k} \cup Sub(D, m.child[s][k]) \cup Sub(D, m.child[o][k])
      BY SideFacts DEF Tree, Sides, Other
    <3>2. E[k] = D[k]
      BY <1>8, <2>3
    <3>3. \A t \in Sides : Sub(E, n.child[t][k]) = Sub(D, m.child[t][k])
      <4> TAKE t \in Sides
      <4>1. CASE k = p /\ t = q
        <5>1. n.child[t][k] = y /\ m.child[t][k] = x
          BY <1>1, <1>6, <1>10, <4>1
        <5> QED BY <1>1, <1>12, <5>1 DEF Sub
      <4> QED BY <1>11, <2>3, <4>1
    <3> QED BY <1>1, <3>1, <3>2, <3>3
  <2> QED BY <2>1, <2>2, <2>3
<1>18. Tree(n, N, E)
  BY <1>1, <1>8, <1>13, <1>14, <1>15, <1>16, <1>17 DEF Tree
<1> QED BY <1>2, <1>18 DEF E, c

-----------------------------------------------------------------------------
(* Walks down and up *)

(* As many nodes are below a node as the tree has, or fewer.                 *)
LEMMA SizeBelow ==
  ASSUME NEW m, NEW N, NEW D, Tree(m, N, D)
  PROVE  /\ IsFiniteSet(N) /\ Cardinality(N) \in Nat /\ Cardinality(N) =< LastTurn /\ LastTurn \in Nat
         /\ \A n \in N : Cardinality(D[n]) \in Nat /\ 1 =< Cardinality(D[n]) /\ Cardinality(D[n]) =< Cardinality(N)
<1>1. N \subseteq Keys /\ D \in [N -> SUBSET N] /\ \A n \in N : n \in D[n]
  BY DEF Tree
<1>2. IsFiniteSet(N) /\ Cardinality(N) \in Nat /\ Cardinality(N) =< LastTurn /\ LastTurn \in Nat
  BY <1>1, KeyFacts DEF LastTurn
<1>3. ASSUME NEW n \in N
      PROVE  Cardinality(D[n]) \in Nat /\ 1 =< Cardinality(D[n]) /\ Cardinality(D[n]) =< Cardinality(N)
  <2>1. D[n] \subseteq N /\ D[n] # {}
    BY <1>1
  <2>2. IsFiniteSet(D[n]) /\ Cardinality(D[n]) \in Nat /\ Cardinality(D[n]) =< Cardinality(N)
    BY <1>2, <2>1, FS_Subset, FS_CardinalityType
  <2>3. Cardinality(D[n]) # 0
    BY <2>1, <2>2, FS_EmptySet
  <2> QED BY <2>2, <2>3
<1> QED BY <1>2, <1>3

(* A search leaves every node it passes towards the key.                     *)
LEMMA NearestFacts ==
  ASSUME NEW m, NEW N, NEW D, Tree(m, N, D), m.root # Null, NEW k \in Keys
  PROVE  /\ Nearest(m, k) \in N
         /\ k \in N <=> Nearest(m, k) = k
         /\ k \notin N => m.child[Towards(k, Nearest(m, k))][Nearest(m, k)] = Null
         /\ \A n \in N : Nearest(m, k) \in D[n] /\ n # Nearest(m, k) =>
              n # k /\ Nearest(m, k) \in Sub(D, m.child[Towards(k, n)][n])
<1> DEFINE next == Onward(m, k)
           Good(x) ==
             /\ x \in N /\ (k \in N => k \in D[x])
             /\ \A n \in N : x \in D[n] /\ n # x =>
                  n # k /\ x \in Sub(D, m.child[Towards(k, n)][n])
           G == [j \in 0..LastTurn |->
                   {x \in N : Good(x) /\ (next[x] = Null \/ Cardinality(D[x]) =< j)}]
           y == Nearest(m, k)
<1>1. /\ N \subseteq Keys /\ D \in [N -> SUBSET N] /\ Null \notin N /\ \A n \in N : n \in D[n]
      /\ m.root \in N /\ D[m.root] = N /\ k # Null
  BY KeyFacts DEF Tree, Sub
<1>2. LastTurn \in Nat /\ \A n \in N :
        /\ Cardinality(D[n]) \in Nat /\ 1 =< Cardinality(D[n]) /\ Cardinality(D[n]) =< LastTurn
  BY SizeBelow
<1>3. \A x \in N : next[x] = IF x = k THEN Null ELSE m.child[Towards(k, x)][x]
  BY <1>1 DEF Onward
<1>4. \A x \in N : Towards(k, x) \in Sides
  BY DEF Towards, Sides
<1>5. Good(m.root)
  <2>1. \A n \in N : m.root \in D[n] => n = m.root
    BY <1>1, RootFacts, ParentFacts
  <2> QED BY <1>1, <2>1
<1>6. ASSUME NEW x \in N, Good(x), next[x] # Null
      PROVE  /\ Good(next[x]) /\ next[x] \in N
             /\ Cardinality(D[next[x]]) < Cardinality(D[x])
  <2> DEFINE s == Towards(k, x)
             c == m.child[s][x]
  <2>1. x # k /\ next[x] = c /\ c # Null /\ s \in Sides
    BY <1>3, <1>4, <1>6
  <2>2. c \in N /\ m.parent[c] = x /\ c \in D[c] /\ D[c] \subseteq D[x] /\ c # x
        /\ Cardinality(D[c]) < Cardinality(D[x])
    BY <2>1, ChildFacts
  <2>3. ASSUME k \in N PROVE k \in D[c]
    <3>1. k \in D[x]
      BY <1>6, <2>3
    <3>2. D[x] = {x} \cup D[c] \cup Sub(D, m.child[Other(s)][x])
      BY <2>1, BelowFacts DEF Sub
    <3>3. \A z \in Sub(D, m.child[Other(s)][x]) : Before(Other(s), z, x)
      BY <2>1, SideFacts DEF Tree
    <3>4. ~ Before(Other(s), k, x)
      <4>1. k \in Nat /\ x \in Nat
        BY <1>1, KeyFacts
      <4> QED BY <2>1, <4>1 DEF Before, Other, Towards
    <3> QED BY <2>1, <3>1, <3>2, <3>3, <3>4
  <2>4. ASSUME NEW n \in N, c \in D[n], n # c
        PROVE  n # k /\ c \in Sub(D, m.child[Towards(k, n)][n])
    <3>1. x \in D[n]
      BY <2>2, <2>4, ParentFacts
    <3>2. CASE n = x
      BY <2>1, <2>2, <3>2 DEF Sub
    <3>3. CASE n # x
      <4>1. n # k /\ x \in Sub(D, m.child[Towards(k, n)][n])
        BY <1>6, <3>1, <3>3
      <4> DEFINE b == m.child[Towards(k, n)][n]
      <4>2. b # Null /\ b \in N
        BY <1>4, <4>1 DEF Sub, Tree
      <4>3. D[x] \subseteq D[b]
        BY <4>1, <4>2, Transitive DEF Sub
      <4> QED BY <2>2, <4>1, <4>2, <4>3 DEF Sub
    <3> QED BY <3>2, <3>3
  <2> QED BY <2>1, <2>2, <2>3, <2>4
<1> HIDE DEF Good, next
<1>7. m.root \in G[LastTurn]
  BY <1>1, <1>2, <1>5
<1>8. \A j \in 1..LastTurn : \A x \in G[j] : (IF next[x] = Null THEN x ELSE next[x]) \in G[j - 1]
  <2> TAKE j \in 1..LastTurn
  <2>0. j \in 0..LastTurn /\ j - 1 \in 0..LastTurn
    BY <1>2
  <2> TAKE x \in G[j]
  <2>1. x \in N /\ Good(x) /\ (next[x] = Null \/ Cardinality(D[x]) =< j)
    BY <2>0
  <2>2. CASE next[x] = Null
    BY <2>0, <2>1, <2>2
  <2>3. CASE next[x] # Null
    <3>1. Good(next[x]) /\ next[x] \in N /\ Cardinality(D[next[x]]) < Cardinality(D[x])
      BY <1>6, <2>1, <2>3
    <3>2. Cardinality(D[next[x]]) =< j - 1
      BY <1>2, <2>1, <2>3, <3>1
    <3> QED BY <2>0, <2>3, <3>1, <3>2
  <2> QED BY <2>2, <2>3
<1>9. y \in G[0]
  <2> HIDE DEF G
  <2> QED BY <1>7, <1>8, WalkEnds DEF Nearest, next
<1>10. y \in N /\ Good(y) /\ next[y] = Null
  BY <1>2, <1>9
<1> HIDE DEF y
<1>11. ASSUME y # k PROVE m.child[Towards(k, y)][y] = Null
  BY <1>3, <1>10, <1>11
<1>12. ASSUME k \in N, y # k PROVE FALSE
  <2> DEFINE s == Towards(k, y)
  <2>1. k \in D[y] /\ s \in Sides
    BY <1>4, <1>10, <1>12 DEF Good
  <2>2. D[y] = {y} \cup Sub(D, m.child[Other(s)][y])
    BY <1>10, <1>11, <1>12, <2>1, BelowFacts DEF Sub
  <2>3. \A z \in Sub(D, m.child[Other(s)][y]) : Before(Other(s), z, y)
    BY <1>10, <2>1, SideFacts DEF Tree
  <2>4. ~ Before(Other(s), k, y)
    <3>1. k \in Nat /\ y \in Nat
      BY <1>1, <1>10, KeyFacts
    <3> QED BY <1>12, <3>1 DEF Before, Other, Towards
  <2> QED BY <1>12, <2>1, <2>2, <2>3, <2>4
<1> QED BY <1>10, <1>11, <1>12 DEF Good, y

(* find_node finds the keys that have a node, and no others.                 *)
LEMMA FindFacts ==
  ASSUME NEW m, NEW N, NEW D, Tree(m, N, D), NEW k \in Keys
  PROVE  Find(m, k) = IF k \in N THEN k ELSE Null
<1>1. CASE m.root = Null
  BY <1>1 DEF Find, Tree, Sub
<1>2. CASE m.root # Null
  BY <1>2, NearestFacts DEF Find
<1> QED BY <1>1, <1>2

(* The last node on a side: everything below n is it or comes after it.      *)
LEMMA ExtremeFacts ==
  ASSUME NEW m, NEW N, NEW D, Tree(m, N, D), NEW n \in N, NEW s \in Sides
  PROVE  /\ Extreme(m, n, s) \in D[n] /\ Extreme(m, n, s) \in N
         /\ m.child[s][Extreme(m, n, s)] = Null
         /\ \A k \in D[n] : k = Extreme(m, n, s) \/ Before(s, Extreme(m, n, s), k)
<1> DEFINE next == m.child[s]
           o == Other(s)
           Good(x) == x \in D[n] /\ \A k \in D[n] : k \in D[x] \/ Before(s, x, k)
           G == [j \in 0..LastTurn |->
                   {x \in N : Good(x) /\ (next[x] = Null \/ Cardinality(D[x]) =< j)}]
           y == Extreme(m, n, s)
<1>1. /\ N \subseteq Keys /\ D \in [N -> SUBSET N] /\ Null \notin N /\ \A x \in N : x \in D[x]
      /\ o \in Sides
  BY KeyFacts, SideFacts DEF Tree
<1>2. LastTurn \in Nat /\ \A x \in N :
        /\ Cardinality(D[x]) \in Nat /\ 1 =< Cardinality(D[x]) /\ Cardinality(D[x]) =< LastTurn
  BY SizeBelow
<1>3. ASSUME NEW x \in N, next[x] # Null
      PROVE  \A k \in D[x] : k \in D[next[x]] \/ Before(s, next[x], k)
  <2> DEFINE c == next[x]
  <2>1. D[x] = {x} \cup D[c] \cup Sub(D, m.child[o][x])
    BY <1>3, BelowFacts DEF Sub
  <2>2. c \in D[c] /\ c \in N
    BY <1>3, ChildFacts
  <2>3. Before(s, c, x)
    BY <1>3, <2>2 DEF Tree, Sub
  <2>4. \A k \in Sub(D, m.child[o][x]) : Before(o, k, x)
    BY <1>1 DEF Tree
  <2>5. \A k \in Sub(D, m.child[o][x]) : k \in Keys
    BY <1>1, <2>1
  <2>6. \A k \in Sub(D, m.child[o][x]) : Before(s, c, k)
    BY <1>1, <2>2, <2>3, <2>4, <2>5, OrderFacts
  <2> QED BY <2>1, <2>3, <2>6
<1>4. ASSUME NEW x \in N, Good(x), next[x] # Null
      PROVE  /\ Good(next[x]) /\ next[x] \in N
             /\ Cardinality(D[next[x]]) < Cardinality(D[x])
  <2> DEFINE c == next[x]
  <2>1. c \in N /\ c \in D[c] /\ D[c] \subseteq D[x] /\ Cardinality(D[c]) < Cardinality(D[x])
    BY <1>4, ChildFacts
  <2>2. Before(s, c, x)
    BY <1>4, <2>1 DEF Tree, Sub
  <2>3. D[x] \subseteq D[n]
    BY <1>4, Transitive
  <2>4. \A k \in D[n] : k \in D[x] \/ Before(s, c, k)
    BY <1>1, <1>4, <2>1, <2>2, OrderFacts
  <2> QED BY <1>3, <1>4, <2>1, <2>3, <2>4
<1>5. Good(n)
  BY <1>1
<1> HIDE DEF Good, next
<1>6. n \in G[LastTurn]
  BY <1>1, <1>2, <1>5
<1>7. \A j \in 1..LastTurn : \A x \in G[j] : (IF next[x] = Null THEN x ELSE next[x]) \in G[j - 1]
  <2> TAKE j \in 1..LastTurn
  <2>0. j \in 0..LastTurn /\ j - 1 \in 0..LastTurn
    BY <1>2
  <2> TAKE x \in G[j]
  <2>1. x \in N /\ Good(x) /\ (next[x] = Null \/ Cardinality(D[x]) =< j)
    BY <2>0
  <2>2. CASE next[x] = Null
    BY <2>0, <2>1, <2>2
  <2>3. CASE next[x] # Null
    <3>1. Good(next[x]) /\ next[x] \in N /\ Cardinality(D[next[x]]) < Cardinality(D[x])
      BY <1>4, <2>1, <2>3
    <3>2. Cardinality(D[next[x]]) =< j - 1
      BY <1>2, <2>1, <2>3, <3>1
    <3> QED BY <2>0, <2>3, <3>1, <3>2
  <2> QED BY <2>2, <2>3
<1>8. EndOf(n, next) \in G[0]
  <2> HIDE DEF G
  <2> QED BY <1>6, <1>7, WalkEnds
<1>9. y = EndOf(n, next)
  BY <1>1 DEF Extreme, next
<1>10. y \in N /\ Good(y) /\ next[y] = Null
  BY <1>2, <1>8, <1>9
<1> HIDE DEF y
<1>11. D[y] = {y} \cup Sub(D, m.child[o][y])
  BY <1>10, BelowFacts DEF Sub, next
<1>12. \A k \in Sub(D, m.child[o][y]) : k \in Keys /\ Before(o, k, y)
  BY <1>1, <1>10, <1>11 DEF Tree
<1>13. \A k \in Sub(D, m.child[o][y]) : Before(s, y, k)
  BY <1>1, <1>10, <1>12, OrderFacts
<1> QED BY <1>10, <1>11, <1>13 DEF Good, next, y

(* A node that is not below x comes before all that is, or after all.        *)
LEMMA Convex ==
  ASSUME NEW m, NEW N, NEW D, Tree(m, N, D), NEW x \in N, NEW k \in N, k \notin D[x]
  PROVE  \E s \in Sides : \A a \in D[x] : Before(s, a, k)
<1> DEFINE Q == {n \in N : x \in D[n] /\ k \in D[n]}
<1>1. /\ N \subseteq Keys /\ D \in [N -> SUBSET N] /\ Null \notin N /\ \A n \in N : n \in D[n]
  BY KeyFacts DEF Tree
<1>2. Q \subseteq N /\ Q # {}
  BY RootFacts
<1>3. PICK n \in Q : \A r \in Q : Cardinality(D[n]) =< Cardinality(D[r])
  BY <1>2, SmallestBelow
<1>4. n \in N /\ n # x /\ x \in D[n] /\ k \in D[n]
  OBVIOUS
<1>5. PICK s \in Sides : x \in Sub(D, m.child[s][n])
  BY <1>4 DEF Tree, Sides
<1> DEFINE c == m.child[s][n]
<1>6. c # Null /\ c \in N /\ x \in D[c] /\ D[x] \subseteq D[c] /\ Cardinality(D[c]) < Cardinality(D[n])
      /\ D[n] = {n} \cup D[c] \cup Sub(D, m.child[Other(s)][n])
  <2>1. c # Null /\ x \in D[c]
    BY <1>5 DEF Sub
  <2>2. c \in N /\ Cardinality(D[c]) < Cardinality(D[n])
    BY <1>4, <2>1, ChildFacts
  <2>3. D[x] \subseteq D[c]
    BY <2>1, <2>2, Transitive
  <2>4. D[n] = {n} \cup D[c] \cup Sub(D, m.child[Other(s)][n])
    BY <1>4, <2>1, BelowFacts DEF Sub
  <2> QED BY <2>1, <2>2, <2>3, <2>4
<1>7. \A a \in D[x] : Before(s, a, n) /\ a \in Keys
  BY <1>1, <1>4, <1>6 DEF Tree, Sub
<1>8. k \notin D[c]
  <2>1. c \in Q => Cardinality(D[n]) =< Cardinality(D[c])
    BY <1>3
  <2>2. Cardinality(D[n]) \in Nat /\ Cardinality(D[c]) \in Nat
    BY <1>4, <1>6, SizeBelow
  <2> QED BY <1>6, <2>1, <2>2
<1>9. CASE k = n
  BY <1>7, <1>9
<1>10. CASE k # n
  <2>1. k \in Sub(D, m.child[Other(s)][n])
    BY <1>4, <1>6, <1>8, <1>10
  <2>2. Before(Other(s), k, n)
    BY <1>4, <2>1, SideFacts DEF Tree
  <2>3. Before(s, n, k)
    BY <1>1, <1>4, <2>2, SideFacts, OrderFacts
  <2> QED BY <1>1, <1>4, <1>7, <2>3, OrderFacts
<1> QED BY <1>9, <1>10

(* r is the next node on side s of n, or there is none.                      *)
NextOn(N, n, s, r) ==
  \/ r = Null /\ \A k \in N : ~ Before(Other(s), n, k)
  \/ /\ r \in N /\ Before(Other(s), n, r)
     /\ \A k \in N : Before(Other(s), n, k) => k = r \/ Before(Other(s), r, k)

(* iot_node_next and iot_node_prev.                                          *)
LEMMA NeighbourFacts ==
  ASSUME NEW m, NEW N, NEW D, Tree(m, N, D), NEW n \in N, NEW s \in Sides
  PROVE  NextOn(N, n, s, Neighbour(m, n, s))
<1> DEFINE o == Other(s)
<1>1. /\ N \subseteq Keys /\ D \in [N -> SUBSET N] /\ Null \notin N /\ \A x \in N : x \in D[x]
      /\ o \in Sides /\ Other(o) = s
  BY KeyFacts, SideFacts DEF Tree
<1>2. CASE m.child[s][n] # Null
  <2> DEFINE c == m.child[s][n]
             r == Extreme(m, c, o)
  <2>1. c \in N /\ Neighbour(m, n, s) = r
    BY <1>1, <1>2, ChildFacts DEF Neighbour
  <2>2. r \in D[c] /\ r \in N /\ \A k \in D[c] : k = r \/ Before(o, r, k)
    BY <1>1, <2>1, ExtremeFacts
  <2>3. \A k \in D[c] : Before(s, k, n) /\ k \in Keys
    BY <1>1, <1>2, <2>1 DEF Tree, Sub
  <2>4. Before(o, n, r)
    BY <1>1, <2>2, <2>3, OrderFacts
  <2>5. ASSUME NEW k \in N, Before(o, n, k) PROVE k = r \/ Before(o, r, k)
    <3>1. CASE k \in D[c]
      BY <2>2, <3>1
    <3>2. CASE k \in D[n] /\ k \notin D[c]
      <4>1. D[n] = {n} \cup D[c] \cup Sub(D, m.child[o][n])
        BY <1>2, BelowFacts DEF Sub
      <4>2. k # n
        BY <1>1, <2>5, OrderFacts
      <4>3. Before(o, k, n)
        BY <1>1, <3>2, <4>1, <4>2 DEF Tree
      <4> QED BY <1>1, <2>5, <4>3, OrderFacts
    <3>3. CASE k \notin D[n]
      <4>1. PICK t \in Sides : \A a \in D[n] : Before(t, a, k)
        BY <3>3, Convex
      <4>2. n \in D[n] /\ r \in D[n]
        BY <1>1, <1>2, <2>1, <2>2, ChildFacts
      <4>3. t = s \/ t = o
        BY SideFacts
      <4> HIDE DEF r, o
      <4> QED BY <1>1, <2>5, <4>1, <4>2, <4>3, OrderFacts DEF o
    <3> QED BY <3>1, <3>2, <3>3
  <2> QED BY <2>1, <2>2, <2>4, <2>5 DEF NextOn
<1>3. CASE m.child[s][n] = Null
  <2> DEFINE next == Upward(m, s)
             Good(x) == n \in D[x] /\ \A k \in D[x] : k = n \/ Before(o, k, n)
             G == [j \in 0..LastTurn |->
                     {x \in N : Good(x) /\ (next[x] = Null \/ Cardinality(N) - Cardinality(D[x]) =< j)}]
             e == EndOf(n, next)
             r == m.parent[e]
  <2>1. /\ LastTurn \in Nat /\ Cardinality(N) \in Nat /\ Cardinality(N) =< LastTurn
        /\ \A x \in N : /\ Cardinality(D[x]) \in Nat /\ 1 =< Cardinality(D[x])
                        /\ Cardinality(D[x]) =< Cardinality(N)
    BY SizeBelow
  <2>2. \A x \in N : next[x] = IF m.parent[x] # Null /\ x = m.child[s][m.parent[x]]
                               THEN m.parent[x] ELSE Null
    BY <1>1 DEF Upward
  <2>3. Good(n)
    <3>1. D[n] = {n} \cup Sub(D, m.child[o][n])
      BY <1>3, BelowFacts DEF Sub
    <3> QED BY <1>1, <3>1 DEF Tree
  <2>4. ASSUME NEW x \in N, Good(x), next[x] # Null
        PROVE  /\ Good(next[x]) /\ next[x] \in N
               /\ Cardinality(D[x]) < Cardinality(D[next[x]])
    <3> DEFINE p == m.parent[x]
    <3>1. next[x] = p /\ p # Null /\ x = m.child[s][p]
      BY <2>2, <2>4
    <3>2. p \in N
      BY <3>1, RootFacts
    <3>3. D[x] \subseteq D[p] /\ Cardinality(D[x]) < Cardinality(D[p])
      BY <1>1, <3>1, <3>2, ChildFacts
    <3>4. D[p] = {p} \cup D[x] \cup Sub(D, m.child[o][p])
      BY <1>1, <3>1, <3>2, BelowFacts DEF Sub
    <3>5. Before(s, n, p) /\ n \in Keys
      BY <1>1, <2>4, <3>1, <3>2 DEF Tree, Sub
    <3>6. \A k \in Sub(D, m.child[o][p]) : Before(o, k, p) /\ k \in Keys
      BY <1>1, <3>2, <3>4 DEF Tree
    <3>7. Before(o, p, n)
      BY <1>1, <3>2, <3>5, OrderFacts
    <3>8. \A k \in Sub(D, m.child[o][p]) : Before(o, k, n)
      BY <1>1, <3>2, <3>5, <3>6, <3>7, OrderFacts
    <3> QED BY <2>4, <3>1, <3>2, <3>3, <3>4, <3>7, <3>8
  <2> HIDE DEF Good, next
  <2>5. n \in G[LastTurn]
    BY <2>1, <2>3
  <2>6. \A j \in 1..LastTurn : \A x \in G[j] : (IF next[x] = Null THEN x ELSE next[x]) \in G[j - 1]
    <3> TAKE j \in 1..LastTurn
    <3>0. j \in 0..LastTurn /\ j - 1 \in 0..LastTurn
      BY <2>1
    <3> TAKE x \in G[j]
    <3>1. x \in N /\ Good(x) /\ (next[x] = Null \/ Cardinality(N) - Cardinality(D[x]) =< j)
      BY <3>0
    <3>2. CASE next[x] = Null
      BY <3>0, <3>1, <3>2
    <3>3. CASE next[x] # Null
      <4>1. Good(next[x]) /\ next[x] \in N /\ Cardinality(D[x]) < Cardinality(D[next[x]])
        BY <2>4, <3>1, <3>3
      <4>2. Cardinality(N) - Cardinality(D[next[x]]) =< j - 1
        BY <2>1, <3>1, <3>3, <4>1
      <4> QED BY <3>0, <3>3, <4>1, <4>2
    <3> QED BY <3>2, <3>3
  <2>7. e \in G[0]
    <3> HIDE DEF G
    <3> QED BY <2>5, <2>6, WalkEnds
  <2>8. Neighbour(m, n, s) = r
    BY <1>3 DEF Neighbour, next
  <2> HIDE DEF e
  <2>9. e \in N /\ Good(e) /\ next[e] = Null
    <3>1. e \in N /\ Good(e) /\ (next[e] = Null \/ Cardinality(N) - Cardinality(D[e]) =< 0)
      BY <2>1, <2>7
    <3>2. ASSUME next[e] # Null PROVE FALSE
      <4>1. next[e] \in N /\ Cardinality(D[e]) < Cardinality(D[next[e]])
        BY <2>4, <3>1, <3>2
      <4> QED BY <2>1, <3>1, <3>2, <4>1
    <3> QED BY <3>1, <3>2
  <2>10. n \in D[e] /\ \A k \in D[e] : k = n \/ Before(o, k, n)
    BY <2>9 DEF Good
  <2>11. CASE r = Null
    <3>1. D[e] = N
      BY <2>9, <2>11, RootFacts
    <3>2. \A k \in N : ~ Before(o, n, k)
      BY <1>1, <2>10, <3>1, OrderFacts
    <3> QED BY <2>8, <2>11, <3>2 DEF NextOn
  <2>12. CASE r # Null
    <3>1. r \in N /\ m.child[SideOf(m, e)][r] = e /\ SideOf(m, e) \in Sides
      BY <2>9, <2>12, RootFacts
    <3>2. m.child[s][r] # e
      BY <2>2, <2>9, <2>12
    <3>3. m.child[o][r] = e
      BY <3>1, <3>2, SideFacts
    <3>4. Before(o, n, r)
      BY <1>1, <2>9, <2>10, <3>1, <3>3 DEF Tree, Sub
    <3>5. ASSUME NEW k \in N, Before(o, n, k) PROVE k = r \/ Before(o, r, k)
      <4>1. k \notin D[e]
        BY <1>1, <2>10, <3>5, OrderFacts
      <4>2. CASE k \in D[r]
        <5>1. D[r] = {r} \cup D[e] \cup Sub(D, m.child[s][r])
          BY <1>1, <2>9, <3>1, <3>3, BelowFacts DEF Sub
        <5>2. k = r \/ Before(s, k, r)
          BY <4>1, <4>2, <5>1, <3>1 DEF Tree
        <5> QED BY <1>1, <3>1, <5>2, OrderFacts
      <4>3. CASE k \notin D[r]
        <5>1. PICK t \in Sides : \A a \in D[r] : Before(t, a, k)
          BY <3>1, <4>3, Convex
        <5>2. r \in D[r] /\ n \in D[r]
          BY <1>1, <2>9, <2>10, <3>1, <3>3, ChildFacts
        <5>3. t = s \/ t = o
          BY SideFacts
        <5> HIDE DEF r, o
        <5> QED BY <1>1, <3>1, <3>5, <5>1, <5>2, <5>3, OrderFacts DEF o
      <4> QED BY <4>2, <4>3
    <3> QED BY <2>8, <3>1, <3>4, <3>5 DEF NextOn
  <2> QED BY <2>11, <2>12
<1> QED BY <1>2, <1>3

-----------------------------------------------------------------------------
(* Colours *)

(* The links of the keys that are not nodes, and what is not a link or a     *)
(* colour, stay as they are.                                                 *)
Kept(n, m, N) ==
  /\ SameContents(n, m)
  /\ \A x \in Keys \ N :
       n.parent[x] = m.parent[x] /\ \A s \in Sides : n.child[s][x] = m.child[s][x]

(* The red nodes with a red parent.                                          *)
RedPairs(m, N) ==
  {c \in N : m.red[c] /\ m.parent[c] # Null /\ m.red[m.parent[c]]}

BlackRoot(m) == m.root # Null => ~ m.red[m.root]

(* What two operations in a row leave alone.                                 *)
LEMMA KeptTwice ==
  ASSUME NEW m, NEW n, NEW r, NEW N, Kept(n, m, N), Kept(r, n, N)
  PROVE  Kept(r, m, N)
BY DEF Kept, SameContents

(* Painting a node changes no link.                                          *)
LEMMA RedSetKept ==
  ASSUME NEW n, NEW m, NEW k, NEW c, RedWasSet(n, m, k, c), NEW N
  PROVE  Kept(n, m, N) /\ \A D : Tree(m, N, D) => Tree(n, N, D)
BY TreeSame DEF RedWasSet, Kept

(* A rotation stays among the nodes.                                         *)
LEMMA RotatedKept ==
  ASSUME NEW m \in MapRec, NEW N, NEW D, Tree(m, N, D), NEW x \in N, NEW s \in Sides,
         m.child[Other(s)][x] # Null
  PROVE  LET n == Rotate(m, x, s)
             y == m.child[Other(s)][x]
         IN  /\ n \in MapRec /\ Kept(n, m, N) /\ n.red = m.red /\ (\E E : Tree(n, N, E))
             /\ y \in N /\ y # x
             /\ WasRotated(n, m, x, s, y, m.child[s][y], m.parent[x])
<1> DEFINE y == m.child[Other(s)][x]
           c == m.child[s][y]
           p == m.parent[x]
           n == Rotate(m, x, s)
<1>1. N \subseteq Keys /\ Other(s) \in Sides /\ Null \notin Keys
  BY SideFacts, KeyFacts DEF Tree
<1>2. y \in N /\ y # x /\ c \in N \cup {Null} /\ p \in N \cup {Null}
  <2>1. y \in N /\ y # x
    BY <1>1, ChildFacts
  <2>2. c \in N \cup {Null}
    BY <2>1, BelowFacts
  <2>3. p \in N \cup {Null}
    BY RootFacts
  <2> QED BY <2>1, <2>2, <2>3
<1>3. WasRotated(n, m, x, s, y, c, p)
  BY <1>1, <1>2, Rotated
<1> HIDE DEF n
<1>4. \E E : Tree(n, N, E)
  <2> HIDE DEF c, p
  <2> QED BY <1>1, <1>2, <1>3, RotatedTree DEF c, p
<1> HIDE DEF y, c, p
<1>5. Kept(n, m, N) /\ n.red = m.red /\ n \in MapRec
  <2>1. \A k \in Keys \ N : k # x /\ k # y /\ k # p /\ k # c
    BY <1>1, <1>2
  <2>2. SameContents(n, m) /\ n.red = m.red /\ n \in MapRec
    BY <1>3 DEF WasRotated, SameContents
  <2>3. \A k \in Keys \ N : n.parent[k] = m.parent[k]
    BY <1>3, <2>1 DEF WasRotated
  <2>4. \A k \in Keys \ N, t \in Sides : n.child[t][k] = m.child[t][k]
    BY <1>3, <2>1 DEF WasRotated
  <2> QED BY <2>2, <2>3, <2>4 DEF Kept
<1> QED BY <1>2, <1>3, <1>4, <1>5 DEF n, y, c, p

-----------------------------------------------------------------------------
(* Black nodes *)

(* How many black nodes a path meets from the child c on, if it meets B[c]   *)
(* of them after c.                                                          *)
Passed(m, B, c) == IF c = Null THEN 0 ELSE B[c] + (IF m.red[c] THEN 0 ELSE 1)

(* Every path down from a node n meets B[n] black nodes after n.             *)
Level(m, N, B) ==
  B \in [N -> Nat] /\ \A n \in N, s \in Sides : Passed(m, B, m.child[s][n]) = B[n]

Balanced(m, N) == \E B : Level(m, N, B)

(* A node is the child of one node, on one side.                             *)
LEMMA OneParent ==
  ASSUME NEW m, NEW N, NEW D, Tree(m, N, D), NEW j \in N, NEW k \in N,
         NEW s \in Sides, NEW t \in Sides, m.child[s][j] # Null, m.child[s][j] = m.child[t][k]
  PROVE  j = k /\ s = t
<1>1. j = k
  BY DEF Tree
<1>2. m.child[Other(s)][j] # m.child[s][j]
  BY ChildFacts
<1> QED BY <1>1, <1>2, SideFacts

(* y comes up from side s of g and g goes down; they exchange their colours. *)
WasSwung(r, m, N, g, s, y, c) ==
  /\ \A t \in Sides, k \in N :
       r.child[t][k] = IF k = g /\ t = s THEN c
                       ELSE IF k = y /\ t = Other(s) THEN g
                       ELSE IF k = m.parent[g] /\ t = SideOf(m, g) THEN y ELSE m.child[t][k]
  /\ \A k \in N : r.red[k] = IF k = y THEN m.red[g] ELSE IF k = g THEN m.red[y] ELSE m.red[k]

(* If y was red that changes no path.                                        *)
LEMMA SwungLevel ==
  ASSUME NEW m, NEW N, NEW D, Tree(m, N, D), NEW B, Level(m, N, B), NEW g \in N, NEW s \in Sides,
         NEW y, y = m.child[s][g], y # Null, m.red[y],
         NEW c, c = m.child[Other(s)][y], NEW r, WasSwung(r, m, N, g, s, y, c)
  PROVE  Level(r, N, B)
<1> DEFINE o == Other(s)
           q == SideOf(m, g)
<1>1. o \in Sides /\ o # s /\ Other(o) = s /\ Null \notin N /\ B \in [N -> Nat]
  BY SideFacts, KeyFacts DEF Tree, Level
<1>2. y \in N /\ y # g /\ m.parent[y] = g /\ c \in N \cup {Null} /\ c # y /\ c # g
  <2>1. y \in N /\ y # g /\ m.parent[y] = g
    BY ChildFacts
  <2>2. c \in N \cup {Null} /\ c # y
    BY <1>1, <2>1, BelowFacts
  <2>3. c # g
    BY <1>1, <2>1, ChildFacts
  <2> QED BY <2>1, <2>2, <2>3
<1>3. \A k \in N, t \in Sides : m.child[t][k] \in N \cup {Null} /\ Passed(m, B, m.child[t][k]) = B[k]
  BY DEF Tree, Level
<1>4. B[y] = B[g] /\ Passed(m, B, c) = B[y]
  <2>1. Passed(m, B, y) = B[g] /\ Passed(m, B, c) = B[y]
    BY <1>1, <1>2, <1>3
  <2> QED BY <1>1, <1>2, <2>1 DEF Passed
<1>5. r.red[y] = m.red[g] /\ r.red[g] = m.red[y] /\ \A k \in N \ {y, g} : r.red[k] = m.red[k]
  BY <1>2, ZenonT(60) DEF WasSwung
<1>6. ASSUME NEW k \in N, NEW t \in Sides
      PROVE  Passed(r, B, r.child[t][k]) = B[k]
  <2>1. CASE k = g /\ t = s
    <3>1. r.child[t][k] = c
      BY <2>1 DEF WasSwung
    <3>2. Passed(r, B, c) = Passed(m, B, c)
      BY <1>2, <1>5 DEF Passed
    <3> QED BY <1>4, <2>1, <3>1, <3>2
  <2>2. CASE k = y /\ t = o
    <3>1. r.child[t][k] = g
      BY <1>2, <2>2 DEF WasSwung
    <3>2. Passed(r, B, g) = B[g]
      BY <1>1, <1>5 DEF Passed
    <3> QED BY <1>4, <2>2, <3>1, <3>2
  <2>3. CASE k = m.parent[g] /\ t = q /\ ~ (k = g /\ t = s) /\ ~ (k = y /\ t = o)
    <3>1. r.child[t][k] = y
      BY <2>3 DEF WasSwung
    <3>2. m.child[t][k] = g
      BY <1>1, <2>3, RootFacts
    <3>3. Passed(r, B, y) = Passed(m, B, g)
      BY <1>1, <1>2, <1>4, <1>5 DEF Passed
    <3> QED BY <1>3, <3>1, <3>2, <3>3
  <2>4. CASE /\ ~ (k = g /\ t = s) /\ ~ (k = y /\ t = o)
             /\ ~ (k = m.parent[g] /\ t = q)
    <3> DEFINE e == m.child[t][k]
    <3>1. r.child[t][k] = e
      BY <2>4 DEF WasSwung
    <3>2. e # y
      <4>1. e = y => k = g /\ t = s
        BY OneParent
      <4> QED BY <2>4, <4>1
    <3>3. e # g
      <4> SUFFICES ASSUME e = g PROVE FALSE
        OBVIOUS
      <4>1. m.parent[g] = k /\ k # Null
        BY <1>1 DEF Tree
      <4>2. m.child[q][k] = g /\ q \in Sides
        BY <4>1, RootFacts
      <4>3. t = q
        <5> HIDE DEF q
        <5> QED BY <1>1, <4>2, OneParent
      <4> QED BY <2>4, <4>1, <4>3
    <3>4. Passed(r, B, e) = Passed(m, B, e)
      <4>1. e \in N \cup {Null}
        BY <1>3
      <4> HIDE DEF e
      <4> QED BY <1>5, <3>2, <3>3, <4>1 DEF Passed
    <3> QED BY <1>3, <3>1, <3>4
  <2> QED BY <2>1, <2>2, <2>3, <2>4
<1> QED BY <1>1, <1>6 DEF Level

(* A black node that turns red, and its red children that turn black.        *)
WasBlushed(r, m, N, g, y, u) ==
  /\ r.child = m.child
  /\ \A k \in N : r.red[k] = IF k = u THEN FALSE ELSE IF k = g THEN TRUE
                             ELSE IF k = y THEN FALSE ELSE m.red[k]

(* Black moves down one step: no path has more or less of it.                *)
LEMMA BlushedLevel ==
  ASSUME NEW m, NEW N, NEW D, Tree(m, N, D), NEW B, Level(m, N, B), NEW g \in N, ~ m.red[g],
         NEW s \in Sides, NEW y, y = m.child[s][g], y # Null, m.red[y],
         NEW u, u = m.child[Other(s)][g], u # Null, m.red[u], NEW r, WasBlushed(r, m, N, g, y, u)
  PROVE  Balanced(r, N)
<1> DEFINE E == [k \in N |-> IF k = g THEN B[g] + 1 ELSE B[k]]
<1>1. Other(s) \in Sides /\ Null \notin N /\ B \in [N -> Nat]
  BY SideFacts, KeyFacts DEF Tree, Level
<1>2. y \in N /\ y # g /\ u \in N /\ u # g
  BY <1>1, ChildFacts
<1>3. \A k \in N, t \in Sides : m.child[t][k] \in N \cup {Null} /\ Passed(m, B, m.child[t][k]) = B[k]
  BY DEF Tree, Level
<1>4. Passed(m, B, y) = B[g] /\ Passed(m, B, u) = B[g]
  BY <1>1, <1>3
<1>5. B[y] = B[g] /\ B[u] = B[g] /\ B[g] \in Nat
  BY <1>1, <1>2, <1>4 DEF Passed
<1>6. E \in [N -> Nat] /\ E[g] = B[g] + 1 /\ \A k \in N \ {g} : E[k] = B[k]
  BY <1>1
<1> HIDE DEF E
<1>6a. /\ ~ r.red[u] /\ ~ r.red[y] /\ r.red[g]
       /\ \A k \in N : k # u /\ k # y /\ k # g => r.red[k] = m.red[k]
  BY <1>2 DEF WasBlushed
<1>7. ASSUME NEW k \in N, NEW t \in Sides
      PROVE  Passed(r, E, m.child[t][k]) = E[k]
  <2> DEFINE e == m.child[t][k]
  <2>1. e \in N \cup {Null} /\ Passed(m, B, e) = B[k]
    BY <1>3
  <2>2. CASE e = y \/ e = u
    <3>1. k = g
      BY <1>1, <2>2, OneParent
    <3>2. Passed(r, E, e) = B[g] + 1
      BY <1>1, <1>2, <1>5, <1>6, <1>6a, <2>2 DEF Passed
    <3> QED BY <1>6, <3>1, <3>2
  <2>3. CASE e # y /\ e # u
    <3>1. k # g
      <4> SUFFICES ASSUME k = g PROVE FALSE
        OBVIOUS
      <4>1. t = s \/ t = Other(s)
        BY SideFacts
      <4> QED BY <2>3, <4>1
    <3> HIDE DEF e
    <3>2. CASE e = g
      <4>1. Passed(r, E, g) = B[g] + 1 /\ Passed(m, B, g) = B[g] + 1
        BY <1>1, <1>5, <1>6, <1>6a DEF Passed
      <4> QED BY <1>6, <2>1, <3>1, <3>2, <4>1 DEF e
    <3>3. CASE e # g
      <4>1. Passed(r, E, e) = Passed(m, B, e)
        BY <1>6, <1>6a, <2>1, <2>3, <3>3 DEF Passed
      <4> QED BY <1>6, <2>1, <3>1, <4>1 DEF e
    <3> QED BY <3>2, <3>3
  <2> QED BY <2>2, <2>3
<1>8. Level(r, N, E)
  BY <1>6, <1>7 DEF Level, WasBlushed
<1> QED BY <1>8 DEF Balanced

(* No path goes through the root.                                            *)
LEMMA RootPainted ==
  ASSUME NEW m, NEW N, NEW D, Tree(m, N, D), NEW r, RedWasSet(r, m, m.root, FALSE), Balanced(m, N)
  PROVE  Balanced(r, N)
<1>1. PICK B : Level(m, N, B)
  BY DEF Balanced
<1>2. N \subseteq Keys /\ Null \notin N
  BY KeyFacts DEF Tree
<1>3. ASSUME NEW k \in N, NEW t \in Sides
      PROVE  Passed(r, B, m.child[t][k]) = B[k]
  <2> DEFINE e == m.child[t][k]
  <2>1. e \in N \cup {Null} /\ Passed(m, B, e) = B[k]
    BY <1>1 DEF Tree, Level
  <2>2. e # Null => e # m.root
    <3> SUFFICES ASSUME e # Null, e = m.root PROVE FALSE
      OBVIOUS
    <3>1. m.parent[e] = k
      BY DEF Tree
    <3> QED BY <1>2, <3>1 DEF Tree
  <2> HIDE DEF e
  <2>3. Passed(r, B, e) = Passed(m, B, e)
    BY <1>2, <2>1, <2>2 DEF Passed, RedWasSet
  <2> QED BY <2>1, <2>3 DEF e
<1>4. Level(r, N, B)
  BY <1>1, <1>3 DEF Level, RedWasSet
<1> QED BY <1>4 DEF Balanced

-----------------------------------------------------------------------------
(* Insertion *)

(* A red node y on side s of a black one g, with a red child z on that side: *)
(* repainted and turned, no two reds meet.                                   *)
LEMMA OuterTurn ==
  ASSUME NEW m \in MapRec, NEW N, NEW D, Tree(m, N, D), NEW g \in N, NEW s \in Sides,
         NEW y, y = m.child[s][g], y # Null, m.red[y], ~ m.red[g],
         NEW z, z = m.child[s][y], z # Null,
         ~ IsRed(m, m.child[Other(s)][g]), RedPairs(m, N) \subseteq {z}, BlackRoot(m)
  PROVE  LET r == Rotate(Repaint(m, y, g), g, Other(s)) IN
         /\ r \in MapRec /\ Kept(r, m, N) /\ (\E E : Tree(r, N, E))
         /\ RedPairs(r, N) = {} /\ BlackRoot(r)
         /\ r.parent[z] = y /\ ~ r.red[y] /\ (r.red[z] <=> m.red[z]) /\ y \in N /\ z \in N
         /\ Balanced(m, N) => Balanced(r, N)
<1> DEFINE o == Other(s)
           u == m.child[o][g]
           c == m.child[o][y]
           a == SetRed(m, y, FALSE)
           b == SetRed(a, g, TRUE)
           r == Rotate(b, g, o)
<1>1. /\ o \in Sides /\ o # s /\ Other(o) = s
      /\ N \subseteq Keys /\ D \in [N -> SUBSET N] /\ Null \notin Keys
  BY SideFacts, KeyFacts DEF Tree
<1>2. y \in N /\ y # g /\ m.parent[y] = g /\ c \in N \cup {Null} /\ (c # Null => m.parent[c] = y /\ c # z)
      /\ z \in N /\ z # y /\ z # g /\ m.parent[z] = y
  <2>1. y \in N /\ y # g /\ m.parent[y] = g
    BY ChildFacts
  <2>2. c \in N \cup {Null} /\ z \in N /\ z # y /\ m.parent[z] = y
    BY <2>1, BelowFacts, ChildFacts
  <2>3. c # Null => m.parent[c] = y /\ c # z
    BY <1>1, <2>1, ChildFacts
  <2>4. z # g
    BY <2>1, <2>2, ChildFacts
  <2> QED BY <2>1, <2>2, <2>3, <2>4
<1>3. RedWasSet(a, m, y, FALSE)
  BY <1>1, <1>2, RedSet
<1>4. Rotate(Repaint(m, y, g), g, Other(s)) = r
  BY DEF Repaint
<1> HIDE DEF a
<1>5. RedWasSet(b, a, g, TRUE)
  BY <1>1, <1>3, RedSet DEF RedWasSet, SameContents
<1> HIDE DEF b
<1>6. /\ b \in MapRec /\ Kept(b, m, N) /\ Tree(b, N, D)
      /\ b.root = m.root /\ b.child = m.child /\ b.parent = m.parent
      /\ \A x \in Keys : b.red[x] = IF x = g THEN TRUE ELSE IF x = y THEN FALSE ELSE m.red[x]
  <2>1. Kept(a, m, N) /\ Tree(a, N, D)
    BY <1>3, RedSetKept
  <2>2. Kept(b, a, N) /\ Tree(b, N, D)
    BY <1>5, <2>1, RedSetKept
  <2>3. Kept(b, m, N)
    BY <2>1, <2>2, KeptTwice
  <2> QED BY <1>1, <1>3, <1>5, <2>2, <2>3 DEF RedWasSet, SameContents
<1>7. /\ r \in MapRec /\ Kept(r, b, N) /\ r.red = b.red /\ (\E E : Tree(r, N, E))
      /\ WasRotated(r, b, g, o, y, c, m.parent[g])
  BY <1>1, <1>6, RotatedKept
<1> HIDE DEF r
<1>8. Kept(r, m, N)
  BY <1>6, <1>7, KeptTwice
<1>9. \A k \in N : r.parent[k] = IF k = g THEN y ELSE IF k = c THEN g
                                 ELSE IF k = y THEN m.parent[g] ELSE m.parent[k]
  BY <1>1, <1>6, <1>7 DEF WasRotated
<1>10. r.root = IF m.parent[g] = Null THEN y ELSE m.root
  BY <1>6, <1>7 DEF WasRotated
<1>11. \A x \in Keys : r.red[x] = IF x = g THEN TRUE ELSE IF x = y THEN FALSE ELSE m.red[x]
  BY <1>6, <1>7
<1>12. c # Null => ~ m.red[c]
  BY <1>1, <1>2 DEF RedPairs
<1>13. \A k \in N : m.parent[k] = g => k = y \/ (k # Null /\ k = u)
  <2> TAKE k \in N
  <2> HAVE m.parent[k] = g
  <2>1. m.parent[k] # Null /\ k # Null
    BY <1>1
  <2>2. m.child[SideOf(m, k)][g] = k /\ SideOf(m, k) \in Sides
    BY <2>1, RootFacts
  <2> QED BY <2>1, <2>2, SideFacts
<1>14. \A k \in N : m.red[k] /\ m.parent[k] # Null /\ m.red[m.parent[k]] => k = z
  BY DEF RedPairs
<1>15. ASSUME NEW k \in N, r.red[k], r.parent[k] # Null, r.red[r.parent[k]] PROVE FALSE
  <2>1. k \in Keys /\ g \in Keys /\ y \in Keys /\ k # Null
    BY <1>1, <1>2
  <2>2. k # g
    BY <1>2, <1>9, <1>11, <1>15, <2>1
  <2>3. k # y
    BY <1>2, <1>11, <1>15, <2>1
  <2>4. k # c
    BY <1>11, <1>12, <1>15, <2>1, <2>2, <2>3
  <2>5. r.parent[k] = m.parent[k] /\ m.red[k]
    BY <1>9, <1>11, <1>15, <2>1, <2>2, <2>3, <2>4
  <2>6. m.parent[k] \in N
    BY <1>15, <2>5, RootFacts
  <2>7. m.parent[k] # g
    BY <1>13, <2>3, <2>5 DEF IsRed
  <2>8. m.parent[k] # y
    BY <1>1, <1>2, <1>11, <1>15, <2>1, <2>5
  <2>9. m.red[m.parent[k]]
    BY <1>1, <1>11, <1>15, <2>5, <2>6, <2>7, <2>8
  <2> QED BY <1>2, <1>14, <1>15, <2>5, <2>8, <2>9
<1>16. RedPairs(r, N) = {}
  BY <1>15 DEF RedPairs
<1>17. BlackRoot(r)
  <2>1. CASE m.parent[g] = Null
    BY <1>1, <1>2, <1>10, <1>11, <2>1 DEF BlackRoot
  <2>2. CASE m.parent[g] # Null
    <3>1. m.root # g /\ m.root \in N
      BY <2>2, RootFacts
    <3> QED BY <1>1, <1>10, <1>11, <2>2, <3>1 DEF BlackRoot
  <2> QED BY <2>1, <2>2
<1>18. r.parent[z] = y /\ ~ r.red[y] /\ (r.red[z] <=> m.red[z])
  BY <1>1, <1>2, <1>9, <1>11
<1>19. WasSwung(r, m, N, g, s, y, c)
  <2>1. SideOf(b, g) = SideOf(m, g)
    BY <1>6 DEF SideOf
  <2>2. \A t \in Sides, k \in N :
          r.child[t][k] = IF k = g /\ t = s THEN c
                          ELSE IF k = y /\ t = o THEN g
                          ELSE IF k = m.parent[g] /\ t = SideOf(m, g) THEN y ELSE m.child[t][k]
    BY <1>1, <1>6, <1>7, <2>1 DEF WasRotated
  <2>3. r.red[y] = m.red[g] /\ r.red[g] = m.red[y] /\ \A k \in N \ {y, g} : r.red[k] = m.red[k]
    <3>1. m.red[g] = FALSE /\ m.red[y] = TRUE
      BY <1>1, <1>2 DEF MapRec
    <3>2. r.red[y] = FALSE /\ r.red[g] = TRUE
      BY <1>1, <1>2, <1>11
    <3> QED BY <1>1, <1>11, <3>1, <3>2
  <2> HIDE DEF c
  <2> QED BY <1>2, <2>2, <2>3 DEF WasSwung
<1>20. Balanced(m, N) => Balanced(r, N)
  <2> SUFFICES ASSUME NEW B, Level(m, N, B) PROVE Level(r, N, B)
    BY DEF Balanced
  <2> QED BY <1>19, SwungLevel
<1> QED BY <1>2, <1>4, <1>7, <1>8, <1>16, <1>17, <1>18, <1>20

(* One turn: either no two reds meet any more, or the only place where they  *)
(* may has come up to the grandparent.                                       *)
LEMMA InsertTurned ==
  ASSUME NEW m \in MapRec, NEW N, NEW D, Tree(m, N, D), NEW k \in N, m.red[k],
         RedPairs(m, N) \subseteq {k}, k # m.root => BlackRoot(m), ~ InsertEnds(m, k)
  PROVE  \E r, x :
           /\ InsertTurn(m, k) = <<r, x>>
           /\ r \in MapRec /\ Kept(r, m, N) /\ x \in N /\ r.red[x]
           /\ RedPairs(r, N) \subseteq {x} /\ (x # r.root => BlackRoot(r))
           /\ Balanced(m, N) => Balanced(r, N)
           /\ \/ InsertEnds(r, x) /\ \E E : Tree(r, N, E)
              \/ Tree(r, N, D) /\ Cardinality(D[k]) < Cardinality(D[x])
<1> DEFINE p == m.parent[k]
           g == m.parent[p]
           s == SideOf(m, p)
           o == Other(s)
           u == m.child[o][g]
           inner == SideOf(m, k) = o
<1>1. N \subseteq Keys /\ D \in [N -> SUBSET N] /\ Null \notin Keys
  BY KeyFacts DEF Tree
<1>2. k # m.root /\ m.red[p] /\ p # Null /\ BlackRoot(m) /\ m.root \in N /\ ~ m.red[m.root]
  BY <1>1, RootFacts DEF InsertEnds, IsRed, BlackRoot
<1>3. p \in N /\ p # k /\ p # m.root /\ m.child[SideOf(m, k)][p] = k /\ SideOf(m, k) \in Sides
  BY <1>2, RootFacts
<1>4. g \in N /\ g # Null /\ g # p /\ m.child[s][g] = p /\ s \in Sides
  BY <1>1, <1>3, RootFacts
<1>5. g # k
  <2>1. k \in D[p] /\ p \in D[g] /\ g \notin D[p]
    BY <1>1, <1>2, <1>3, <1>4, ChildFacts
  <2> QED BY <2>1
<1>6. ~ m.red[g]
  BY <1>2, <1>3, <1>4, <1>1 DEF RedPairs
<1>7. /\ o \in Sides /\ o # s /\ Other(o) = s /\ u \in N \cup {Null} /\ u # p /\ u # g
      /\ (u # Null => m.parent[u] = g)
  <2>1. o \in Sides /\ o # s /\ Other(o) = s
    BY <1>4, SideFacts
  <2>2. u \in N \cup {Null} /\ u # g
    BY <1>4, BelowFacts
  <2>3. u # p
    BY <1>1, <1>3, <1>4, ChildFacts
  <2>4. u # Null => m.parent[u] = g
    BY <1>4, <2>1, ChildFacts
  <2> QED BY <2>1, <2>2, <2>3, <2>4
<1>8. InsertTurn(m, k) =
        CASE IsRed(m, u) -> <<SetRed(Repaint(m, p, g), u, FALSE), g>>
          [] ~IsRed(m, u) /\ inner -> <<Rotate(Repaint(Rotate(m, p, s), k, g), g, o), p>>
          [] OTHER -> <<Rotate(Repaint(m, p, g), g, o), k>>
  BY DEF InsertTurn
<1>9. CASE IsRed(m, u)
  <2> DEFINE a == SetRed(m, p, FALSE)
             b == SetRed(a, g, TRUE)
             r == SetRed(b, u, FALSE)
  <2>1. InsertTurn(m, k) = <<r, g>>
    BY <1>8, <1>9 DEF Repaint
  <2>2. RedWasSet(a, m, p, FALSE)
    BY <1>1, <1>3, RedSet
  <2> HIDE DEF a
  <2>3. RedWasSet(b, a, g, TRUE)
    <3>1. a \in MapRec /\ g \in Keys
      BY <1>1, <1>4, <2>2 DEF RedWasSet, SameContents
    <3> HIDE DEF g
    <3> QED BY <3>1, RedSet
  <2> HIDE DEF b
  <2>4. RedWasSet(r, b, u, FALSE)
    <3>1. b \in MapRec /\ u \in Keys \cup {Null}
      BY <1>1, <1>7, <2>3 DEF RedWasSet, SameContents
    <3> HIDE DEF u
    <3> QED BY <3>1, RedSet
  <2> HIDE DEF r
  <2>5. Kept(r, m, N) /\ Tree(r, N, D)
    <3>1. Kept(a, m, N) /\ Tree(a, N, D)
      BY <2>2, RedSetKept
    <3>2. Kept(b, a, N) /\ Tree(b, N, D)
      BY <2>3, <3>1, RedSetKept
    <3>3. Kept(r, b, N) /\ Tree(r, N, D)
      BY <2>4, <3>2, RedSetKept
    <3> QED BY <3>1, <3>2, <3>3, KeptTwice
  <2>6. /\ r \in MapRec /\ r.root = m.root /\ r.parent = m.parent
        /\ \A x \in Keys : r.red[x] = IF x = u THEN FALSE ELSE IF x = g THEN TRUE
                                      ELSE IF x = p THEN FALSE ELSE m.red[x]
    <3> HIDE DEF p, g, u
    <3>1. /\ r \in MapRec /\ r.root = m.root /\ r.parent = m.parent
      BY <2>2, <2>3, <2>4 DEF RedWasSet, SameContents
    <3>2. \A x \in Keys : r.red[x] = IF x = u THEN FALSE ELSE IF x = g THEN TRUE
                                   ELSE IF x = p THEN FALSE ELSE m.red[x]
      BY <2>2, <2>3, <2>4 DEF RedWasSet
    <3> QED BY <3>1, <3>2
  <2>7. r.red[g]
    BY <1>1, <1>4, <1>7, <2>6
  <2>8. RedPairs(r, N) \subseteq {g}
    <3> SUFFICES ASSUME NEW w \in RedPairs(r, N), w # g PROVE FALSE
      OBVIOUS
    <3>1. w \in N /\ r.red[w] /\ m.parent[w] # Null /\ r.red[m.parent[w]] /\ m.parent[w] \in N
      <4>1. w \in N /\ r.red[w] /\ m.parent[w] # Null /\ r.red[m.parent[w]]
        BY <2>6 DEF RedPairs
      <4> QED BY <4>1, RootFacts
    <3>2. m.red[w] /\ w # u /\ w # p
      BY <1>1, <1>3, <2>6, <3>1
    <3>3. m.parent[w] = g => w = p \/ w = u
      <4> HAVE m.parent[w] = g
      <4>1. w \in N /\ m.child[SideOf(m, w)][g] = w /\ SideOf(m, w) \in Sides
        BY <3>1, RootFacts
      <4> QED BY <1>4, <4>1, SideFacts
    <3>4. m.parent[w] # g /\ m.red[m.parent[w]] /\ m.parent[w] # p
      BY <1>1, <1>3, <2>6, <3>1, <3>2, <3>3
    <3>5. w \in RedPairs(m, N)
      BY <3>1, <3>2, <3>4 DEF RedPairs
    <3> QED BY <3>4, <3>5
  <2>9. g # r.root => BlackRoot(r)
    BY <1>1, <1>2, <2>6 DEF BlackRoot
  <2>10. Cardinality(D[k]) < Cardinality(D[g])
    <3>1. Cardinality(D[k]) < Cardinality(D[p])
      BY <1>1, <1>3, ChildFacts
    <3>2. Cardinality(D[p]) < Cardinality(D[g])
      BY <1>2, <1>4, ChildFacts
    <3>3. Cardinality(D[k]) \in Nat /\ Cardinality(D[p]) \in Nat /\ Cardinality(D[g]) \in Nat
      BY <1>3, <1>4, SizeBelow
    <3> HIDE DEF p, g
    <3> QED BY <3>1, <3>2, <3>3
  <2>11. WasBlushed(r, m, N, g, p, u)
    <3> HIDE DEF p, g, u
    <3>1. r.child = m.child
      BY <2>2, <2>3, <2>4 DEF RedWasSet
    <3> QED BY <1>1, <2>6, <3>1 DEF WasBlushed
  <2>12. Balanced(m, N) => Balanced(r, N)
    <3> SUFFICES ASSUME NEW B, Level(m, N, B) PROVE Balanced(r, N)
      BY DEF Balanced
    <3>1. u = m.child[Other(s)][g] /\ u # Null /\ m.red[u] /\ p = m.child[s][g]
      BY <1>4, <1>9 DEF IsRed
    <3> HIDE DEF p, g, u, s, o
    <3> QED BY <1>2, <1>4, <1>6, <2>11, <3>1, BlushedLevel
  <2> QED BY <1>4, <2>1, <2>5, <2>6, <2>7, <2>8, <2>9, <2>10, <2>12
<1>10. CASE ~ IsRed(m, u) /\ ~ inner
  <2> DEFINE r == Rotate(Repaint(m, p, g), g, o)
  <2>1. InsertTurn(m, k) = <<r, k>>
    BY <1>8, <1>10
  <2>2. m.child[s][p] = k
    BY <1>3, <1>4, <1>10, SideFacts
  <2>3. /\ r \in MapRec /\ Kept(r, m, N) /\ (\E E : Tree(r, N, E))
        /\ RedPairs(r, N) = {} /\ BlackRoot(r)
        /\ r.parent[k] = p /\ ~ r.red[p] /\ (r.red[k] <=> m.red[k])
        /\ Balanced(m, N) => Balanced(r, N)
    <3>1. k # Null
      BY <1>1
    <3> HIDE DEF r
    <3> HIDE DEF p, g, s, o, u
    <3>2. ~ IsRed(m, m.child[Other(s)][g])
      BY <1>10 DEF u, o
    <3> QED BY <1>2, <1>4, <1>6, <2>2, <3>1, <3>2, OuterTurn DEF r, o
  <2>4. InsertEnds(r, k)
    BY <2>3 DEF InsertEnds, IsRed
  <2> HIDE DEF r
  <2> QED BY <2>1, <2>3, <2>4
<1>11. CASE ~ IsRed(m, u) /\ inner
  <2> DEFINE n == Rotate(m, p, s)
             r == Rotate(Repaint(n, k, g), g, o)
             c == m.child[s][k]
  <2>1. InsertTurn(m, k) = <<r, p>>
    BY <1>8, <1>11
  <2>2. m.child[o][p] = k
    BY <1>3, <1>11
  <2>3. /\ n \in MapRec /\ Kept(n, m, N) /\ n.red = m.red /\ (\E E : Tree(n, N, E))
        /\ WasRotated(n, m, p, s, k, c, g)
    <3> HIDE DEF p, g, s, o
    <3> HIDE DEF n
    <3>1. k # Null
      BY <1>1
    <3> QED BY <1>3, <1>4, <2>2, <3>1, RotatedKept DEF n, g, o
  <2> HIDE DEF n
  <2>4. c # k /\ c # p /\ (c # Null => m.parent[c] = k /\ c \in N)
    <3>1. c # k /\ (c # Null => c \in N /\ m.parent[c] = k)
      BY <1>4, ChildFacts, BelowFacts
    <3>2. m.parent[p] = g /\ p # Null
      BY <1>2, SMTT(30)
    <3> QED BY <1>5, <3>1, <3>2
  <2>5. n.child[s][g] = k /\ n.child[s][k] = p /\ n.child[o][g] = u /\ n.root = m.root
    BY <1>1, <1>3, <1>4, <1>5, <1>7, <2>3 DEF WasRotated
  <2>6. \A w \in N : n.parent[w] = IF w = p THEN k ELSE IF w = c THEN p
                                   ELSE IF w = k THEN g ELSE m.parent[w]
    BY <1>1, <2>3 DEF WasRotated
  <2>7. RedPairs(n, N) \subseteq {p}
    <3> SUFFICES ASSUME NEW w \in RedPairs(n, N), w # p PROVE FALSE
      OBVIOUS
    <3>1. w \in N /\ m.red[w] /\ n.parent[w] # Null /\ m.red[n.parent[w]]
      BY <2>3 DEF RedPairs
    <3>2. w # k
      BY <1>6, <2>4, <2>6, <3>1
    <3>3. w # c
      <4> SUFFICES ASSUME w = c PROVE FALSE
        OBVIOUS
      <4>1. m.parent[w] = k /\ k # Null
        BY <1>1, <2>4, <3>1
      <4>2. w \in RedPairs(m, N)
        BY <3>1, <4>1 DEF RedPairs
      <4> QED BY <2>4, <4>2
    <3>4. n.parent[w] = m.parent[w]
      BY <2>6, <3>1, <3>2, <3>3
    <3>5. w \in RedPairs(m, N)
      BY <3>1, <3>4 DEF RedPairs
    <3> QED BY <3>2, <3>5
  <2>8. BlackRoot(n)
    BY <1>2, <2>3, <2>5 DEF BlackRoot
  <2>9. /\ r \in MapRec /\ Kept(r, n, N) /\ (\E E : Tree(r, N, E))
        /\ RedPairs(r, N) = {} /\ BlackRoot(r)
        /\ r.parent[p] = k /\ ~ r.red[k] /\ (r.red[p] <=> n.red[p])
        /\ Balanced(n, N) => Balanced(r, N)
    <3>1. k # Null
      BY <1>1
    <3> HIDE DEF r
    <3> HIDE DEF p, g, s, o, u, c
    <3>2. ~ IsRed(n, n.child[Other(s)][g])
      BY <1>11, <2>3, <2>5 DEF o, IsRed
    <3>3. PICK E : Tree(n, N, E)
      BY <2>3
    <3>4. n.red[k] /\ ~ n.red[g]
      BY <1>6, <2>3
    <3> QED BY <1>2, <1>4, <2>3, <2>5, <2>7, <2>8, <3>1, <3>2, <3>3, <3>4, OuterTurn DEF r, o
  <2>10. Kept(r, m, N)
    BY <2>3, <2>9, KeptTwice
  <2>11. InsertEnds(r, p)
    BY <2>9 DEF InsertEnds, IsRed
  <2>12. r.red[p]
    BY <1>2, <2>3, <2>9
  <2> HIDE DEF r
  <2>13. WasSwung(n, m, N, p, o, k, c)
    <3> HIDE DEF p, g, s, c
    <3>1. m.red[p] = m.red[k] /\ g = m.parent[p]
      BY <1>1, <1>2, <1>3 DEF MapRec, g
    <3>2. Other(o) = s
      BY <1>7
    <3> HIDE DEF o
    <3>3. \A t \in Sides, j \in N :
            n.child[t][j] = IF j = p /\ t = o THEN c
                            ELSE IF j = k /\ t = Other(o) THEN p
                            ELSE IF j = m.parent[p] /\ t = SideOf(m, p) THEN k ELSE m.child[t][j]
      <4>1. \A j \in N : j \in Keys
        BY <1>1
      <4>2. o = Other(s)
        BY DEF o
      <4> QED BY ONLY <2>3, <3>1, <3>2, <4>1, <4>2 DEF WasRotated
    <3>4. n.red = m.red
      BY <2>3
    <3> QED BY <3>1, <3>3, <3>4 DEF WasSwung
  <2>14. Balanced(m, N) => Balanced(n, N)
    <3> SUFFICES ASSUME NEW B, Level(m, N, B) PROVE Level(n, N, B)
      BY DEF Balanced
    <3>1. k # Null /\ c = m.child[Other(o)][k] /\ o \in Sides
      BY <1>1, <1>7
    <3> HIDE DEF p, o, c, s, g
    <3> QED BY <1>3, <2>2, <2>13, <3>1, SwungLevel
  <2> HIDE DEF p
  <2> QED BY <1>3, <2>1, <2>9, <2>10, <2>11, <2>12, <2>14
<1> QED BY <1>9, <1>10, <1>11

(* Only below the root are all nodes.                                        *)
LEMMA SizeBelowRoot ==
  ASSUME NEW m, NEW N, NEW D, Tree(m, N, D), NEW x \in N, x # m.root
  PROVE  Cardinality(D[x]) < Cardinality(N)
<1> DEFINE p == m.parent[x]
           s == SideOf(m, x)
<1>0. x # Null
  BY KeyFacts DEF Tree
<1>1. p \in N /\ m.child[s][p] = x /\ s \in Sides /\ x # Null
  BY <1>0, RootFacts
<1> HIDE DEF p, s
<1>2. Cardinality(D[x]) < Cardinality(D[p])
  BY <1>1, ChildFacts
<1>3. Cardinality(D[p]) =< Cardinality(N) /\ Cardinality(N) \in Nat
      /\ Cardinality(D[x]) \in Nat /\ Cardinality(D[p]) \in Nat
  BY <1>1, SizeBelow
<1> QED BY <1>2, <1>3

(* iot_node_insert_balance ends, with a red-black tree.                      *)
LEMMA InsertBalanced ==
  ASSUME NEW m \in MapRec, NEW N, NEW D, Tree(m, N, D), NEW k \in N, m.red[k],
         RedPairs(m, N) \subseteq {k}, k # m.root => BlackRoot(m)
  PROVE  LET n == InsertBalance(m, k) IN
         /\ n \in MapRec /\ Kept(n, m, N) /\ (\E E : Tree(n, N, E))
         /\ RedPairs(n, N) = {} /\ BlackRoot(n)
         /\ Balanced(m, N) => Balanced(n, N)
<1> DEFINE x0 == <<m, k>>
           Loop(f) ==
             [i \in Turns |->
                IF i = 0 THEN x0
                ELSE LET t == f[i - 1]
                     IN  IF InsertEnds(t[1], t[2]) THEN t ELSE InsertTurn(t[1], t[2])]
           loop == CHOOSE f : f = Loop(f)
           b == loop[LastTurn][1]
           Good(r, x) ==
             /\ r \in MapRec /\ Kept(r, m, N) /\ (\E E : Tree(r, N, E))
             /\ x \in N /\ r.red[x] /\ RedPairs(r, N) \subseteq {x} /\ (x # r.root => BlackRoot(r))
             /\ Balanced(m, N) => Balanced(r, N)
           Near(r, x, j) ==
             \/ InsertEnds(r, x)
             \/ \E E : Tree(r, N, E) /\ Cardinality(N) - Cardinality(E[x]) =< j
           G == [j \in 0..LastTurn |->
                   {t \in MapRec \X Keys : Good(t[1], t[2]) /\ Near(t[1], t[2], j)}]
           X == UNION {G[j] : j \in 0..LastTurn}
           step == [t \in X |-> IF InsertEnds(t[1], t[2]) THEN t ELSE InsertTurn(t[1], t[2])]
<1>1. InsertBalance(m, k) = SetRed(b, b.root, FALSE)
  BY DEF InsertBalance
<1>2. LastTurn \in Nat /\ Cardinality(N) \in Nat /\ Cardinality(N) =< LastTurn /\ N \subseteq Keys
  BY SizeBelow DEF Tree
<1>3. \A r, E : Tree(r, N, E) => \A x \in N : Cardinality(E[x]) \in Nat /\ Cardinality(E[x]) =< Cardinality(N)
  BY SizeBelow
<1>4. ASSUME NEW j \in 1..LastTurn, NEW t \in G[j]
      PROVE  (IF InsertEnds(t[1], t[2]) THEN t ELSE InsertTurn(t[1], t[2])) \in G[j - 1]
  <2>0. j \in 0..LastTurn /\ j - 1 \in 0..LastTurn
    BY <1>2
  <2> DEFINE r == t[1]
             x == t[2]
  <2>1. t \in MapRec \X Keys /\ Good(r, x) /\ Near(r, x, j)
    BY <2>0
  <2>2. CASE InsertEnds(r, x)
    BY <2>0, <2>1, <2>2
  <2>3. CASE ~ InsertEnds(r, x)
    <3> HIDE DEF r, x
    <3>1. PICK E : Tree(r, N, E) /\ Cardinality(N) - Cardinality(E[x]) =< j
      BY <2>1, <2>3
    <3>2. PICK r2, x2 :
            /\ InsertTurn(r, x) = <<r2, x2>>
            /\ r2 \in MapRec /\ Kept(r2, r, N) /\ x2 \in N /\ r2.red[x2]
            /\ RedPairs(r2, N) \subseteq {x2} /\ (x2 # r2.root => BlackRoot(r2))
            /\ Balanced(r, N) => Balanced(r2, N)
            /\ \/ InsertEnds(r2, x2) /\ \E F : Tree(r2, N, F)
               \/ Tree(r2, N, E) /\ Cardinality(E[x]) < Cardinality(E[x2])
      BY <2>1, <2>3, <3>1, InsertTurned
    <3>3. Good(r2, x2)
      BY <2>1, <3>2, KeptTwice
    <3>4. Near(r2, x2, j - 1)
      <4>1. CASE InsertEnds(r2, x2)
        BY <4>1
      <4>2. CASE Tree(r2, N, E) /\ Cardinality(E[x]) < Cardinality(E[x2])
        <5>1. Cardinality(N) - Cardinality(E[x2]) =< j - 1
          BY <1>2, <1>3, <2>1, <3>1, <3>2, <4>2
        <5> QED BY <4>2, <5>1
      <4> QED BY <3>2, <4>1, <4>2
    <3> HIDE DEF Good, Near
    <3>5. <<r2, x2>> \in G[j - 1]
      BY <1>2, <2>0, <3>2, <3>3, <3>4
    <3> HIDE DEF G
    <3> QED BY <2>3, <3>2, <3>5 DEF r, x
  <2> QED BY <2>2, <2>3
<1>5. x0 \in G[LastTurn]
  <2>1. Kept(m, m, N)
    BY DEF Kept, SameContents
  <2>2. Good(m, k)
    BY <2>1
  <2>3. Near(m, k, LastTurn)
    BY <1>2, <1>3
  <2> HIDE DEF Good, Near
  <2> QED BY <1>2, <2>2, <2>3
<1> HIDE DEF G, x0
<1>6. \A j \in 0..LastTurn : \A t \in G[j] : t \in X
  OBVIOUS
<1> HIDE DEF X
<1>7. \A j \in 1..LastTurn : \A t \in G[j] : step[t] \in G[j - 1]
  BY <1>2, <1>4, <1>6
<1>8. PICK f : RunsIn(f, LastTurn, G, step, x0)
  <2>1. LastTurn \in Nat
    BY <1>2
  <2> HIDE DEF step, Loop, loop, Good, Near
  <2> QED BY <1>5, <1>7, <2>1, LoopExists
<1>9. f = Loop(f)
  <2>1. ASSUME NEW i \in 0..LastTurn, i # 0 PROVE f[i - 1] \in X
    <3>1. i - 1 \in 0..LastTurn /\ LastTurn - (i - 1) \in 0..LastTurn
      BY <1>2, <2>1
    <3> QED BY <1>6, <1>8, <3>1 DEF RunsIn
  <2>2. \A i \in 0..LastTurn : i # 0 =>
          step[f[i - 1]] = (IF InsertEnds(f[i - 1][1], f[i - 1][2]) THEN f[i - 1]
                            ELSE InsertTurn(f[i - 1][1], f[i - 1][2]))
    BY <2>1
  <2> HIDE DEF step
  <2> QED BY <1>8, <2>2 DEF RunsIn, Turns, LastTurn
<1>10. loop = Loop(loop)
  <2> HIDE DEF Loop
  <2> QED BY <1>9
<1> HIDE DEF loop
<1>11. /\ loop[0] = x0
       /\ \A i \in 1..LastTurn :
            loop[i] = IF InsertEnds(loop[i - 1][1], loop[i - 1][2]) THEN loop[i - 1]
                      ELSE InsertTurn(loop[i - 1][1], loop[i - 1][2])
  <2>1. \A i \in Turns : loop[i] = Loop(loop)[i]
    BY <1>10
  <2>2. 0 \in Turns /\ \A i \in 1..LastTurn : i \in Turns /\ i # 0
    BY <1>2 DEF Turns, LastTurn
  <2> QED BY <2>1, <2>2
<1> HIDE DEF Loop
<1>12. \A i \in 1..LastTurn : loop[i - 1] \in G[(LastTurn - i) + 1] => loop[i] \in G[LastTurn - i]
  <2> TAKE i \in 1..LastTurn
  <2>1. (LastTurn - i) + 1 \in 1..LastTurn /\ ((LastTurn - i) + 1) - 1 = LastTurn - i
    BY <1>2
  <2> QED BY <1>4, <1>11, <2>1
<1>13. loop[LastTurn] \in G[0]
  BY <1>2, <1>5, <1>11, <1>12, LoopEnds
<1> DEFINE x == loop[LastTurn][2]
<1>14. b \in MapRec /\ Good(b, x) /\ Near(b, x, 0)
  BY <1>2, <1>13 DEF G
<1> HIDE DEF b, x
<1>15. PICK E : Tree(b, N, E)
  BY <1>14
<1>16. InsertEnds(b, x)
  <2>1. ASSUME NEW F, Tree(b, N, F), Cardinality(N) - Cardinality(F[x]) =< 0
        PROVE  x = b.root
    <3>1. Cardinality(F[x]) \in Nat
      BY <1>3, <1>14, <2>1
    <3> QED BY <1>2, <1>14, <2>1, <3>1, SizeBelowRoot
  <2> QED BY <1>14, <2>1 DEF InsertEnds
<1>17. RedPairs(b, N) = {} /\ b.root \in Keys
  <2>1. x \notin RedPairs(b, N)
    BY <1>15, <1>14, <1>16, RootFacts DEF InsertEnds, RedPairs, IsRed
  <2> QED BY <1>2, <1>14, <1>15, <2>1, RootFacts
<1> DEFINE n == SetRed(b, b.root, FALSE)
<1>18. RedWasSet(n, b, b.root, FALSE)
  BY <1>14, <1>17, RedSet
<1> HIDE DEF n
<1>19. Kept(n, b, N) /\ Tree(n, N, E)
  BY <1>15, <1>18, RedSetKept
<1>20. n \in MapRec /\ Kept(n, m, N)
  BY <1>14, <1>18, <1>19, KeptTwice DEF RedWasSet, SameContents
<1>21. RedPairs(n, N) = {}
  <2> SUFFICES ASSUME NEW w \in RedPairs(n, N) PROVE FALSE
    OBVIOUS
  <2>1. w \in N /\ n.red[w] /\ b.parent[w] # Null /\ n.red[b.parent[w]]
    BY <1>18 DEF RedPairs, RedWasSet
  <2>2. b.parent[w] \in N
    BY <1>15, <2>1, RootFacts
  <2>3. w \in RedPairs(b, N)
    BY <1>2, <1>18, <2>1, <2>2 DEF RedPairs, RedWasSet
  <2> QED BY <1>17, <2>3
<1>22. BlackRoot(n)
  BY <1>17, <1>18 DEF BlackRoot, RedWasSet
<1>23. Balanced(m, N) => Balanced(n, N)
  BY <1>14, <1>15, <1>18, RootPainted
<1> QED BY <1>1, <1>19, <1>20, <1>21, <1>22, <1>23 DEF n

WasLinked(n, m, k, y) ==
  /\ SameContents(n, m) /\ n.root = m.root
  /\ \A t \in Sides, x \in Keys :
       n.child[t][x] = IF x = y /\ t = Towards(k, y) THEN k ELSE m.child[t][x]
  /\ \A x \in Keys : n.parent[x] = IF x = k THEN y ELSE m.parent[x]
  /\ \A x \in Keys : n.red[x] = IF x = k THEN TRUE ELSE m.red[x]

(* The keys K have no links.                                                 *)
Bare(m, K) == \A k \in K : m.parent[k] = Null /\ \A s \in Sides : m.child[s][k] = Null

(* A search for k goes to the side of the node where k belongs.              *)
LEMMA TowardsFacts ==
  ASSUME NEW k \in Keys, NEW n \in Keys
  PROVE  Towards(k, n) \in Sides /\ (n # k => Before(Towards(k, n), k, n))
<1>1. k \in Nat /\ n \in Nat
  BY KeyFacts
<1> QED BY <1>1 DEF Towards, Sides, Before

(* Linked under the last node of the search, a new key is in its place.      *)
LEMMA LinkedTree ==
  ASSUME NEW m \in MapRec, NEW N, NEW D, Tree(m, N, D), m.root # Null,
         NEW k \in Keys \ N, Bare(m, {k})
  PROVE  LET y == Nearest(m, k)
             n == Linked(m, k, y)
         IN  y \in N /\ WasLinked(n, m, k, y) /\ \E E : Tree(n, N \cup {k}, E)
<1> DEFINE y == Nearest(m, k)
           T == Towards(k, y)
           n == Linked(m, k, y)
           K == N \cup {k}
           E == [x \in K |-> IF x = k THEN {k} ELSE IF y \in D[x] THEN D[x] \cup {k} ELSE D[x]]
<1>1. N \subseteq Keys /\ D \in [N -> SUBSET N] /\ Null \notin N /\ k # Null /\ k \notin N
      /\ \A x \in N : x \in D[x]
  BY KeyFacts DEF Tree
<1>2. /\ y \in N /\ y # k /\ m.child[T][y] = Null
      /\ \A x \in N : y \in D[x] /\ x # y => y \in Sub(D, m.child[Towards(k, x)][x])
  BY NearestFacts
<1> HIDE DEF y
<1>3. T \in Sides
  BY <1>1, <1>2, TowardsFacts
<1>4. WasLinked(n, m, k, y)
  BY <1>1, <1>2, <1>3 DEF Linked, WasLinked, SameContents, Contents, MapRec
<1> HIDE DEF n, T
<1>5. /\ n.root = m.root /\ n.child[T][y] = k
      /\ \A t \in Sides : n.child[t][k] = Null
      /\ \A x \in N, t \in Sides : x # y \/ t # T => n.child[t][x] = m.child[t][x]
      /\ \A x \in N : n.parent[x] = m.parent[x]
      /\ n.parent[k] = y
  BY <1>1, <1>2, <1>3, <1>4 DEF WasLinked, Bare, T
<1>6. /\ E \in [K -> SUBSET K] /\ E[k] = {k}
      /\ \A x \in N : E[x] = IF y \in D[x] THEN D[x] \cup {k} ELSE D[x]
  BY <1>1
<1> HIDE DEF E
<1>7. /\ m.root \in N /\ D[m.root] = N /\ m.parent[m.root] = Null
  BY <1>2, RootFacts
<1>8. n.root \in K \cup {Null} /\ K = Sub(E, n.root) /\ n.parent[n.root] = Null
  BY <1>1, <1>2, <1>5, <1>6, <1>7 DEF Sub
<1>9. \A x \in N, t \in Sides : m.child[t][x] \in N \cup {Null}
  BY DEF Tree
<1>10. \A x \in N, t \in Sides : x # y \/ t # T =>
         Sub(E, n.child[t][x]) = Sub(D, m.child[t][x]) \cup
                                 IF y \in Sub(D, m.child[t][x]) THEN {k} ELSE {}
  BY <1>1, <1>5, <1>6, <1>9 DEF Sub
<1>11. \A t \in Sides : y \notin Sub(D, m.child[t][y])
  BY <1>2, BelowFacts
<1>12. \A x \in K, t \in Sides :
         /\ n.child[t][x] \in K \cup {Null}
         /\ n.child[t][x] # Null => n.parent[n.child[t][x]] = x
  <2> TAKE x \in K, t \in Sides
  <2>1. CASE x = k
    BY <1>5, <2>1
  <2>2. CASE x = y /\ t = T
    BY <1>5, <2>2
  <2>3. CASE x \in N /\ (x # y \/ t # T)
    <3>1. n.child[t][x] = m.child[t][x] /\ m.child[t][x] \in N \cup {Null}
      BY <1>5, <1>9, <2>3
    <3>2. n.child[t][x] # Null => m.parent[m.child[t][x]] = x
      BY <2>3, <3>1 DEF Tree
    <3> QED BY <1>5, <3>1, <3>2
  <2> QED BY <2>1, <2>2, <2>3
<1>13. \A x \in K, t \in Sides : \A z \in Sub(E, n.child[t][x]) : Before(t, z, x)
  <2> SUFFICES ASSUME NEW x \in K, NEW t \in Sides, NEW z \in Sub(E, n.child[t][x])
               PROVE  Before(t, z, x)
    OBVIOUS
  <2>1. x # k
    BY <1>5 DEF Sub
  <2>2. CASE x = y /\ t = T
    <3>1. z = k
      BY <1>1, <1>5, <1>6, <2>2 DEF Sub
    <3>2. k \in Keys /\ y \in Keys
      BY <1>1, <1>2
    <3> QED BY <1>2, <2>2, <3>1, <3>2, TowardsFacts DEF T
  <2>3. CASE x # y \/ t # T
    <3>1. x \in N
      BY <2>1
    <3>2. CASE z \in Sub(D, m.child[t][x])
      BY <3>1, <3>2 DEF Tree
    <3>3. CASE z = k /\ y \in Sub(D, m.child[t][x])
      <4>1. y \in D[x] /\ x # y
        BY <1>11, <3>1, <3>3, BelowFacts
      <4>2. y \in Sub(D, m.child[Towards(k, x)][x]) /\ Towards(k, x) \in Sides
        BY <1>1, <1>2, <3>1, <4>1, TowardsFacts
      <4>3. t = Towards(k, x)
        <5>1. Towards(k, x) # t => Towards(k, x) = Other(t)
          BY <4>2, SideFacts
        <5>2. Sub(D, m.child[t][x]) \cap Sub(D, m.child[Other(t)][x]) = {}
          BY <3>1, BelowFacts
        <5> QED BY <3>3, <4>2, <5>1, <5>2
      <4> QED BY <1>1, <2>1, <3>1, <3>3, <4>3, TowardsFacts
    <3> QED BY <1>10, <2>3, <3>1, <3>2, <3>3
  <2> QED BY <2>2, <2>3
<1>14. \A x \in K :
         E[x] = {x} \cup Sub(E, n.child["left"][x]) \cup Sub(E, n.child["right"][x])
  <2> SUFFICES ASSUME NEW x \in K, NEW t \in Sides, t = IF x = y THEN T ELSE "left"
               PROVE  E[x] = {x} \cup Sub(E, n.child[t][x]) \cup Sub(E, n.child[Other(t)][x])
    BY <1>3, SideFacts DEF Sides, Other
  <2>1. CASE x = k
    BY <1>5, <1>6, <2>1, SideFacts DEF Sub
  <2>2. CASE x \in N
    <3>1. D[x] = {x} \cup Sub(D, m.child[t][x]) \cup Sub(D, m.child[Other(t)][x])
      BY <2>2, BelowFacts
    <3>2. Other(t) \in Sides /\ Other(t) # t
      BY SideFacts
    <3>3. CASE x = y
      <4>1. Sub(D, m.child[t][x]) = {}
        BY <1>2, <3>3 DEF Sub
      <4>2. Sub(E, n.child[t][x]) = {k}
        BY <1>1, <1>5, <1>6, <3>3 DEF Sub
      <4>3. Sub(E, n.child[Other(t)][x]) = Sub(D, m.child[Other(t)][x])
        <5>1. Other(t) # T /\ y \notin Sub(D, m.child[Other(t)][x])
          BY <1>11, <3>2, <3>3
        <5>2. Sub(E, n.child[Other(t)][x]) = Sub(D, m.child[Other(t)][x]) \cup
                IF y \in Sub(D, m.child[Other(t)][x]) THEN {k} ELSE {}
          BY <1>10, <2>2, <3>2, <5>1
        <5> QED BY <5>1, <5>2
      <4> QED BY <1>1, <1>6, <2>2, <3>1, <3>3, <4>1, <4>2, <4>3
    <3>4. CASE x # y
      <4>1. /\ Sub(E, n.child[t][x]) = Sub(D, m.child[t][x]) \cup
                                       IF y \in Sub(D, m.child[t][x]) THEN {k} ELSE {}
            /\ Sub(E, n.child[Other(t)][x]) = Sub(D, m.child[Other(t)][x]) \cup
                                       IF y \in Sub(D, m.child[Other(t)][x]) THEN {k} ELSE {}
        BY <1>10, <2>2, <3>2, <3>4
      <4>2. y \in D[x] <=> y \in Sub(D, m.child[t][x]) \/ y \in Sub(D, m.child[Other(t)][x])
        BY <3>1, <3>4
      <4>3. E[x] = IF y \in D[x] THEN D[x] \cup {k} ELSE D[x]
        BY <1>6, <2>2
      <4> QED BY <3>1, <4>1, <4>2, <4>3
    <3> QED BY <3>3, <3>4
  <2> QED BY <2>1, <2>2
<1>15. Tree(n, K, E)
  <2>1. K \subseteq Keys
    BY <1>1
  <2> QED BY <1>6, <1>8, <1>12, <1>13, <1>14, <2>1 DEF Tree
<1> QED BY <1>2, <1>4, <1>15 DEF n, y

(* iot_node_add leaves a red-black tree with one node more.                  *)
LEMMA Inserted ==
  ASSUME NEW m \in MapRec, NEW N, NEW D, Tree(m, N, D), RedPairs(m, N) = {}, BlackRoot(m),
         NEW k \in Keys \ N, Bare(m, Keys \ N)
  PROVE  LET n == Insert(m, k)
             K == N \cup {k}
         IN  /\ n \in MapRec /\ SameContents(n, m) /\ (\E E : Tree(n, K, E))
             /\ RedPairs(n, K) = {} /\ BlackRoot(n) /\ Bare(n, Keys \ K)
             /\ Balanced(m, N) => Balanced(n, K)
<1> DEFINE K == N \cup {k}
<1>1. N \subseteq Keys /\ Null \notin N /\ k # Null /\ k \notin N /\ Null \notin Keys /\ K \subseteq Keys
  BY KeyFacts DEF Tree
<1>2. CASE m.root = Null
  <2> DEFINE n == [m EXCEPT !.root = k, !.red[k] = FALSE]
             E == [x \in {k} |-> {k}]
  <2>1. Insert(m, k) = n
    BY <1>2 DEF Insert
  <2>2. N = {}
    BY <1>2 DEF Tree, Sub
  <2>3. /\ n \in MapRec /\ SameContents(n, m) /\ n.root = k /\ n.child = m.child
        /\ n.parent = m.parent /\ n.red[k] = FALSE
    BY DEF MapRec, SameContents, Contents
  <2> HIDE DEF n
  <2>4. m.parent[k] = Null /\ \A s \in Sides : m.child[s][k] = Null
    BY <1>1 DEF Bare
  <2>5. E \in [K -> SUBSET K] /\ E[k] = {k} /\ K = {k}
    BY <2>2
  <2> HIDE DEF E
  <2>6. Tree(n, K, E)
    <3>1. /\ n.root \in K /\ Sub(E, n.root) = {k} /\ n.parent[n.root] = Null
          /\ \A s \in Sides : n.child[s][k] = Null
      BY <1>1, <2>3, <2>4, <2>5 DEF Sub
    <3>2. E[k] = {k} \cup Sub(E, n.child["left"][k]) \cup Sub(E, n.child["right"][k])
      BY <2>5, <3>1 DEF Sub, Sides
    <3>3. \A x \in K : x = k
      BY <2>5
    <3>4. \A s \in Sides : Sub(E, n.child[s][k]) = {}
      BY <3>1 DEF Sub
    <3> QED BY <1>1, <2>5, <3>1, <3>2, <3>3, <3>4 DEF Tree
  <2>7. RedPairs(n, K) = {} /\ BlackRoot(n) /\ Bare(n, Keys \ K)
    BY <1>1, <2>2, <2>3, <2>5 DEF RedPairs, BlackRoot, Bare
  <2>8. Balanced(n, K)
    <3> DEFINE B == [x \in {k} |-> 0]
    <3>1. B \in [K -> Nat] /\ B[k] = 0 /\ \A x \in K : x = k
      BY <2>5
    <3> HIDE DEF B
    <3>2. \A s \in Sides : Passed(n, B, n.child[s][k]) = 0
      BY <2>3, <2>4 DEF Passed
    <3>3. Level(n, K, B)
      BY <3>1, <3>2 DEF Level
    <3> QED BY <3>3 DEF Balanced
  <2> QED BY <2>1, <2>3, <2>6, <2>7, <2>8
<1>3. CASE m.root # Null
  <2> DEFINE y == Nearest(m, k)
             l == Linked(m, k, y)
             n == IF m.parent[y] # Null THEN InsertBalance(l, k) ELSE l
  <2>1. Insert(m, k) = n
    BY <1>3 DEF Insert
  <2>2. y \in N /\ WasLinked(l, m, k, y) /\ \E E : Tree(l, K, E)
    BY <1>1, <1>3, LinkedTree DEF Bare
  <2> HIDE DEF y, l
  <2>3. PICK E : Tree(l, K, E)
    BY <2>2
  <2>4. /\ l \in MapRec /\ SameContents(l, m) /\ l.root = m.root /\ l.red[k]
        /\ \A x \in N : l.parent[x] = m.parent[x] /\ (l.red[x] <=> m.red[x])
        /\ l.parent[k] = y
    BY <1>1, <2>2 DEF WasLinked, SameContents
  <2>5. Bare(l, Keys \ K)
    <3>1. \A x \in Keys \ K : x # k /\ x # y /\ m.parent[x] = Null /\ \A s \in Sides : m.child[s][x] = Null
      BY <2>2 DEF Bare
    <3> QED BY <2>2, <3>1 DEF WasLinked, Bare
  <2>6. m.root \in N /\ m.root # k /\ ~ m.red[m.root] /\ BlackRoot(l)
    <3>1. m.root \in N
      BY <2>2, RootFacts
    <3> QED BY <1>1, <1>3, <2>4, <3>1 DEF BlackRoot
  <2>7. RedPairs(l, K) \subseteq {k}
    <3> SUFFICES ASSUME NEW w \in RedPairs(l, K), w # k PROVE FALSE
      OBVIOUS
    <3>1. w \in N /\ m.red[w] /\ m.parent[w] # Null /\ l.red[m.parent[w]]
      BY <2>4 DEF RedPairs
    <3>2. m.parent[w] \in N
      BY <3>1, RootFacts
    <3> QED BY <2>4, <3>1, <3>2 DEF RedPairs
  <2>7a. Balanced(m, N) => Balanced(l, K)
    <3> SUFFICES ASSUME NEW B, Level(m, N, B) PROVE Balanced(l, K)
      BY DEF Balanced
    <3> DEFINE H == [x \in K |-> IF x = k THEN 0 ELSE B[x]]
    <3>1. H \in [K -> Nat] /\ H[k] = 0 /\ \A x \in N : H[x] = B[x]
      BY <1>1 DEF Level
    <3> HIDE DEF H
    <3>2. \A t \in Sides : l.child[t][k] = Null
      BY <1>1, <2>2 DEF WasLinked, Bare
    <3>3. ASSUME NEW x \in N, NEW t \in Sides
          PROVE  Passed(l, H, l.child[t][x]) = H[x]
      <4> DEFINE e == m.child[t][x]
      <4>1. Passed(m, B, e) = B[x] /\ e \in N \cup {Null}
        BY DEF Level, Tree
      <4>2. CASE x = y /\ t = Towards(k, y)
        <5>1. l.child[t][x] = k
          BY <1>1, <2>2, <4>2 DEF WasLinked
        <5>2. Passed(l, H, k) = 0
          BY <1>1, <2>4, <3>1 DEF Passed
        <5>3. e = Null
          BY <1>1, <1>3, <4>2, NearestFacts DEF y
        <5>4. B[x] = 0
          BY <4>1, <5>3 DEF Passed
        <5> QED BY <3>1, <5>1, <5>2, <5>4
      <4>3. CASE ~ (x = y /\ t = Towards(k, y))
        <5>1. l.child[t][x] = e
          BY <1>1, <2>2, <4>3 DEF WasLinked
        <5> HIDE DEF e
        <5>2. Passed(l, H, e) = Passed(m, B, e)
          BY <1>1, <2>4, <3>1, <4>1 DEF Passed
        <5> QED BY <3>1, <4>1, <5>1, <5>2
      <4> QED BY <4>2, <4>3
    <3>4. \A t \in Sides : Passed(l, H, l.child[t][k]) = H[k]
      BY <3>1, <3>2 DEF Passed
    <3>5. Level(l, K, H)
      BY <3>1, <3>3, <3>4 DEF Level
    <3> QED BY <3>5 DEF Balanced
  <2>8. CASE m.parent[y] # Null
    <3> DEFINE b == InsertBalance(l, k)
    <3>1. /\ b \in MapRec /\ Kept(b, l, K) /\ (\E F : Tree(b, K, F))
          /\ RedPairs(b, K) = {} /\ BlackRoot(b)
          /\ Balanced(l, K) => Balanced(b, K)
      <4> HIDE DEF K
      <4>1. k \in K
        BY DEF K
      <4> QED BY <2>3, <2>4, <2>6, <2>7, <4>1, InsertBalanced
    <3>2. n = b
      BY <2>8
    <3> HIDE DEF b
    <3>3. Bare(b, Keys \ K) /\ SameContents(b, m)
      BY <2>4, <2>5, <3>1 DEF Kept, Bare, SameContents
    <3> QED BY <2>1, <2>7a, <3>1, <3>2, <3>3
  <2>9. CASE m.parent[y] = Null
    <3>1. y = m.root
      BY <2>2, <2>9, RootFacts
    <3>2. k \notin RedPairs(l, K)
      BY <2>4, <2>6, <3>1 DEF RedPairs
    <3>3. n = l
      BY <2>9
    <3> QED BY <2>1, <2>3, <2>4, <2>5, <2>6, <2>7, <2>7a, <3>2, <3>3
  <2> QED BY <2>8, <2>9
<1> QED BY <1>2, <1>3

-----------------------------------------------------------------------------
(* Removal *)

(* A node without a child on side s gives its place to the other child.      *)
LEMMA ShortcutTree ==
  ASSUME NEW m, NEW N, NEW D, Tree(m, N, D), NEW z \in N, NEW s \in Sides,
         m.child[s][z] = Null, NEW v, v = m.child[Other(s)][z], NEW n,
         WasTransplanted(n, m, z, v)
  PROVE  Tree(n, N \ {z}, [a \in N \ {z} |-> D[a] \ {z}])
<1> DEFINE p == m.parent[z]
           q == SideOf(m, z)
           K == N \ {z}
           E == [a \in K |-> D[a] \ {z}]
<1>1. /\ N \subseteq Keys /\ D \in [N -> SUBSET N] /\ Null \notin N /\ z # Null
      /\ \A a \in N : a \in D[a]
  BY KeyFacts DEF Tree
<1>2. /\ D[z] = {z} \cup Sub(D, v) /\ v \in N \cup {Null} /\ v # z /\ z \notin Sub(D, v)
      /\ (v # Null => m.parent[v] = z)
  <2>1. D[z] = {z} \cup Sub(D, v) /\ v \in N \cup {Null} /\ v # z /\ z \notin Sub(D, v)
    BY BelowFacts DEF Sub
  <2>2. v # Null => m.parent[v] = z
    BY SideFacts DEF Tree
  <2> QED BY <2>1, <2>2
<1>3. /\ p = Null => z = m.root
      /\ p # Null => p \in N /\ p # z /\ m.child[q][p] = z /\ q \in Sides /\ z # m.root
  BY RootFacts
<1>4. /\ n.root = IF p = Null THEN v ELSE m.root
      /\ \A t \in Sides, a \in N : n.child[t][a] = IF a = p /\ t = q THEN v ELSE m.child[t][a]
      /\ \A a \in N : n.parent[a] = IF a = v THEN p ELSE m.parent[a]
  BY <1>1 DEF WasTransplanted, WasHung
<1>5. E \in [K -> SUBSET K] /\ \A a \in K : E[a] = D[a] \ {z}
  BY <1>1
<1> HIDE DEF E, p, q
<1>6. \A a \in K, t \in Sides : m.child[t][a] \in N \cup {Null}
  BY DEF Tree
<1>7. \A a \in K, t \in Sides : ~ (a = p /\ t = q) =>
        n.child[t][a] = m.child[t][a] /\ m.child[t][a] # z
  <2> TAKE a \in K, t \in Sides
  <2> HAVE ~ (a = p /\ t = q)
  <2>1. m.child[t][a] = z => a = p
    BY <1>1 DEF Tree, p
  <2>2. a = p => t = Other(q)
    BY <1>1, <1>3, SideFacts
  <2>3. a = p => m.child[Other(q)][a] # z
    BY <1>1, <1>3, ChildFacts
  <2> QED BY <1>4, <2>1, <2>2, <2>3
<1>8. Sub(E, v) = Sub(D, v)
  <2>1. CASE v = Null
    BY <2>1 DEF Sub
  <2>2. CASE v # Null
    <3>1. v \in K /\ z \notin D[v]
      BY <1>2, <2>2 DEF Sub
    <3>2. E[v] = D[v] \ {z}
      BY <1>5, <3>1
    <3>3. D[v] \ {z} = D[v]
      BY <3>1
    <3> QED BY <2>2, <3>2, <3>3 DEF Sub
  <2> QED BY <2>1, <2>2
<1>9. \A a \in K, t \in Sides : /\ n.child[t][a] \in K \cup {Null}
                                /\ Sub(E, n.child[t][a]) = Sub(D, m.child[t][a]) \ {z}
  <2> TAKE a \in K, t \in Sides
  <2>1. CASE a = p /\ t = q
    <3>1. n.child[t][a] = v /\ m.child[t][a] = z
      BY <1>1, <1>3, <1>4, <2>1
    <3> QED BY <1>1, <1>2, <1>8, <3>1 DEF Sub
  <2>2. CASE ~ (a = p /\ t = q)
    BY <1>1, <1>5, <1>6, <1>7, <2>2 DEF Sub
  <2> QED BY <2>1, <2>2
<1>10. \A a \in K, t \in Sides : n.child[t][a] # Null => n.parent[n.child[t][a]] = a
  <2> TAKE a \in K, t \in Sides
  <2> HAVE n.child[t][a] # Null
  <2>1. CASE a = p /\ t = q
    BY <1>2, <1>4, <2>1
  <2>2. CASE ~ (a = p /\ t = q)
    <3>1. n.child[t][a] = m.child[t][a] /\ m.child[t][a] \in N
      BY <1>6, <1>7, <2>2
    <3>2. m.parent[m.child[t][a]] = a
      BY <3>1 DEF Tree
    <3> QED BY <1>2, <1>4, <3>1, <3>2
  <2> QED BY <2>1, <2>2
<1>11. \A a \in K, t \in Sides : \A x \in Sub(E, n.child[t][a]) : Before(t, x, a)
  <2> TAKE a \in K, t \in Sides
  <2> TAKE x \in Sub(E, n.child[t][a])
  <2>1. x \in Sub(D, m.child[t][a])
    BY <1>9
  <2> QED BY <2>1 DEF Tree
<1>12. \A a \in K :
         E[a] = {a} \cup Sub(E, n.child["left"][a]) \cup Sub(E, n.child["right"][a])
  <2> TAKE a \in K
  <2>1. D[a] = {a} \cup Sub(D, m.child["left"][a]) \cup Sub(D, m.child["right"][a])
    BY DEF Tree
  <2>2. /\ Sub(E, n.child["left"][a]) = Sub(D, m.child["left"][a]) \ {z}
        /\ Sub(E, n.child["right"][a]) = Sub(D, m.child["right"][a]) \ {z}
    BY <1>9, SideFacts
  <2> QED BY <1>5, <2>1, <2>2
<1>13. n.root \in K \cup {Null} /\ K = Sub(E, n.root) /\ (n.root # Null => n.parent[n.root] = Null)
  <2>1. m.root \in N /\ m.root # Null /\ D[m.root] = N /\ m.parent[m.root] = Null
    BY RootFacts
  <2>2. CASE p = Null
    <3>1. n.root = v /\ K = Sub(D, v) /\ z = m.root
      BY <1>2, <1>3, <1>4, <2>1, <2>2
    <3> QED BY <1>2, <1>4, <1>8, <2>2, <3>1
  <2>3. CASE p # Null
    <3>1. n.root = m.root /\ m.root # z /\ m.root # v
      BY <1>1, <1>2, <1>3, <1>4, <2>1, <2>3
    <3> QED BY <1>4, <1>5, <2>1, <3>1 DEF Sub
  <2> QED BY <2>2, <2>3
<1>14. Tree(n, K, E)
  <2>1. K \subseteq Keys
    BY <1>1
  <2> QED BY <1>5, <1>9, <1>10, <1>11, <1>12, <1>13, <2>1 DEF Tree
<1> QED BY <1>14 DEF E

(* y takes the place of z, whose children are l and r; x comes after y.      *)
WasReplaced(n, m, z, l, r, y, x) ==
  /\ SameContents(n, m)
  /\ n.root = IF m.parent[z] = Null THEN y ELSE m.root
  /\ \A t \in Sides, k \in Keys \ {z} :
       n.child[t][k] = IF k = y THEN IF t = "left" THEN l ELSE IF r = y THEN x ELSE r
                       ELSE IF k = m.parent[z] /\ t = SideOf(m, z) THEN y
                       ELSE IF k = m.parent[y] /\ k # z /\ t = "left" THEN x
                       ELSE m.child[t][k]
  /\ \A k \in Keys \ {z} :
       n.parent[k] = IF k = y THEN m.parent[z]
                     ELSE IF k = x THEN IF r = y THEN y ELSE m.parent[y]
                     ELSE IF k = l \/ k = r THEN y ELSE m.parent[k]
  /\ \A k \in Keys : n.red[k] = IF k = y THEN m.red[z] ELSE m.red[k]

(* The first node after a node with two children.                            *)
LEMMA SuccessorFacts ==
  ASSUME NEW m, NEW N, NEW D, Tree(m, N, D), NEW z \in N,
         NEW l, l = m.child["left"][z], l # Null,
         NEW r, r = m.child["right"][z], r # Null,
         NEW y, y = Extreme(m, r, "left"), NEW x, x = m.child["right"][y]
  PROVE  /\ l \in N /\ r \in N /\ y \in N /\ x \in N \cup {Null}
         /\ l # z /\ r # z /\ y # z /\ x # z /\ l # r /\ l # y /\ l # x /\ x # y /\ x # r
         /\ l \in D[l] /\ r \in D[r] /\ y \in D[r] /\ m.child["left"][y] = Null
         /\ D[z] = {z} \cup D[l] \cup D[r] /\ z \notin D[l] /\ z \notin D[r] /\ D[l] \cap D[r] = {}
         /\ D[y] = {y} \cup Sub(D, x) /\ y \notin Sub(D, x) /\ D[y] \subseteq D[r]
         /\ m.parent[l] = z /\ m.parent[r] = z /\ (x # Null => m.parent[x] = y)
         /\ m.parent[y] = z <=> y = r
         /\ y # r => /\ m.parent[y] \in D[r] /\ m.parent[y] \in N /\ m.parent[y] # y
                     /\ m.child["left"][m.parent[y]] = y
         /\ \A k \in D[r] : k = y \/ Before("left", y, k)
         /\ \A k \in D[l] : Before("left", k, y)
<1>1. /\ N \subseteq Keys /\ D \in [N -> SUBSET N] /\ Null \notin N
      /\ \A a \in N : a \in D[a]
  BY KeyFacts DEF Tree
<1>2. /\ l \in N /\ l # z /\ m.parent[l] = z /\ z \notin D[l]
      /\ r \in N /\ r # z /\ m.parent[r] = z /\ z \notin D[r] /\ l # r
      /\ D[z] = {z} \cup D[l] \cup D[r] /\ D[l] \cap D[r] = {}
  BY SideFacts, ChildFacts DEF Tree, Sub
<1>3. /\ y \in N /\ y \in D[r] /\ m.child["left"][y] = Null
      /\ \A k \in D[r] : k = y \/ Before("left", y, k)
  BY <1>2, SideFacts, ExtremeFacts
<1>4. D[y] \subseteq D[r]
  BY <1>2, <1>3, Transitive
<1>5. /\ D[y] = {y} \cup Sub(D, x) /\ y \notin Sub(D, x) /\ x \in N \cup {Null} /\ x # y
      /\ (x # Null => m.parent[x] = y)
  <2>1. /\ D[y] = {y} \cup Sub(D, m.child["left"][y]) \cup Sub(D, x) /\ x \in N \cup {Null}
        /\ (x # Null => m.parent[x] = y)
    BY <1>3, SideFacts DEF Tree
  <2>2. y \notin Sub(D, x) /\ x # y
    BY <1>3, SideFacts, BelowFacts
  <2> QED BY <1>3, <2>1, <2>2 DEF Sub
<1>6. x # Null => x \in D[y] /\ x \in D[r]
  BY <1>1, <1>4, <1>5 DEF Sub
<1>7. y # z /\ x # z /\ l # y /\ l # x
  BY <1>1, <1>2, <1>3, <1>5, <1>6
<1>8. \A k \in D[l] : Before("left", k, y)
  <2>1. \A k \in D[l] : Before("left", k, z) /\ k \in Keys
    BY <1>1, <1>2, SideFacts DEF Tree, Sub
  <2>2. Before("right", y, z)
    BY <1>2, <1>3, SideFacts DEF Tree, Sub
  <2>3. Before("left", z, y)
    BY <1>1, <1>3, <2>2, SideFacts, OrderFacts
  <2> QED BY <1>1, <1>3, <2>1, <2>3, SideFacts, OrderFacts
<1>9. y # r => /\ m.parent[y] \in D[r] /\ m.parent[y] \in N /\ m.parent[y] # y
               /\ m.child["left"][m.parent[y]] = y
  <2> HAVE y # r
  <2> DEFINE p == m.parent[y]
  <2>1. p \in D[r] /\ p \in N /\ p # y /\ m.child[SideOf(m, y)][p] = y /\ SideOf(m, y) \in Sides
    BY <1>2, <1>3, ParentFacts
  <2>2. Before("left", y, p)
    BY <1>3, <2>1
  <2>3. SideOf(m, y) = "right" => Before("right", y, p)
    BY <1>1, <1>3, <2>1, SideFacts DEF Tree, Sub
  <2>4. SideOf(m, y) # "right"
    BY <1>1, <1>3, <2>1, <2>2, <2>3, SideFacts, OrderFacts
  <2> QED BY <2>1, <2>4 DEF Sides
<1>10. m.parent[y] = z <=> y = r
  BY <1>2, <1>9
<1>11. x # r
  <2>1. x = r => m.parent[x] = z
    BY <1>2
  <2>2. x = r => y = z
    BY <1>1, <1>2, <1>5, <2>1
  <2> QED BY <1>7, <2>2
<1> QED BY <1>1, <1>2, <1>3, <1>4, <1>5, <1>7, <1>8, <1>9, <1>10, <1>11

(* What iot_node_remove makes of a node with two children.                   *)
Replacement(m, z, l, r, y, x) ==
  LET m1 == IF m.parent[y] = z THEN SetParent(m, x, y)
            ELSE [SetParent(Transplant(m, y, x), r, y) EXCEPT !.child["right"][y] = r]
  IN  [SetParent(Transplant(m1, z, y), l, y) EXCEPT !.child["left"][y] = l, !.red[y] = m.red[z]]

(* The links after the steps of iot_node_remove, one by one.                 *)
LEMMA ReplacedLinks ==
  ASSUME NEW m \in MapRec, NEW N, NEW D, Tree(m, N, D), NEW z \in N,
         NEW l, l = m.child["left"][z], l # Null,
         NEW r, r = m.child["right"][z], r # Null,
         NEW y, y = Extreme(m, r, "left"), NEW x, x = m.child["right"][y]
  PROVE  WasReplaced(Replacement(m, z, l, r, y, x), m, z, l, r, y, x)
<1> DEFINE p == m.parent[z]
           pp == m.parent[y]
           a == Transplant(m, y, x)
           b == SetParent(a, r, y)
           c == [b EXCEPT !.child["right"][y] = r]
           m1 == IF pp = z THEN SetParent(m, x, y) ELSE c
           d == Transplant(m1, z, y)
           e == SetParent(d, l, y)
           n == [e EXCEPT !.child["left"][y] = l, !.red[y] = m.red[z]]
<1>1. /\ N \subseteq Keys /\ D \in [N -> SUBSET N] /\ Null \notin Keys /\ z # Null
      /\ \A w \in N : w \in D[w]
  BY KeyFacts DEF Tree
<1>2. /\ l \in N /\ r \in N /\ y \in N /\ x \in N \cup {Null}
      /\ l # z /\ r # z /\ y # z /\ x # z /\ l # r /\ l # y /\ l # x /\ x # y /\ x # r
      /\ pp = z <=> y = r
      /\ y \in D[r] /\ D[z] = {z} \cup D[l] \cup D[r]
      /\ y # r => pp \in D[r] /\ pp \in N /\ pp # y /\ m.child["left"][pp] = y
  BY SuccessorFacts
<1>3. ASSUME p # Null
      PROVE  /\ p \in N /\ p # z /\ m.child[SideOf(m, z)][p] = z /\ SideOf(m, z) \in Sides
             /\ p \notin D[z]
  <2> DEFINE q == SideOf(m, z)
  <2>1. p \in N /\ p # z /\ m.child[q][p] = z /\ q \in Sides
    BY <1>3, RootFacts
  <2> HIDE DEF p, q
  <2>2. p \notin D[z]
    BY <1>1, <2>1, ChildFacts
  <2> QED BY <2>1, <2>2 DEF q
<1>4. p # y /\ (y # r => p # pp)
  BY <1>1, <1>2, <1>3
<1>5. Replacement(m, z, l, r, y, x) = n
  BY SMTT(30) DEF Replacement
<1> DEFINE Detached(q) ==
             /\ SameContents(q, m) /\ q.red = m.red /\ q.root = m.root
             /\ \A t \in Sides, k \in Keys :
                  q.child[t][k] = IF y # r /\ k = y /\ t = "right" THEN r
                                  ELSE IF y # r /\ k = pp /\ t = "left" THEN x ELSE m.child[t][k]
             /\ \A k \in Keys :
                  q.parent[k] = IF k = x THEN IF r = y THEN y ELSE pp
                                ELSE IF y # r /\ k = r THEN y ELSE m.parent[k]
<1>6. Detached(m1)
  <2>1. CASE pp = z
    <3> DEFINE q == SetParent(m, x, y)
    <3>1. ParentWasSet(q, m, x, y) /\ m1 = q
      BY <1>1, <1>2, <2>1, ParentSet
    <3> HIDE DEF q, m1
    <3> QED BY <1>2, <2>1, <3>1 DEF ParentWasSet, SameContents
  <2>2. CASE pp # z
    <3>1. WasTransplanted(a, m, y, x)
      BY <1>1, <1>2, Transplanted
    <3> HIDE DEF a
    <3>2. ParentWasSet(b, a, r, y)
      <4>1. a \in MapRec /\ r \in Keys /\ y \in Keys
        BY <1>1, <1>2, <3>1 DEF WasTransplanted, WasHung, SameContents
      <4> QED BY <4>1, ParentSet
    <3> HIDE DEF b
    <3>3. b \in MapRec /\ r \in Keys /\ y \in Keys
      BY <1>1, <1>2, <3>2 DEF ParentWasSet, SameContents
    <3>4. /\ SameContents(c, b) /\ c.red = b.red /\ c.root = b.root /\ c.parent = b.parent
          /\ \A t \in Sides, k \in Keys :
               c.child[t][k] = IF k = y /\ t = "right" THEN r ELSE b.child[t][k]
      BY <3>3, SideFacts, ZenonT(60) DEF MapRec, SameContents, Contents
    <3>5. m1 = c
      BY <2>2
    <3> HIDE DEF c, m1
    <3>6. y # r /\ pp # Null /\ SideOf(m, y) = "left"
      BY <1>1, <1>2, <2>2 DEF SideOf
    <3> HIDE DEF pp
    <3>7. SameContents(c, m) /\ c.red = m.red /\ c.root = m.root
      BY <3>1, <3>2, <3>4, <3>6 DEF WasTransplanted, WasHung, ParentWasSet, SameContents, pp
    <3>8. \A t \in Sides, k \in Keys :
            c.child[t][k] = IF k = y /\ t = "right" THEN r
                            ELSE IF k = pp /\ t = "left" THEN x ELSE m.child[t][k]
      BY <3>1, <3>2, <3>4, <3>6 DEF WasTransplanted, WasHung, ParentWasSet, pp
    <3>9. \A k \in Keys : c.parent[k] = IF k = r THEN y ELSE IF k = x THEN pp ELSE m.parent[k]
      BY <3>1, <3>2, <3>4 DEF WasTransplanted, ParentWasSet, pp
    <3> QED BY <1>2, <3>5, <3>6, <3>7, <3>8, <3>9
  <2> QED BY <2>1, <2>2
<1> HIDE DEF m1
<1>7. m1 \in MapRec /\ m1.parent[z] = p
  BY <1>1, <1>2, <1>6 DEF SameContents
<1>8. p # Null => SideOf(m1, z) = SideOf(m, z)
  <2> HAVE p # Null
  <2>1. p \in Keys
    BY <1>1, <1>3
  <2>2. m1.child["left"][p] = m.child["left"][p]
    BY <1>4, <1>6, <2>1, SideFacts
  <2> QED BY <1>7, <2>2 DEF SideOf
<1>9. WasTransplanted(d, m1, z, y)
  <2>1. z \in Keys /\ y \in Keys
    BY <1>1, <1>2
  <2> QED BY <1>7, <2>1, Transplanted
<1> HIDE DEF d
<1>10. ParentWasSet(e, d, l, y)
  <2>1. d \in MapRec /\ l \in Keys /\ y \in Keys
    BY <1>1, <1>2, <1>9 DEF WasTransplanted, WasHung, SameContents
  <2> QED BY <2>1, ParentSet
<1> HIDE DEF e
<1>11. e \in MapRec /\ l \in Keys /\ y \in Keys /\ m.red[z] \in BOOLEAN
  BY <1>1, <1>2, <1>10 DEF ParentWasSet, SameContents, MapRec
<1>12. /\ SameContents(n, e) /\ n.root = e.root /\ n.parent = e.parent
       /\ \A t \in Sides, k \in Keys :
            n.child[t][k] = IF k = y /\ t = "left" THEN l ELSE e.child[t][k]
       /\ \A k \in Keys : n.red[k] = IF k = y THEN m.red[z] ELSE e.red[k]
  BY <1>11, SideFacts, ZenonT(60) DEF MapRec, SameContents, Contents
<1> HIDE DEF n
<1>13. /\ SameContents(n, m)
       /\ n.root = IF p = Null THEN y ELSE m.root
       /\ \A k \in Keys : n.red[k] = IF k = y THEN m.red[z] ELSE m.red[k]
  BY <1>6, <1>7, <1>9, <1>10, <1>12 DEF WasTransplanted, WasHung, ParentWasSet, SameContents
<1>14. \A t \in Sides, k \in Keys \ {z} :
         n.child[t][k] = IF k = y /\ t = "left" THEN l
                         ELSE IF k = p /\ t = SideOf(m, z) THEN y ELSE m1.child[t][k]
  <2> TAKE t \in Sides, k \in Keys \ {z}
  <2>1. k # Null
    BY <1>1
  <2> HIDE DEF p, pp
  <2> QED BY <1>7, <1>8, <1>9, <1>10, <1>12, <2>1 DEF WasTransplanted, WasHung, ParentWasSet
<1>15. \A k \in Keys \ {z} :
         n.parent[k] = IF k = l THEN y ELSE IF k = y THEN p ELSE m1.parent[k]
  BY <1>7, <1>9, <1>10, <1>12 DEF WasTransplanted, ParentWasSet
<1>16. \A t \in Sides, k \in Keys \ {z} :
         n.child[t][k] = IF k = y THEN IF t = "left" THEN l ELSE IF r = y THEN x ELSE r
                         ELSE IF k = p /\ t = SideOf(m, z) THEN y
                         ELSE IF k = pp /\ k # z /\ t = "left" THEN x
                         ELSE m.child[t][k]
  <2> TAKE t \in Sides, k \in Keys \ {z}
  <2>1. t = "left" \/ t = "right"
    BY DEF Sides
  <2>2. m1.child[t][k] = IF y # r /\ k = y /\ t = "right" THEN r
                         ELSE IF y # r /\ k = pp /\ t = "left" THEN x ELSE m.child[t][k]
    BY <1>6
  <2> HIDE DEF p, pp
  <2> QED BY <1>2, <1>4, <1>14, <2>1, <2>2
<1>17. \A k \in Keys \ {z} :
         n.parent[k] = IF k = y THEN p
                       ELSE IF k = x THEN IF r = y THEN y ELSE pp
                       ELSE IF k = l \/ k = r THEN y ELSE m.parent[k]
  <2> TAKE k \in Keys \ {z}
  <2>1. m1.parent[k] = IF k = x THEN IF r = y THEN y ELSE pp
                       ELSE IF y # r /\ k = r THEN y ELSE m.parent[k]
    BY <1>6
  <2> HIDE DEF p, pp
  <2> QED BY <1>2, <1>15, <2>1
<1> QED BY <1>5, <1>13, <1>16, <1>17 DEF WasReplaced

(* They form a search tree of the nodes without z.                           *)
LEMMA ReplacedTree ==
  ASSUME NEW m, NEW N, NEW D, Tree(m, N, D), NEW z \in N,
         NEW l, l = m.child["left"][z], l # Null,
         NEW r, r = m.child["right"][z], r # Null,
         NEW y, y = Extreme(m, r, "left"), NEW x, x = m.child["right"][y], NEW n,
         WasReplaced(n, m, z, l, r, y, x)
  PROVE  Tree(n, N \ {z}, [a \in N \ {z} |-> IF a = y THEN D[z] \ {z}
                                             ELSE IF a \in D[z] THEN D[a] \ {y} ELSE D[a] \ {z}])
<1> DEFINE p == m.parent[z]
           pp == m.parent[y]
           q == SideOf(m, z)
           K == N \ {z}
           E == [a \in K |-> IF a = y THEN D[z] \ {z}
                             ELSE IF a \in D[z] THEN D[a] \ {y} ELSE D[a] \ {z}]
<1>1. /\ N \subseteq Keys /\ D \in [N -> SUBSET N] /\ Null \notin N /\ z # Null
      /\ \A a \in N : a \in D[a]
  BY KeyFacts DEF Tree
<1>2. /\ l \in N /\ r \in N /\ y \in N /\ x \in N \cup {Null}
      /\ l # z /\ r # z /\ y # z /\ x # z /\ l # r /\ l # y /\ l # x /\ x # y /\ x # r
      /\ l \in D[l] /\ r \in D[r] /\ y \in D[r] /\ m.child["left"][y] = Null
  BY SuccessorFacts
<1>3. /\ D[z] = {z} \cup D[l] \cup D[r] /\ z \notin D[l] /\ z \notin D[r] /\ D[l] \cap D[r] = {}
      /\ D[y] = {y} \cup Sub(D, x) /\ y \notin Sub(D, x) /\ D[y] \subseteq D[r]
      /\ m.parent[l] = z /\ m.parent[r] = z /\ (x # Null => m.parent[x] = y)
      /\ pp = z <=> y = r
  BY SuccessorFacts, SMTT(30)
<1>4. /\ y # r => pp \in D[r] /\ pp \in N /\ pp # y /\ m.child["left"][pp] = y
      /\ \A k \in D[r] : k = y \/ Before("left", y, k)
      /\ \A k \in D[l] : Before("left", k, y)
  BY SuccessorFacts
<1>5. p = Null => z = m.root
  BY RootFacts
<1>6. ASSUME p # Null
      PROVE  p \in N /\ p # z /\ m.child[q][p] = z /\ q \in Sides /\ z # m.root /\ p \notin D[z]
  <2>1. p \in N /\ p # z /\ m.child[q][p] = z /\ q \in Sides /\ z # m.root
    BY <1>6, RootFacts
  <2> HIDE DEF p, q
  <2>2. p \notin D[z]
    BY <1>1, <2>1, ChildFacts, SMTT(30)
  <2> QED BY <2>1, <2>2
<1>7. p # y /\ (y # r => p # pp) /\ (p = Null \/ p \notin D[z])
  BY <1>1, <1>2, <1>3, <1>4, <1>6
<1> HIDE DEF p, pp, q, K, E
<1>8. /\ n.root = IF p = Null THEN y ELSE m.root
      /\ \A t \in Sides, k \in K :
           n.child[t][k] = IF k = y THEN IF t = "left" THEN l ELSE IF r = y THEN x ELSE r
                           ELSE IF k = p /\ t = q THEN y
                           ELSE IF k = pp /\ k # z /\ t = "left" THEN x
                           ELSE m.child[t][k]
      /\ \A k \in K :
           n.parent[k] = IF k = y THEN p
                         ELSE IF k = x THEN IF r = y THEN y ELSE pp
                         ELSE IF k = l \/ k = r THEN y ELSE m.parent[k]
  BY <1>1 DEF WasReplaced, p, q, pp, K
<1>9. K \subseteq Keys /\ K \subseteq N /\ z \notin K /\ N = K \cup {z} /\ y \in K /\ l \in K /\ r \in K
      /\ x \in K \cup {Null}
  BY <1>1, <1>2 DEF K
<1>10. \A a \in N : a \in D[z] => D[a] \subseteq D[z]
  BY Transitive
<1>11. \A a \in K : a \in D[z] => z \notin D[a]
  <2> TAKE a \in K
  <2> HAVE a \in D[z]
  <2>1. a \in D[l] \/ a \in D[r]
    BY <1>3, <1>9
  <2>2. D[a] \subseteq D[l] \/ D[a] \subseteq D[r]
    BY <1>2, <2>1, Transitive
  <2> QED BY <1>3, <2>2
<1>12. /\ E \in [K -> SUBSET K] /\ E[y] = D[z] \ {z}
       /\ \A a \in K : a # y /\ a \in D[z] => E[a] = D[a] \ {y}
       /\ \A a \in K : a \notin D[z] => E[a] = D[a] \ {z}
  <2>1. \A a \in K : E[a] = IF a = y THEN D[z] \ {z}
                            ELSE IF a \in D[z] THEN D[a] \ {y} ELSE D[a] \ {z}
    BY DEF E
  <2>2. y \in D[z]
    BY <1>2, <1>3
  <2>3. ASSUME NEW a \in K PROVE E[a] \subseteq K
    <3>1. D[a] \subseteq N /\ D[z] \subseteq N
      BY <1>1, <1>9
    <3>2. a \in D[z] => z \notin D[a]
      BY <1>11
    <3>3. CASE a = y
      BY <1>9, <2>1, <3>1, <3>3
    <3>4. CASE a # y /\ a \in D[z]
      <4>1. E[a] = D[a] \ {y} /\ z \notin D[a]
        BY <2>1, <3>2, <3>4
      <4> QED BY <1>9, <3>1, <4>1
    <3>5. CASE a # y /\ a \notin D[z]
      BY <1>9, <2>1, <3>1, <3>5
    <3> QED BY <3>3, <3>4, <3>5
  <2> QED BY <1>9, <2>1, <2>2, <2>3 DEF E
<1>13. x # Null => x \in D[z] /\ x \in K /\ E[x] = D[x]
  <2> HAVE x # Null
  <2>1. x \in D[y] /\ x \in K /\ Sub(D, x) = D[x]
    BY <1>1, <1>3, <1>9, SMTT(30) DEF Sub
  <2>2. x \in D[z] /\ y \notin D[x] /\ x # y
    BY <1>2, <1>3, <2>1
  <2>3. E[x] = D[x] \ {y}
    BY <1>12, <2>1, <2>2
  <2> QED BY <2>1, <2>2, <2>3
<1>14. E[l] = D[l] /\ (r # y => E[r] = D[r] \ {y}) /\ Sub(E, x) = Sub(D, x)
  <2>1. l \in D[z] /\ r \in D[z] /\ y \notin D[l]
    BY <1>2, <1>3
  <2>2. E[l] = D[l] \ {y}
    BY <1>2, <1>9, <1>12, <2>1
  <2>3. r # y => E[r] = D[r] \ {y}
    BY <1>9, <1>12, <2>1
  <2> QED BY <1>13, <2>1, <2>2, <2>3 DEF Sub
<1>15. \A a \in K, t \in Sides : m.child[t][a] \in N \cup {Null}
                                 /\ (m.child[t][a] # Null => m.parent[m.child[t][a]] = a)
  BY <1>9 DEF Tree
<1> DEFINE Other3(a, t) == a # y /\ ~ (a = p /\ t = q) /\ ~ (a = pp /\ y # r /\ t = "left")
<1>16. \A a \in K, t \in Sides : Other3(a, t) =>
         n.child[t][a] = m.child[t][a] /\ m.child[t][a] # z /\ m.child[t][a] # y
  <2> TAKE a \in K, t \in Sides
  <2> HAVE Other3(a, t)
  <2>1. n.child[t][a] = m.child[t][a]
    BY <1>3, <1>8, <1>9
  <2>2. m.child[t][a] # z
    <3> SUFFICES ASSUME m.child[t][a] = z PROVE FALSE
      OBVIOUS
    <3>1. a = p /\ p # Null
      BY <1>1, <1>9, <1>15 DEF p
    <3>2. t = Other(q) /\ p \in N /\ q \in Sides /\ m.child[q][p] = z
      BY <1>6, <3>1, SideFacts
    <3>3. m.child[Other(q)][p] # z
      BY <1>1, <3>2, ChildFacts
    <3> QED BY <3>1, <3>2, <3>3
  <2>3. m.child[t][a] # y
    <3> SUFFICES ASSUME m.child[t][a] = y PROVE FALSE
      BY SMTT(30)
    <3>1. a = pp /\ y # r
      BY <1>1, <1>2, <1>3, <1>9, <1>15 DEF pp
    <3>2. t = "right" /\ m.child["left"][a] = y
      BY <1>4, <3>1, SideFacts
    <3>3. m.child["right"][a] # y
      <4>1. a \in N /\ "left" \in Sides /\ y # Null
        BY <1>1, <1>2, <1>9, SideFacts
      <4> QED BY <3>2, <4>1, SideFacts, ChildFacts
    <3> QED BY <3>2, <3>3
  <2> QED BY <2>1, <2>2, <2>3
<1>17. \A a \in K, t \in Sides : Other3(a, t) =>
         Sub(E, n.child[t][a]) = IF a \in D[z] THEN Sub(D, m.child[t][a]) \ {y}
                                 ELSE Sub(D, m.child[t][a]) \ {z}
  <2> TAKE a \in K, t \in Sides
  <2> HAVE Other3(a, t)
  <2> DEFINE c == m.child[t][a]
  <2>1. n.child[t][a] = c /\ c # z /\ c # y /\ c \in N \cup {Null}
    BY <1>15, <1>16
  <2>2. CASE c = Null
    BY <2>1, <2>2 DEF Sub
  <2>3. CASE c # Null
    <3>1. c \in K /\ c \in D[a] /\ m.parent[c] = a
      <4>1. c \in N /\ c \in D[c] /\ D[c] \subseteq D[a] /\ m.parent[c] = a
        BY <1>9, <2>3, ChildFacts
      <4> QED BY <1>9, <2>1, <4>1
    <3>2. a \in D[z] => c \in D[z]
      BY <1>9, <1>10, <3>1
    <3>3. c \in D[z] => a \in D[z]
      BY <1>9, <2>1, <3>1, ParentFacts
    <3> QED BY <1>12, <2>1, <2>3, <3>1, <3>2, <3>3 DEF Sub
  <2> QED BY <2>2, <2>3
<1>18. \A a \in K, t \in Sides : a # y =>
         /\ n.child[t][a] \in K \cup {Null}
         /\ n.child[t][a] # Null => n.parent[n.child[t][a]] = a
         /\ Sub(E, n.child[t][a]) = IF a \in D[z] THEN Sub(D, m.child[t][a]) \ {y}
                                    ELSE Sub(D, m.child[t][a]) \ {z}
  <2> TAKE a \in K, t \in Sides
  <2> HAVE a # y
  <2>1. CASE a = p /\ t = q
    <3>1. p # Null /\ n.child[t][a] = y /\ m.child[t][a] = z /\ a \notin D[z]
      BY <1>1, <1>6, <1>8, <1>9, <2>1
    <3>2. n.parent[y] = a
      BY <1>8, <1>9, <2>1
    <3>3. Sub(E, y) = D[z] \ {z} /\ Sub(D, z) = D[z]
      BY <1>1, <1>9, <1>12 DEF Sub
    <3> QED BY <1>9, <3>1, <3>2, <3>3
  <2>2. CASE a = pp /\ y # r /\ t = "left"
    <3>1. n.child[t][a] = x /\ m.child[t][a] = y /\ a \in D[z]
      BY <1>3, <1>4, <1>7, <1>8, <1>9, <2>2
    <3>2. x # Null => n.parent[x] = a
      BY <1>2, <1>8, <1>9, <2>2
    <3>3. Sub(D, y) = D[y] /\ Sub(E, x) = Sub(D, x)
      BY <1>1, <1>9, <1>14 DEF Sub
    <3>4. Sub(D, x) = D[y] \ {y}
      BY <1>3
    <3> QED BY <1>9, <3>1, <3>2, <3>3, <3>4
  <2>3. CASE Other3(a, t)
    <3> DEFINE c == m.child[t][a]
    <3>1. n.child[t][a] = c /\ c # z /\ c # y /\ c \in N \cup {Null}
          /\ (c # Null => m.parent[c] = a)
      BY <1>15, <1>16, <2>3
    <3> HIDE DEF c
    <3>2. c # Null => n.parent[c] = a
      <4> HAVE c # Null
      <4>1. c # x /\ c # l /\ c # r
        BY <1>3, <1>9, <2>3, <3>1
      <4> QED BY <1>8, <1>9, <3>1, <4>1
    <3>3. Sub(E, n.child[t][a]) = IF a \in D[z] THEN Sub(D, m.child[t][a]) \ {y}
                                  ELSE Sub(D, m.child[t][a]) \ {z}
      BY <1>17, <2>3
    <3> QED BY <1>9, <3>1, <3>2, <3>3
  <2> QED BY <2>1, <2>2, <2>3
<1>19. /\ n.child["left"][y] = l /\ n.child["right"][y] = IF r = y THEN x ELSE r
       /\ n.parent[l] = y /\ (r = y /\ x # Null => n.parent[x] = y) /\ (r # y => n.parent[r] = y)
       /\ Sub(E, l) = D[l] /\ Sub(E, n.child["right"][y]) = D[r] \ {y}
  <2>1. n.child["left"][y] = l /\ n.child["right"][y] = IF r = y THEN x ELSE r
    BY <1>8, <1>9, SideFacts
  <2>2. n.parent[l] = y /\ (r = y /\ x # Null => n.parent[x] = y) /\ (r # y => n.parent[r] = y)
    BY <1>2, <1>8, <1>9
  <2>3. Sub(E, l) = D[l] /\ Sub(E, r) = E[r]
    BY <1>1, <1>9, <1>14 DEF Sub
  <2>4. r = y => Sub(D, x) = D[r] \ {y}
    BY <1>3
  <2> QED BY <1>14, <2>1, <2>2, <2>3, <2>4
<1>20. \A t \in Sides : /\ n.child[t][y] \in K \cup {Null}
                        /\ n.child[t][y] # Null => n.parent[n.child[t][y]] = y
  <2> TAKE t \in Sides
  <2>1. t = "left" \/ t = "right"
    BY DEF Sides
  <2> QED BY <1>9, <1>19, <2>1
<1>21. \A a \in K, t \in Sides : \A k \in Sub(E, n.child[t][a]) : Before(t, k, a)
  <2> TAKE a \in K, t \in Sides
  <2> TAKE k \in Sub(E, n.child[t][a])
  <2>1. CASE a # y
    <3>1. k \in Sub(D, m.child[t][a])
      BY <1>18, <2>1
    <3> QED BY <1>9, <3>1 DEF Tree
  <2>2. CASE a = y /\ t = "left"
    BY <1>4, <1>19, <2>2
  <2>3. CASE a = y /\ t = "right"
    <3>1. k \in D[r] /\ k # y
      BY <1>19, <2>3
    <3>2. Before("left", y, k) /\ k \in Keys /\ y \in Keys
      BY <1>1, <1>2, <1>4, <3>1
    <3> QED BY <2>3, <3>2, SideFacts, OrderFacts
  <2> QED BY <2>1, <2>2, <2>3 DEF Sides
<1>22. \A a \in K :
         E[a] = {a} \cup Sub(E, n.child["left"][a]) \cup Sub(E, n.child["right"][a])
  <2> SUFFICES ASSUME NEW a \in K
               PROVE  E[a] = {a} \cup Sub(E, n.child["left"][a]) \cup Sub(E, n.child["right"][a])
    BY SMTT(30)
  <2>1. CASE a = y
    <3>1. D[z] \ {z} = {y} \cup D[l] \cup (D[r] \ {y})
      BY <1>2, <1>3
    <3> QED BY <1>12, <1>19, <2>1, <3>1
  <2>2. CASE a # y
    <3>1. D[a] = {a} \cup Sub(D, m.child["left"][a]) \cup Sub(D, m.child["right"][a])
      BY <1>9 DEF Tree
    <3> DEFINE w == IF a \in D[z] THEN y ELSE z
    <3>2. E[a] = D[a] \ {w}
      BY <1>12, <2>2
    <3>3. a # w /\ \A t \in Sides : Sub(E, n.child[t][a]) = Sub(D, m.child[t][a]) \ {w}
      BY <1>9, <1>18, <2>2
    <3> HIDE DEF w
    <3> QED BY <3>1, <3>2, <3>3, SideFacts
  <2> QED BY <2>1, <2>2
<1>23. n.root \in K \cup {Null} /\ K = Sub(E, n.root) /\ (n.root # Null => n.parent[n.root] = Null)
  <2>1. m.root \in N /\ m.root # Null /\ D[m.root] = N /\ m.parent[m.root] = Null
    BY RootFacts
  <2>2. CASE p = Null
    <3>1. n.root = y /\ n.parent[y] = Null
      BY <1>8, <1>9, <2>2
    <3>2. D[z] = N
      BY <1>5, <2>1, <2>2
    <3>3. E[y] = K /\ y # Null
      BY <1>1, <1>9, <1>12, <3>2
    <3> QED BY <1>9, <3>1, <3>3 DEF Sub
  <2>3. CASE p # Null
    <3>1. n.root = m.root /\ m.root # z
      BY <1>6, <1>8, <2>3
    <3>2. m.root \notin D[z]
      BY <1>1, <2>1, <3>1, ParentFacts
    <3>3. m.root # y /\ m.root # x /\ m.root # l /\ m.root # r
      BY <1>2, <1>3, <1>13, <2>1, <3>2
    <3>4. m.root \in K /\ n.parent[m.root] = Null /\ E[m.root] = K
      <4>1. m.root \in K
        BY <1>9, <2>1, <3>1
      <4>2. n.parent[m.root] = m.parent[m.root]
        BY <1>8, <3>3, <4>1
      <4>3. E[m.root] = N \ {z}
        BY <1>12, <2>1, <3>2, <4>1
      <4> QED BY <1>9, <2>1, <4>1, <4>2, <4>3
    <3> QED BY <2>1, <3>1, <3>4 DEF Sub
  <2> QED BY <2>2, <2>3
<1>24. Tree(n, K, E)
  <2>1. \A a \in K, t \in Sides :
          /\ n.child[t][a] \in K \cup {Null}
          /\ n.child[t][a] # Null => n.parent[n.child[t][a]] = a
    BY <1>18, <1>20
  <2> QED BY <1>9, <1>12, <1>21, <1>22, <1>23, <2>1 DEF Tree
<1> QED BY <1>24 DEF E, K

(* w has the links of n; x is black and y has the colour that z had.         *)
WasRecoloured(w, n, m, N, x, y, z) ==
  /\ w.child = n.child
  /\ \A a \in N : w.red[a] = IF a = x THEN FALSE ELSE IF a = y THEN m.red[z] ELSE m.red[a]

(* The same for the black nodes of a path: if z had one child, that one was  *)
(* red and z black.                                                          *)
LEMMA ShortLevel ==
  ASSUME NEW m, NEW N, NEW D, Tree(m, N, D), RedPairs(m, N) = {}, NEW B, Level(m, N, B),
         NEW z \in N, NEW s \in Sides, m.child[s][z] = Null, NEW v, v = m.child[Other(s)][z],
         NEW n, WasTransplanted(n, m, z, v), v = Null => m.red[z],
         NEW w, WasRecoloured(w, n, m, N, v, z, z)
  PROVE  (v # Null => m.red[v] /\ ~ m.red[z]) /\ Balanced(w, N \ {z})
<1> DEFINE p == m.parent[z]
           q == SideOf(m, z)
           K == N \ {z}
           E == [a \in K |-> B[a]]
<1>0. w.child = n.child /\ \A a \in N : w.red[a] = IF a = v THEN FALSE ELSE m.red[a]
  BY DEF WasRecoloured
<1>1. N \subseteq Keys /\ Null \notin N /\ z # Null /\ B \in [N -> Nat] /\ Other(s) \in Sides
  BY SideFacts, KeyFacts DEF Tree, Level
<1>2. v \in N \cup {Null} /\ v # z /\ (v # Null => m.parent[v] = z)
  BY <1>1, BelowFacts DEF Tree
<1>3. \A k \in N, t \in Sides : m.child[t][k] \in N \cup {Null} /\ Passed(m, B, m.child[t][k]) = B[k]
  BY DEF Tree, Level
<1>4. B[z] = 0 /\ Passed(m, B, v) = 0
  <2>1. Passed(m, B, Null) = B[z] /\ Passed(m, B, v) = B[z]
    BY <1>1, <1>3
  <2> QED BY <2>1 DEF Passed
<1>5. v # Null => B[v] = 0 /\ m.red[v] /\ ~ m.red[z]
  <2> HAVE v # Null
  <2>1. B[v] \in Nat
    BY <1>1, <1>2
  <2>2. B[v] = 0 /\ m.red[v]
    BY <1>4, <2>1 DEF Passed
  <2>3. v \notin RedPairs(m, N)
    OBVIOUS
  <2> QED BY <1>1, <1>2, <2>2, <2>3 DEF RedPairs
<1>6. E \in [K -> Nat] /\ \A a \in K : E[a] = B[a]
  BY <1>1
<1> HIDE DEF E
<1>7. Passed(w, E, v) = Passed(m, B, z)
  <2>1. CASE v = Null
    BY <1>1, <1>4, <2>1 DEF Passed
  <2>2. CASE v # Null
    <3>1. w.red[v] = FALSE
      BY <1>0, <1>2, <2>2
    <3> QED BY <1>1, <1>2, <1>4, <1>5, <1>6, <2>2, <3>1 DEF Passed
  <2> QED BY <2>1, <2>2
<1>8. \A t \in Sides, a \in N : n.child[t][a] = IF a = p /\ t = q THEN v ELSE m.child[t][a]
  <2>1. p = Null => \A a \in N : a # p
    BY <1>1
  <2> QED BY <1>1, <2>1 DEF WasTransplanted, WasHung
<1>9. ASSUME NEW k \in K, NEW t \in Sides
      PROVE  Passed(w, E, w.child[t][k]) = E[k]
  <2>1. CASE k = p /\ t = q
    <3>1. w.child[t][k] = v
      BY <1>0, <1>8, <2>1
    <3>2. m.child[t][k] = z
      BY <1>1, <2>1, RootFacts
    <3> QED BY <1>3, <1>6, <1>7, <3>1, <3>2
  <2>2. CASE ~ (k = p /\ t = q)
    <3> DEFINE e == m.child[t][k]
    <3>1. w.child[t][k] = e
      BY <1>0, <1>8, <2>2
    <3>2. e # z
      <4> SUFFICES ASSUME e = z PROVE FALSE
        OBVIOUS
      <4>1. p = k /\ k # Null
        BY <1>1 DEF Tree
      <4>2. m.child[q][k] = z /\ q \in Sides
        BY <4>1, RootFacts
      <4>3. t = q
        <5> HIDE DEF q
        <5> QED BY <1>1, <4>2, OneParent
      <4> QED BY <2>2, <4>1, <4>3
    <3>3. e # v \/ e = Null
      <4> SUFFICES ASSUME e = v, e # Null PROVE FALSE
        OBVIOUS
      <4>1. m.parent[e] = k
        BY DEF Tree
      <4> QED BY <1>2, <4>1
    <3>4. e \in N \cup {Null} /\ Passed(m, B, e) = E[k]
      BY <1>3, <1>6
    <3> HIDE DEF e
    <3>5. Passed(w, E, e) = Passed(m, B, e)
      BY <1>0, <1>6, <3>2, <3>3, <3>4 DEF Passed
    <3> QED BY <3>1, <3>4, <3>5
  <2> QED BY <2>1, <2>2
<1>10. Level(w, K, E)
  BY <1>6, <1>9 DEF Level
<1> QED BY <1>5, <1>10 DEF Balanced

(* And if z had two children the successor y takes its place in every path:  *)
(* where y was, x now is.                                                    *)
LEMMA ReplacedLevel ==
  ASSUME NEW m, NEW N, NEW D, Tree(m, N, D), RedPairs(m, N) = {}, NEW B, Level(m, N, B),
         NEW z \in N,
         NEW l, l = m.child["left"][z], l # Null,
         NEW r, r = m.child["right"][z], r # Null,
         NEW y, y = Extreme(m, r, "left"), NEW x, x = m.child["right"][y],
         NEW n, WasReplaced(n, m, z, l, r, y, x), x = Null => m.red[y],
         NEW w, WasRecoloured(w, n, m, N, x, y, z)
  PROVE  (x # Null => m.red[x] /\ ~ m.red[y]) /\ Balanced(w, N \ {z})
<1> DEFINE p == m.parent[z]
           q == SideOf(m, z)
           pp == m.parent[y]
           K == N \ {z}
           E == [a \in K |-> IF a = y THEN B[z] ELSE B[a]]
<1>0. /\ w.child = n.child
      /\ \A a \in N : w.red[a] = IF a = x THEN FALSE ELSE IF a = y THEN m.red[z] ELSE m.red[a]
  BY DEF WasRecoloured
<1>1. /\ N \subseteq Keys /\ Null \notin N /\ z # Null /\ B \in [N -> Nat]
      /\ "left" \in Sides /\ "right" \in Sides /\ \A t \in Sides : t = "left" \/ t = "right"
  BY KeyFacts DEF Tree, Level, Sides
<1>2. /\ l \in N /\ r \in N /\ y \in N /\ x \in N \cup {Null}
      /\ l # z /\ r # z /\ y # z /\ x # z /\ l # r /\ l # y /\ l # x /\ x # y /\ x # r
      /\ m.child["left"][y] = Null /\ (x # Null => m.parent[x] = y)
      /\ (pp = z <=> y = r)
      /\ y # r => pp \in N /\ pp # y /\ m.child["left"][pp] = y
  BY SuccessorFacts
<1>3. \A k \in N, t \in Sides : m.child[t][k] \in N \cup {Null} /\ Passed(m, B, m.child[t][k]) = B[k]
  BY DEF Tree, Level
<1>4. B[y] = 0 /\ Passed(m, B, x) = 0
  <2>1. Passed(m, B, Null) = B[y] /\ Passed(m, B, x) = B[y]
    BY <1>1, <1>2, <1>3, SMTT(30)
  <2> QED BY <2>1 DEF Passed
<1>5. x # Null => B[x] = 0 /\ m.red[x] /\ ~ m.red[y]
  <2> HAVE x # Null
  <2>1. B[x] \in Nat
    BY <1>1, <1>2
  <2>2. B[x] = 0 /\ m.red[x]
    BY <1>4, <2>1 DEF Passed
  <2>3. x \notin RedPairs(m, N)
    OBVIOUS
  <2> QED BY <1>1, <1>2, <2>2, <2>3 DEF RedPairs
<1>6. E \in [K -> Nat] /\ E[y] = B[z] /\ \A a \in K \ {y} : E[a] = B[a]
  BY <1>1, <1>2
<1> HIDE DEF E
<1>7. Passed(w, E, x) = Passed(m, B, y)
  <2>1. CASE x = Null
    BY <1>1, <1>2, <1>4, <2>1, SMTT(30) DEF Passed
  <2>2. CASE x # Null
    <3>1. w.red[x] = FALSE
      BY <1>0, <1>2, <2>2
    <3>2. E[x] = 0
      BY <1>2, <1>5, <1>6, <2>2
    <3> QED BY <1>1, <1>2, <1>4, <1>5, <2>2, <3>1, <3>2 DEF Passed
  <2> QED BY <2>1, <2>2
<1>8. Passed(w, E, y) = Passed(m, B, z)
  <2>1. w.red[y] = m.red[z]
    BY <1>0, <1>2
  <2> QED BY <1>1, <1>2, <1>6, <2>1 DEF Passed
<1>9. \A e \in (K \cup {Null}) : e # y /\ (e = Null \/ e # x) => Passed(w, E, e) = Passed(m, B, e)
  BY <1>0, <1>6 DEF Passed
<1>10. \A t \in Sides, k \in K :
         w.child[t][k] = IF k = y THEN IF t = "left" THEN l ELSE IF r = y THEN x ELSE r
                         ELSE IF k = p /\ t = q THEN y
                         ELSE IF k = pp /\ k # z /\ t = "left" THEN x
                         ELSE m.child[t][k]
  BY <1>0, <1>1 DEF WasReplaced
<1>11. ASSUME NEW k \in K, NEW t \in Sides
       PROVE  Passed(w, E, w.child[t][k]) = E[k]
  <2>1. CASE k = y
    <3>1. Passed(m, B, l) = B[z] /\ Passed(m, B, r) = B[z]
      BY <1>1, <1>3
    <3>2. CASE t = "left"
      <4>1. w.child[t][k] = l
        BY <1>10, <2>1, <3>2
      <4> QED BY <1>2, <1>6, <1>9, <2>1, <3>1, <4>1
    <3>3. CASE t # "left" /\ r = y
      <4>1. w.child[t][k] = x
        BY <1>10, <2>1, <3>3
      <4> QED BY <1>6, <1>7, <2>1, <3>1, <3>3, <4>1
    <3>4. CASE t # "left" /\ r # y
      <4>1. w.child[t][k] = r
        BY <1>10, <2>1, <3>4
      <4> QED BY <1>2, <1>6, <1>9, <2>1, <3>1, <3>4, <4>1
    <3> QED BY <3>2, <3>3, <3>4
  <2>2. CASE k # y /\ k = p /\ t = q
    <3>1. w.child[t][k] = y
      BY <1>10, <2>2
    <3>2. m.child[t][k] = z
      BY <1>1, <2>2, RootFacts
    <3> QED BY <1>3, <1>6, <1>8, <2>2, <3>1, <3>2
  <2>3. CASE k # y /\ ~ (k = p /\ t = q) /\ k = pp /\ t = "left"
    <3>1. w.child[t][k] = x
      BY <1>10, <2>3
    <3>2. m.child[t][k] = y
      BY <1>2, <2>3
    <3> QED BY <1>3, <1>6, <1>7, <2>3, <3>1, <3>2
  <2>4. CASE k # y /\ ~ (k = p /\ t = q) /\ ~ (k = pp /\ t = "left")
    <3> DEFINE e == m.child[t][k]
    <3>1. w.child[t][k] = e
      BY <1>10, <2>4
    <3>2. e # z
      <4> SUFFICES ASSUME e = z PROVE FALSE
        OBVIOUS
      <4>1. p = k /\ k # Null
        BY <1>1 DEF Tree
      <4>2. m.child[q][k] = z /\ q \in Sides
        BY <4>1, RootFacts
      <4>3. t = q
        <5> HIDE DEF q
        <5> QED BY <1>1, <4>2, OneParent
      <4> QED BY <2>4, <4>1, <4>3
    <3>3. e # x \/ e = Null
      <4> SUFFICES ASSUME e = x, e # Null PROVE FALSE
        OBVIOUS
      <4>1. m.parent[e] = k
        BY DEF Tree
      <4> QED BY <1>2, <2>4, <4>1
    <3>4. e # y
      <4> SUFFICES ASSUME e = y PROVE FALSE
        OBVIOUS
      <4>1. pp = k
        BY <1>1, <1>2 DEF Tree
      <4>2. m.child["left"][k] = y
        BY <1>2, <4>1
      <4>3. t = "left"
        BY <1>1, <1>2, <4>2, OneParent
      <4> QED BY <2>4, <4>1, <4>3
    <3>5. e \in K \cup {Null} /\ Passed(m, B, e) = E[k]
      BY <1>3, <1>6, <2>4, <3>2
    <3> HIDE DEF e
    <3> QED BY <1>9, <3>1, <3>3, <3>4, <3>5
  <2> QED BY <2>1, <2>2, <2>3, <2>4
<1>12. Level(w, K, E)
  BY <1>6, <1>11 DEF Level
<1> QED BY <1>5, <1>12 DEF Balanced

(* If every path met the same number of black nodes, it does again when x,   *)
(* which is red, is painted black; unless there is no x for a black node.    *)
LevelKept(n, m, N, z, x, c) ==
  Balanced(m, N) =>
    /\ x # Null => /\ ~ c /\ n.red[x]
                   /\ \A w : RedWasSet(w, n, x, FALSE) => Balanced(w, N \ {z})
    /\ x = Null /\ c => Balanced(n, N \ {z})

(* z has left the tree; only the node x that came up may be a red one under  *)
(* a red one, or a red root, and only if a black node went.                  *)
WasUnlinked(n, m, N, z, x, c) ==
  /\ n \in MapRec /\ Kept(n, m, N) /\ x \in (N \ {z}) \cup {Null} /\ c \in BOOLEAN
  /\ \E E : Tree(n, N \ {z}, E)
  /\ RedPairs(n, N \ {z}) \subseteq {x}
  /\ x # n.root => BlackRoot(n)
  /\ x = Null \/ c => RedPairs(n, N \ {z}) = {} /\ BlackRoot(n)
  /\ LevelKept(n, m, N, z, x, c)

(* iot_node_remove before it rebalances: a node with at most one child,      *)
LEMMA UnlinkedShort ==
  ASSUME NEW m \in MapRec, NEW N, NEW D, Tree(m, N, D), RedPairs(m, N) = {}, BlackRoot(m),
         NEW z \in N, NEW s \in Sides, m.child[s][z] = Null, NEW v, v = m.child[Other(s)][z]
  PROVE  WasUnlinked(Transplant(m, z, v), m, N, z, v, m.red[z])
<1> DEFINE n == Transplant(m, z, v)
           p == m.parent[z]
           K == N \ {z}
<1>1. N \subseteq Keys /\ Null \notin Keys /\ D \in [N -> SUBSET N] /\ z # Null
  BY KeyFacts DEF Tree
<1>2. v \in K \cup {Null} /\ (v # Null => m.parent[v] = z)
  <2>1. v \in N \cup {Null} /\ v # z
    BY BelowFacts
  <2>2. v # Null => m.parent[v] = z
    BY SideFacts DEF Tree
  <2> QED BY <2>1, <2>2
<1>3. WasTransplanted(n, m, z, v)
  <2>1. z \in Keys /\ v \in Keys \cup {Null}
    BY <1>1, <1>2
  <2> QED BY <2>1, Transplanted
<1>4. \E E : Tree(n, K, E)
  <2> HIDE DEF n
  <2> QED BY <1>3, ShortcutTree
<1> HIDE DEF n
<1>5. p \in N \cup {Null} /\ (p = Null <=> z = m.root) /\ m.root \in N
  BY RootFacts
<1>6. Kept(n, m, N)
  <2>1. \A k \in Keys \ N : k # v /\ k # p
    BY <1>1, <1>2, <1>5
  <2> HIDE DEF p
  <2> QED BY <1>3, <2>1 DEF WasTransplanted, WasHung, Kept, p
<1>7. /\ n \in MapRec /\ n.red = m.red /\ n.root = IF p = Null THEN v ELSE m.root
      /\ \A w \in N : n.parent[w] = IF w = v THEN p ELSE m.parent[w]
  BY <1>1, <1>3 DEF WasTransplanted, WasHung, SameContents
<1>8. RedPairs(n, K) \subseteq {v}
  BY <1>7 DEF RedPairs
<1>9. v # n.root => BlackRoot(n)
  BY <1>5, <1>7 DEF BlackRoot
<1>10. v = Null => RedPairs(n, K) = {}
  BY <1>1, <1>8 DEF RedPairs
<1>11. m.red[z] => RedPairs(n, K) = {}
  <2> HAVE m.red[z]
  <2>1. v # Null => ~ m.red[v]
    BY <1>1, <1>2 DEF RedPairs
  <2> QED BY <1>1, <1>7, <1>8, <2>1 DEF RedPairs
<1>12. v = Null \/ m.red[z] => BlackRoot(n)
  BY <1>1, <1>5, <1>7 DEF BlackRoot
<1>13. m.red[z] \in BOOLEAN
  BY <1>1 DEF MapRec
<1>14. LevelKept(n, m, N, z, v, m.red[z])
  <2> SUFFICES ASSUME NEW B, Level(m, N, B)
               PROVE  /\ v # Null => /\ ~ m.red[z] /\ n.red[v]
                                     /\ \A w : RedWasSet(w, n, v, FALSE) => Balanced(w, K)
                      /\ v = Null /\ m.red[z] => Balanced(n, K)
    BY DEF LevelKept, Balanced
  <2>1. ASSUME v # Null
        PROVE  ~ m.red[z] /\ n.red[v]
    <3>1. v \in N /\ Passed(m, B, v) = B[z] /\ Passed(m, B, Null) = B[z] /\ B \in [N -> Nat]
      BY <1>2, <2>1, SideFacts DEF Level
    <3>2. B[v] \in Nat /\ m.red[v]
      BY <2>1, <3>1 DEF Passed
    <3>3. v \notin RedPairs(m, N)
      OBVIOUS
    <3> QED BY <1>1, <1>2, <1>7, <2>1, <3>1, <3>2, <3>3 DEF RedPairs
  <2>2. ASSUME v # Null, NEW w, RedWasSet(w, n, v, FALSE)
        PROVE  Balanced(w, K)
    <3>1. WasRecoloured(w, n, m, N, v, z, z)
      BY <1>1, <1>7, <2>2 DEF RedWasSet, WasRecoloured
    <3>2. v = Null => m.red[z]
      BY <2>2
    <3> HIDE DEF p
    <3>3. Balanced(w, N \ {z})
      BY <1>3, <3>1, <3>2, ShortLevel
    <3> QED BY <3>3
  <2>3. ASSUME v = Null, m.red[z]
        PROVE  Balanced(n, K)
    <3>1. WasRecoloured(n, n, m, N, v, z, z)
      BY <1>1, <1>7, <2>3 DEF WasRecoloured
    <3>2. v = Null => m.red[z]
      BY <2>3
    <3> DEFINE w == n
    <3>3. WasRecoloured(w, n, m, N, v, z, z)
      BY <3>1
    <3> HIDE DEF w
    <3>4. Balanced(w, K)
      BY <1>3, <3>2, <3>3, ShortLevel, SMTT(30)
    <3> QED BY <3>4 DEF w
  <2> QED BY <2>1, <2>2, <2>3
<1> QED BY <1>2, <1>4, <1>6, <1>7, <1>8, <1>9, <1>10, <1>11, <1>12, <1>13, <1>14 DEF WasUnlinked, n

(* one with two children,                                                    *)
LEMMA UnlinkedReplaced ==
  ASSUME NEW m \in MapRec, NEW N, NEW D, Tree(m, N, D), RedPairs(m, N) = {}, BlackRoot(m),
         NEW z \in N,
         NEW l, l = m.child["left"][z], l # Null,
         NEW r, r = m.child["right"][z], r # Null,
         NEW y, y = Extreme(m, r, "left"), NEW x, x = m.child["right"][y]
  PROVE  WasUnlinked(Replacement(m, z, l, r, y, x), m, N, z, x, m.red[y])
<1> DEFINE n == Replacement(m, z, l, r, y, x)
           p == m.parent[z]
           pp == m.parent[y]
           K == N \ {z}
<1>1. N \subseteq Keys /\ Null \notin Keys /\ D \in [N -> SUBSET N] /\ z # Null
  BY KeyFacts DEF Tree
<1>2. /\ l \in N /\ r \in N /\ y \in N /\ x \in N \cup {Null}
      /\ l # z /\ r # z /\ y # z /\ x # z /\ l # r /\ l # y /\ l # x /\ x # y /\ x # r
      /\ m.child["left"][y] = Null
      /\ m.parent[l] = z /\ m.parent[r] = z /\ (x # Null => m.parent[x] = y)
      /\ D[z] = {z} \cup D[l] \cup D[r] /\ y \in D[r]
      /\ (pp = z <=> y = r) /\ (y # r => pp \in N)
  BY SuccessorFacts
<1>3. WasReplaced(n, m, z, l, r, y, x)
  BY ReplacedLinks
<1>4. \E E : Tree(n, K, E)
  <2> HIDE DEF n
  <2> QED BY <1>3, ReplacedTree
<1> HIDE DEF n
<1>5. /\ p \in N \cup {Null} /\ (p = Null <=> z = m.root) /\ m.root \in N
      /\ p # z /\ ~ m.red[m.root]
  BY <1>1, RootFacts DEF BlackRoot
<1>6. p # y
  <2> SUFFICES ASSUME p = y PROVE FALSE
    OBVIOUS
  <2> DEFINE q == SideOf(m, z)
  <2>1. q \in Sides /\ m.child[q][y] = z
    BY <1>1, <1>2, RootFacts
  <2> HIDE DEF q
  <2>2. y \notin D[z]
    BY <1>1, <1>2, <2>1, ChildFacts
  <2> QED BY <1>2, <2>2
<1>7. n \in MapRec /\ Kept(n, m, N)
  <2>1. \A k \in Keys \ N : k # y /\ k # p /\ k # x /\ k # l /\ k # r /\ k # z /\ (k = pp => k = z)
    BY <1>1, <1>2, <1>5
  <2> HIDE DEF p, pp
  <2>2. \A k \in Keys \ N : n.parent[k] = m.parent[k]
    BY <1>3, <2>1 DEF WasReplaced
  <2>3. \A k \in Keys \ N, t \in Sides : n.child[t][k] = m.child[t][k]
    BY <1>3, <2>1 DEF WasReplaced, p, pp
  <2>4. SameContents(n, m) /\ n \in MapRec
    BY <1>3 DEF WasReplaced, SameContents
  <2> QED BY <2>2, <2>3, <2>4 DEF Kept
<1>8. /\ n.root = IF p = Null THEN y ELSE m.root
      /\ \A k \in K : n.parent[k] = IF k = y THEN p
                                    ELSE IF k = x THEN IF r = y THEN y ELSE pp
                                    ELSE IF k = l \/ k = r THEN y ELSE m.parent[k]
      /\ \A k \in N : n.red[k] = IF k = y THEN m.red[z] ELSE m.red[k]
  BY <1>1, <1>3 DEF WasReplaced
<1> HIDE DEF pp
<1>9. RedPairs(n, K) \subseteq {x}
  <2> SUFFICES ASSUME NEW w \in RedPairs(n, K), w # x PROVE FALSE
    OBVIOUS
  <2>1. w \in N /\ w # z /\ n.red[w] /\ n.parent[w] # Null /\ n.red[n.parent[w]]
    BY DEF RedPairs
  <2>2. \A a \in N : m.red[a] /\ m.parent[a] # Null => ~ m.red[m.parent[a]]
    BY DEF RedPairs
  <2>3. w # y
    <3> SUFFICES ASSUME w = y PROVE FALSE
      OBVIOUS
    <3>1. m.red[z] /\ p # Null /\ m.red[p]
      BY <1>2, <1>5, <1>6, <1>8, <2>1
    <3> QED BY <2>2, <3>1
  <2>4. w # l /\ w # r
    <3> SUFFICES ASSUME w = l \/ w = r PROVE FALSE
      OBVIOUS
    <3>1. m.parent[w] = z /\ m.red[w] /\ m.red[z]
      BY <1>2, <1>8, <2>1, <2>3
    <3> QED BY <1>1, <2>1, <2>2, <3>1
  <2>5. n.parent[w] = m.parent[w] /\ m.red[w] /\ m.parent[w] \in N
    <3>1. n.parent[w] = m.parent[w] /\ m.red[w]
      BY <1>8, <2>1, <2>3, <2>4
    <3> QED BY <2>1, <3>1, RootFacts
  <2>6. m.parent[w] # y
    <3> SUFFICES ASSUME m.parent[w] = y PROVE FALSE
      OBVIOUS
    <3>1. m.child[SideOf(m, w)][y] = w /\ SideOf(m, w) \in Sides /\ w # Null
      BY <1>1, <2>1, <2>5, RootFacts
    <3> QED BY <1>2, <3>1 DEF Sides
  <2> QED BY <1>8, <2>1, <2>2, <2>5, <2>6
<1>10. BlackRoot(n)
  <2>1. CASE p = Null
    BY <1>2, <1>5, <1>8, <2>1 DEF BlackRoot
  <2>2. CASE p # Null
    <3>1. m.root # y
      <4>1. y # m.root
        BY <1>1, <1>2, ParentFacts, RootFacts
      <4> QED BY <4>1
    <3> QED BY <1>5, <1>8, <2>2, <3>1 DEF BlackRoot
  <2> QED BY <2>1, <2>2
<1>11. x = Null \/ m.red[y] => RedPairs(n, K) = {}
  <2> HAVE x = Null \/ m.red[y]
  <2>1. x \notin RedPairs(n, K)
    BY <1>1, <1>2, <1>8 DEF RedPairs
  <2> QED BY <1>9, <2>1
<1>12. m.red[y] \in BOOLEAN
  BY <1>1, <1>2 DEF MapRec
<1>13. LevelKept(n, m, N, z, x, m.red[y])
  <2> SUFFICES ASSUME NEW B, Level(m, N, B)
               PROVE  /\ x # Null => /\ ~ m.red[y] /\ n.red[x]
                                     /\ \A w : RedWasSet(w, n, x, FALSE) => Balanced(w, K)
                      /\ x = Null /\ m.red[y] => Balanced(n, K)
    BY DEF LevelKept, Balanced
  <2>1. ASSUME x # Null
        PROVE  ~ m.red[y] /\ n.red[x]
    <3>1. x \in N /\ Passed(m, B, x) = B[y] /\ Passed(m, B, Null) = B[y] /\ B \in [N -> Nat]
      BY <1>2, <2>1, SideFacts DEF Level
    <3>2. B[x] \in Nat /\ m.red[x]
      BY <2>1, <3>1 DEF Passed
    <3>3. x \notin RedPairs(m, N)
      OBVIOUS
    <3> QED BY <1>1, <1>2, <1>8, <2>1, <3>1, <3>2, <3>3 DEF RedPairs
  <2>2. ASSUME x # Null, NEW w, RedWasSet(w, n, x, FALSE)
        PROVE  Balanced(w, K)
    <3>1. WasRecoloured(w, n, m, N, x, y, z)
      BY <1>1, <1>8, <2>2, ZenonT(60) DEF RedWasSet, WasRecoloured
    <3> QED BY <1>3, <2>2, <3>1, ReplacedLevel
  <2>3. ASSUME x = Null, m.red[y]
        PROVE  Balanced(n, K)
    <3>1. WasRecoloured(n, n, m, N, x, y, z)
      BY <1>1, <1>8, <2>3 DEF WasRecoloured
    <3>2. x = Null => m.red[y]
      BY <2>3
    <3> DEFINE w == n
    <3>3. WasRecoloured(w, n, m, N, x, y, z)
      BY <3>1
    <3> HIDE DEF w
    <3>4. Balanced(w, K)
      BY <1>3, <3>2, <3>3, ReplacedLevel
    <3> QED BY <3>4 DEF w
  <2> QED BY <2>1, <2>2, <2>3
<1> QED BY <1>2, <1>4, <1>7, <1>9, <1>10, <1>11, <1>12, <1>13 DEF WasUnlinked, n

(* and both.                                                                 *)
LEMMA Unlinked ==
  ASSUME NEW m \in MapRec, NEW N, NEW D, Tree(m, N, D), RedPairs(m, N) = {}, BlackRoot(m),
         NEW z \in N
  PROVE  \E n, x, c : Unlink(m, z) = <<n, x, c>> /\ WasUnlinked(n, m, N, z, x, c)
<1> DEFINE l == m.child["left"][z]
           r == m.child["right"][z]
           y == Extreme(m, r, "left")
           x == m.child["right"][y]
<1>1. Unlink(m, z) =
        CASE l = Null -> <<Transplant(m, z, r), r, m.red[z]>>
          [] l # Null /\ r = Null -> <<Transplant(m, z, l), l, m.red[z]>>
          [] OTHER -> <<Replacement(m, z, l, r, y, x), x, m.red[y]>>
  BY DEF Unlink, Replacement
<1>2. CASE l = Null
  <2>1. WasUnlinked(Transplant(m, z, r), m, N, z, r, m.red[z])
    BY <1>2, SideFacts, UnlinkedShort
  <2> QED BY <1>1, <1>2, <2>1
<1>3. CASE l # Null /\ r = Null
  <2>1. WasUnlinked(Transplant(m, z, l), m, N, z, l, m.red[z])
    BY <1>3, SideFacts, UnlinkedShort
  <2> QED BY <1>1, <1>3, <2>1
<1>4. CASE l # Null /\ r # Null
  <2>1. WasUnlinked(Replacement(m, z, l, r, y, x), m, N, z, x, m.red[y])
    BY <1>4, UnlinkedReplaced
  <2> QED BY <1>1, <1>4, <2>1
<1> QED BY <1>2, <1>3, <1>4

(* b is m with other colours.                                                *)
Painted(b, m) ==
  SameContents(b, m) /\ b.root = m.root /\ b.child = m.child /\ b.parent = m.parent

(* One more node painted.                                                    *)
LEMMA PaintedOne ==
  ASSUME NEW m \in MapRec, NEW a, Painted(a, m), NEW k \in Keys \cup {Null}, NEW c \in BOOLEAN
  PROVE  Painted(SetRed(a, k, c), m) /\ RedWasSet(SetRed(a, k, c), a, k, c)
<1> DEFINE b == SetRed(a, k, c)
<1>1. a \in MapRec
  BY DEF Painted, SameContents
<1>2. RedWasSet(b, a, k, c)
  BY <1>1, RedSet
<1> HIDE DEF b
<1>3. Painted(b, m)
  BY <1>2 DEF Painted, RedWasSet, SameContents
<1> QED BY <1>2, <1>3 DEF b

(* Painting leaves the tree as it is.                                        *)
LEMMA PaintedKept ==
  ASSUME NEW m, NEW b, Painted(b, m), NEW N
  PROVE  b \in MapRec /\ Kept(b, m, N) /\ \A D : Tree(m, N, D) => Tree(b, N, D)
BY TreeSame DEF Painted, SameContents, Kept

(* A node is one of the children of its parent.                              *)
LEMMA ChildOf ==
  ASSUME NEW m, NEW N, NEW D, Tree(m, N, D), NEW w \in N, m.parent[w] # Null, NEW s \in Sides
  PROVE  /\ m.parent[w] \in N
         /\ w = m.child[s][m.parent[w]] \/ w = m.child[Other(s)][m.parent[w]]
<1>1. m.parent[w] \in N /\ m.child[SideOf(m, w)][m.parent[w]] = w /\ SideOf(m, w) \in Sides
  BY RootFacts
<1>2. SideOf(m, w) = s \/ SideOf(m, w) = Other(s)
  BY <1>1, SideFacts, SMTT(30)
<1> QED BY <1>1, <1>2

(* A rotation after repainting: r is what comes of m.                        *)
WasTurned(r, m, N, x, s, y, c) ==
  /\ r \in MapRec /\ Kept(r, m, N) /\ \E E : Tree(r, N, E)
  /\ r.root = IF m.parent[x] = Null THEN y ELSE m.root
  /\ \A k \in N : r.parent[k] = IF k = x THEN y ELSE IF k = c THEN x
                                ELSE IF k = y THEN m.parent[x] ELSE m.parent[k]
  /\ \A t \in Sides, k \in N :
       r.child[t][k] = IF k = x /\ t = Other(s) THEN c
                       ELSE IF k = y /\ t = s THEN x
                       ELSE IF k = m.parent[x] /\ t = SideOf(m, x) THEN y ELSE m.child[t][k]
  /\ y \in N /\ y # x /\ m.parent[y] = x
  /\ c \in N \cup {Null} /\ c # x /\ c # y /\ (c # Null => m.parent[c] = y)
  /\ m.parent[x] # x /\ m.parent[x] # y /\ m.parent[x] \in N \cup {Null}

(* Nodes painted, then a rotation.                                           *)
LEMMA PaintedTurn ==
  ASSUME NEW m \in MapRec, NEW N, NEW D, Tree(m, N, D), NEW b, Painted(b, m),
         NEW x \in N, NEW s \in Sides,
         NEW y, y = m.child[Other(s)][x], y # Null, NEW c, c = m.child[s][y]
  PROVE  WasTurned(Rotate(b, x, s), m, N, x, s, y, c) /\ Rotate(b, x, s).red = b.red
<1> DEFINE r == Rotate(b, x, s)
           p == m.parent[x]
<1>1. N \subseteq Keys /\ Null \notin N /\ D \in [N -> SUBSET N]
  BY KeyFacts DEF Tree
<1>2. b \in MapRec /\ Kept(b, m, N) /\ Tree(b, N, D)
  BY PaintedKept
<1>3. /\ r \in MapRec /\ Kept(r, b, N) /\ r.red = b.red /\ (\E E : Tree(r, N, E))
      /\ WasRotated(r, b, x, s, y, c, p)
  BY <1>2, RotatedKept DEF Painted
<1> HIDE DEF r
<1>4. Kept(r, m, N)
  BY <1>2, <1>3, KeptTwice
<1>5. /\ y \in N /\ y # x /\ m.parent[y] = x /\ y \in D[y] /\ D[y] \subseteq D[x]
  BY SideFacts, ChildFacts
<1>6. /\ c \in N \cup {Null} /\ c # x /\ c # y /\ (c # Null => m.parent[c] = y)
  <2>1. c \in N \cup {Null} /\ c # y /\ (c # Null => m.parent[c] = y)
    BY <1>5, ChildFacts, BelowFacts
  <2>2. x # Null
    BY <1>1
  <2>3. m.parent[x] # y
    <3> SUFFICES ASSUME m.parent[x] = y PROVE FALSE
      OBVIOUS
    <3> DEFINE q == SideOf(m, x)
    <3>1. q \in Sides /\ m.child[q][y] = x
      BY <1>1, <1>5, RootFacts
    <3> HIDE DEF q
    <3>2. y \notin D[x]
      BY <1>1, <1>5, <2>2, <3>1, ChildFacts
    <3> QED BY <1>5, <3>2
  <2> QED BY <2>1, <2>2, <2>3
<1>7. p # x /\ p # y /\ p \in N \cup {Null}
  <2>1. p # x /\ p \in N \cup {Null}
    BY <1>1, RootFacts
  <2>2. p # y
    <3> SUFFICES ASSUME p = y PROVE FALSE
      OBVIOUS
    <3> DEFINE q == SideOf(m, x)
    <3>1. q \in Sides /\ m.child[q][y] = x
      BY <1>1, <1>5, RootFacts
    <3> HIDE DEF q
    <3>2. y \notin D[x]
      BY <1>1, <1>5, <3>1, ChildFacts
    <3> QED BY <1>5, <3>2
  <2> QED BY <2>1, <2>2
<1>8. r.root = (IF p = Null THEN y ELSE m.root) /\ SideOf(b, x) = SideOf(m, x)
  BY <1>3 DEF WasRotated, Painted, SideOf
<1>9. \A k \in N : r.parent[k] = IF k = x THEN y ELSE IF k = c THEN x
                                 ELSE IF k = y THEN p ELSE m.parent[k]
  BY <1>1, <1>3 DEF WasRotated, Painted
<1>10. \A t \in Sides, k \in N :
         r.child[t][k] = IF k = x /\ t = Other(s) THEN c
                         ELSE IF k = y /\ t = s THEN x
                         ELSE IF k = p /\ t = SideOf(m, x) THEN y ELSE m.child[t][k]
  <2> HIDE DEF p
  <2> QED BY <1>1, <1>3, <1>8 DEF WasRotated, Painted
<1> QED BY <1>3, <1>4, <1>5, <1>6, <1>7, <1>8, <1>9, <1>10 DEF WasTurned, r

(* The tree a turn starts with: the node x lacks a black one on its side s   *)
(* of p, no two reds meet.                                                   *)
Lacking(m, N, x, p, s) ==
  /\ m \in MapRec /\ \E D : Tree(m, N, D)
  /\ RedPairs(m, N) = {} /\ BlackRoot(m)
  /\ x \in N /\ ~ m.red[x] /\ p \in N /\ m.parent[x] = p /\ s \in Sides /\ m.child[s][p] = x

(* 3.1: a red sibling comes up, and a black one takes its place.             *)
LEMMA RedSibling ==
  ASSUME NEW m, NEW N, NEW x, NEW p, NEW s, Lacking(m, N, x, p, s),
         NEW b, b = m.child[Other(s)][p], IsRed(m, b)
  PROVE  LET r == Rotate(SetRed(SetRed(m, b, FALSE), p, TRUE), p, s) IN
         /\ Lacking(r, N, x, p, s) /\ Kept(r, m, N) /\ r.red[p]
         /\ ~ IsRed(r, r.child[Other(s)][p])
<1> DEFINE o == Other(s)
           c == m.child[s][b]
           a1 == SetRed(m, b, FALSE)
           a2 == SetRed(a1, p, TRUE)
           r == Rotate(a2, p, s)
<1>1. PICK D : Tree(m, N, D)
  BY DEF Lacking
<1>2. /\ m \in MapRec /\ RedPairs(m, N) = {} /\ BlackRoot(m) /\ x \in N /\ ~ m.red[x] /\ p \in N
      /\ m.parent[x] = p /\ s \in Sides /\ m.child[s][p] = x
  BY DEF Lacking
<1>3. N \subseteq Keys /\ Null \notin Keys
  BY <1>1, KeyFacts DEF Tree
<1>4. o \in Sides /\ o # s /\ Other(o) = s
  BY <1>2, SideFacts
<1>5. b # Null /\ m.red[b] /\ b \in N /\ b \in Keys /\ p \in Keys
  <2>1. b # Null /\ m.red[b]
    BY DEF IsRed
  <2> QED BY <1>1, <1>2, <1>3, <1>4, <2>1 DEF Tree
<1>6. Painted(m, m)
  BY <1>2 DEF Painted, SameContents
<1>7. Painted(a1, m) /\ RedWasSet(a1, m, b, FALSE)
  BY <1>2, <1>5, <1>6, PaintedOne
<1> HIDE DEF a1
<1>8. Painted(a2, m) /\ RedWasSet(a2, a1, p, TRUE)
  BY <1>2, <1>5, <1>7, PaintedOne
<1> HIDE DEF a2
<1>9. WasTurned(r, m, N, p, s, b, c) /\ r.red = a2.red
  BY <1>1, <1>2, <1>5, <1>8, PaintedTurn
<1> HIDE DEF r, c
<1>10. /\ r \in MapRec /\ Kept(r, m, N) /\ \E E : Tree(r, N, E)
       /\ b # p /\ c # p /\ c # b /\ c \in N \cup {Null} /\ (c # Null => m.parent[c] = b)
       /\ m.parent[p] # p /\ m.parent[p] # b
  BY <1>9 DEF WasTurned
<1>11. \A k \in N : r.red[k] = IF k = p THEN TRUE ELSE IF k = b THEN FALSE ELSE m.red[k]
  BY <1>3, <1>7, <1>8, <1>9 DEF RedWasSet
<1>12. c # Null => ~ m.red[c]
  BY <1>2, <1>3, <1>5, <1>10 DEF RedPairs
<1>13. \A k \in N : r.parent[k] = IF k = p THEN b ELSE IF k = c THEN p
                                  ELSE IF k = b THEN m.parent[p] ELSE m.parent[k]
  BY <1>9 DEF WasTurned
<1>14. RedPairs(r, N) = {}
  <2> SUFFICES ASSUME NEW w \in RedPairs(r, N) PROVE FALSE
    OBVIOUS
  <2>1. w \in N /\ r.red[w] /\ r.parent[w] # Null /\ r.red[r.parent[w]] /\ w # Null
    BY <1>3 DEF RedPairs
  <2>2. w # p /\ w # b /\ w # c
    BY <1>2, <1>5, <1>10, <1>11, <1>12, <1>13, <2>1
  <2>3. r.parent[w] = m.parent[w] /\ m.red[w]
    BY <1>11, <1>13, <2>1, <2>2
  <2>4. m.parent[w] \in N /\ (w = m.child[s][m.parent[w]] \/ w = m.child[o][m.parent[w]])
    BY <1>1, <1>2, <2>1, <2>3, ChildOf
  <2>5. m.parent[w] # p
    BY <1>2, <2>2, <2>3, <2>4
  <2>6. m.red[m.parent[w]]
    BY <1>5, <1>11, <2>1, <2>3, <2>4, <2>5
  <2> QED BY <1>2, <2>1, <2>3, <2>6 DEF RedPairs
<1>15. BlackRoot(r)
  <2>1. m.root \in N /\ ~ m.red[m.root] /\ (m.parent[p] # Null => p # m.root)
    BY <1>1, <1>2, <1>3, RootFacts DEF BlackRoot
  <2>2. r.root = IF m.parent[p] = Null THEN b ELSE m.root
    BY <1>9 DEF WasTurned
  <2> QED BY <1>5, <1>10, <1>11, <2>1, <2>2 DEF BlackRoot
<1>16. r.child[o][p] = c /\ r.child[s][p] = x
  BY <1>2, <1>4, <1>9, <1>10 DEF WasTurned
<1>17. r.parent[x] = p /\ ~ r.red[x] /\ r.red[p] /\ (c # Null => ~ r.red[c])
  <2>1. x # p /\ x # b
    BY <1>1, <1>2, <1>5, BelowFacts
  <2>2. x # c
    BY <1>2, <1>3, <1>10
  <2> QED BY <1>2, <1>10, <1>11, <1>12, <1>13, <2>1, <2>2
<1>18. Lacking(r, N, x, p, s)
  BY <1>2, <1>10, <1>14, <1>15, <1>16, <1>17, SMTT(30) DEF Lacking
<1> QED BY <1>10, <1>16, <1>17, <1>18 DEF IsRed, r, a1, a2

(* The child y of x turns black and comes up, x turns red and goes down to s. *)
ComeUp(m, y, x, s) == Rotate(SetRed(SetRed(m, y, FALSE), x, TRUE), x, s)

(* 3.3: the red child of the sibling b on side s takes its place.            *)
LEMMA RedNear ==
  ASSUME NEW m, NEW N, NEW x, NEW p, NEW s, Lacking(m, N, x, p, s),
         NEW b, b = m.child[Other(s)][p], b # Null, ~ IsRed(m, b),
         NEW y, y = m.child[s][b], IsRed(m, y), ~ IsRed(m, m.child[Other(s)][b])
  PROVE  LET r == ComeUp(m, y, b, Other(s)) IN
         /\ Lacking(r, N, x, p, s) /\ Kept(r, m, N)
         /\ r.child[Other(s)][p] = y /\ y # Null /\ ~ IsRed(r, y)
         /\ r.child[Other(s)][y] = b /\ IsRed(r, b)
<1> DEFINE o == Other(s)
           c == m.child[o][y]
           a1 == SetRed(m, y, FALSE)
           a2 == SetRed(a1, b, TRUE)
           r == ComeUp(m, y, b, o)
<1>0. r = Rotate(a2, b, o)
  BY DEF ComeUp
<1> HIDE DEF r
<1>1. PICK D : Tree(m, N, D)
  BY DEF Lacking
<1>2. /\ m \in MapRec /\ RedPairs(m, N) = {} /\ BlackRoot(m) /\ x \in N /\ ~ m.red[x] /\ p \in N
      /\ m.parent[x] = p /\ s \in Sides /\ m.child[s][p] = x
  BY DEF Lacking
<1>3. N \subseteq Keys /\ Null \notin Keys
  BY <1>1, KeyFacts DEF Tree
<1>4. o \in Sides /\ o # s /\ Other(o) = s
  BY <1>2, SideFacts
<1>5. b \in N /\ b \in Keys /\ m.parent[b] = p /\ b # p /\ b # x /\ ~ m.red[b]
  <2>1. b \in N /\ m.parent[b] = p /\ b # p /\ b # x
    BY <1>1, <1>2, <1>4, ChildFacts
  <2> QED BY <1>3, <2>1 DEF IsRed
<1>6. /\ y # Null /\ m.red[y] /\ y \in N /\ y \in Keys /\ m.parent[y] = b /\ y # b /\ y # p /\ y # x
  <2>1. y # Null /\ m.red[y]
    BY DEF IsRed
  <2>2. y \in N /\ m.parent[y] = b /\ y # b
    BY <1>1, <1>2, <1>5, <2>1, ChildFacts
  <2>3. y # x
    BY <1>2, <2>1
  <2>4. y # p
    <3> SUFFICES ASSUME y = p PROVE FALSE
      OBVIOUS
    <3>1. p \in D[b] /\ p \notin D[b]
      <4>0. m.child[s][b] # Null
        BY <2>1
      <4>1. m.child[s][b] \in D[m.child[s][b]] /\ D[m.child[s][b]] \subseteq D[b]
        <5>1. s \in Sides /\ b \in N
          BY <1>2, <1>5
        <5> HIDE DEF o, c, a1, a2
        <5> QED BY ONLY <1>1, <4>0, <5>1, ChildFacts
      <4>2. p \notin D[b]
        BY <1>1, <1>2, <1>4, ChildFacts
      <4> QED BY <4>1, <4>2
    <3> QED BY <3>1
  <2> QED BY <1>3, <2>1, <2>2, <2>3, <2>4
<1>7. Painted(m, m)
  BY <1>2 DEF Painted, SameContents
<1>8. Painted(a1, m) /\ RedWasSet(a1, m, y, FALSE)
  BY <1>2, <1>6, <1>7, PaintedOne
<1> HIDE DEF a1
<1>9. Painted(a2, m) /\ RedWasSet(a2, a1, b, TRUE)
  BY <1>2, <1>5, <1>8, PaintedOne
<1> HIDE DEF a2
<1>10. WasTurned(r, m, N, b, o, y, c) /\ r.red = a2.red
  <2>1. WasTurned(Rotate(a2, b, o), m, N, b, o, y, c) /\ Rotate(a2, b, o).red = a2.red
    BY <1>1, <1>2, <1>4, <1>5, <1>6, <1>9, PaintedTurn, SMTT(30)
  <2> QED BY <1>0, <2>1
<1> HIDE DEF c
<1>11. /\ r \in MapRec /\ Kept(r, m, N) /\ \E E : Tree(r, N, E)
       /\ c # b /\ c # y /\ c \in N \cup {Null} /\ (c # Null => m.parent[c] = y)
  BY <1>10 DEF WasTurned
<1>12. \A k \in N : r.red[k] = IF k = b THEN TRUE ELSE IF k = y THEN FALSE ELSE m.red[k]
  BY <1>3, <1>8, <1>9, <1>10 DEF RedWasSet
<1>13. \A k \in N : r.parent[k] = IF k = b THEN y ELSE IF k = c THEN b
                                  ELSE IF k = y THEN p ELSE m.parent[k]
  BY <1>5, <1>10 DEF WasTurned
<1>14. c # Null => ~ m.red[c]
  BY <1>2, <1>3, <1>6, <1>11 DEF RedPairs
<1>15. RedPairs(r, N) = {}
  <2> SUFFICES ASSUME NEW w \in RedPairs(r, N) PROVE FALSE
    OBVIOUS
  <2>1. w \in N /\ r.red[w] /\ r.parent[w] # Null /\ r.red[r.parent[w]] /\ w # Null
    BY <1>3, SMTT(30) DEF RedPairs
  <2>2. w # b /\ w # y /\ w # c
    BY <1>5, <1>6, <1>11, <1>12, <1>13, <1>14, <2>1
  <2>3. r.parent[w] = m.parent[w] /\ m.red[w]
    BY <1>12, <1>13, <2>1, <2>2
  <2>4. m.parent[w] \in N /\ (w = m.child[s][m.parent[w]] \/ w = m.child[o][m.parent[w]])
    BY <1>1, <1>2, <2>1, <2>3, ChildOf
  <2>5. m.parent[w] # b
    BY <1>2, <2>1, <2>2, <2>3, <2>4 DEF IsRed
  <2>6. m.red[m.parent[w]]
    BY <1>6, <1>12, <2>1, <2>3, <2>4, <2>5
  <2> QED BY <1>2, <2>1, <2>3, <2>6 DEF RedPairs
<1>16. BlackRoot(r)
  <2>1. m.root \in N /\ ~ m.red[m.root] /\ b # m.root
    BY <1>1, <1>2, <1>3, <1>5, RootFacts DEF BlackRoot
  <2>2. r.root = m.root
    BY <1>2, <1>3, <1>5, <1>10 DEF WasTurned
  <2> QED BY <1>12, <2>1, <2>2 DEF BlackRoot
<1>17. SideOf(m, b) = o
  <2>1. m.child[SideOf(m, b)][p] = b /\ SideOf(m, b) \in Sides
    BY <1>1, <1>3, <1>2, <1>5, RootFacts, SMTT(30)
  <2> QED BY <1>2, <1>5, <2>1, SideFacts
<1>18. /\ \A t \in Sides, k \in N :
            r.child[t][k] = IF k = b /\ t = s THEN c ELSE IF k = y /\ t = o THEN b
                            ELSE IF k = p /\ t = o THEN y ELSE m.child[t][k]
  BY <1>4, <1>5, <1>10, <1>17, SMTT(30) DEF WasTurned
<1>19. r.child[o][p] = y /\ r.child[o][y] = b /\ r.child[s][p] = x
  BY <1>2, <1>4, <1>5, <1>6, <1>18, SMTT(30)
<1>20. r.parent[x] = p /\ ~ r.red[x] /\ ~ r.red[y] /\ r.red[b]
  <2>1. x # c
    BY <1>2, <1>3, <1>6, <1>11
  <2> QED BY <1>2, <1>5, <1>6, <1>12, <1>13, <2>1
<1>21. Lacking(r, N, x, p, s)
  BY <1>2, <1>11, <1>15, <1>16, <1>19, <1>20 DEF Lacking
<1> QED BY <1>6, <1>5, <1>11, <1>19, <1>20, <1>21, <1>3 DEF IsRed, r

(* 3.4: the sibling b, with a red child y on its own side, comes up.         *)
LEMMA RedFar ==
  ASSUME NEW m, NEW N, NEW x, NEW p, NEW s, Lacking(m, N, x, p, s),
         NEW b, b = m.child[Other(s)][p], b # Null, ~ IsRed(m, b),
         NEW y, y = m.child[Other(s)][b], IsRed(m, y)
  PROVE  LET r == Rotate(InheritColour(m, p, Other(s)), p, s) IN
         /\ r \in MapRec /\ Kept(r, m, N) /\ (\E E : Tree(r, N, E))
         /\ RedPairs(r, N) = {} /\ BlackRoot(r) /\ r.root \in N
<1> DEFINE o == Other(s)
           c == m.child[s][b]
           a1 == SetRed(m, b, m.red[p])
           a2 == SetRed(a1, p, FALSE)
           a3 == SetRed(a2, y, FALSE)
           r == Rotate(a3, p, s)
<1>1. PICK D : Tree(m, N, D)
  BY DEF Lacking
<1>2. /\ m \in MapRec /\ RedPairs(m, N) = {} /\ BlackRoot(m) /\ x \in N /\ ~ m.red[x] /\ p \in N
      /\ m.parent[x] = p /\ s \in Sides /\ m.child[s][p] = x
  BY DEF Lacking
<1>3. N \subseteq Keys /\ Null \notin Keys
  BY <1>1, KeyFacts DEF Tree
<1>4. o \in Sides /\ o # s /\ Other(o) = s
  BY <1>2, SideFacts
<1>5. b \in N /\ b \in Keys /\ m.parent[b] = p /\ b # p /\ ~ m.red[b] /\ p \in Keys /\ m.red[p] \in BOOLEAN
  <2>1. b \in N /\ m.parent[b] = p /\ b # p
    BY <1>1, <1>2, <1>4, ChildFacts
  <2>2. m.red[p] \in BOOLEAN
    BY <1>2, <1>3 DEF MapRec
  <2> QED BY <1>2, <1>3, <2>1, <2>2 DEF IsRed
<1>6. y # Null /\ m.red[y] /\ y \in N /\ y \in Keys /\ m.parent[y] = b /\ y # b
  <2>1. y # Null /\ m.red[y]
    BY DEF IsRed
  <2>2. y \in N /\ m.parent[y] = b /\ y # b
    BY <1>1, <1>4, <1>5, <2>1, ChildFacts
  <2> QED BY <1>3, <2>1, <2>2
<1>7. Painted(m, m)
  BY <1>2 DEF Painted, SameContents
<1>8. InheritColour(m, p, o) = a3
  BY DEF InheritColour
<1>9. Painted(a1, m) /\ RedWasSet(a1, m, b, m.red[p])
  BY <1>2, <1>5, <1>7, PaintedOne
<1> HIDE DEF a1
<1>10. Painted(a2, m) /\ RedWasSet(a2, a1, p, FALSE)
  BY <1>2, <1>5, <1>9, PaintedOne
<1> HIDE DEF a2
<1>11. Painted(a3, m) /\ RedWasSet(a3, a2, y, FALSE)
  BY <1>2, <1>6, <1>10, PaintedOne
<1> HIDE DEF a3
<1>12. WasTurned(r, m, N, p, s, b, c) /\ r.red = a3.red
  BY <1>1, <1>2, <1>11, PaintedTurn
<1>13. Rotate(InheritColour(m, p, Other(s)), p, s) = r
  BY <1>8
<1> HIDE DEF r, c
<1>14. /\ r \in MapRec /\ Kept(r, m, N) /\ \E E : Tree(r, N, E)
       /\ c # b /\ c # p /\ m.parent[p] # p /\ m.parent[p] # b
  BY <1>12 DEF WasTurned
<1>15. \A k \in N : r.red[k] = IF k = y THEN FALSE ELSE IF k = p THEN FALSE
                               ELSE IF k = b THEN m.red[p] ELSE m.red[k]
  <2> TAKE k \in N
  <2>0. k \in Keys
    BY <1>3
  <2>1. r.red[k] = IF k = y THEN FALSE ELSE a2.red[k]
    BY <1>11, <1>12, <2>0 DEF RedWasSet
  <2>2. a2.red[k] = IF k = p THEN FALSE ELSE a1.red[k]
    BY <1>10, <2>0 DEF RedWasSet
  <2>3. a1.red[k] = IF k = b THEN m.red[p] ELSE m.red[k]
    BY <1>9, <2>0 DEF RedWasSet
  <2> QED BY <2>1, <2>2, <2>3
<1>16. \A k \in N : r.parent[k] = IF k = p THEN b ELSE IF k = c THEN p
                                  ELSE IF k = b THEN m.parent[p] ELSE m.parent[k]
  BY <1>12 DEF WasTurned
<1>17. RedPairs(r, N) = {}
  <2> SUFFICES ASSUME NEW w \in RedPairs(r, N) PROVE FALSE
    OBVIOUS
  <2>1. w \in N /\ r.red[w] /\ r.parent[w] # Null /\ r.red[r.parent[w]] /\ w # Null
    BY <1>3 DEF RedPairs
  <2>2. w # p /\ w # y /\ w # c
    BY <1>2, <1>14, <1>15, <1>16, <2>1
  <2>3. w # b
    <3> SUFFICES ASSUME w = b PROVE FALSE
      OBVIOUS
    <3>1. m.red[p] /\ m.parent[p] # Null /\ r.red[m.parent[p]]
      BY <1>6, <1>14, <1>15, <1>16, <2>1, <2>2
    <3>2. m.parent[p] \in N
      BY <1>1, <1>2, <3>1, RootFacts
    <3>3. m.red[m.parent[p]]
      BY <1>14, <1>15, <3>1, <3>2
    <3> QED BY <1>2, <3>1, <3>3 DEF RedPairs
  <2>4. r.parent[w] = m.parent[w] /\ m.red[w]
    BY <1>15, <1>16, <2>1, <2>2, <2>3
  <2>5. m.parent[w] \in N /\ (w = m.child[s][m.parent[w]] \/ w = m.child[o][m.parent[w]])
    BY <1>1, <1>2, <2>1, <2>4, ChildOf
  <2>6. m.parent[w] # b
    BY <2>2, <2>5 DEF c
  <2>7. m.red[m.parent[w]]
    BY <1>15, <2>1, <2>4, <2>5, <2>6
  <2> QED BY <1>2, <2>1, <2>4, <2>7 DEF RedPairs
<1>18. BlackRoot(r) /\ r.root \in N
  <2>1. m.root \in N /\ ~ m.red[m.root] /\ (m.parent[p] = Null <=> p = m.root) /\ m.root # b
    BY <1>1, <1>2, <1>3, <1>5, RootFacts DEF BlackRoot
  <2>2. r.root = IF m.parent[p] = Null THEN b ELSE m.root
    BY <1>12 DEF WasTurned
  <2> QED BY <1>2, <1>5, <1>6, <1>15, <2>1, <2>2 DEF BlackRoot
<1> QED BY <1>13, <1>14, <1>17, <1>18

Reddened(m, b) == SetRed(m, b, TRUE)

(* 3.2: a black sibling with black children turns red; the parent goes on.   *)
LEMMA BlackSibling ==
  ASSUME NEW m, NEW N, NEW x, NEW p, NEW s, Lacking(m, N, x, p, s),
         NEW b, b = m.child[Other(s)][p], ~ IsRed(m, b),
         b # Null => ~ IsRed(m, m.child[s][b]) /\ ~ IsRed(m, m.child[Other(s)][b])
  PROVE  LET r == Reddened(m, b) IN
         /\ r \in MapRec /\ Kept(r, m, N) /\ (\A D : Tree(m, N, D) => Tree(r, N, D))
         /\ \A c \in RedPairs(r, N) : r.parent[c] = p
         /\ BlackRoot(r) /\ r.root = m.root /\ r.red[p] = m.red[p]
<1> DEFINE o == Other(s)
           r == Reddened(m, b)
<1>1. PICK D : Tree(m, N, D)
  BY DEF Lacking
<1>2. /\ m \in MapRec /\ RedPairs(m, N) = {} /\ BlackRoot(m) /\ p \in N
      /\ s \in Sides
  BY DEF Lacking
<1>3. N \subseteq Keys /\ Null \notin Keys
  BY <1>1, KeyFacts DEF Tree
<1>4. o \in Sides /\ o # s /\ Other(o) = s
  BY <1>2, SideFacts
<1>5. b \in N \cup {Null} /\ (b # Null => m.parent[b] = p /\ b # p)
  <2>1. b \in N \cup {Null}
    BY <1>1, <1>2, <1>4, BelowFacts
  <2>2. b # Null => m.parent[b] = p /\ b # p
    BY <1>1, <1>2, <1>4, ChildFacts
  <2> QED BY <2>1, <2>2
<1>6. RedWasSet(r, m, b, TRUE)
  BY <1>2, <1>3, <1>5, RedSet DEF Reddened
<1> HIDE DEF r
<1>7. Kept(r, m, N) /\ r \in MapRec /\ \A F : Tree(m, N, F) => Tree(r, N, F)
  <2>1. r \in MapRec
    BY <1>6 DEF RedWasSet, SameContents
  <2> QED BY <1>6, <2>1, RedSetKept
<1>8. r.root = m.root /\ r.parent = m.parent /\ \A k \in N : r.red[k] = IF k = b THEN TRUE ELSE m.red[k]
  BY <1>3, <1>6 DEF RedWasSet
<1>9. ASSUME NEW w \in RedPairs(r, N)
      PROVE  r.parent[w] = p
  <2> SUFFICES ASSUME w # b PROVE FALSE
    <3>1. w \in N /\ w # Null
      BY <1>3 DEF RedPairs
    <3> QED BY <1>5, <1>8, <3>1
  <2>1. w \in N /\ r.red[w] /\ m.parent[w] # Null /\ r.red[m.parent[w]] /\ w # Null
    BY <1>3, <1>8 DEF RedPairs
  <2>2. m.red[w]
    BY <1>8, <2>1
  <2>3. m.parent[w] \in N /\ (w = m.child[s][m.parent[w]] \/ w = m.child[o][m.parent[w]])
    BY <1>1, <1>2, <2>1, ChildOf
  <2>4. m.parent[w] # b
    BY <2>1, <2>2, <2>3 DEF IsRed
  <2>5. m.red[m.parent[w]]
    BY <1>8, <2>1, <2>3, <2>4
  <2> QED BY <1>2, <2>1, <2>2, <2>5 DEF RedPairs
<1>10. BlackRoot(r)
  <2>1. m.root \in N /\ ~ m.red[m.root] /\ (b # Null => b # m.root)
    BY <1>1, <1>2, <1>3, <1>5, RootFacts DEF BlackRoot
  <2> QED BY <1>3, <1>8, <2>1 DEF BlackRoot
<1>11. r.red[p] = m.red[p]
  BY <1>2, <1>3, <1>5, <1>8
<1> QED BY <1>7, <1>8, <1>9, <1>10, <1>11 DEF r

(* Cases 3.3 and 3.4 make up for the missing black one.                      *)
LEMMA RedNephew ==
  ASSUME NEW m, NEW N, NEW x, NEW p, NEW s, Lacking(m, N, x, p, s),
         NEW b, b = m.child[Other(s)][p], b # Null, ~ IsRed(m, b),
         NEW near, near = m.child[s][b], NEW far, far = m.child[Other(s)][b],
         IsRed(m, near) \/ IsRed(m, far),
         NEW n, n = IF IsRed(m, far) THEN m
                    ELSE ComeUp(m, near, b, Other(s)),
         NEW r, r = Rotate(InheritColour(n, p, Other(s)), p, s)
  PROVE  /\ r \in MapRec /\ Kept(r, m, N) /\ (\E E : Tree(r, N, E))
         /\ RedPairs(r, N) = {} /\ BlackRoot(r) /\ r.root \in N
<1>1. CASE IsRed(m, far)
  <2>1. n = m
    BY <1>1
  <2> QED BY <1>1, <2>1, RedFar
<1>2. CASE ~ IsRed(m, far)
  <2>0. n = ComeUp(m, near, b, Other(s))
    BY <1>2
  <2>1. /\ Lacking(n, N, x, p, s) /\ Kept(n, m, N)
        /\ n.child[Other(s)][p] = near /\ near # Null /\ ~ IsRed(n, near)
        /\ n.child[Other(s)][near] = b /\ IsRed(n, b)
    <3>1. IsRed(m, near) /\ ~ IsRed(m, m.child[Other(s)][b])
      BY <1>2
    <3> DEFINE q == ComeUp(m, near, b, Other(s))
    <3>2. /\ Lacking(m, N, x, p, s) /\ b = m.child[Other(s)][p] /\ b # Null
          /\ ~ IsRed(m, b) /\ near = m.child[s][b]
      BY SMTT(30)
    <3>3. /\ Lacking(q, N, x, p, s) /\ Kept(q, m, N)
          /\ q.child[Other(s)][p] = near /\ near # Null /\ ~ IsRed(q, near)
          /\ q.child[Other(s)][near] = b /\ IsRed(q, b)
      BY ONLY <3>1, <3>2, RedNear
    <3> HIDE DEF q
    <3>4. n = q
      BY <2>0 DEF q
    <3> QED BY ONLY <3>3, <3>4
  <2>2. /\ r \in MapRec /\ Kept(r, n, N) /\ (\E E : Tree(r, N, E))
        /\ RedPairs(r, N) = {} /\ BlackRoot(r) /\ r.root \in N
    <3>1. near = n.child[Other(s)][p] /\ b = n.child[Other(s)][near] /\ near # Null
      BY <2>1, ZenonT(60)
    <3>2. Lacking(n, N, x, p, s) /\ ~ IsRed(n, near) /\ IsRed(n, b)
      BY <2>1
    <3>3. r = Rotate(InheritColour(n, p, Other(s)), p, s)
      OBVIOUS
    <3> QED BY ONLY <3>1, <3>2, <3>3, RedFar, SMTT(30)
  <2>3. Kept(r, m, N)
    BY ONLY <2>1, <2>2, KeptTwice
  <2> QED BY ONLY <2>2, <2>3
<1> QED BY <1>1, <1>2

(* A turn of iot_node_remove_balance goes up or ends.                        *)
LEMMA RemoveTurned ==
  ASSUME NEW m \in MapRec, NEW N, NEW D, Tree(m, N, D), NEW x \in N,
         \A c \in RedPairs(m, N) : c = x \/ m.parent[c] = x,
         x # m.root => BlackRoot(m), ~ RemoveEnds(m, x)
  PROVE  \E r, w :
           /\ RemoveTurn(m, x) = <<r, w>>
           /\ r \in MapRec /\ Kept(r, m, N) /\ w \in N
           /\ \A c \in RedPairs(r, N) : c = w \/ r.parent[c] = w
           /\ (w # r.root => BlackRoot(r))
           /\ \/ RemoveEnds(r, w) /\ \E E : Tree(r, N, E)
              \/ Tree(r, N, D) /\ Cardinality(D[x]) < Cardinality(D[w])
<1> DEFINE p == m.parent[x]
           s == SideOf(m, x)
           o == Other(s)
           b1 == m.child[o][p]
           m1 == IF IsRed(m, b1) THEN Rotate(SetRed(SetRed(m, b1, FALSE), p, TRUE), p, s) ELSE m
           b == m1.child[o][p]
           near == IF b = Null THEN Null ELSE m1.child[s][b]
           far == IF b = Null THEN Null ELSE m1.child[o][b]
           m3 == IF IsRed(m1, far) THEN m1
                 ELSE Rotate(SetRed(SetRed(m1, near, FALSE), b, TRUE), b, o)
           m4 == Rotate(InheritColour(m3, p, o), p, s)
<1>1. RemoveTurn(m, x) = IF IsRed(m1, near) \/ IsRed(m1, far) THEN <<m4, m4.root>>
                         ELSE <<SetRed(m1, b, TRUE), p>>
  BY DEF RemoveTurn
<1>2. N \subseteq Keys /\ Null \notin Keys /\ x # Null
  BY KeyFacts DEF Tree
<1>3. x # m.root /\ ~ m.red[x] /\ BlackRoot(m)
  BY <1>2 DEF RemoveEnds, IsRed
<1>4. RedPairs(m, N) = {}
  BY <1>3 DEF RedPairs
<1>5. p \in N /\ m.child[s][p] = x /\ s \in Sides
  BY <1>3, RootFacts
<1>6. Lacking(m, N, x, p, s)
  BY <1>3, <1>4, <1>5 DEF Lacking
<1> HIDE DEF p, s
<1>7. Cardinality(D[x]) < Cardinality(D[p])
  BY <1>2, <1>5, ChildFacts
<1>8. /\ Lacking(m1, N, x, p, s) /\ Kept(m1, m, N) /\ ~ IsRed(m1, b)
      /\ m1 = m \/ m1.red[p]
  <2>1. CASE IsRed(m, b1)
    <3>1. m1 = Rotate(SetRed(SetRed(m, b1, FALSE), p, TRUE), p, s)
      BY <2>1
    <3> HIDE DEF b1, m1
    <3>2. /\ Lacking(m1, N, x, p, s) /\ Kept(m1, m, N) /\ m1.red[p]
          /\ ~ IsRed(m1, m1.child[Other(s)][p])
      BY <1>6, <2>1, <3>1, RedSibling DEF b1
    <3> QED BY <3>2
  <2>2. CASE ~ IsRed(m, b1)
    <3>1. m1 = m
      BY <2>2
    <3>2. Kept(m, m, N)
      BY DEF Kept, SameContents
    <3> QED BY <1>6, <2>2, <3>1, <3>2
  <2> QED BY <2>1, <2>2
<1> HIDE DEF m1
<1>9. CASE IsRed(m1, near) \/ IsRed(m1, far)
  <2>1. b # Null /\ near = m1.child[s][b] /\ far = m1.child[Other(s)][b]
    BY <1>9 DEF IsRed
  <2> HIDE DEF b, near, far, m3
  <2>2. /\ m4 \in MapRec /\ Kept(m4, m1, N) /\ (\E E : Tree(m4, N, E))
        /\ RedPairs(m4, N) = {} /\ BlackRoot(m4) /\ m4.root \in N
    <3>1. m3 = IF IsRed(m1, far) THEN m1
               ELSE ComeUp(m1, near, b, Other(s))
      BY DEF m3, ComeUp
    <3>2. b = m1.child[Other(s)][p]
      BY DEF b
    <3>3. Lacking(m1, N, x, p, s) /\ ~ IsRed(m1, b)
      BY <1>8 DEF b
    <3>4. m4 = Rotate(InheritColour(m3, p, Other(s)), p, s)
      OBVIOUS
    <3> HIDE DEF m4
    <3> QED BY ONLY <1>9, <2>1, <3>1, <3>2, <3>3, <3>4, RedNephew
  <2> HIDE DEF m4
  <2>3. Kept(m4, m, N)
    BY <1>8, <2>2, KeptTwice
  <2> QED BY <1>1, <1>9, <2>2, <2>3 DEF RemoveEnds
<1>10. CASE ~ (IsRed(m1, near) \/ IsRed(m1, far))
  <2> DEFINE r == SetRed(m1, b, TRUE)
  <2>1. b # Null => ~ IsRed(m1, m1.child[s][b]) /\ ~ IsRed(m1, m1.child[Other(s)][b])
    BY <1>10
  <2> HIDE DEF b, near, far
  <2>2. /\ r \in MapRec /\ Kept(r, m1, N) /\ (\A E : Tree(m1, N, E) => Tree(r, N, E))
        /\ \A c \in RedPairs(r, N) : r.parent[c] = p
        /\ BlackRoot(r) /\ r.root = m1.root /\ r.red[p] = m1.red[p]
    <3>1. b = m1.child[Other(s)][p]
      BY DEF b
    <3>2. Lacking(m1, N, x, p, s) /\ ~ IsRed(m1, b)
      BY <1>8 DEF b
    <3>3. r = Reddened(m1, b)
      BY DEF Reddened
    <3> HIDE DEF r
    <3> QED BY ONLY <2>1, <3>1, <3>2, <3>3, BlackSibling
  <2>3. RemoveTurn(m, x) = <<r, p>>
    BY <1>1, <1>10
  <2> HIDE DEF r
  <2>4. Kept(r, m, N)
    BY <1>8, <2>2, KeptTwice
  <2>5. \/ RemoveEnds(r, p) /\ \E E : Tree(r, N, E)
        \/ Tree(r, N, D) /\ Cardinality(D[x]) < Cardinality(D[p])
    <3>1. CASE m1 = m
      BY <1>7, <2>2, <3>1
    <3>2. CASE m1.red[p]
      <4>1. RemoveEnds(r, p)
        BY <1>2, <1>5, <2>2, <3>2 DEF RemoveEnds, IsRed
      <4>2. \E E : Tree(m1, N, E)
        BY <1>8 DEF Lacking
      <4> QED BY <2>2, <4>1, <4>2
    <3> QED BY <1>8, <3>1, <3>2
  <2> QED BY <1>5, <2>2, <2>3, <2>4, <2>5
<1> QED BY <1>9, <1>10

(* iot_node_remove_balance ends, with a red-black tree.                      *)
LEMMA RemoveBalanced ==
  ASSUME NEW m \in MapRec, NEW N, NEW D, Tree(m, N, D), NEW k \in N,
         RedPairs(m, N) \subseteq {k}, k # m.root => BlackRoot(m)
  PROVE  LET n == RemoveBalance(m, k) IN
         /\ n \in MapRec /\ Kept(n, m, N) /\ (\E E : Tree(n, N, E))
         /\ RedPairs(n, N) = {} /\ BlackRoot(n)
         /\ RemoveEnds(m, k) => RedWasSet(n, m, k, FALSE)
<1> DEFINE x0 == <<m, k>>
           Loop(f) ==
             [i \in Turns |->
                IF i = 0 THEN x0
                ELSE LET t == f[i - 1]
                     IN  IF RemoveEnds(t[1], t[2]) THEN t ELSE RemoveTurn(t[1], t[2])]
           loop == CHOOSE f : f = Loop(f)
           b == loop[LastTurn][1]
           x == loop[LastTurn][2]
           Good(r, w) ==
             /\ r \in MapRec /\ Kept(r, m, N) /\ (\E E : Tree(r, N, E))
             /\ w \in N /\ (\A c \in RedPairs(r, N) : c = w \/ r.parent[c] = w)
             /\ (w # r.root => BlackRoot(r))
           Near(r, w, j) ==
             \/ RemoveEnds(r, w)
             \/ \E E : Tree(r, N, E) /\ Cardinality(N) - Cardinality(E[w]) =< j
           G == [j \in 0..LastTurn |->
                   {t \in MapRec \X Keys : Good(t[1], t[2]) /\ Near(t[1], t[2], j)}]
           X == UNION {G[j] : j \in 0..LastTurn}
           step == [t \in X |-> IF RemoveEnds(t[1], t[2]) THEN t ELSE RemoveTurn(t[1], t[2])]
<1>1. RemoveBalance(m, k) = SetRed(b, x, FALSE)
  BY DEF RemoveBalance
<1>2. LastTurn \in Nat /\ Cardinality(N) \in Nat /\ Cardinality(N) =< LastTurn /\ N \subseteq Keys
  BY SizeBelow DEF Tree
<1>3. \A r, E : Tree(r, N, E) => \A w \in N : Cardinality(E[w]) \in Nat /\ Cardinality(E[w]) =< Cardinality(N)
  BY SizeBelow
<1>4. ASSUME NEW j \in 1..LastTurn, NEW t \in G[j]
      PROVE  (IF RemoveEnds(t[1], t[2]) THEN t ELSE RemoveTurn(t[1], t[2])) \in G[j - 1]
  <2>0. j \in 0..LastTurn /\ j - 1 \in 0..LastTurn
    BY <1>2
  <2> DEFINE r == t[1]
             w == t[2]
  <2>1. t \in MapRec \X Keys /\ Good(r, w) /\ Near(r, w, j)
    BY <2>0
  <2>2. CASE RemoveEnds(r, w)
    BY <2>0, <2>1, <2>2
  <2>3. CASE ~ RemoveEnds(r, w)
    <3> HIDE DEF r, w
    <3>1. PICK E : Tree(r, N, E) /\ Cardinality(N) - Cardinality(E[w]) =< j
      BY <2>1, <2>3
    <3>2. PICK r2, x2 :
            /\ RemoveTurn(r, w) = <<r2, x2>>
            /\ r2 \in MapRec /\ Kept(r2, r, N) /\ x2 \in N
            /\ \A c \in RedPairs(r2, N) : c = x2 \/ r2.parent[c] = x2
            /\ (x2 # r2.root => BlackRoot(r2))
            /\ \/ RemoveEnds(r2, x2) /\ \E F : Tree(r2, N, F)
               \/ Tree(r2, N, E) /\ Cardinality(E[w]) < Cardinality(E[x2])
      BY <2>1, <2>3, <3>1, RemoveTurned
    <3>3. Good(r2, x2)
      BY <2>1, <3>2, KeptTwice
    <3>4. Near(r2, x2, j - 1)
      <4>1. CASE RemoveEnds(r2, x2)
        BY <4>1
      <4>2. CASE Tree(r2, N, E) /\ Cardinality(E[w]) < Cardinality(E[x2])
        <5>1. Cardinality(N) - Cardinality(E[x2]) =< j - 1
          BY <1>2, <1>3, <2>1, <3>1, <3>2, <4>2
        <5> QED BY <4>2, <5>1
      <4> QED BY <3>2, <4>1, <4>2
    <3> HIDE DEF Good, Near
    <3>5. <<r2, x2>> \in G[j - 1]
      BY <1>2, <2>0, <3>2, <3>3, <3>4
    <3> HIDE DEF G
    <3> QED BY <2>3, <3>2, <3>5 DEF r, w
  <2> QED BY <2>2, <2>3
<1>5. x0 \in G[LastTurn]
  <2>1. Kept(m, m, N)
    BY DEF Kept, SameContents
  <2>2. Good(m, k)
    BY <2>1
  <2>3. Near(m, k, LastTurn)
    BY <1>2, <1>3
  <2> HIDE DEF Good, Near
  <2> QED BY <1>2, <2>2, <2>3
<1> HIDE DEF G, x0
<1>6. \A j \in 0..LastTurn : \A t \in G[j] : t \in X
  OBVIOUS
<1> HIDE DEF X
<1>7. \A j \in 1..LastTurn : \A t \in G[j] : step[t] \in G[j - 1]
  BY <1>2, <1>4, <1>6
<1>8. PICK f : RunsIn(f, LastTurn, G, step, x0)
  <2>1. LastTurn \in Nat
    BY <1>2
  <2> HIDE DEF step, Loop, loop, Good, Near
  <2> QED BY <1>5, <1>7, <2>1, LoopExists
<1>9. f = Loop(f)
  <2>1. ASSUME NEW i \in 0..LastTurn, i # 0 PROVE f[i - 1] \in X
    <3>1. i - 1 \in 0..LastTurn /\ LastTurn - (i - 1) \in 0..LastTurn
      BY <1>2, <2>1
    <3> QED BY <1>6, <1>8, <3>1 DEF RunsIn
  <2>2. \A i \in 0..LastTurn : i # 0 =>
          step[f[i - 1]] = (IF RemoveEnds(f[i - 1][1], f[i - 1][2]) THEN f[i - 1]
                            ELSE RemoveTurn(f[i - 1][1], f[i - 1][2]))
    BY <2>1
  <2> HIDE DEF step
  <2> QED BY <1>8, <2>2 DEF RunsIn, Turns, LastTurn
<1>10. loop = Loop(loop)
  <2> HIDE DEF Loop
  <2> QED BY <1>9
<1> HIDE DEF loop
<1>11. /\ loop[0] = x0
       /\ \A i \in 1..LastTurn :
            loop[i] = IF RemoveEnds(loop[i - 1][1], loop[i - 1][2]) THEN loop[i - 1]
                      ELSE RemoveTurn(loop[i - 1][1], loop[i - 1][2])
  <2>1. \A i \in Turns : loop[i] = Loop(loop)[i]
    BY <1>10
  <2>2. 0 \in Turns /\ \A i \in 1..LastTurn : i \in Turns /\ i # 0
    BY <1>2 DEF Turns, LastTurn
  <2> QED BY <2>1, <2>2
<1> HIDE DEF Loop
<1>11a. RemoveEnds(m, k) => loop[LastTurn] = x0
  <2> HAVE RemoveEnds(m, k)
  <2> DEFINE H == [j \in 0..LastTurn |-> {x0}]
  <2>1. \A j \in 0..LastTurn : H[j] = {x0}
    OBVIOUS
  <2>2. x0[1] = m /\ x0[2] = k
    BY DEF x0
  <2> HIDE DEF H
  <2>3. \A i \in 1..LastTurn : loop[i - 1] \in H[(LastTurn - i) + 1] => loop[i] \in H[LastTurn - i]
    <3> TAKE i \in 1..LastTurn
    <3>1. (LastTurn - i) + 1 \in 0..LastTurn /\ LastTurn - i \in 0..LastTurn
      BY <1>2
    <3>2. loop[i - 1] = x0 => loop[i] = x0
      BY <1>11, <2>2
    <3> QED BY <2>1, <3>1, <3>2
  <2>4. loop[0] \in H[LastTurn] /\ 0 \in 0..LastTurn
    BY <1>2, <1>11, <2>1
  <2>5. loop[LastTurn] \in H[0]
    BY <1>2, <2>3, <2>4, LoopEnds
  <2> QED BY <2>1, <2>4, <2>5
<1>12. \A i \in 1..LastTurn : loop[i - 1] \in G[(LastTurn - i) + 1] => loop[i] \in G[LastTurn - i]
  <2> TAKE i \in 1..LastTurn
  <2>1. (LastTurn - i) + 1 \in 1..LastTurn /\ ((LastTurn - i) + 1) - 1 = LastTurn - i
    BY <1>2
  <2> QED BY <1>4, <1>11, <2>1
<1>13. loop[LastTurn] \in G[0]
  BY <1>2, <1>5, <1>11, <1>12, LoopEnds
<1>13a. RemoveEnds(m, k) => b = m /\ x = k
  BY <1>11a DEF x0
<1>14. b \in MapRec /\ Good(b, x) /\ Near(b, x, 0)
  BY <1>2, <1>13 DEF G
<1> HIDE DEF b, x
<1>15. PICK E : Tree(b, N, E)
  BY <1>14
<1>16. RemoveEnds(b, x)
  <2>1. ASSUME NEW F, Tree(b, N, F), Cardinality(N) - Cardinality(F[x]) =< 0
        PROVE  x = b.root
    <3>1. Cardinality(F[x]) \in Nat
      BY <1>3, <1>14, <2>1
    <3> QED BY <1>2, <1>14, <2>1, <3>1, SizeBelowRoot
  <2> QED BY <1>14, <2>1 DEF RemoveEnds
<1>17. x \in Keys /\ x # Null
  BY <1>2, <1>14, KeyFacts
<1> DEFINE n == SetRed(b, x, FALSE)
<1>18. RedWasSet(n, b, x, FALSE)
  BY <1>14, <1>17, RedSet
<1> HIDE DEF n
<1>19. Kept(n, b, N) /\ Tree(n, N, E)
  BY <1>15, <1>18, RedSetKept
<1>20. n \in MapRec /\ Kept(n, m, N)
  BY <1>14, <1>18, <1>19, KeptTwice DEF RedWasSet, SameContents
<1>21. RedPairs(n, N) = {}
  <2> SUFFICES ASSUME NEW w \in RedPairs(n, N) PROVE FALSE
    OBVIOUS
  <2>1. w \in N /\ n.red[w] /\ b.parent[w] # Null /\ n.red[b.parent[w]]
    BY <1>18 DEF RedPairs, RedWasSet
  <2>2. b.parent[w] \in N
    BY <1>15, <2>1, RootFacts
  <2>3. w # x /\ b.parent[w] # x
    BY <1>2, <1>18, <2>1, <2>2 DEF RedWasSet
  <2>4. w \in RedPairs(b, N)
    BY <1>2, <1>18, <2>1, <2>2, <2>3 DEF RedPairs, RedWasSet
  <2> QED BY <1>14, <2>3, <2>4
<1>22. BlackRoot(n)
  <2>1. n.root = b.root /\ b.root \in Keys
    BY <1>2, <1>14, <1>15, <1>18, RootFacts DEF RedWasSet
  <2>2. CASE x = b.root
    BY <1>18, <2>1, <2>2 DEF BlackRoot, RedWasSet
  <2>3. CASE x # b.root
    BY <1>14, <1>18, <2>1, <2>3 DEF BlackRoot, RedWasSet
  <2> QED BY <2>2, <2>3
<1> QED BY <1>1, <1>13a, <1>18, <1>19, <1>20, <1>21, <1>22 DEF n

-----------------------------------------------------------------------------
(* What the operations of the map make of its contents *)

(* n is m without the node z: links, colours, and one reference less to the  *)
(* key and to the value.                                                     *)
WasRemoved(n, m, z) ==
  /\ n \in MapRec
  /\ n.size = m.size /\ n.hash = m.hash /\ n.rehash = m.rehash /\ n.replaced = m.replaced
  /\ \A k \in Keys : n.value[k] = IF k = z THEN Null ELSE m.value[k]
  /\ \A k \in Keys : n.keyRefs[k] = IF k = z THEN m.keyRefs[k] - 1 ELSE m.keyRefs[k]
  /\ \A v \in Values :
       n.valueRefs[v] = IF v = m.value[z] THEN m.valueRefs[v] - 1 ELSE m.valueRefs[v]

(* What iot_node_delete does to the links, colours and contents.             *)
LEMMA Deleted ==
  ASSUME NEW m \in MapRec, NEW z \in Keys, m.value[z] \in Values, NEW sk \in BOOLEAN
  PROVE  LET n == [NodeDelete(m, z) EXCEPT !.skipped = sk] IN
         /\ WasRemoved(n, m, z) /\ n.root = m.root
         /\ n.skipped = sk /\ NodeDelete(m, z).skipped = m.skipped
         /\ \A k \in Keys : /\ n.parent[k] = IF k = z THEN Null ELSE m.parent[k]
                            /\ k # z => n.red[k] = m.red[k]
         /\ \A s \in Sides, k \in Keys : n.child[s][k] = IF k = z THEN Null ELSE m.child[s][k]
<1> DEFINE g == GivenUp(m, z)
           d == NodeDelete(m, z)
           n == [d EXCEPT !.skipped = sk]
<1>1. Null \notin Keys
  BY KeyFacts
<1>2. /\ g \in MapRec /\ g.root = m.root /\ g.child = m.child /\ g.parent = m.parent
      /\ g.red = m.red
  <2>1. g = [m EXCEPT !.keyRefs = [m.keyRefs EXCEPT ![z] = m.keyRefs[z] - 1],
                      !.valueRefs = [m.valueRefs EXCEPT ![m.value[z]] = m.valueRefs[m.value[z]] - 1],
                      !.value = [m.value EXCEPT ![z] = Null]]
    BY DEF GivenUp, MapRec
  <2>2. /\ [m.keyRefs EXCEPT ![z] = m.keyRefs[z] - 1] \in [Keys -> Int]
        /\ [m.valueRefs EXCEPT ![m.value[z]] = m.valueRefs[m.value[z]] - 1] \in [Values -> Int]
        /\ [m.value EXCEPT ![z] = Null] \in [Keys -> Values \cup {Null}]
    BY DEF MapRec
  <2> HIDE DEF g
  <2> QED BY <2>1, <2>2 DEF MapRec
<1>3. /\ g.size = m.size /\ g.hash = m.hash /\ g.rehash = m.rehash /\ g.replaced = m.replaced
      /\ g.skipped = m.skipped
      /\ \A k \in Keys : g.value[k] = IF k = z THEN Null ELSE m.value[k]
      /\ \A k \in Keys : g.keyRefs[k] = IF k = z THEN m.keyRefs[k] - 1 ELSE m.keyRefs[k]
      /\ \A v \in Values :
           g.valueRefs[v] = IF v = m.value[z] THEN m.valueRefs[v] - 1 ELSE m.valueRefs[v]
  BY DEF GivenUp, MapRec
<1>4. d = [g EXCEPT !.child = [s \in Sides |-> [m.child[s] EXCEPT ![z] = Null]],
                    !.parent[z] = Null, !.red[z] = FALSE]
  BY DEF NodeDelete
<1> HIDE DEF g, d
<1>5. [s \in Sides |-> [m.child[s] EXCEPT ![z] = Null]] \in [Sides -> [Keys -> Keys \cup {Null}]]
  BY SMTT(30) DEF MapRec
<1>6. d \in MapRec /\ SameContents(d, g) /\ d.root = m.root
  BY <1>2, <1>4, <1>5 DEF MapRec, SameContents, Contents
<1>7. /\ \A k \in Keys : /\ d.parent[k] = IF k = z THEN Null ELSE m.parent[k]
                         /\ k # z => d.red[k] = m.red[k]
      /\ \A s \in Sides, k \in Keys : d.child[s][k] = IF k = z THEN Null ELSE m.child[s][k]
  BY <1>2, <1>4 DEF MapRec
<1>8. /\ n \in MapRec /\ n.root = d.root /\ n.child = d.child /\ n.parent = d.parent
      /\ n.red = d.red /\ n.size = d.size /\ n.hash = d.hash /\ n.rehash = d.rehash
      /\ n.replaced = d.replaced /\ n.value = d.value /\ n.keyRefs = d.keyRefs
      /\ n.valueRefs = d.valueRefs /\ n.skipped = sk
  BY <1>6 DEF MapRec
<1>9. [NodeDelete(m, z) EXCEPT !.skipped = sk] = n
  BY DEF d
<1>9a. NodeDelete(m, z).skipped = m.skipped
  <2>1. d.skipped = m.skipped
    BY <1>3, <1>6 DEF SameContents, Contents
  <2> QED BY <2>1 DEF d
<1> HIDE DEF n
<1>10. WasRemoved(n, m, z)
  BY <1>3, <1>6, <1>8 DEF WasRemoved, SameContents, Contents
<1>11. n.root = m.root
  BY <1>6, <1>8
<1>12. /\ \A k \in Keys : /\ n.parent[k] = IF k = z THEN Null ELSE m.parent[k]
                          /\ k # z => n.red[k] = m.red[k]
       /\ \A s \in Sides, k \in Keys : n.child[s][k] = IF k = z THEN Null ELSE m.child[s][k]
  BY <1>7, <1>8
<1> QED BY <1>8, <1>9, <1>9a, <1>10, <1>11, <1>12, ZenonT(60)

(* iot_node_remove: a red-black tree of the other nodes.                     *)
LEMMA Removed ==
  ASSUME NEW m \in MapRec, NEW N, NEW D, Tree(m, N, D), RedPairs(m, N) = {}, BlackRoot(m),
         Bare(m, Keys \ N), NEW z \in N, m.value[z] \in Values
  PROVE  LET n == NodeRemove(m, z)
             K == N \ {z}
         IN  /\ WasRemoved(n, m, z) /\ (\E E : Tree(n, K, E))
             /\ RedPairs(n, K) = {} /\ BlackRoot(n) /\ Bare(n, Keys \ K)
             /\ m.skipped \/ Balanced(m, N) => n.skipped \/ Balanced(n, K)
<1> DEFINE K == N \ {z}
<1>1. N \subseteq Keys /\ Null \notin Keys
  BY KeyFacts DEF Tree
<1>2. PICK a, x, c : Unlink(m, z) = <<a, x, c>> /\ WasUnlinked(a, m, N, z, x, c)
  BY Unlinked
<1> DEFINE b == IF x # Null /\ ~ c THEN RemoveBalance(a, x) ELSE a
           lost == x = Null /\ ~ c /\ b.root # Null
           sk == b.root # Null /\ (NodeDelete(b, z).skipped \/ lost)
           n == [NodeDelete(b, z) EXCEPT !.skipped = sk]
<1>3. NodeRemove(m, z) = n
  BY <1>2 DEF NodeRemove
<1>4. /\ a \in MapRec /\ Kept(a, m, N) /\ x \in K \cup {Null} /\ c \in BOOLEAN
      /\ \E E : Tree(a, K, E)
      /\ RedPairs(a, K) \subseteq {x} /\ (x # a.root => BlackRoot(a))
      /\ (x = Null \/ c => RedPairs(a, K) = {} /\ BlackRoot(a))
      /\ LevelKept(a, m, N, z, x, c)
  BY <1>2 DEF WasUnlinked
<1>5. /\ b \in MapRec /\ Kept(b, a, K) /\ (\E E : Tree(b, K, E))
      /\ RedPairs(b, K) = {} /\ BlackRoot(b)
  <2>1. CASE x # Null /\ ~ c
    <3>1. b = RemoveBalance(a, x) /\ x \in K
      BY <1>4, <2>1
    <3> HIDE DEF b, K
    <3>2. PICK E : Tree(a, K, E)
      BY <1>4
    <3> QED BY <1>4, <3>1, <3>2, RemoveBalanced
  <2>2. CASE ~ (x # Null /\ ~ c)
    <3>1. b = a
      BY <2>2
    <3>2. Kept(a, a, K)
      BY <1>4 DEF Kept, SameContents
    <3> QED BY <1>4, <2>2, <3>1, <3>2
  <2> QED BY <2>1, <2>2
<1> HIDE DEF b
<1>5a. Balanced(m, N) => Balanced(b, K) \/ (x = Null /\ ~ c)
  <2> HAVE Balanced(m, N)
  <2>1. /\ x # Null => /\ ~ c /\ a.red[x]
                       /\ \A w : RedWasSet(w, a, x, FALSE) => Balanced(w, K)
        /\ x = Null /\ c => Balanced(a, K)
    BY <1>4 DEF LevelKept
  <2>2. CASE x # Null
    <3>1. b = RemoveBalance(a, x) /\ x \in K
      BY <1>4, <2>1, <2>2 DEF b
    <3>2. RemoveEnds(a, x)
      BY <2>1, <2>2 DEF RemoveEnds, IsRed
    <3>3. PICK E : Tree(a, K, E)
      BY <1>4
    <3>4. RedWasSet(b, a, x, FALSE)
      <4> HIDE DEF K
      <4> QED BY <1>4, <3>1, <3>2, <3>3, RemoveBalanced
    <3> QED BY <2>1, <2>2, <3>4
  <2>3. CASE x = Null
    BY <2>1, <2>3 DEF b
  <2> QED BY <2>2, <2>3
<1>6. \A k \in Keys \ N : /\ b.parent[k] = Null /\ \A s \in Sides : b.child[s][k] = Null
  BY <1>1, <1>4, <1>5 DEF Kept, Bare
<1>7. Contents(b) = Contents(m)
  BY <1>4, <1>5 DEF Kept, SameContents
<1>8. b.value[z] \in Values /\ z \in Keys
  BY <1>1, <1>7 DEF Contents
<1>9. sk \in BOOLEAN
  OBVIOUS
<1>9a. sk <=> b.root # Null /\ (NodeDelete(b, z).skipped \/ (x = Null /\ ~ c))
  OBVIOUS
<1> HIDE DEF sk, lost
<1>10. /\ WasRemoved(n, b, z) /\ n.root = b.root
       /\ n.skipped = sk /\ NodeDelete(b, z).skipped = b.skipped
       /\ \A k \in Keys : /\ n.parent[k] = IF k = z THEN Null ELSE b.parent[k]
                          /\ k # z => n.red[k] = b.red[k]
       /\ \A s \in Sides, k \in Keys : n.child[s][k] = IF k = z THEN Null ELSE b.child[s][k]
  BY <1>5, <1>8, <1>9, Deleted
<1> HIDE DEF n
<1>11. WasRemoved(n, m, z)
  BY <1>7, <1>10 DEF WasRemoved, Contents
<1>12. \E E : Tree(n, K, E)
  <2>1. PICK E : Tree(b, K, E)
    BY <1>5
  <2>2. K \subseteq Keys /\ z \notin K /\ b.root \in K \cup {Null}
    BY <1>1, <2>1 DEF Tree
  <2>3. \A k \in K : k \in Keys /\ k # z
    BY <2>2
  <2> HIDE DEF K
  <2>4. /\ n.root = b.root /\ (n.root # Null => n.parent[n.root] = Null)
    BY <1>10, <2>1, <2>2, <2>3 DEF Tree
  <2>5. \A k \in K, s \in Sides :
          /\ n.child[s][k] = b.child[s][k]
          /\ n.child[s][k] # Null => n.parent[n.child[s][k]] = k
    <3> TAKE k \in K, s \in Sides
    <3>1. n.child[s][k] = b.child[s][k]
      BY <1>10, <2>3
    <3>2. b.child[s][k] \in K \cup {Null} /\ (b.child[s][k] # Null => b.parent[b.child[s][k]] = k)
      BY <2>1 DEF Tree
    <3> QED BY <1>10, <2>3, <3>1, <3>2
  <2>6. "left" \in Sides /\ "right" \in Sides
    BY DEF Sides
  <2> QED BY <2>1, <2>4, <2>5, <2>6 DEF Tree
<1>13. RedPairs(n, K) = {}
  <2> SUFFICES ASSUME NEW w \in RedPairs(n, K) PROVE FALSE
    OBVIOUS
  <2>1. w \in K /\ w \in Keys /\ w # z /\ n.red[w] /\ n.parent[w] # Null /\ n.red[n.parent[w]]
    BY <1>1 DEF RedPairs
  <2>2. n.parent[w] = b.parent[w] /\ b.red[w]
    BY <1>10, <2>1
  <2>3. PICK E : Tree(b, K, E)
    BY <1>5
  <2>4. b.parent[w] \in K
    <3> HIDE DEF K
    <3> QED BY <2>1, <2>2, <2>3, RootFacts
  <2>5. b.red[b.parent[w]]
    BY <1>1, <1>10, <2>1, <2>2, <2>4
  <2> QED BY <1>5, <2>1, <2>2, <2>5 DEF RedPairs
<1>14. BlackRoot(n)
  <2>1. b.root \in K \cup {Null}
    BY <1>5 DEF Tree
  <2> QED BY <1>1, <1>5, <1>10, <2>1 DEF BlackRoot
<1>15. Bare(n, Keys \ K)
  BY <1>6, <1>10 DEF Bare
<1>16. Balanced(b, K) => Balanced(n, K)
  <2> SUFFICES ASSUME NEW B, Level(b, K, B) PROVE Level(n, K, B)
    BY DEF Balanced
  <2>1. \A k \in K : k \in Keys /\ k # z
    BY <1>1
  <2>2. PICK E : Tree(b, K, E)
    BY <1>5
  <2> HIDE DEF K
  <2>3. ASSUME NEW k \in K, NEW s \in Sides
        PROVE  Passed(n, B, n.child[s][k]) = B[k]
    <3>1. n.child[s][k] = b.child[s][k] /\ Passed(b, B, b.child[s][k]) = B[k]
      BY <1>10, <2>1 DEF Level
    <3>2. b.child[s][k] \in K \cup {Null}
      BY <2>2 DEF Tree
    <3> QED BY <1>10, <2>1, <3>1, <3>2 DEF Passed
  <2> QED BY <2>3 DEF Level
<1>17. b.root = Null => Balanced(n, K)
  <2> HAVE b.root = Null
  <2>1. PICK E : Tree(b, K, E)
    BY <1>5
  <2>2. K = {}
    <3> HIDE DEF K
    <3> QED BY <2>1 DEF Tree, Sub
  <2>3. [k \in {} |-> 0] \in [{} -> Nat]
    OBVIOUS
  <2> QED BY <2>2, <2>3 DEF Balanced, Level
<1>18. m.skipped \/ Balanced(m, N) => n.skipped \/ Balanced(n, K)
  <2>1. b.skipped = m.skipped
    BY <1>7 DEF Contents
  <2> HIDE DEF K
  <2> QED BY <1>5a, <1>9a, <1>10, <1>16, <1>17, <2>1
<1> QED BY <1>3, <1>11, <1>12, <1>13, <1>14, <1>15, <1>18 DEF n, K

-----------------------------------------------------------------------------
(* The nodes *)

(* The nodes the tree reaches from its root are N.                           *)
LEMMA NodesAre ==
  ASSUME NEW m \in MapRec, NEW N, NEW D, Tree(m, N, D), Bare(m, Keys \ N)
  PROVE  NodesUnder(m, m.root) = N
<1> DEFINE Below(f) ==
             [n \in Keys \cup {Null} |->
                IF n = Null THEN {}
                ELSE {n} \cup f[m.child["left"][n]] \cup f[m.child["right"][n]]]
           under == CHOOSE f : f = Below(f)
           g == [n \in Keys \cup {Null} |->
                   IF n = Null THEN {} ELSE IF n \in N THEN D[n] ELSE {n}]
<1>1. NodesUnder(m, m.root) = under[m.root]
  BY DEF NodesUnder, Under
<1>2. /\ N \subseteq Keys /\ Null \notin Keys /\ "left" \in Sides /\ "right" \in Sides
      /\ D \in [N -> SUBSET N]
  BY KeyFacts, SideFacts DEF Tree
<1>3. \A n \in N, s \in Sides : m.child[s][n] \in N \cup {Null}
  BY DEF Tree
<1>4. \A n \in N : D[n] = {n} \cup Sub(D, m.child["left"][n]) \cup Sub(D, m.child["right"][n])
  BY DEF Tree
<1>5. \A n \in N \cup {Null} : g[n] = Sub(D, n)
  BY <1>2 DEF Sub
<1>6. g = Below(g)
  <2>1. ASSUME NEW n \in Keys \cup {Null}
        PROVE  g[n] = IF n = Null THEN {}
                      ELSE {n} \cup g[m.child["left"][n]] \cup g[m.child["right"][n]]
    <3>1. CASE n = Null
      BY <3>1
    <3>2. CASE n \in N
      <4>1. m.child["left"][n] \in N \cup {Null} /\ m.child["right"][n] \in N \cup {Null} /\ n # Null
        BY <1>2, <1>3, <3>2
      <4>2. g[n] = D[n]
        BY <1>2, <3>2
      <4> HIDE DEF g
      <4> QED BY <1>4, <1>5, <3>2, <4>1, <4>2
    <3>3. CASE n \in Keys \ N
      <4>1. m.child["left"][n] = Null /\ m.child["right"][n] = Null /\ n # Null
        BY <1>2, <3>3 DEF Bare
      <4>2. g[n] = {n} /\ g[Null] = {}
        BY <3>3, <4>1
      <4> HIDE DEF g
      <4> QED BY <4>1, <4>2
    <3> QED BY <1>2, <3>1, <3>2, <3>3
  <2> DEFINE h == g
  <2>2. g = [n \in Keys \cup {Null} |-> h[n]]
    OBVIOUS
  <2> HIDE DEF g
  <2> QED BY <2>1, <2>2
<1>7. under = Below(under)
  <2> HIDE DEF Below, g
  <2> QED BY <1>6
<1> HIDE DEF under, g
<1>8. /\ under[Null] = {}
      /\ \A n \in N : under[n] = {n} \cup under[m.child["left"][n]] \cup under[m.child["right"][n]]
  BY <1>2, <1>7
<1> HIDE DEF Below
<1>9. \A n \in N : under[n] = D[n]
  <2> DEFINE Q == {n \in N : under[n] # D[n]}
  <2> SUFFICES ASSUME Q # {} PROVE FALSE
    OBVIOUS
  <2>1. PICK q \in Q : \A r \in Q : Cardinality(D[q]) =< Cardinality(D[r])
    <3>1. Q \subseteq N
      OBVIOUS
    <3> HIDE DEF Q
    <3> QED BY <3>1, SmallestBelow
  <2>2. q \in N
    OBVIOUS
  <2>3. ASSUME NEW s \in Sides
        PROVE  under[m.child[s][q]] = Sub(D, m.child[s][q])
    <3> DEFINE c == m.child[s][q]
    <3>1. CASE c = Null
      BY <1>8, <3>1 DEF Sub
    <3>2. CASE c # Null
      <4>1. c \in N /\ Cardinality(D[c]) < Cardinality(D[q])
        BY <2>2, <3>2, ChildFacts
      <4>2. Cardinality(D[c]) \in Nat /\ Cardinality(D[q]) \in Nat
        BY <2>2, <4>1, SmallestBelow
      <4>3. c \notin Q
        BY <2>1, <4>1, <4>2
      <4> QED BY <3>2, <4>1, <4>3 DEF Sub
    <3> QED BY <3>1, <3>2
  <2>4. under[q] = D[q]
    BY <1>2, <1>4, <1>8, <2>2, <2>3
  <2> QED BY <2>1, <2>4
<1>10. CASE m.root = Null
  BY <1>1, <1>8, <1>10 DEF Tree, Sub
<1>11. CASE m.root # Null
  <2>1. m.root \in N /\ N = D[m.root]
    BY <1>11 DEF Tree, Sub
  <2> QED BY <1>1, <1>9, <2>1
<1> QED BY <1>10, <1>11

(* All paths of a balanced tree meet as many black nodes as its root says.   *)
LEMMA BlackCountIs ==
  ASSUME NEW m \in MapRec, NEW N, NEW D, Tree(m, N, D), Bare(m, Keys \ N),
         NEW B, Level(m, N, B)
  PROVE  BlackCounts(m) = {Passed(m, B, m.root)}
<1> DEFINE own(n) == IF m.red[n] THEN 0 ELSE 1
           Counts(f) ==
             [n \in Keys \cup {Null} |->
                IF n = Null THEN {0}
                ELSE {h + (IF m.red[n] THEN 0 ELSE 1) :
                        h \in f[m.child["left"][n]] \cup f[m.child["right"][n]]}]
           counts == CHOOSE f : f = Counts(f)
           g == [n \in Keys \cup {Null} |->
                   IF n = Null THEN {0} ELSE IF n \in N THEN {Passed(m, B, n)} ELSE {own(n)}]
<1>1. BlackCounts(m) = counts[m.root]
  BY DEF BlackCounts
<1>2. /\ N \subseteq Keys /\ Null \notin Keys /\ "left" \in Sides /\ "right" \in Sides
      /\ B \in [N -> Nat]
  BY KeyFacts, SideFacts DEF Tree, Level
<1>3. \A n \in N, s \in Sides : m.child[s][n] \in N \cup {Null} /\ Passed(m, B, m.child[s][n]) = B[n]
  BY DEF Tree, Level
<1>4. \A n \in N : Passed(m, B, n) = B[n] + own(n)
  BY <1>2 DEF Passed
<1>5. \A n \in N \cup {Null} : g[n] = {Passed(m, B, n)}
  BY <1>2 DEF Passed
<1>6. g = Counts(g)
  <2>1. ASSUME NEW n \in Keys \cup {Null}
        PROVE  g[n] = IF n = Null THEN {0}
                      ELSE {h + own(n) : h \in g[m.child["left"][n]] \cup g[m.child["right"][n]]}
    <3>1. CASE n = Null
      BY <3>1
    <3>2. CASE n \in N
      <4>1. g[m.child["left"][n]] = {B[n]} /\ g[m.child["right"][n]] = {B[n]}
        <5> HIDE DEF g
        <5> QED BY <1>2, <1>3, <1>5, <3>2
      <4>2. g[n] = {B[n] + own(n)} /\ n # Null
        BY <1>2, <1>4, <3>2
      <4> HIDE DEF g, own
      <4> QED BY <4>1, <4>2
    <3>3. CASE n \in Keys \ N
      <4>1. m.child["left"][n] = Null /\ m.child["right"][n] = Null /\ n # Null
        BY <1>2, <3>3 DEF Bare
      <4>2. g[n] = {own(n)} /\ g[Null] = {0}
        BY <3>3, <4>1
      <4>3. 0 + own(n) = own(n)
        OBVIOUS
      <4> HIDE DEF g, own
      <4> QED BY <4>1, <4>2, <4>3
    <3> QED BY <1>2, <3>1, <3>2, <3>3
  <2> DEFINE h == g
  <2>2. g = [n \in Keys \cup {Null} |-> h[n]]
    OBVIOUS
  <2> HIDE DEF g
  <2> QED BY <2>1, <2>2
<1>7. counts = Counts(counts)
  <2> HIDE DEF Counts, g
  <2> QED BY <1>6
<1> HIDE DEF counts, g
<1>8. /\ counts[Null] = {0}
      /\ \A n \in N : counts[n] =
           {h + own(n) : h \in counts[m.child["left"][n]] \cup counts[m.child["right"][n]]}
  BY <1>2, <1>7
<1> HIDE DEF Counts, own
<1>9. \A n \in N : counts[n] = {Passed(m, B, n)}
  <2> DEFINE Q == {n \in N : counts[n] # {Passed(m, B, n)}}
  <2> SUFFICES ASSUME Q # {} PROVE FALSE
    OBVIOUS
  <2>1. PICK q \in Q : \A r \in Q : Cardinality(D[q]) =< Cardinality(D[r])
    <3>1. Q \subseteq N
      OBVIOUS
    <3> HIDE DEF Q
    <3> QED BY <3>1, SmallestBelow
  <2>2. q \in N
    OBVIOUS
  <2>3. ASSUME NEW s \in Sides
        PROVE  counts[m.child[s][q]] = {B[q]}
    <3> DEFINE c == m.child[s][q]
    <3>1. Passed(m, B, c) = B[q]
      BY <1>3, <2>2
    <3>2. CASE c = Null
      BY <1>8, <3>1, <3>2 DEF Passed
    <3>3. CASE c # Null
      <4>1. c \in N /\ Cardinality(D[c]) < Cardinality(D[q])
        BY <2>2, <3>3, ChildFacts
      <4>2. Cardinality(D[c]) \in Nat /\ Cardinality(D[q]) \in Nat
        BY <2>2, <4>1, SmallestBelow
      <4>3. c \notin Q
        BY <2>1, <4>1, <4>2
      <4> QED BY <3>1, <4>1, <4>3
    <3> QED BY <3>2, <3>3
  <2>4. counts[q] = {Passed(m, B, q)}
    <3>1. counts[m.child["left"][q]] = {B[q]} /\ counts[m.child["right"][q]] = {B[q]}
      BY <1>2, <2>3
    <3>2. counts[q] = {B[q] + own(q)}
      BY <1>8, <2>2, <3>1
    <3> QED BY <1>4, <2>2, <3>2
  <2> QED BY <2>1, <2>4
<1>10. CASE m.root = Null
  BY <1>1, <1>8, <1>10 DEF Passed
<1>11. CASE m.root # Null
  <2>1. m.root \in N
    BY <1>11 DEF Tree
  <2> QED BY <1>1, <1>9, <2>1
<1> QED BY <1>10, <1>11

-----------------------------------------------------------------------------
(* Counting holders and hashing entries *)

(* One more in a set, seen as a number.                                      *)
LEMMA OneMore ==
  ASSUME NEW S, S \subseteq Keys, NEW k \in Keys
  PROVE  /\ Cardinality(S) \in Nat /\ Cardinality(S \cup {k}) \in Nat /\ Cardinality(S \ {k}) \in Nat
         /\ k \notin S => Cardinality(S \cup {k}) = Cardinality(S) + 1
         /\ k \in S => Cardinality(S \ {k}) = Cardinality(S) - 1
<1>1. IsFiniteSet(S) /\ Cardinality(S) \in Nat
  BY KeyFacts
<1>2. S \cup {k} \subseteq Keys /\ S \ {k} \subseteq Keys
  OBVIOUS
<1> QED BY <1>1, <1>2, KeyFacts, FS_AddElement, FS_RemoveElement

(* The hash of one entry more.                                               *)
LEMMA HashOfMore ==
  ASSUME NEW d, DOMAIN d \subseteq Keys, NEW e, NEW k \in Keys, k \notin DOMAIN d,
         DOMAIN e = DOMAIN d \cup {k}, \A j \in DOMAIN d : e[j] = d[j]
  PROVE  HashOf(e) = MapHash(HashOf(d), k, e[k]) \/ e[k] \notin Values
<1> SUFFICES ASSUME e[k] \in Values
             PROVE  HashOf(e) = MapHash(HashOf(d), k, e[k])
  OBVIOUS
<1> DEFINE In(x) == {j \in DOMAIN d : x \in {j, d[j]}}
           Of(x) == {j \in DOMAIN e : x \in {j, e[j]}}
<1>1. ASSUME NEW x \in Keys \cup Values
      PROVE  Cardinality(Of(x)) % 2 = 1 <=> ~ (Cardinality(In(x)) % 2 = 1 <=> x \in {k, e[k]})
  <2>1. In(x) \subseteq Keys /\ k \notin In(x)
    OBVIOUS
  <2>2. CASE x \in {k, e[k]}
    <3>1. Of(x) = In(x) \cup {k}
      BY <2>2
    <3>2. Cardinality(Of(x)) = Cardinality(In(x)) + 1 /\ Cardinality(In(x)) \in Nat
      <4> HIDE DEF In, Of
      <4> QED BY <2>1, <3>1, OneMore
    <3> HIDE DEF In, Of
    <3>3. (Cardinality(In(x)) + 1) % 2 = 1 <=> Cardinality(In(x)) % 2 # 1
      BY <3>2
    <3> QED BY <2>2, <3>2, <3>3
  <2>3. CASE x \notin {k, e[k]}
    <3>1. Of(x) = In(x)
      BY <2>3
    <3> HIDE DEF In, Of
    <3> QED BY <2>3, <3>1
  <2> QED BY <2>2, <2>3
<1>2. /\ HashOf(d) = {x \in Keys \cup Values : Cardinality(In(x)) % 2 = 1}
      /\ HashOf(e) = {x \in Keys \cup Values : Cardinality(Of(x)) % 2 = 1}
  BY DEF HashOf
<1> HIDE DEF In, Of
<1>3. \A x : x \in HashOf(e) <=> x \in MapHash(HashOf(d), k, e[k])
  BY <1>1, <1>2 DEF MapHash, Xor
<1> QED BY <1>3

(* A hash is made of keys and values.                                        *)
LEMMA HashTypes ==
  ASSUME NEW d
  PROVE  HashOf(d) \subseteq Keys \cup Values
BY DEF HashOf

-----------------------------------------------------------------------------
(* The operations of the map *)

(* The nodes N are a red-black search tree, and the keys that are not nodes  *)
(* have no links.                                                            *)
RedBlack(m, N) ==
  /\ m \in MapRec /\ (\E D : Tree(m, N, D))
  /\ RedPairs(m, N) = {} /\ BlackRoot(m) /\ Bare(m, Keys \ N)
  /\ m.skipped \/ Balanced(m, N)

Filled(m, N) ==
  /\ m.size = Cardinality(N)
  /\ \A k \in N : m.value[k] \in Values
  /\ \A k \in Keys \ N : m.value[k] = Null

Holders(m, N, v) == {k \in N : m.value[k] = v}

Owned(m, N) ==
  /\ \A k \in Keys : m.keyRefs[k] = IF k \in N THEN 2 ELSE 1
  /\ \A v \in Values : m.valueRefs[v] = 1 + Cardinality(Holders(m, N, v))

Fresh(m, N) ==
  m.rehash \/ m.replaced \/ m.hash = HashOf([k \in N |-> m.value[k]])

(* What every operation keeps of a map with the nodes N.                     *)
GoodMap(m, N) == RedBlack(m, N) /\ Filled(m, N) /\ Owned(m, N) /\ Fresh(m, N)

(* The operators of DataMap, in terms of the nodes N.                        *)
LEMMA GoodNodes ==
  ASSUME NEW m, NEW N, GoodMap(m, N)
  PROVE  /\ m \in MapRec /\ N \subseteq Keys /\ Null \notin N
         /\ NodesUnder(m, m.root) = N /\ Entries(m) = [k \in N |-> m.value[k]]
         /\ \A k \in Keys : Find(m, k) = IF k \in N THEN k ELSE Null
<1>1. PICK D : Tree(m, N, D)
  BY DEF GoodMap, RedBlack
<1>2. m \in MapRec /\ Bare(m, Keys \ N) /\ N \subseteq Keys
  BY <1>1 DEF GoodMap, RedBlack, Tree
<1>3. NodesUnder(m, m.root) = N
  BY <1>1, <1>2, NodesAre
<1> QED BY <1>1, <1>2, <1>3, FindFacts, KeyFacts DEF Entries

(* The same tree with other contents.                                        *)
LEMMA RedBlackSame ==
  ASSUME NEW m, NEW n \in MapRec, NEW N, RedBlack(m, N),
         n.root = m.root, n.child = m.child, n.parent = m.parent, n.red = m.red,
         n.skipped = m.skipped
  PROVE  RedBlack(n, N)
<1>1. PICK D : Tree(m, N, D)
  BY DEF RedBlack
<1>2. Tree(n, N, D)
  BY <1>1, TreeSame
<1>3. Balanced(m, N) => Balanced(n, N)
  BY DEF Balanced, Level, Passed
<1> QED BY <1>2, <1>3 DEF RedBlack, RedPairs, BlackRoot, Bare

(* The client's references to k and v, given to the map.                     *)
WasGiven(g, m, k, v) ==
  /\ g \in MapRec /\ g.root = m.root /\ g.child = m.child /\ g.parent = m.parent /\ g.red = m.red
  /\ g.size = m.size /\ g.hash = m.hash /\ g.rehash = m.rehash /\ g.replaced = m.replaced
  /\ g.value = m.value /\ g.skipped = m.skipped
  /\ \A j \in Keys : g.keyRefs[j] = IF j = k THEN m.keyRefs[j] + 1 ELSE m.keyRefs[j]
  /\ \A w \in Values : g.valueRefs[w] = IF w = v THEN m.valueRefs[w] + 1 ELSE m.valueRefs[w]

(* What Give does.                                                           *)
LEMMA Given ==
  ASSUME NEW m \in MapRec, NEW k \in Keys, NEW v \in Values
  PROVE  WasGiven(Give(m, k, v), m, k, v)
<1> DEFINE g == Give(m, k, v)
<1>1. /\ [m.keyRefs EXCEPT ![k] = m.keyRefs[k] + 1] \in [Keys -> Int]
      /\ [m.valueRefs EXCEPT ![v] = m.valueRefs[v] + 1] \in [Values -> Int]
  BY DEF MapRec
<1>2. g = [m EXCEPT !.keyRefs = [m.keyRefs EXCEPT ![k] = m.keyRefs[k] + 1],
                    !.valueRefs = [m.valueRefs EXCEPT ![v] = m.valueRefs[v] + 1]]
  BY DEF Give, MapRec
<1> HIDE DEF g
<1>3. g \in MapRec
  BY <1>1, <1>2 DEF MapRec
<1>4. /\ g.root = m.root /\ g.child = m.child /\ g.parent = m.parent /\ g.red = m.red
      /\ g.size = m.size /\ g.hash = m.hash /\ g.rehash = m.rehash /\ g.replaced = m.replaced
      /\ g.value = m.value /\ g.skipped = m.skipped
      /\ g.keyRefs = [m.keyRefs EXCEPT ![k] = m.keyRefs[k] + 1]
      /\ g.valueRefs = [m.valueRefs EXCEPT ![v] = m.valueRefs[v] + 1]
  BY <1>2 DEF MapRec
<1>5. /\ \A j \in Keys : g.keyRefs[j] = IF j = k THEN m.keyRefs[j] + 1 ELSE m.keyRefs[j]
      /\ \A w \in Values : g.valueRefs[w] = IF w = v THEN m.valueRefs[w] + 1 ELSE m.valueRefs[w]
  BY <1>4 DEF MapRec
<1> QED BY <1>3, <1>4, <1>5 DEF WasGiven, g

(* The value of a key that is there is replaced.                             *)
WasReput(n, g, k, v) ==
  /\ n \in MapRec /\ n.root = g.root /\ n.child = g.child /\ n.parent = g.parent /\ n.red = g.red
  /\ n.size = g.size /\ n.rehash = TRUE /\ n.skipped = g.skipped
  /\ \A j \in Keys : n.value[j] = IF j = k THEN v ELSE g.value[j]
  /\ \A j \in Keys : n.keyRefs[j] = IF j = k THEN g.keyRefs[j] - 1 ELSE g.keyRefs[j]
  /\ \A w \in Values :
       n.valueRefs[w] = IF w = g.value[k] THEN g.valueRefs[w] - 1 ELSE g.valueRefs[w]

(* What MapAdd does to a key that is there.                                  *)
LEMMA Reput ==
  ASSUME NEW g \in MapRec, NEW k \in Keys, NEW v \in Values, Find(g, k) = k, g.value[k] \in Values
  PROVE  WasReput(MapAdd(g, k, v), g, k, v)
<1> DEFINE kr == [g.keyRefs EXCEPT ![k] = g.keyRefs[k] - 1]
           vr == [g.valueRefs EXCEPT ![g.value[k]] = g.valueRefs[g.value[k]] - 1]
           vs == [g.value EXCEPT ![k] = v]
           p == [g EXCEPT !.rehash = TRUE, !.hash = {}, !.replaced = FALSE]
           n == MapAdd(g, k, v)
<1>0. k # Null
  BY KeyFacts
<1>1. kr \in [Keys -> Int] /\ vr \in [Values -> Int] /\ vs \in [Keys -> Values \cup {Null}]
  BY DEF MapRec
<1>2. /\ \A j \in Keys : vs[j] = IF j = k THEN v ELSE g.value[j]
      /\ \A j \in Keys : kr[j] = IF j = k THEN g.keyRefs[j] - 1 ELSE g.keyRefs[j]
      /\ \A w \in Values : vr[w] = IF w = g.value[k] THEN g.valueRefs[w] - 1 ELSE g.valueRefs[w]
  BY DEF MapRec
<1>3. /\ p \in MapRec /\ p.root = g.root /\ p.child = g.child /\ p.parent = g.parent /\ p.red = g.red
      /\ p.size = g.size /\ p.rehash = TRUE /\ p.value = g.value /\ p.keyRefs = g.keyRefs
      /\ p.valueRefs = g.valueRefs /\ p.skipped = g.skipped
  BY DEF MapRec
<1>4. n = [p EXCEPT !.keyRefs[k] = @ - 1, !.valueRefs[g.value[k]] = @ - 1, !.value[k] = v]
  BY <1>0 DEF MapAdd, Mark
<1> HIDE DEF p
<1>5. n = [p EXCEPT !.keyRefs = kr, !.valueRefs = vr, !.value = vs]
  BY <1>3, <1>4 DEF MapRec
<1> HIDE DEF n, kr, vr, vs
<1>6. /\ n \in MapRec /\ n.root = p.root /\ n.child = p.child /\ n.parent = p.parent /\ n.red = p.red
      /\ n.size = p.size /\ n.rehash = p.rehash /\ n.keyRefs = kr /\ n.valueRefs = vr /\ n.value = vs
      /\ n.skipped = p.skipped
  BY <1>1, <1>3, <1>5 DEF MapRec
<1>7. WasReput(n, g, k, v)
  BY <1>2, <1>3, <1>6 DEF WasReput
<1> QED BY <1>7 DEF n

(* A key that is not there gets a node.                                      *)
WasPut(n, g, b, k, v) ==
  /\ n \in MapRec /\ n.root = b.root /\ n.child = b.child /\ n.parent = b.parent /\ n.red = b.red
  /\ n.size = g.size + 1 /\ n.rehash = g.rehash /\ n.replaced = g.replaced
  /\ n.hash = IF g.rehash THEN {} ELSE MapHash(g.hash, k, v)
  /\ n.keyRefs = g.keyRefs /\ n.valueRefs = g.valueRefs /\ n.skipped = b.skipped
  /\ \A j \in Keys : n.value[j] = IF j = k THEN v ELSE g.value[j]

(* What MapAdd does to a key that is not.                                    *)
LEMMA NewPut ==
  ASSUME NEW g \in MapRec, NEW k \in Keys, NEW v \in Values, Find(g, k) = Null,
         Insert(g, k) \in MapRec, SameContents(Insert(g, k), g)
  PROVE  WasPut(MapAdd(g, k, v), g, Insert(g, k), k, v)
<1> DEFINE b == Insert(g, k)
           vs == [b.value EXCEPT ![k] = v]
           h == IF g.rehash THEN {} ELSE MapHash(b.hash, k, v)
           n == MapAdd(g, k, v)
<1>1. n = [b EXCEPT !.value = vs, !.size = b.size + 1, !.hash = h]
  BY DEF MapAdd, MapRec
<1> HIDE DEF b
<1>2. b \in MapRec /\ SameContents(b, g)
  BY DEF b
<1>3. vs \in [Keys -> Values \cup {Null}] /\ \A j \in Keys : vs[j] = IF j = k THEN v ELSE b.value[j]
  BY <1>2 DEF MapRec
<1>4. h \in SUBSET (Keys \cup Values) /\ b.size + 1 \in Int
  BY <1>2 DEF MapRec, MapHash, Xor
<1> HIDE DEF vs, h, n
<1>5. /\ n \in MapRec /\ n.root = b.root /\ n.child = b.child /\ n.parent = b.parent /\ n.red = b.red
      /\ n.size = b.size + 1 /\ n.rehash = b.rehash /\ n.replaced = b.replaced /\ n.hash = h
      /\ n.keyRefs = b.keyRefs /\ n.valueRefs = b.valueRefs /\ n.value = vs
      /\ n.skipped = b.skipped
  BY <1>1, <1>2, <1>3, <1>4 DEF MapRec
<1>6. /\ b.size = g.size /\ b.rehash = g.rehash /\ b.replaced = g.replaced /\ b.hash = g.hash
      /\ b.keyRefs = g.keyRefs /\ b.valueRefs = g.valueRefs /\ b.value = g.value
  BY <1>2 DEF SameContents, Contents
<1>7. h = IF g.rehash THEN {} ELSE MapHash(g.hash, k, v)
  BY <1>6 DEF h
<1>8. WasPut(n, g, b, k, v)
  BY <1>3, <1>5, <1>6, <1>7 DEF WasPut
<1> QED BY <1>8 DEF n, b

(* The value of k has become v.                                              *)
Revalued(n, m, k, v) == \A j \in Keys : n.value[j] = IF j = k THEN v ELSE m.value[j]

(* What one replaced value makes of the number of holders.                   *)
LEMMA HoldersReplaced ==
  ASSUME NEW m, NEW n, NEW N, N \subseteq Keys, NEW k \in N, NEW v, NEW w, Revalued(n, m, k, v)
  PROVE  /\ Cardinality(Holders(m, N, w)) \in Nat
         /\ Cardinality(Holders(n, N, w)) =
              (Cardinality(Holders(m, N, w)) + IF w = v THEN 1 ELSE 0)
              - IF w = m.value[k] THEN 1 ELSE 0
<1> DEFINE H == Holders(m, N, w)
           I == Holders(n, N, w)
<1>0. H \subseteq Keys /\ Cardinality(H) \in Nat /\ k \in Keys
  <2>1. H \subseteq Keys
    BY DEF Holders
  <2> QED BY <2>1, KeyFacts
<1>1. CASE (w = v) <=> (w = m.value[k])
  <2>1. I = H
    BY <1>1 DEF Holders, Revalued
  <2> HIDE DEF H, I
  <2> QED BY <1>0, <1>1, <2>1 DEF H, I
<1>2. CASE w = v /\ w # m.value[k]
  <2>1. I = H \cup {k} /\ k \notin H
    BY <1>2 DEF Holders, Revalued
  <2> HIDE DEF H, I
  <2>2. Cardinality(I) = Cardinality(H) + 1
    BY <1>0, <2>1, OneMore
  <2> QED BY <1>0, <1>2, <2>2 DEF H, I
<1>3. CASE w # v /\ w = m.value[k]
  <2>1. I = H \ {k} /\ k \in H
    BY <1>3 DEF Holders, Revalued
  <2> HIDE DEF H, I
  <2>2. Cardinality(I) = Cardinality(H) - 1
    BY <1>0, <2>1, OneMore
  <2> QED BY <1>0, <1>3, <2>2 DEF H, I
<1> QED BY <1>1, <1>2, <1>3

(* iot_data_map_add, with the references of the client given to the map: a    *)
(* good map with one more node, or with another value, and no value gains     *)
(* more than the one reference given.                                        *)
LEMMA MapPut ==
  ASSUME NEW m, NEW N, GoodMap(m, N), NEW k \in Keys, NEW v \in Values
  PROVE  LET n == MapAdd(Give(m, k, v), k, v) IN
         /\ GoodMap(n, N \cup {k})
         /\ \A j \in Keys : n.value[j] = IF j = k THEN v ELSE m.value[j]
         /\ \A w \in Values : n.valueRefs[w] =< IF w = v THEN m.valueRefs[w] + 1 ELSE m.valueRefs[w]
<1> DEFINE g == Give(m, k, v)
           b == Insert(g, k)
           n == MapAdd(g, k, v)
           K == N \cup {k}
<1>1. PICK D : Tree(m, N, D)
  BY DEF GoodMap, RedBlack
<1>2. /\ m \in MapRec /\ N \subseteq Keys /\ Null \notin Keys /\ K \subseteq Keys
      /\ Null \notin Values
  BY GoodNodes, KeyFacts
<1>3. WasGiven(g, m, k, v)
  BY <1>2, Given
<1> HIDE DEF g
<1>4. RedBlack(g, N) /\ g \in MapRec /\ g.value = m.value
  BY <1>3, RedBlackSame DEF GoodMap, WasGiven
<1>5. Find(g, k) = IF k \in N THEN k ELSE Null
  BY <1>4, FindFacts DEF RedBlack
<1>6. /\ m.size = Cardinality(N) /\ Cardinality(N) \in Nat
      /\ \A j \in N : m.value[j] \in Values
      /\ \A j \in Keys \ N : m.value[j] = Null
  BY <1>2, KeyFacts DEF GoodMap, Filled
<1>7. /\ \A j \in Keys : m.keyRefs[j] = IF j \in N THEN 2 ELSE 1
      /\ \A w \in Values : m.valueRefs[w] = 1 + Cardinality(Holders(m, N, w))
  BY DEF GoodMap, Owned
<1>8. \A w : Cardinality(Holders(m, N, w)) \in Nat /\ Holders(m, N, w) \subseteq Keys
  <2> TAKE w
  <2>1. Holders(m, N, w) \subseteq Keys
    BY <1>2 DEF Holders
  <2> QED BY <2>1, KeyFacts
<1>9. CASE k \in N
  <2>1. K = N /\ g.value[k] \in Values
    BY <1>4, <1>6, <1>9
  <2>2. WasReput(n, g, k, v)
    <3> HIDE DEF K
    <3> QED BY <1>4, <1>5, <1>9, <2>1, Reput
  <2> HIDE DEF n
  <2>3. RedBlack(n, N)
    BY <1>4, <2>2, RedBlackSame DEF WasReput
  <2>4. \A j \in Keys : n.value[j] = IF j = k THEN v ELSE m.value[j]
    BY <1>4, <2>2 DEF WasReput
  <2>5. Filled(n, N)
    <3>1. n.size = m.size
      BY <1>3, <2>2 DEF WasReput, WasGiven
    <3> QED BY <1>2, <1>6, <1>9, <2>4, <3>1 DEF Filled
  <2>6. \A j \in Keys : n.keyRefs[j] = m.keyRefs[j]
    BY <1>2, <1>3, <2>2 DEF WasReput, WasGiven, MapRec
  <2>7. ASSUME NEW w \in Values
        PROVE  /\ n.valueRefs[w] = 1 + Cardinality(Holders(n, N, w))
               /\ n.valueRefs[w] =< IF w = v THEN m.valueRefs[w] + 1 ELSE m.valueRefs[w]
    <3> DEFINE H == Holders(m, N, w)
               I == Holders(n, N, w)
    <3>0. /\ n.valueRefs[w] = IF w = m.value[k] THEN g.valueRefs[w] - 1 ELSE g.valueRefs[w]
          /\ g.valueRefs[w] = IF w = v THEN m.valueRefs[w] + 1 ELSE m.valueRefs[w]
          /\ m.valueRefs[w] = 1 + Cardinality(H) /\ Cardinality(H) \in Nat /\ H \subseteq Keys
      BY <1>3, <1>4, <1>7, <1>8, <2>2 DEF WasReput, WasGiven
    <3>1. Cardinality(I) = (Cardinality(H) + IF w = v THEN 1 ELSE 0)
                           - IF w = m.value[k] THEN 1 ELSE 0
      <4>1. N \subseteq Keys /\ k \in N
        BY <1>2, <1>9
      <4>2. Revalued(n, m, k, v)
        BY <2>4 DEF Revalued
      <4> QED BY ONLY <4>1, <4>2, HoldersReplaced
    <3> HIDE DEF H, I
    <3>2. n.valueRefs[w] = 1 + Cardinality(I)
      BY <3>0, <3>1
    <3>3. n.valueRefs[w] =< IF w = v THEN m.valueRefs[w] + 1 ELSE m.valueRefs[w]
      BY <3>0
    <3> QED BY <3>2, <3>3 DEF I
  <2>8. Owned(n, N)
    BY <1>7, <2>6, <2>7 DEF Owned
  <2>9. Fresh(n, N)
    BY <2>2 DEF Fresh, WasReput
  <2>10. GoodMap(n, K)
    BY <2>1, <2>3, <2>5, <2>8, <2>9 DEF GoodMap
  <2> QED BY <2>4, <2>7, <2>10 DEF n, g
<1>10. CASE k \notin N
  <2>1. /\ b \in MapRec /\ SameContents(b, g) /\ (\E E : Tree(b, K, E))
        /\ RedPairs(b, K) = {} /\ BlackRoot(b) /\ Bare(b, Keys \ K)
        /\ Balanced(g, N) => Balanced(b, K)
    <3>1. k \in Keys \ N
      BY <1>10
    <3>2. PICK E : Tree(g, N, E)
      BY <1>4 DEF RedBlack
    <3> QED BY <1>4, <3>1, <3>2, Inserted DEF RedBlack
  <2>2. WasPut(n, g, b, k, v)
    <3> HIDE DEF b
    <3>1. Find(g, k) = Null
      BY <1>5, <1>10
    <3> QED BY <1>4, <2>1, <3>1, NewPut DEF b
  <2> HIDE DEF n, b, K
  <2>3. RedBlack(n, K)
    <3>1. RedBlack(b, K)
      <4>1. b.skipped = g.skipped
        BY <2>1 DEF SameContents, Contents
      <4>2. g.skipped \/ Balanced(g, N)
        BY <1>4 DEF RedBlack
      <4> QED BY <2>1, <4>1, <4>2 DEF RedBlack
    <3> QED BY <2>2, <3>1, RedBlackSame DEF WasPut
  <2>4. \A j \in Keys : n.value[j] = IF j = k THEN v ELSE m.value[j]
    BY <1>4, <2>2 DEF WasPut
  <2>5. Filled(n, K)
    <3>1. n.size = m.size + 1
      BY <1>3, <2>2 DEF WasPut, WasGiven
    <3>2. Cardinality(K) = Cardinality(N) + 1
      BY <1>2, <1>10, OneMore DEF K
    <3>3. \A j \in K : n.value[j] \in Values
      BY <1>2, <1>6, <2>4 DEF K
    <3>4. \A j \in Keys \ K : n.value[j] = Null
      BY <1>2, <1>6, <2>4 DEF K
    <3> QED BY <1>6, <3>1, <3>2, <3>3, <3>4 DEF Filled
  <2>6. \A j \in Keys : n.keyRefs[j] = IF j \in K THEN 2 ELSE 1
    <3> TAKE j \in Keys
    <3>1. n.keyRefs[j] = IF j = k THEN m.keyRefs[j] + 1 ELSE m.keyRefs[j]
      BY <1>3, <2>2 DEF WasPut, WasGiven
    <3> QED BY <1>7, <1>10, <3>1 DEF K
  <2>7. ASSUME NEW w \in Values
        PROVE  /\ n.valueRefs[w] = 1 + Cardinality(Holders(n, K, w))
               /\ n.valueRefs[w] =< IF w = v THEN m.valueRefs[w] + 1 ELSE m.valueRefs[w]
    <3> DEFINE H == Holders(m, N, w)
               I == Holders(n, K, w)
    <3>0. /\ n.valueRefs[w] = IF w = v THEN m.valueRefs[w] + 1 ELSE m.valueRefs[w]
          /\ m.valueRefs[w] = 1 + Cardinality(H) /\ Cardinality(H) \in Nat /\ H \subseteq Keys
      BY <1>3, <1>7, <1>8, <2>2 DEF WasPut, WasGiven
    <3>1. CASE w = v
      <4>1. I = H \cup {k} /\ k \notin H
        BY <1>2, <1>10, <2>4, <3>1 DEF Holders, K
      <4> HIDE DEF H, I
      <4>2. Cardinality(I) = Cardinality(H) + 1
        BY <3>0, <4>1, OneMore
      <4> QED BY <3>0, <3>1, <4>2 DEF H, I
    <3>2. CASE w # v
      <4>1. I = H
        BY <1>2, <1>10, <2>4, <3>2 DEF Holders, K
      <4> HIDE DEF H, I
      <4> QED BY <3>0, <3>2, <4>1 DEF H, I
    <3> QED BY <3>1, <3>2
  <2>8. Owned(n, K)
    BY <2>6, <2>7 DEF Owned
  <2>9. Fresh(n, K)
    <3> SUFFICES ASSUME ~ n.rehash, ~ n.replaced
                 PROVE  n.hash = HashOf([j \in K |-> n.value[j]])
      BY DEF Fresh
    <3> DEFINE d == [j \in N |-> m.value[j]]
               e == [j \in K |-> n.value[j]]
    <3>1. n.hash = MapHash(m.hash, k, v) /\ ~ m.rehash /\ ~ m.replaced
      BY <1>3, <2>2 DEF WasPut, WasGiven
    <3>2. m.hash = HashOf(d)
      BY <3>1 DEF GoodMap, Fresh
    <3>3. /\ DOMAIN d = N /\ DOMAIN e = DOMAIN d \cup {k} /\ k \notin DOMAIN d
          /\ \A j \in DOMAIN d : e[j] = d[j]
          /\ e[k] = v
      BY <1>2, <1>10, <2>4 DEF K
    <3> HIDE DEF d, e
    <3>4. HashOf(e) = MapHash(HashOf(d), k, v)
      BY <1>2, <3>3, HashOfMore
    <3> QED BY <3>1, <3>2, <3>4 DEF e
  <2>10. GoodMap(n, K)
    BY <2>3, <2>5, <2>8, <2>9 DEF GoodMap
  <2> QED BY <2>4, <2>7, <2>10 DEF n, g, K
<1> QED BY <1>9, <1>10

(* iot_data_map_remove.                                                      *)
LEMMA MapRemoved ==
  ASSUME NEW m, NEW N, GoodMap(m, N), NEW k \in Keys
  PROVE  LET n == MapRemove(m, k) IN
         /\ GoodMap(n, N \ {k})
         /\ \A j \in N \ {k} : n.value[j] = m.value[j]
         /\ \A w \in Values : n.valueRefs[w] =< m.valueRefs[w]
<1> DEFINE n == MapRemove(m, k)
           b == NodeRemove(m, k)
           K == N \ {k}
<1>1. PICK D : Tree(m, N, D)
  BY DEF GoodMap, RedBlack
<1>2. m \in MapRec /\ N \subseteq Keys /\ Null \notin Keys /\ k # Null
  BY GoodNodes, KeyFacts
<1>3. Find(m, k) = IF k \in N THEN k ELSE Null
  BY GoodNodes
<1>4. \A w \in Values : m.valueRefs[w] \in Int
  BY <1>2 DEF MapRec
<1>5. CASE k \notin N
  <2>1. n = m /\ K = N
    BY <1>3, <1>5 DEF MapRemove
  <2> HIDE DEF n, K
  <2> QED BY <1>4, <2>1 DEF n, K
<1>6. CASE k \in N
  <2>1. n = [Mark(b) EXCEPT !.size = @ - 1]
    BY <1>2, <1>3, <1>6 DEF MapRemove
  <2>2. /\ m.size = Cardinality(N) /\ Cardinality(N) \in Nat
        /\ \A j \in N : m.value[j] \in Values
        /\ \A j \in Keys \ N : m.value[j] = Null
    BY <1>2, KeyFacts DEF GoodMap, Filled
  <2>3. /\ WasRemoved(b, m, k) /\ (\E E : Tree(b, K, E))
        /\ RedPairs(b, K) = {} /\ BlackRoot(b) /\ Bare(b, Keys \ K)
        /\ b.skipped \/ Balanced(b, K)
    BY <1>1, <1>2, <1>6, <2>2, Removed DEF GoodMap, RedBlack
  <2> HIDE DEF b, n, K
  <2>4. b \in MapRec
    BY <2>3 DEF WasRemoved
  <2>5. /\ n \in MapRec /\ n.root = b.root /\ n.child = b.child /\ n.parent = b.parent /\ n.red = b.red
        /\ n.size = b.size - 1 /\ n.rehash = TRUE /\ n.value = b.value /\ n.keyRefs = b.keyRefs
        /\ n.valueRefs = b.valueRefs /\ n.skipped = b.skipped
    <3> DEFINE p == Mark(b)
    <3>1. /\ p \in MapRec /\ p.root = b.root /\ p.child = b.child /\ p.parent = b.parent
          /\ p.red = b.red /\ p.size = b.size /\ p.rehash = TRUE /\ p.value = b.value
          /\ p.keyRefs = b.keyRefs /\ p.valueRefs = b.valueRefs /\ p.skipped = b.skipped
      BY <2>4 DEF Mark, MapRec
    <3>2. n = [p EXCEPT !.size = @ - 1]
      BY <2>1
    <3> HIDE DEF p
    <3> QED BY <3>1, <3>2 DEF MapRec
  <2>6. RedBlack(n, K)
    <3>1. RedBlack(b, K)
      BY <2>3, <2>4 DEF RedBlack
    <3> QED BY <2>5, <3>1, RedBlackSame
  <2>7. \A j \in Keys : n.value[j] = IF j = k THEN Null ELSE m.value[j]
    BY <2>3, <2>5 DEF WasRemoved
  <2>8. Filled(n, K)
    <3>1. n.size = m.size - 1
      BY <2>3, <2>5 DEF WasRemoved
    <3>2. Cardinality(K) = Cardinality(N) - 1
      BY <1>2, <1>6, OneMore DEF K
    <3> QED BY <1>2, <2>2, <2>7, <3>1, <3>2 DEF Filled, K
  <2>9. \A j \in Keys : n.keyRefs[j] = IF j \in K THEN 2 ELSE 1
    <3> TAKE j \in Keys
    <3>1. n.keyRefs[j] = IF j = k THEN m.keyRefs[j] - 1 ELSE m.keyRefs[j]
      BY <2>3, <2>5 DEF WasRemoved
    <3>2. m.keyRefs[j] = IF j \in N THEN 2 ELSE 1
      BY DEF GoodMap, Owned
    <3> QED BY <1>6, <3>1, <3>2 DEF K
  <2>10. ASSUME NEW w \in Values
         PROVE  /\ n.valueRefs[w] = 1 + Cardinality(Holders(n, K, w))
                /\ n.valueRefs[w] =< m.valueRefs[w]
    <3> DEFINE H == Holders(m, N, w)
               I == Holders(n, K, w)
    <3>0. H \subseteq Keys
      BY <1>2 DEF Holders
    <3>1. /\ n.valueRefs[w] = IF w = m.value[k] THEN m.valueRefs[w] - 1 ELSE m.valueRefs[w]
          /\ m.valueRefs[w] = 1 + Cardinality(H)
      BY <2>3, <2>5 DEF WasRemoved, GoodMap, Owned
    <3>2. I = H \ {k} /\ (k \in H <=> w = m.value[k])
      BY <1>2, <1>6, <2>7 DEF Holders, K
    <3> HIDE DEF H, I
    <3>3. /\ Cardinality(H) \in Nat
          /\ k \in H => Cardinality(I) = Cardinality(H) - 1
          /\ k \notin H => I = H
      BY <3>0, <3>2, OneMore
    <3>4. n.valueRefs[w] = 1 + Cardinality(I) /\ n.valueRefs[w] =< m.valueRefs[w]
      <4>1. CASE k \in H
        BY <3>1, <3>2, <3>3, <4>1
      <4>2. CASE k \notin H
        <5>1. w # m.value[k] /\ I = H
          BY <3>2, <3>3, <4>2
        <5>2. n.valueRefs[w] = m.valueRefs[w]
          BY <3>1, <5>1
        <5> QED BY <3>1, <3>3, <5>1, <5>2
      <4> QED BY <4>1, <4>2
    <3> QED BY <3>4 DEF I
  <2>11. Owned(n, K)
    BY <2>9, <2>10 DEF Owned
  <2>12. Fresh(n, K)
    BY <2>5 DEF Fresh
  <2>13. GoodMap(n, K)
    BY <2>6, <2>8, <2>11, <2>12 DEF GoodMap
  <2>14. \A j \in K : n.value[j] = m.value[j]
    BY <1>2, <2>7 DEF K
  <2> QED BY <2>10, <2>13, <2>14 DEF n, K
<1> QED BY <1>5, <1>6

(* A map without nodes.                                                      *)
LEMMA UnsharedGood == GoodMap(UnsharedMap, {}) /\ \A v \in Values : UnsharedMap.valueRefs[v] = 1
<1> DEFINE n == UnsharedMap
           D == [k \in {} |-> {}]
<1>1. /\ n.root = Null /\ n.size = 0 /\ n.hash = {} /\ n.rehash = FALSE
      /\ n.child = [s \in Sides |-> [k \in Keys |-> Null]]
      /\ n.parent = [k \in Keys |-> Null] /\ n.red = [k \in Keys |-> FALSE]
      /\ n.value = [k \in Keys |-> Null]
      /\ n.keyRefs = [k \in Keys |-> 1] /\ n.valueRefs = [v \in Values |-> 1]
      /\ n.skipped = FALSE /\ n.replaced = FALSE
  BY DEF UnsharedMap, EmptyMap
<1>2. n \in MapRec
  BY DEF UnsharedMap, EmptyMap, MapRec
<1> HIDE DEF n
<1>3. Tree(n, {}, D)
  BY <1>1 DEF Tree, Sub
<1>4. RedPairs(n, {}) = {} /\ BlackRoot(n) /\ Bare(n, Keys \ {})
  BY <1>1 DEF RedPairs, BlackRoot, Bare
<1>4a. Balanced(n, {})
  <2>1. [k \in {} |-> 0] \in [{} -> Nat]
    OBVIOUS
  <2> QED BY <2>1 DEF Balanced, Level
<1>5. RedBlack(n, {})
  BY <1>2, <1>3, <1>4, <1>4a DEF RedBlack
<1>6. Cardinality({}) = 0
  BY FS_EmptySet
<1>7. Filled(n, {})
  BY <1>1, <1>6 DEF Filled
<1>8. Owned(n, {})
  <2>1. \A v : Holders(n, {}, v) = {}
    BY DEF Holders
  <2> QED BY <1>1, <1>6, <2>1 DEF Owned
<1>9. Fresh(n, {})
  <2> DEFINE d == [k \in {} |-> n.value[k]]
  <2>1. \A x : {k \in DOMAIN d : x \in {k, d[k]}} = {}
    OBVIOUS
  <2> HIDE DEF d
  <2>2. HashOf(d) = {}
    BY <1>6, <2>1 DEF HashOf
  <2> QED BY <1>1, <2>2 DEF Fresh, d
<1>10. \A v \in Values : n.valueRefs[v] = 1
  BY <1>1
<1> QED BY <1>5, <1>7, <1>8, <1>9, <1>10 DEF GoodMap, n

(* iot_node_free gives every reference back.                                 *)
LEMMA FreedUnshared ==
  ASSUME NEW m, NEW N, GoodMap(m, N)
  PROVE  NodeFree(m) = UnsharedMap
<1> DEFINE kr == [k \in Keys |-> m.keyRefs[k] - IF k \in N THEN 1 ELSE 0]
           vr == [v \in Values |-> m.valueRefs[v] - Cardinality({k \in N : m.value[k] = v})]
<1>1. NodesUnder(m, m.root) = N /\ N \subseteq Keys
  BY GoodNodes
<1>2. NodeFree(m) = EmptyMap(kr, vr)
  BY <1>1 DEF NodeFree
<1>3. kr = [k \in Keys |-> 1]
  BY DEF GoodMap, Owned
<1>4. vr = [v \in Values |-> 1]
  <2>1. ASSUME NEW v \in Values
        PROVE  m.valueRefs[v] - Cardinality({k \in N : m.value[k] = v}) = 1
    <3>1. /\ m.valueRefs[v] = 1 + Cardinality(Holders(m, N, v))
          /\ Holders(m, N, v) = {k \in N : m.value[k] = v}
          /\ Holders(m, N, v) \subseteq Keys
      BY <1>1 DEF GoodMap, Owned, Holders
    <3> QED BY <3>1, KeyFacts
  <2> QED BY <2>1
<1> HIDE DEF kr, vr
<1> QED BY <1>2, <1>3, <1>4 DEF UnsharedMap

(* The tree's first node, when there is one.                                 *)
LEMMA EndNode ==
  ASSUME NEW m, NEW N, GoodMap(m, N), NEW s \in Sides
  PROVE  /\ m.root = Null <=> N = {}
         /\ m.root # Null => /\ Extreme(m, m.root, s) \in N
                             /\ \A k \in N : k = Extreme(m, m.root, s)
                                             \/ Before(s, Extreme(m, m.root, s), k)
<1>1. PICK D : Tree(m, N, D)
  BY DEF GoodMap, RedBlack
<1>2. m.root = Null <=> N = {}
  BY <1>1, RootFacts DEF Tree, Sub
<1>3. CASE m.root # Null
  <2>1. m.root \in N /\ D[m.root] = N
    BY <1>1, <1>3 DEF Tree, Sub
  <2> QED BY <1>1, <1>2, <1>3, <2>1, ExtremeFacts
<1> QED BY <1>2, <1>3

(* iot_data_map_empty removes first nodes until there is none.               *)
LEMMA MapEmptied ==
  ASSUME NEW m, NEW N, GoodMap(m, N)
  PROVE  LET n == MapEmpty(m) IN
         GoodMap(n, {}) /\ \A w \in Values : n.valueRefs[w] =< m.valueRefs[w]
<1> DEFINE First(t) == Extreme(t, t.root, "left")
           Loop(f) ==
             [i \in Turns |->
                IF i = 0 THEN m
                ELSE LET t == f[i - 1]
                     IN  IF t.root = Null THEN t ELSE MapRemove(t, First(t))]
           loop == CHOOSE f : f = Loop(f)
           Good(t, j) == /\ \E K : GoodMap(t, K) /\ Cardinality(K) =< j
                         /\ \A w \in Values : t.valueRefs[w] =< m.valueRefs[w]
           G == [j \in 0..LastTurn |-> {t \in MapRec : Good(t, j)}]
           X == UNION {G[j] : j \in 0..LastTurn}
           step == [t \in X |-> IF t.root = Null THEN t ELSE MapRemove(t, First(t))]
<1>1. MapEmpty(m) = loop[LastTurn]
  BY DEF MapEmpty
<1>2. LastTurn \in Nat /\ m \in MapRec /\ N \subseteq Keys /\ Cardinality(N) \in Nat
      /\ Cardinality(N) =< LastTurn /\ Null \notin Keys /\ "left" \in Sides
  BY GoodNodes, KeyFacts, SideFacts DEF LastTurn
<1>3. \A r \in MapRec, w \in Values : r.valueRefs[w] \in Int
  BY DEF MapRec
<1>4. ASSUME NEW j \in 1..LastTurn, NEW t \in G[j]
      PROVE  (IF t.root = Null THEN t ELSE MapRemove(t, First(t))) \in G[j - 1]
  <2>0. j \in 0..LastTurn /\ j - 1 \in 0..LastTurn
    BY <1>2
  <2>1. t \in MapRec /\ \A w \in Values : t.valueRefs[w] =< m.valueRefs[w]
    BY <2>0
  <2>2. PICK K : GoodMap(t, K) /\ Cardinality(K) =< j
    BY <2>0
  <2>3. K \subseteq Keys
    BY <2>2, GoodNodes
  <2>4. CASE t.root = Null
    <3>1. K = {} /\ Cardinality(K) = 0
      BY <1>2, <2>2, <2>4, EndNode, FS_EmptySet
    <3> HIDE DEF First
    <3> QED BY <2>0, <2>1, <2>2, <2>4, <3>1
  <2>5. CASE t.root # Null
    <3> DEFINE k == First(t)
               r == MapRemove(t, k)
    <3>1. k \in K /\ k \in Keys
      BY <1>2, <2>2, <2>3, <2>5, EndNode
    <3> HIDE DEF First
    <3>2. GoodMap(r, K \ {k}) /\ \A w \in Values : r.valueRefs[w] =< t.valueRefs[w]
      BY <2>2, <3>1, MapRemoved
    <3> HIDE DEF r
    <3>3. r \in MapRec
      BY <3>2, GoodNodes
    <3>4. Cardinality(K \ {k}) = Cardinality(K) - 1 /\ Cardinality(K) \in Nat
      BY <2>3, <3>1, OneMore
    <3>5. Cardinality(K \ {k}) =< j - 1
      BY <2>2, <3>4
    <3>6. \A w \in Values : r.valueRefs[w] =< m.valueRefs[w]
      BY <1>2, <1>3, <2>1, <3>2, <3>3
    <3>7. r \in G[j - 1]
      BY <2>0, <3>2, <3>3, <3>5, <3>6
    <3> HIDE DEF G
    <3> QED BY <2>5, <3>7 DEF r
  <2> QED BY <2>4, <2>5
<1>5. m \in G[LastTurn]
  <2>1. \A w \in Values : m.valueRefs[w] =< m.valueRefs[w]
    BY <1>2, <1>3
  <2> QED BY <1>2, <2>1
<1> HIDE DEF G, First
<1>6. \A j \in 0..LastTurn : \A t \in G[j] : t \in X
  OBVIOUS
<1> HIDE DEF X
<1>7. \A j \in 1..LastTurn : \A t \in G[j] : step[t] \in G[j - 1]
  BY <1>2, <1>4, <1>6
<1>8. PICK f : RunsIn(f, LastTurn, G, step, m)
  <2>1. LastTurn \in Nat
    BY <1>2
  <2> HIDE DEF step, Loop, loop, Good
  <2> QED BY <1>5, <1>7, <2>1, LoopExists
<1>9. f = Loop(f)
  <2>1. ASSUME NEW i \in 0..LastTurn, i # 0 PROVE f[i - 1] \in X
    <3>1. i - 1 \in 0..LastTurn /\ LastTurn - (i - 1) \in 0..LastTurn
      BY <1>2, <2>1
    <3> QED BY <1>6, <1>8, <3>1 DEF RunsIn
  <2>2. \A i \in 0..LastTurn : i # 0 =>
          step[f[i - 1]] = (IF f[i - 1].root = Null THEN f[i - 1]
                            ELSE MapRemove(f[i - 1], First(f[i - 1])))
    BY <2>1
  <2> HIDE DEF step
  <2> QED BY <1>8, <2>2 DEF RunsIn, Turns, LastTurn
<1>10. loop = Loop(loop)
  <2> HIDE DEF Loop
  <2> QED BY <1>9
<1> HIDE DEF loop
<1>11. /\ loop[0] = m
       /\ \A i \in 1..LastTurn :
            loop[i] = IF loop[i - 1].root = Null THEN loop[i - 1]
                      ELSE MapRemove(loop[i - 1], First(loop[i - 1]))
  <2>1. \A i \in Turns : loop[i] = Loop(loop)[i]
    BY <1>10
  <2>2. 0 \in Turns /\ \A i \in 1..LastTurn : i \in Turns /\ i # 0
    BY <1>2 DEF Turns, LastTurn
  <2> QED BY <2>1, <2>2
<1> HIDE DEF Loop
<1>12. \A i \in 1..LastTurn : loop[i - 1] \in G[(LastTurn - i) + 1] => loop[i] \in G[LastTurn - i]
  <2> TAKE i \in 1..LastTurn
  <2>1. (LastTurn - i) + 1 \in 1..LastTurn /\ ((LastTurn - i) + 1) - 1 = LastTurn - i
    BY <1>2
  <2> QED BY <1>4, <1>11, <2>1
<1>13. loop[LastTurn] \in G[0]
  BY <1>2, <1>5, <1>11, <1>12, LoopEnds
<1>14. Good(loop[LastTurn], 0)
  BY <1>2, <1>13 DEF G
<1>15. PICK K : GoodMap(loop[LastTurn], K) /\ Cardinality(K) =< 0
  BY <1>14
<1>16. K = {}
  <2>1. IsFiniteSet(K) /\ Cardinality(K) \in Nat
    BY <1>15, GoodNodes, KeyFacts
  <2>2. Cardinality(K) = 0
    BY <1>15, <2>1
  <2> QED BY <2>1, <2>2, FS_EmptySet
<1> QED BY <1>1, <1>14, <1>15, <1>16

(* Least picks the least key.                                                *)
LEMMA LeastIn ==
  ASSUME NEW S, S \subseteq Keys, S # {}
  PROVE  Least(S) \in S /\ \A j \in S : Least(S) =< j
<1>1. S \subseteq Nat
  BY KeyFacts
<1>2. \E k \in S : \A j \in S : k =< j
  BY <1>1, LeastNat
<1> QED BY <1>2 DEF Least

(* iot_data_map_merge of the entries d: they all come in, each with one       *)
(* reference to its key and to its value.                                    *)
LEMMA MapMerged ==
  ASSUME NEW m, NEW N, GoodMap(m, N),
         NEW d, DOMAIN d \subseteq Keys, \A k \in DOMAIN d : d[k] \in Values,
         \A w \in Values : m.valueRefs[w] =< MaxRefs,
         \A k \in DOMAIN d : m.valueRefs[d[k]] + Cardinality(DOMAIN d) =< MaxRefs
  PROVE  LET n == MapMerge(m, d) IN
         /\ GoodMap(n, N \cup DOMAIN d)
         /\ \A k \in N \cup DOMAIN d : n.value[k] = IF k \in DOMAIN d THEN d[k] ELSE m.value[k]
         /\ \A w \in Values : n.valueRefs[w] =< MaxRefs
<1> DEFINE x0 == [to |-> m, left |-> DOMAIN d]
           Turn(t) == [to |-> MapAdd(Give(t.to, Least(t.left), d[Least(t.left)]), Least(t.left), d[Least(t.left)]),
                       left |-> t.left \ {Least(t.left)}]
           Loop(f) ==
             [i \in Turns |->
                IF i = 0 THEN x0
                ELSE LET t == f[i - 1]
                         k == Least(t.left)
                     IN  IF t.left = {} THEN t
                         ELSE [to |-> MapAdd(Give(t.to, k, d[k]), k, d[k]), left |-> t.left \ {k}]]
           loop == CHOOSE f : f = Loop(f)
           In(L) == DOMAIN d \ L
           Good(r, L) ==
             /\ L \subseteq DOMAIN d /\ GoodMap(r, N \cup In(L))
             /\ \A k \in N \cup In(L) : r.value[k] = IF k \in In(L) THEN d[k] ELSE m.value[k]
             /\ \A w \in Values : r.valueRefs[w] =< MaxRefs
             /\ \A k \in L : r.valueRefs[d[k]] + Cardinality(L) =< MaxRefs
           G == [j \in 0..LastTurn |->
                   {t \in [to : MapRec, left : SUBSET Keys] :
                      Good(t.to, t.left) /\ Cardinality(t.left) =< j}]
           X == UNION {G[j] : j \in 0..LastTurn}
           step == [t \in X |-> IF t.left = {} THEN t ELSE Turn(t)]
<1>1. MapMerge(m, d) = loop[LastTurn].to
  BY DEF MapMerge
<1>2. /\ LastTurn \in Nat /\ m \in MapRec /\ Cardinality(DOMAIN d) \in Nat
      /\ Cardinality(DOMAIN d) =< LastTurn /\ N \subseteq Keys /\ MaxRefs \in Nat
  BY GoodNodes, KeyFacts, MapAssumption DEF LastTurn
<1>3. \A r \in MapRec, w \in Values : r.valueRefs[w] \in Int
  BY DEF MapRec
<1>4. ASSUME NEW j \in 1..LastTurn, NEW t \in G[j]
      PROVE  (IF t.left = {} THEN t ELSE Turn(t)) \in G[j - 1]
  <2>0. j \in 0..LastTurn /\ j - 1 \in 0..LastTurn
    BY <1>2
  <2>1. t \in [to : MapRec, left : SUBSET Keys] /\ Good(t.to, t.left) /\ Cardinality(t.left) =< j
    BY <2>0
  <2>2. CASE t.left = {}
    <3>1. Cardinality(t.left) = 0
      BY <2>2, FS_EmptySet
    <3> HIDE DEF Good, Turn
    <3> QED BY <2>0, <2>1, <2>2, <3>1
  <2>3. CASE t.left # {}
    <3> DEFINE L == t.left
               r == t.to
               k == Least(L)
               n == MapAdd(Give(r, k, d[k]), k, d[k])
               K == L \ {k}
    <3>1. k \in L /\ L \subseteq DOMAIN d /\ L \subseteq Keys /\ r \in MapRec
      <4>1. L \subseteq DOMAIN d /\ L \subseteq Keys /\ r \in MapRec
        BY <2>1
      <4> HIDE DEF L, Good
      <4>2. L # {}
        BY <2>3 DEF L
      <4> QED BY <4>1, <4>2, LeastIn
    <3>2. Turn(t) = [to |-> n, left |-> K]
      OBVIOUS
    <3>3. /\ GoodMap(r, N \cup In(L))
          /\ \A i \in N \cup In(L) : r.value[i] = IF i \in In(L) THEN d[i] ELSE m.value[i]
          /\ \A w \in Values : r.valueRefs[w] =< MaxRefs
          /\ \A i \in L : r.valueRefs[d[i]] + Cardinality(L) =< MaxRefs
      BY <2>1
    <3>4. Cardinality(L) =< j
      BY <2>1
    <3> HIDE DEF L, r, k, Turn
    <3>5. k \in Keys /\ d[k] \in Values
      BY <3>1
    <3>6. /\ GoodMap(n, (N \cup In(L)) \cup {k})
          /\ \A i \in Keys : n.value[i] = IF i = k THEN d[k] ELSE r.value[i]
          /\ \A w \in Values : n.valueRefs[w] =< IF w = d[k] THEN r.valueRefs[w] + 1 ELSE r.valueRefs[w]
      BY <3>3, <3>5, MapPut
    <3> HIDE DEF n
    <3>7. In(K) = In(L) \cup {k} /\ (N \cup In(L)) \cup {k} = N \cup In(K) /\ K \subseteq Keys
      BY <3>1
    <3>8. n \in MapRec /\ GoodMap(n, N \cup In(K))
      BY <3>6, <3>7, GoodNodes
    <3>9. Cardinality(K) = Cardinality(L) - 1 /\ Cardinality(L) \in Nat
      BY <3>1, <3>5, OneMore
    <3>10. ASSUME NEW i \in N \cup In(K)
           PROVE  n.value[i] = IF i \in In(K) THEN d[i] ELSE m.value[i]
      <4>1. i \in Keys
        BY <1>2
      <4>2. CASE i = k
        BY <3>6, <3>7, <4>1, <4>2
      <4>3. CASE i # k
        <5>1. i \in N \cup In(L) /\ (i \in In(K) <=> i \in In(L))
          BY <3>7, <4>3
        <5> HIDE DEF In, K
        <5> QED BY <3>3, <3>6, <4>1, <4>3, <5>1
      <4> QED BY <4>2, <4>3
    <3>11. ASSUME NEW w \in Values
           PROVE  n.valueRefs[w] =< MaxRefs
      <4>1. r.valueRefs[d[k]] + Cardinality(L) =< MaxRefs /\ Cardinality(L) >= 1
        <5>1. Cardinality(L) # 0
          <6>1. IsFiniteSet(L) /\ L # {}
            BY <3>1, KeyFacts
          <6> QED BY <6>1, FS_EmptySet
        <5> QED BY <3>1, <3>3, <3>9, <5>1
      <4>2. r.valueRefs[w] \in Int /\ r.valueRefs[w] =< MaxRefs /\ n.valueRefs[w] \in Int
        BY <1>3, <3>1, <3>3, <3>8
      <4> QED BY <1>2, <3>6, <3>9, <4>1, <4>2, SMTT(30)
    <3>12. ASSUME NEW i \in K
           PROVE  n.valueRefs[d[i]] + Cardinality(K) =< MaxRefs
      <4>1. i \in L /\ d[i] \in Values
        BY <3>1
      <4>2. r.valueRefs[d[i]] + Cardinality(L) =< MaxRefs
        BY <3>3, <4>1
      <4>3. r.valueRefs[d[i]] \in Int /\ n.valueRefs[d[i]] \in Int
        BY <1>3, <3>1, <3>8, <4>1
      <4>4. n.valueRefs[d[i]] =< r.valueRefs[d[i]] + 1
        BY <3>6, <4>1, <4>3
      <4> QED BY <1>2, <3>9, <4>2, <4>3, <4>4, SMTT(30)
    <3>13. Good(n, K) /\ Cardinality(K) =< j - 1
      <4>1. K \subseteq DOMAIN d /\ Cardinality(K) =< j - 1
        BY <3>1, <3>4, <3>9
      <4>2. \A i \in N \cup In(K) : n.value[i] = IF i \in In(K) THEN d[i] ELSE m.value[i]
        BY <3>10
      <4>3. \A w \in Values : n.valueRefs[w] =< MaxRefs
        BY <3>11
      <4>4. \A i \in K : n.valueRefs[d[i]] + Cardinality(K) =< MaxRefs
        BY <3>12
      <4> HIDE DEF In, K
      <4> QED BY <3>8, <4>1, <4>2, <4>3, <4>4
    <3> HIDE DEF Good, K
    <3>14. [to |-> n, left |-> K] \in G[j - 1]
      BY <2>0, <3>7, <3>8, <3>13
    <3> QED BY <2>3, <3>2, <3>14
  <2> QED BY <2>2, <2>3
<1>5. x0 \in G[LastTurn]
  <2>1. In(DOMAIN d) = {} /\ N \cup {} = N
    OBVIOUS
  <2>2. Good(m, DOMAIN d)
    BY <2>1
  <2> HIDE DEF Good
  <2> QED BY <1>2, <2>2
<1> HIDE DEF G, x0
<1>6. \A j \in 0..LastTurn : \A t \in G[j] : t \in X
  OBVIOUS
<1> HIDE DEF X
<1>7. \A j \in 1..LastTurn : \A t \in G[j] : step[t] \in G[j - 1]
  <2> HIDE DEF Turn
  <2> QED BY <1>2, <1>4, <1>6
<1>8. PICK f : RunsIn(f, LastTurn, G, step, x0)
  <2>1. LastTurn \in Nat
    BY <1>2
  <2> HIDE DEF step, Loop, loop, Good, Turn
  <2> QED BY <1>5, <1>7, <2>1, LoopExists
<1>9. f = Loop(f)
  <2>0. Loop(f) = [i \in Turns |-> IF i = 0 THEN x0
                                   ELSE IF f[i - 1].left = {} THEN f[i - 1] ELSE Turn(f[i - 1])]
    OBVIOUS
  <2> HIDE DEF Loop, Turn
  <2>1. ASSUME NEW i \in 0..LastTurn, i # 0 PROVE f[i - 1] \in X
    <3>1. i - 1 \in 0..LastTurn /\ LastTurn - (i - 1) \in 0..LastTurn
      BY <1>2, <2>1
    <3> QED BY <1>6, <1>8, <3>1 DEF RunsIn
  <2>2. \A i \in 0..LastTurn : i # 0 =>
          step[f[i - 1]] = (IF f[i - 1].left = {} THEN f[i - 1] ELSE Turn(f[i - 1]))
    BY <2>1
  <2> HIDE DEF step
  <2> QED BY <1>8, <2>0, <2>2 DEF RunsIn, Turns, LastTurn
<1>10. loop = Loop(loop)
  <2> HIDE DEF Loop
  <2> QED BY <1>9
<1> HIDE DEF loop
<1>11. /\ loop[0] = x0
       /\ \A i \in 1..LastTurn :
            loop[i] = IF loop[i - 1].left = {} THEN loop[i - 1] ELSE Turn(loop[i - 1])
  <2>1. \A i \in Turns : loop[i] = Loop(loop)[i]
    BY <1>10
  <2>2. 0 \in Turns /\ \A i \in 1..LastTurn : i \in Turns /\ i # 0
    BY <1>2 DEF Turns, LastTurn
  <2> QED BY <2>1, <2>2
<1> HIDE DEF Loop, Turn
<1>12. \A i \in 1..LastTurn : loop[i - 1] \in G[(LastTurn - i) + 1] => loop[i] \in G[LastTurn - i]
  <2> TAKE i \in 1..LastTurn
  <2>1. (LastTurn - i) + 1 \in 1..LastTurn /\ ((LastTurn - i) + 1) - 1 = LastTurn - i
    BY <1>2
  <2> QED BY <1>4, <1>11, <2>1
<1>13. loop[LastTurn] \in G[0]
  BY <1>2, <1>5, <1>11, <1>12, LoopEnds
<1> DEFINE n == loop[LastTurn].to
           L == loop[LastTurn].left
<1>14. L \subseteq Keys /\ Good(n, L) /\ Cardinality(L) =< 0
  <2> HIDE DEF Good
  <2> QED BY <1>2, <1>13 DEF G
<1> HIDE DEF n, L
<1>15. L = {}
  <2>1. IsFiniteSet(L) /\ Cardinality(L) \in Nat
    BY <1>14, KeyFacts
  <2>2. Cardinality(L) = 0
    BY <1>14, <2>1
  <2> QED BY <2>1, <2>2, FS_EmptySet
<1>16. In(L) = DOMAIN d
  BY <1>15
<1> QED BY <1>1, <1>14, <1>16 DEF n

-----------------------------------------------------------------------------
(* The iterator *)

(* How many nodes the iterator has come to when it is at n.                  *)
UpTo(N, n) == {k \in N : k =< n}
Rank(N, n) == IF n = Null THEN 0 ELSE Cardinality(UpTo(N, n))

(* The iterator is at a node, or before the first one; its count is how many  *)
(* nodes there are up to it.                                                 *)
Placed(i, N) ==
  /\ i \in [node : N \cup {Null}, count : Nat, wrapped : BOOLEAN]
  /\ ~ i.wrapped => i.count = Rank(N, i.node)

(* Where a step to side s goes from n: to r, or over the end.                *)
StepsTo(N, n, s, r) ==
  IF n = Null
  THEN /\ N = {} => r = Null
       /\ N # {} => r \in N /\ \A k \in N : k = r \/ Before(Other(s), r, k)
  ELSE NextOn(N, n, s, r)

(* An iterator steps to the next node in the order of the keys.              *)
LEMMA WalkSteps ==
  ASSUME NEW m, NEW N, GoodMap(m, N), NEW n \in N \cup {Null}, NEW s \in Sides
  PROVE  StepsTo(N, n, s, IF n = Null THEN Extreme(m, m.root, Other(s)) ELSE Neighbour(m, n, s))
<1>1. PICK D : Tree(m, N, D)
  BY DEF GoodMap, RedBlack
<1>2. Null \notin N /\ Other(s) \in Sides
  BY GoodNodes, SideFacts
<1>3. CASE n = Null
  <2>1. m.root = Null => Extreme(m, m.root, Other(s)) = Null
    BY DEF Extreme
  <2> QED BY <1>2, <1>3, <2>1, EndNode DEF StepsTo
<1>4. CASE n \in N
  BY <1>1, <1>2, <1>4, NeighbourFacts DEF StepsTo
<1> QED BY <1>3, <1>4

(* The rank of a node is between 1 and the size of the map.                  *)
LEMMA RankFacts ==
  ASSUME NEW N, N \subseteq Keys, NEW n \in N \cup {Null}
  PROVE  /\ Rank(N, n) \in Nat /\ Rank(N, n) =< Cardinality(N)
         /\ n # Null => Rank(N, n) >= 1
<1>1. IsFiniteSet(N) /\ Cardinality(N) \in Nat /\ Null \notin N
  BY KeyFacts
<1>2. UpTo(N, n) \subseteq N
  BY DEF UpTo
<1>3. IsFiniteSet(UpTo(N, n)) /\ Cardinality(UpTo(N, n)) \in Nat
      /\ Cardinality(UpTo(N, n)) =< Cardinality(N)
  BY <1>1, <1>2, FS_Subset, FS_CardinalityType
<1>4. n # Null => Cardinality(UpTo(N, n)) >= 1
  <2>1. n # Null => n \in UpTo(N, n)
    BY KeyFacts DEF UpTo
  <2>2. n # Null => Cardinality(UpTo(N, n)) # 0
    BY <1>3, <2>1, FS_EmptySet
  <2> QED BY <1>3, <2>2
<1> QED BY <1>1, <1>3, <1>4 DEF Rank

(* A step forward goes one further, or all the nodes were passed.            *)
LEMMA StepForward ==
  ASSUME NEW N, N \subseteq Keys, NEW n \in N \cup {Null}, NEW r, StepsTo(N, n, "right", r)
  PROVE  /\ r \in N \cup {Null}
         /\ r # Null => Rank(N, r) = Rank(N, n) + 1
         /\ r = Null <=> Rank(N, n) = Cardinality(N)
<1>1. Null \notin N /\ IsFiniteSet(N) /\ Cardinality(N) \in Nat /\ N \subseteq Nat
  BY KeyFacts
<1>2. Other("right") = "left" /\ \A a, b : Before("left", a, b) <=> a < b
  BY DEF Other, Before
<1>3. CASE n = Null
  <2>1. CASE N = {}
    BY <1>3, <2>1, FS_EmptySet DEF StepsTo, Rank
  <2>2. CASE N # {}
    <3>1. r \in N /\ \A k \in N : k = r \/ r < k
      BY <1>2, <1>3, <2>2 DEF StepsTo
    <3>2. UpTo(N, r) = {r}
      <4>1. \A k \in N : k =< r <=> k = r
        BY <1>1, <3>1
      <4> QED BY <3>1, <4>1 DEF UpTo
    <3>3. Rank(N, r) = 1
      BY <1>1, <3>1, <3>2, FS_Singleton DEF Rank
    <3>4. Cardinality(N) # 0 /\ Rank(N, n) = 0
      BY <1>1, <1>3, <2>2, FS_EmptySet DEF Rank
    <3> QED BY <1>1, <3>1, <3>3, <3>4
  <2> QED BY <2>1, <2>2
<1>4. CASE n # Null
  <2>0. n \in N /\ NextOn(N, n, "right", r)
    BY <1>4 DEF StepsTo
  <2>1. CASE r = Null
    <3>1. \A k \in N : ~ n < k
      BY <1>1, <1>2, <2>0, <2>1 DEF NextOn
    <3>2. UpTo(N, n) = N
      <4>1. \A k \in N : k =< n
        BY <1>1, <2>0, <3>1
      <4> QED BY <4>1 DEF UpTo
    <3> QED BY <1>4, <2>1, <3>2 DEF Rank
  <2>2. CASE r # Null
    <3>1. r \in N /\ n < r /\ \A k \in N : n < k => k = r \/ r < k
      BY <1>2, <2>0, <2>2 DEF NextOn
    <3>2. UpTo(N, r) = UpTo(N, n) \cup {r} /\ r \notin UpTo(N, n)
      <4>1. \A k \in N : k =< r <=> k =< n \/ k = r
        BY <1>1, <2>0, <3>1
      <4>2. ~ r =< n
        BY <1>1, <2>0, <3>1
      <4> QED BY <3>1, <4>1, <4>2 DEF UpTo
    <3>3. UpTo(N, n) \subseteq Keys /\ UpTo(N, r) \subseteq N
      BY DEF UpTo
    <3>4. /\ Cardinality(UpTo(N, r)) = Cardinality(UpTo(N, n)) + 1
          /\ Cardinality(UpTo(N, n)) \in Nat
      BY <3>1, <3>2, <3>3, OneMore
    <3>5. Cardinality(UpTo(N, r)) =< Cardinality(N) /\ Cardinality(UpTo(N, r)) \in Nat
      BY <1>1, <3>3, FS_Subset, FS_CardinalityType
    <3> QED BY <1>1, <1>4, <2>2, <3>1, <3>4, <3>5 DEF Rank
  <2> QED BY <2>1, <2>2
<1> QED BY <1>3, <1>4

(* A step back from a node goes one back.                                    *)
LEMMA StepBack ==
  ASSUME NEW N, N \subseteq Keys, NEW n \in N \cup {Null}, NEW r, StepsTo(N, n, "left", r)
  PROVE  /\ r \in N \cup {Null}
         /\ n # Null => Rank(N, n) = Rank(N, r) + 1
<1>1. Null \notin N /\ IsFiniteSet(N) /\ Cardinality(N) \in Nat /\ N \subseteq Nat
  BY KeyFacts
<1>2. Other("left") = "right" /\ \A a, b : Before("right", a, b) <=> b < a
  BY DEF Other, Before
<1>3. CASE n = Null
  BY <1>3 DEF StepsTo
<1>4. CASE n # Null
  <2>0. n \in N /\ NextOn(N, n, "left", r)
    BY <1>4 DEF StepsTo
  <2>1. CASE r = Null
    <3>1. \A k \in N : ~ k < n
      BY <1>1, <1>2, <2>0, <2>1 DEF NextOn
    <3>2. UpTo(N, n) = {n}
      <4>1. \A k \in N : k =< n <=> k = n
        BY <1>1, <2>0, <3>1
      <4> QED BY <2>0, <4>1 DEF UpTo
    <3>3. Rank(N, n) = 1 /\ Rank(N, r) = 0
      BY <1>4, <2>1, <3>2, FS_Singleton DEF Rank
    <3> QED BY <2>1, <3>3
  <2>2. CASE r # Null
    <3>1. r \in N /\ r < n /\ \A k \in N : k < n => k = r \/ k < r
      BY <1>2, <2>0, <2>2 DEF NextOn
    <3>2. UpTo(N, n) = UpTo(N, r) \cup {n} /\ n \notin UpTo(N, r)
      <4>1. \A k \in N : k =< n <=> k =< r \/ k = n
        BY <1>1, <2>0, <3>1
      <4>2. ~ n =< r
        BY <1>1, <2>0, <3>1
      <4> QED BY <2>0, <4>1, <4>2 DEF UpTo
    <3>3. UpTo(N, r) \subseteq Keys
      BY DEF UpTo
    <3>4. Cardinality(UpTo(N, n)) = Cardinality(UpTo(N, r)) + 1
      BY <2>0, <3>2, <3>3, OneMore
    <3> QED BY <1>4, <2>2, <3>1, <3>4 DEF Rank
  <2> QED BY <2>1, <2>2
<1> QED BY <1>3, <1>4

-----------------------------------------------------------------------------
(* Every operation keeps the map good *)

(* No value has more references than the bound allows.                       *)
Bounded(m) == \A v \in Values : m.valueRefs[v] =< MaxRefs

(* The inductive invariant: the nodes are a red-black search tree, own what   *)
(* they hold, and the hash and the iterator fit them.                        *)
GoodWith(m, i, N) == GoodMap(m, N) /\ Bounded(m) /\ Placed(i, N)
MapInv == \E N : GoodWith(map, iter, N)

(* A new iterator is before the first element.                               *)
LEMMA StartsPlaced ==
  ASSUME NEW N
  PROVE  Placed(NewIter, N)
BY DEF NewIter, Placed, Rank

(* The empty map satisfies the invariant.                                    *)
LEMMA GoodInit == Init => GoodWith(map, iter, {})
<1>1. Bounded(UnsharedMap)
  BY UnsharedGood, MapAssumption DEF Bounded
<1> QED BY <1>1, UnsharedGood, StartsPlaced DEF Init, GoodWith

(* iot_data_map_add of a new pair.                                           *)
LEMMA PutKept ==
  ASSUME NEW m, NEW N, GoodMap(m, N), Bounded(m), NEW p \in Inputs, m.valueRefs[p[2]] < MaxRefs
  PROVE  LET n == MapAdd(Give(m, p[1], p[2]), p[1], p[2]) IN
         /\ GoodMap(n, N \cup {p[1]}) /\ Bounded(n)
         /\ \A j \in Keys : n.value[j] = IF j = p[1] THEN p[2] ELSE m.value[j]
<1> DEFINE k == p[1]
           v == p[2]
           n == MapAdd(Give(m, k, v), k, v)
<1>1. k \in Keys /\ v \in Values
  BY MapAssumption
<1> HIDE DEF k, v
<1>2. /\ GoodMap(n, N \cup {k})
      /\ \A j \in Keys : n.value[j] = IF j = k THEN v ELSE m.value[j]
      /\ \A w \in Values : n.valueRefs[w] =< IF w = v THEN m.valueRefs[w] + 1 ELSE m.valueRefs[w]
  BY <1>1, MapPut
<1> HIDE DEF n
<1>3. m \in MapRec /\ n \in MapRec /\ MaxRefs \in Nat
  BY <1>2, GoodNodes, MapAssumption
<1>4. Bounded(n)
  <2> SUFFICES ASSUME NEW w \in Values PROVE n.valueRefs[w] =< MaxRefs
    BY DEF Bounded
  <2>1. m.valueRefs[w] \in Int /\ n.valueRefs[w] \in Int /\ m.valueRefs[w] =< MaxRefs
    BY <1>3 DEF MapRec, Bounded
  <2>2. w = v => m.valueRefs[w] < MaxRefs
    BY DEF v
  <2> QED BY <1>2, <1>3, <2>1, <2>2
<1> QED BY <1>2, <1>4 DEF n, k, v

(* iot_data_hash.                                                            *)
LEMMA HashKept ==
  ASSUME NEW m, NEW N, GoodMap(m, N), Bounded(m)
  PROVE  GoodMap(Hash(m), N) /\ Bounded(Hash(m)) /\ Hash(m).value = m.value
<1> DEFINE n == Hash(m)
           h == HashOf(Entries(m))
<1>1. CASE ~ m.rehash
  BY <1>1 DEF Hash
<1>2. CASE m.rehash
  <2>1. m \in MapRec /\ Entries(m) = [k \in N |-> m.value[k]]
    BY GoodNodes
  <2>2. n = [m EXCEPT !.hash = h, !.rehash = FALSE]
    BY <1>2 DEF Hash
  <2>3. h \in SUBSET (Keys \cup Values)
    BY HashTypes
  <2>4. h = HashOf([k \in N |-> m.value[k]])
    BY <2>1
  <2> HIDE DEF n, h
  <2>5. /\ n \in MapRec /\ n.root = m.root /\ n.child = m.child /\ n.parent = m.parent
        /\ n.red = m.red /\ n.size = m.size /\ n.value = m.value /\ n.keyRefs = m.keyRefs
        /\ n.valueRefs = m.valueRefs /\ n.hash = h /\ n.skipped = m.skipped
    BY <2>1, <2>2, <2>3 DEF MapRec
  <2>6. RedBlack(n, N)
    BY <2>5, RedBlackSame DEF GoodMap
  <2>7. Filled(n, N) /\ Owned(n, N) /\ Bounded(n)
    BY <2>5 DEF GoodMap, Filled, Owned, Holders, Bounded
  <2>8. Fresh(n, N)
    BY <2>4, <2>5 DEF Fresh
  <2> QED BY <2>5, <2>6, <2>7, <2>8 DEF GoodMap, n
<1> QED BY <1>1, <1>2

(* iot_data_map_iter_replace_value.                                          *)
LEMMA ReplaceKept ==
  ASSUME NEW m, NEW N, GoodMap(m, N), Bounded(m), NEW k \in N, NEW v \in Values,
         m.valueRefs[v] < MaxRefs
  PROVE  LET n == ReplaceValue(m, k, v) IN
         /\ GoodMap(n, N) /\ Bounded(n) /\ n.size = m.size
         /\ \A j \in Keys : n.value[j] = IF j = k THEN v ELSE m.value[j]
<1> DEFINE vg == [m.valueRefs EXCEPT ![v] = @ + 1]
           vr == [vg EXCEPT ![m.value[k]] = @ - 1]
           g == [m EXCEPT !.valueRefs[v] = @ + 1]
           vs == [m.value EXCEPT ![k] = v]
           rp == ~m.rehash
           n == ReplaceValue(m, k, v)
<1>1. m \in MapRec /\ N \subseteq Keys /\ k \in Keys /\ MaxRefs \in Nat
  BY GoodNodes, MapAssumption
<1>2. m.value[k] \in Values
  BY DEF GoodMap, Filled
<1>3. /\ vr \in [Values -> Int]
      /\ \A w \in Values : vr[w] = (m.valueRefs[w] + IF w = v THEN 1 ELSE 0)
                                   - IF w = m.value[k] THEN 1 ELSE 0
  BY <1>1, <1>2 DEF MapRec
<1>4. /\ vs \in [Keys -> Values \cup {Null}]
      /\ \A j \in Keys : vs[j] = IF j = k THEN v ELSE m.value[j]
  BY <1>1 DEF MapRec
<1>5. /\ g \in MapRec /\ g.root = m.root /\ g.child = m.child /\ g.parent = m.parent
      /\ g.red = m.red /\ g.size = m.size /\ g.value = m.value /\ g.keyRefs = m.keyRefs
      /\ g.valueRefs = vg /\ g.rehash = m.rehash /\ g.skipped = m.skipped
  <2>1. vg \in [Values -> Int]
    BY <1>1 DEF MapRec
  <2>2. g = [m EXCEPT !.valueRefs = vg]
    BY <1>1 DEF MapRec
  <2> HIDE DEF g, vg
  <2> QED BY <1>1, <2>1, <2>2 DEF MapRec
<1>6. n = [g EXCEPT !.valueRefs[m.value[k]] = @ - 1, !.value[k] = v, !.replaced = rp]
  BY DEF ReplaceValue
<1>7. rp \in BOOLEAN /\ (m.rehash \/ rp)
  OBVIOUS
<1> HIDE DEF n, g, vg, rp
<1>8. n = [g EXCEPT !.valueRefs = vr, !.value = vs, !.replaced = rp]
  BY <1>5, <1>6 DEF MapRec
<1> HIDE DEF vr, vs
<1>8a. /\ n \in MapRec /\ n.root = m.root /\ n.child = m.child /\ n.parent = m.parent
      /\ n.red = m.red /\ n.size = m.size /\ n.value = vs /\ n.keyRefs = m.keyRefs
      /\ n.valueRefs = vr /\ n.rehash = m.rehash /\ n.replaced = rp
      /\ n.skipped = m.skipped
  BY <1>3, <1>4, <1>5, <1>7, <1>8 DEF MapRec
<1>9. RedBlack(n, N)
  BY <1>8a, RedBlackSame DEF GoodMap
<1>10. Filled(n, N)
  BY <1>1, <1>4, <1>8a DEF GoodMap, Filled
<1>11. Revalued(n, m, k, v)
  BY <1>4, <1>8a DEF Revalued
<1>12. ASSUME NEW w \in Values
       PROVE  n.valueRefs[w] = 1 + Cardinality(Holders(n, N, w)) /\ n.valueRefs[w] =< MaxRefs
  <2>1. /\ Cardinality(Holders(m, N, w)) \in Nat
        /\ Cardinality(Holders(n, N, w)) =
             (Cardinality(Holders(m, N, w)) + IF w = v THEN 1 ELSE 0)
             - IF w = m.value[k] THEN 1 ELSE 0
    BY <1>1, <1>11, HoldersReplaced
  <2>2. m.valueRefs[w] = 1 + Cardinality(Holders(m, N, w)) /\ m.valueRefs[w] =< MaxRefs
    BY DEF GoodMap, Owned, Bounded
  <2>3. n.valueRefs[w] = (m.valueRefs[w] + IF w = v THEN 1 ELSE 0)
                         - IF w = m.value[k] THEN 1 ELSE 0
    BY <1>3, <1>8a
  <2>4. w = v => m.valueRefs[w] < MaxRefs
    OBVIOUS
  <2> QED BY <1>1, <2>1, <2>2, <2>3, <2>4
<1>13. Owned(n, N) /\ Bounded(n)
  BY <1>8a, <1>12 DEF GoodMap, Owned, Bounded
<1>14. Fresh(n, N)
  BY <1>7, <1>8a DEF Fresh
<1>15. GoodMap(n, N)
  BY <1>9, <1>10, <1>13, <1>14 DEF GoodMap
<1> QED BY <1>8a, <1>11, <1>13, <1>15 DEF n, Revalued

(* Every action keeps the invariant: one step of the proof for each.         *)
LEMMA StepInv == MapInv /\ [Next]_vars => MapInv'
<1> SUFFICES ASSUME NEW N, GoodWith(map, iter, N), [Next]_vars
             PROVE  \E K : GoodWith(map', iter', K)
  BY DEF MapInv, GoodWith, Placed, Rank, UpTo
<1>1. GoodMap(map, N) /\ Bounded(map) /\ Placed(iter, N)
  BY DEF GoodWith
<1>2. /\ map \in MapRec /\ N \subseteq Keys /\ Null \notin N /\ map.size = Cardinality(N)
      /\ \A k \in Keys : Find(map, k) = IF k \in N THEN k ELSE Null
  BY <1>1, GoodNodes DEF GoodMap, Filled
<1>3. ASSUME NEW K, GoodMap(map', K), Bounded(map'), iter' = NewIter
      PROVE  GoodWith(map', iter', K)
  BY <1>3, StartsPlaced DEF GoodWith
<1>4. CASE Add
  <2>1. PICK p \in Inputs : /\ map.valueRefs[p[2]] < MaxRefs
                            /\ Change(MapAdd(Give(map, p[1], p[2]), p[1], p[2]))
    BY <1>4 DEF Add
  <2>2. GoodMap(map', N \cup {p[1]}) /\ Bounded(map') /\ iter' = NewIter
    BY <1>1, <2>1, PutKept DEF Change
  <2> QED BY <1>3, <2>2
<1>5. CASE AddUnused
  <2>1. PICK p \in Inputs :
          /\ map.valueRefs[p[2]] < MaxRefs
          /\ Change(IF Find(map, p[1]) = Null THEN MapAdd(Give(map, p[1], p[2]), p[1], p[2]) ELSE map)
    BY <1>5 DEF AddUnused
  <2>2. CASE Find(map, p[1]) = Null
    <3>1. GoodMap(map', N \cup {p[1]}) /\ Bounded(map') /\ iter' = NewIter
      BY <1>1, <2>1, <2>2, PutKept DEF Change
    <3> QED BY <1>3, <3>1
  <2>3. CASE Find(map, p[1]) # Null
    <3>1. GoodMap(map', N) /\ Bounded(map') /\ iter' = NewIter
      BY <1>1, <2>1, <2>3 DEF Change
    <3> QED BY <1>3, <3>1
  <2> QED BY <2>2, <2>3
<1>6. CASE RemoveKey
  <2>1. PICK k \in Keys : Change(MapRemove(map, k))
    BY <1>6 DEF RemoveKey
  <2> DEFINE n == MapRemove(map, k)
  <2>2. GoodMap(n, N \ {k}) /\ \A w \in Values : n.valueRefs[w] =< map.valueRefs[w]
    BY <1>1, MapRemoved
  <2> HIDE DEF n
  <2>3. n \in MapRec /\ MaxRefs \in Nat
    BY <2>2, GoodNodes, MapAssumption
  <2>4. Bounded(n)
    BY <1>1, <1>2, <2>2, <2>3 DEF Bounded, MapRec
  <2>5. map' = n /\ iter' = NewIter
    BY <2>1 DEF Change, n
  <2> QED BY <1>3, <2>2, <2>4, <2>5
<1>7. CASE Merge
  <2>1. PICK d \in Sources :
          /\ \A k \in DOMAIN d : map.valueRefs[d[k]] + Cardinality(DOMAIN d) =< MaxRefs
          /\ Change(MapMerge(map, d))
    BY <1>7 DEF Merge
  <2>2. DOMAIN d \subseteq Keys /\ \A k \in DOMAIN d : d[k] \in Values
    BY MapAssumption
  <2>3. \A w \in Values : map.valueRefs[w] =< MaxRefs
    BY <1>1 DEF Bounded
  <2> DEFINE n == MapMerge(map, d)
  <2>4. GoodMap(n, N \cup DOMAIN d) /\ \A w \in Values : n.valueRefs[w] =< MaxRefs
    BY <1>1, <2>1, <2>2, <2>3, MapMerged
  <2> HIDE DEF n
  <2>5. map' = n /\ iter' = NewIter
    BY <2>1 DEF Change, n
  <2> QED BY <1>3, <2>4, <2>5 DEF Bounded
<1>8. CASE Clear
  <2> DEFINE n == MapEmpty(map)
  <2>1. GoodMap(n, {}) /\ \A w \in Values : n.valueRefs[w] =< map.valueRefs[w]
    BY <1>1, MapEmptied
  <2>2. map' = n /\ iter' = NewIter
    BY <1>8 DEF Clear, Change
  <2> HIDE DEF n
  <2>3. n \in MapRec /\ MaxRefs \in Nat
    BY <2>1, GoodNodes, MapAssumption
  <2>4. Bounded(n)
    BY <1>1, <1>2, <2>1, <2>3 DEF Bounded, MapRec
  <2> QED BY <1>3, <2>1, <2>2, <2>4
<1>9. CASE Free
  <2>1. map' = UnsharedMap /\ iter' = NewIter
    BY <1>1, <1>9, FreedUnshared DEF Free, Change
  <2>2. Bounded(UnsharedMap)
    BY UnsharedGood, MapAssumption DEF Bounded
  <2> QED BY <1>3, <2>1, <2>2, UnsharedGood
<1>10. CASE TakeHash
  BY <1>1, <1>10, HashKept DEF TakeHash, GoodWith
<1>11. CASE IterNext
  <2> DEFINE w == Walk("right")
  <2>1. iter \in [node : N \cup {Null}, count : Nat, wrapped : BOOLEAN]
    BY <1>1 DEF Placed
  <2>2. StepsTo(N, iter.node, "right", w)
    <3>1. w = IF iter.node = Null THEN Extreme(map, map.root, Other("right"))
              ELSE Neighbour(map, iter.node, "right")
      BY DEF Walk
    <3> HIDE DEF w
    <3> QED BY <1>1, <2>1, <3>1, WalkSteps, SideFacts
  <2>3. /\ iter' = [iter EXCEPT !.node = w, !.count = NextCount(iter.count)] /\ map' = map
    BY <1>11 DEF IterNext
  <2> HIDE DEF w
  <2>4. /\ w \in N \cup {Null}
        /\ w # Null => Rank(N, w) = Rank(N, iter.node) + 1
        /\ w = Null <=> Rank(N, iter.node) = Cardinality(N)
    BY <1>2, <2>1, <2>2, StepForward
  <2>5. Rank(N, iter.node) \in Nat /\ Rank(N, iter.node) =< Cardinality(N) /\ Cardinality(N) \in Nat
    BY <1>2, <2>1, RankFacts, KeyFacts
  <2>6. NextCount(iter.count) \in Nat
    BY <2>1 DEF NextCount
  <2>7. /\ iter' \in [node : N \cup {Null}, count : Nat, wrapped : BOOLEAN]
        /\ iter'.node = w /\ iter'.count = NextCount(iter.count) /\ iter'.wrapped = iter.wrapped
    BY <2>1, <2>3, <2>4, <2>6
  <2>8. ~ iter.wrapped => NextCount(iter.count) = Rank(N, w)
    <3>1. ~ iter.wrapped => iter.count = Rank(N, iter.node)
      BY <1>1 DEF Placed
    <3>2. w = Null => Rank(N, w) = 0
      BY DEF Rank
    <3> QED BY <1>2, <2>4, <2>5, <3>1, <3>2 DEF NextCount
  <2>9. Placed(iter', N)
    BY <2>7, <2>8 DEF Placed
  <2> QED BY <1>1, <2>3, <2>9 DEF GoodWith
<1>12. CASE IterPrev
  <2> DEFINE w == Walk("left")
             c == IF iter.count > 0 THEN iter.count - 1 ELSE 0
             wr == iter.wrapped \/ (iter.node = Null /\ map.root # Null)
  <2>1. iter \in [node : N \cup {Null}, count : Nat, wrapped : BOOLEAN]
    BY <1>1 DEF Placed
  <2>2. StepsTo(N, iter.node, "left", w)
    <3>1. w = IF iter.node = Null THEN Extreme(map, map.root, Other("left"))
              ELSE Neighbour(map, iter.node, "left")
      BY DEF Walk
    <3> HIDE DEF w
    <3> QED BY <1>1, <2>1, <3>1, WalkSteps, SideFacts
  <2>3. iter' = [node |-> w, count |-> c, wrapped |-> wr] /\ map' = map
    BY <1>12 DEF IterPrev
  <2>4. /\ w \in N \cup {Null}
        /\ iter.node # Null => Rank(N, iter.node) = Rank(N, w) + 1
    BY <1>2, <2>1, <2>2, StepBack
  <2>5. c \in Nat /\ wr \in BOOLEAN
    BY <2>1
  <2>6. ~ wr => c = Rank(N, w)
    <3> SUFFICES ASSUME ~ wr PROVE c = Rank(N, w)
      OBVIOUS
    <3>1. iter.count = Rank(N, iter.node)
      BY <1>1 DEF Placed
    <3>2. CASE iter.node = Null
      <4>1. N = {}
        BY <1>1, <3>2, EndNode, SideFacts
      <4>2. w = Null /\ iter.count = 0
        BY <2>4, <3>1, <3>2, <4>1 DEF Rank
      <4> QED BY <4>2 DEF Rank
    <3>3. CASE iter.node # Null
      <4>1. Rank(N, w) \in Nat
        BY <1>2, <2>4, RankFacts
      <4> QED BY <2>4, <3>1, <3>3, <4>1
    <3> QED BY <3>2, <3>3
  <2> HIDE DEF w, c, wr
  <2>7. /\ iter' \in [node : N \cup {Null}, count : Nat, wrapped : BOOLEAN]
        /\ iter'.node = w /\ iter'.count = c /\ iter'.wrapped = wr
    BY <2>3, <2>4, <2>5
  <2>8. Placed(iter', N)
    BY <2>6, <2>7 DEF Placed
  <2> QED BY <1>1, <2>3, <2>8 DEF GoodWith
<1>13. CASE IterStart
  BY <1>1, <1>3, <1>13 DEF IterStart
<1>14. CASE IterReplace
  <2>1. PICK v \in Values :
          /\ iter.node # Null /\ <<iter.node, v>> \in Inputs /\ map.valueRefs[v] < MaxRefs
          /\ map' = ReplaceValue(map, iter.node, v) /\ iter' = iter
    BY <1>14 DEF IterReplace
  <2>2. iter.node \in N
    BY <1>1, <2>1 DEF Placed
  <2>3. GoodMap(map', N) /\ Bounded(map')
    BY <1>1, <2>1, <2>2, ReplaceKept
  <2> QED BY <1>1, <2>1, <2>3 DEF GoodWith
<1>15. CASE UNCHANGED vars
  BY <1>1, <1>15 DEF vars, GoodWith
<1> QED BY <1>4, <1>5, <1>6, <1>7, <1>8, <1>9, <1>10, <1>11, <1>12, <1>13, <1>14, <1>15 DEF Next

(* The inductive invariant holds in every state of every behaviour.          *)
THEOREM MapAlwaysGood == Spec => []MapInv
<1>1. Init => MapInv
  BY GoodInit DEF MapInv
<1> QED BY <1>1, StepInv, PTL DEF Spec

(* The invariant implies the properties, one by one.                         *)
LEMMA InvTypeOK == MapInv => TypeOK
<1> SUFFICES ASSUME NEW N, GoodWith(map, iter, N) PROVE TypeOK
  BY DEF MapInv
<1>1. GoodMap(map, N) /\ Bounded(map) /\ Placed(iter, N) /\ map \in MapRec /\ N \subseteq Keys
  BY GoodNodes DEF GoodWith
<1>2. map.size \in Nat
  BY <1>1, KeyFacts DEF GoodMap, Filled
<1>3. map.keyRefs \in [Keys -> Nat]
  <2>1. \A k \in Keys : map.keyRefs[k] \in Nat
    BY <1>1 DEF GoodMap, Owned
  <2> QED BY <1>1, <2>1 DEF MapRec
<1>4. map.valueRefs \in [Values -> 0..MaxRefs]
  <2>1. ASSUME NEW v \in Values PROVE map.valueRefs[v] \in 0..MaxRefs
    <3>1. Holders(map, N, v) \subseteq Keys
      BY <1>1 DEF Holders
    <3>2. Cardinality(Holders(map, N, v)) \in Nat
      BY <3>1, KeyFacts
    <3> QED BY <1>1, <3>2, MapAssumption DEF GoodMap, Owned, Bounded
  <2> QED BY <1>1, <2>1 DEF MapRec
<1>5. iter \in [node : Keys \cup {Null}, count : Nat, wrapped : BOOLEAN]
  BY <1>1 DEF Placed
<1> QED BY <1>1, <1>2, <1>3, <1>4, <1>5 DEF TypeOK, MapRec

(* Every field of the map and of the iterator keeps its type; no value has    *)
(* more references than the client gave it.                                  *)
THEOREM TypeCorrect == Spec => []TypeOK
BY MapAlwaysGood, InvTypeOK, PTL

(* Its part about links and colours.                                         *)
LEMMA InvTreeLinked == MapInv => TreeLinked
<1> SUFFICES ASSUME NEW N, GoodWith(map, iter, N) PROVE TreeLinked
  BY DEF MapInv
<1>1. GoodMap(map, N) /\ Nodes = N /\ map \in MapRec /\ Null \notin N
  BY GoodNodes DEF GoodWith, Nodes
<1>2. PICK D : Tree(map, N, D)
  BY <1>1 DEF GoodMap, RedBlack
<1>3. RedPairs(map, N) = {} /\ BlackRoot(map)
  BY <1>1 DEF GoodMap, RedBlack
<1>4. map.root # Null => map.parent[map.root] = Null /\ ~map.red[map.root]
  BY <1>2, <1>3 DEF Tree, BlackRoot
<1>5. ASSUME NEW n \in N, NEW s \in Sides, map.child[s][n] # Null
      PROVE  /\ map.parent[map.child[s][n]] = n
             /\ ~(map.red[n] /\ map.red[map.child[s][n]])
  <2> DEFINE c == map.child[s][n]
  <2>1. c \in N /\ map.parent[c] = n
    BY <1>2, <1>5 DEF Tree
  <2> HIDE DEF c
  <2>2. ~(map.red[n] /\ map.red[c])
    BY <1>1, <1>3, <2>1 DEF RedPairs
  <2> QED BY <2>1, <2>2 DEF c
<1> QED BY <1>1, <1>4, <1>5 DEF TreeLinked

(* iot_node_insert_balance and iot_node_remove_balance, however often and in   *)
(* whatever order they run, leave parents and children in agreement, the root *)
(* black and no red node under a red one.                                    *)
THEOREM TreeAlwaysLinked == Spec => []TreeLinked
BY MapAlwaysGood, InvTreeLinked, PTL

(* Its part about black nodes.                                               *)
LEMMA InvBalanced == MapInv => BalancedUntilSkipped
<1> SUFFICES ASSUME NEW N, GoodMap(map, N), ~ map.skipped
             PROVE  Cardinality(BlackCounts(map)) = 1
  BY DEF MapInv, GoodWith, BalancedUntilSkipped
<1>1. PICK D : Tree(map, N, D)
  BY DEF GoodMap, RedBlack
<1>2. map \in MapRec /\ Bare(map, Keys \ N) /\ Balanced(map, N)
  BY DEF GoodMap, RedBlack
<1>3. PICK B : Level(map, N, B)
  BY <1>2 DEF Balanced
<1>4. BlackCounts(map) = {Passed(map, B, map.root)}
  BY <1>1, <1>2, <1>3, BlackCountIs
<1> QED BY <1>4, FS_Singleton

(* As long as no black node left without another one in its place, every     *)
(* path of the tree passes the same number of black nodes: insertions and    *)
(* the removals that are rebalanced keep it so.                              *)
THEOREM BalancedWhileRebalanced == Spec => []BalancedUntilSkipped
BY MapAlwaysGood, InvBalanced, PTL

(* Its part about references.                                                *)
LEMMA InvRefs == MapInv => RefsAreHolders
<1> SUFFICES ASSUME NEW N, GoodWith(map, iter, N) PROVE RefsAreHolders
  BY DEF MapInv
<1>1. GoodMap(map, N) /\ Nodes = N
  BY GoodNodes DEF GoodWith, Nodes
<1> QED BY <1>1 DEF GoodMap, Owned, Holders, RefsAreHolders

(* The map holds one reference to the key and one to the value of each node,  *)
(* no more after a key was added again, merged, replaced or removed.         *)
THEOREM RefsAlwaysHolders == Spec => []RefsAreHolders
BY MapAlwaysGood, InvRefs, PTL

(* Its part about the hash.                                                  *)
LEMMA InvHash == MapInv => HashFresh
<1> SUFFICES ASSUME NEW N, GoodWith(map, iter, N) PROVE HashFresh
  BY DEF MapInv
<1>1. GoodMap(map, N) /\ Entries(map) = [k \in N |-> map.value[k]]
  BY GoodNodes DEF GoodWith
<1> QED BY <1>1 DEF GoodMap, Fresh, HashFresh

(* A cached hash that is used is the hash of the entries, however it was      *)
(* computed: entry by entry as they came, or over the whole tree.            *)
THEOREM HashAlwaysFresh == Spec => []HashFresh
BY MapAlwaysGood, InvHash, PTL

(* Its part about the iterator.                                              *)
LEMMA InvHasNext == MapInv => HasNextIsRight
<1> SUFFICES ASSUME NEW N, GoodWith(map, iter, N), ~ iter.wrapped
             PROVE  (iter.count < map.size) <=> (Walk("right") # Null)
  BY DEF MapInv, HasNextIsRight
<1> DEFINE w == Walk("right")
<1>1. GoodMap(map, N) /\ N \subseteq Keys /\ Placed(iter, N) /\ map.size = Cardinality(N)
  BY GoodNodes DEF GoodWith, GoodMap, Filled
<1>2. iter.node \in N \cup {Null} /\ iter.count = Rank(N, iter.node)
  BY <1>1 DEF Placed
<1>3. StepsTo(N, iter.node, "right", w)
  <2>1. w = IF iter.node = Null THEN Extreme(map, map.root, Other("right"))
            ELSE Neighbour(map, iter.node, "right")
    BY DEF Walk
  <2> HIDE DEF w
  <2> QED BY <1>1, <1>2, <2>1, WalkSteps, SideFacts
<1> HIDE DEF w
<1>4. w = Null <=> Rank(N, iter.node) = Cardinality(N)
  BY <1>1, <1>2, <1>3, StepForward
<1>5. Rank(N, iter.node) \in Nat /\ Rank(N, iter.node) =< Cardinality(N) /\ Cardinality(N) \in Nat
  BY <1>1, <1>2, RankFacts, KeyFacts
<1> QED BY <1>1, <1>2, <1>4, <1>5 DEF w

(* iot_data_map_iter_has_next says what iot_data_map_iter_next will do.       *)
THEOREM HasNextAlwaysRight == Spec => []HasNextIsRight
BY MapAlwaysGood, InvHasNext, PTL

-----------------------------------------------------------------------------
(* The map implements an ordered map *)

(* The ordered map counts its keys as the red-black tree does.               *)
LEMMA SameCardinality == \A S : M!Cardinality(S) = Cardinality(S)
BY DEF Cardinality, M!Cardinality

(* What the client sees of a map with the nodes N.                           *)
LEMMA Seen ==
  ASSUME NEW m, NEW N, GoodMap(m, N)
  PROVE  /\ Entries(m) = [k \in N |-> m.value[k]] /\ DOMAIN Entries(m) = N
         /\ m.size = Cardinality(N) /\ N \subseteq Keys /\ Null \notin N
  BY GoodNodes DEF GoodMap, Filled

(* The first and the last key of a map, as OrderedMap picks them.            *)
LEMMA LeastIs ==
  ASSUME NEW K, K \subseteq Keys, NEW r \in K, \A j \in K : j = r \/ r < j
  PROVE  M!Least(K) = r
<1>1. K \subseteq Nat /\ K # {}
  BY KeyFacts
<1>2. \A j \in K : r =< j
  BY <1>1
<1>3. \A k \in K : (\A j \in K : k =< j) => k = r
  BY <1>1
<1> QED BY <1>1, <1>2, <1>3 DEF M!Least

(* The last.                                                                 *)
LEMMA GreatestIs ==
  ASSUME NEW K, K \subseteq Keys, NEW r \in K, \A j \in K : j = r \/ j < r
  PROVE  M!Greatest(K) = r
<1>1. K \subseteq Nat /\ K # {}
  BY KeyFacts
<1>2. \A j \in K : j =< r
  BY <1>1
<1>3. \A k \in K : (\A j \in K : j =< k) => k = r
  BY <1>1
<1> QED BY <1>1, <1>2, <1>3 DEF M!Greatest

(* A step of the iterator goes to the next key or to none.                   *)
LEMMA StepsToLeast ==
  ASSUME NEW N, N \subseteq Keys, NEW n \in N \cup {Null}, NEW r, StepsTo(N, n, "right", r)
  PROVE  r = M!Least({k \in N : n = Null \/ k > n})
<1> DEFINE K == {k \in N : n = Null \/ k > n}
<1>1. Null \notin N /\ N \subseteq Nat
  BY KeyFacts
<1>2. Other("right") = "left" /\ \A a, b : Before("left", a, b) <=> a < b
  BY DEF Other, Before
<1>3. \A k \in N : k > n <=> n < k
  BY <1>1
<1>4. CASE r = Null
  <2>1. K = {}
    BY <1>1, <1>2, <1>3, <1>4 DEF StepsTo, NextOn
  <2> HIDE DEF K
  <2> QED BY <1>4, <2>1 DEF M!Least, K
<1>5. CASE r # Null
  <2>1. r \in K /\ \A j \in K : j = r \/ r < j
    BY <1>1, <1>2, <1>3, <1>5 DEF StepsTo, NextOn
  <2>2. K \subseteq Keys
    OBVIOUS
  <2> HIDE DEF K
  <2>3. M!Least(K) = r
    BY <2>1, <2>2, LeastIs
  <2> QED BY <2>3 DEF K
<1> QED BY <1>4, <1>5

(* The same backwards.                                                       *)
LEMMA StepsToGreatest ==
  ASSUME NEW N, N \subseteq Keys, NEW n \in N \cup {Null}, NEW r, StepsTo(N, n, "left", r)
  PROVE  r = M!Greatest({k \in N : n = Null \/ k < n})
<1> DEFINE K == {k \in N : n = Null \/ k < n}
<1>1. Null \notin N /\ N \subseteq Nat
  BY KeyFacts
<1>2. Other("left") = "right" /\ \A a, b : Before("right", a, b) <=> b < a
  BY DEF Other, Before
<1>4. CASE r = Null
  <2>1. K = {}
    BY <1>1, <1>2, <1>4 DEF StepsTo, NextOn
  <2> HIDE DEF K
  <2> QED BY <1>4, <2>1 DEF M!Greatest, K
<1>5. CASE r # Null
  <2>1. r \in K /\ \A j \in K : j = r \/ j < r
    BY <1>1, <1>2, <1>5 DEF StepsTo, NextOn
  <2>2. K \subseteq Keys
    OBVIOUS
  <2> HIDE DEF K
  <2>3. M!Greatest(K) = r
    BY <2>1, <2>2, GreatestIs
  <2> QED BY <2>3 DEF K
<1> QED BY <1>4, <1>5

(* The empty map is the empty ordered map.                                   *)
LEMMA ImplementsInit == Init => M!Init
<1> SUFFICES ASSUME Init PROVE M!Init
  OBVIOUS
<1>1. map = UnsharedMap /\ iter.node = Null
  BY DEF Init, NewIter
<1>2. Entries(map) = [k \in {} |-> map.value[k]] /\ map.size = Cardinality({})
  BY <1>1, UnsharedGood, Seen
<1>3. [k \in {} |-> map.value[k]] = [k \in {} |-> Null]
  OBVIOUS
<1> QED BY <1>1, <1>2, <1>3, FS_EmptySet DEF M!Init, M!Nothing

(* iot_data_map_add is the abstract one.                                     *)
LEMMA ImplementsPut ==
  ASSUME NEW N, GoodMap(map, N), Bounded(map), NEW p \in Inputs, map.valueRefs[p[2]] < MaxRefs,
         map' = MapAdd(Give(map, p[1], p[2]), p[1], p[2]), iter' = NewIter
  PROVE  M!Put
<1> DEFINE k == p[1]
           v == p[2]
<1>1. k \in Keys /\ v \in Values
  BY MapAssumption
<1>2. /\ GoodMap(map', N \cup {k})
      /\ \A j \in Keys : map'.value[j] = IF j = k THEN v ELSE map.value[j]
  BY PutKept
<1> HIDE DEF k, v
<1>3. /\ Entries(map) = [j \in N |-> map.value[j]] /\ DOMAIN Entries(map) = N /\ N \subseteq Keys
      /\ Entries(map') = [j \in N \cup {k} |-> map'.value[j]]
      /\ map'.size = Cardinality(N \cup {k})
  BY <1>2, Seen
<1>4. Entries(map') = M!With(Entries(map), k, v)
  BY <1>1, <1>2, <1>3 DEF M!With
<1>5. DOMAIN M!With(Entries(map), k, v) = N \cup {k}
  BY <1>3 DEF M!With
<1>6. iter'.node = Null
  BY DEF NewIter
<1>7. Entries(map)' = Entries(map') /\ (map.size)' = map'.size
  BY DEF Entries, NodesUnder, Under
<1> QED BY <1>1, <1>3, <1>4, <1>5, <1>6, <1>7, SameCardinality DEF M!Put, M!Becomes

(* Every action is one of the ordered map or leaves what it sees alone.      *)
LEMMA ImplementsNext == MapInv /\ [Next]_vars => [M!Next]_M!vars
<1> SUFFICES ASSUME NEW N, GoodWith(map, iter, N), [Next]_vars
             PROVE  [M!Next]_M!vars
  BY DEF MapInv
<1>1. GoodMap(map, N) /\ Bounded(map) /\ Placed(iter, N)
  BY DEF GoodWith
<1>2. /\ Entries(map) = [j \in N |-> map.value[j]] /\ DOMAIN Entries(map) = N
      /\ N \subseteq Keys /\ Null \notin N /\ map.size = Cardinality(N) /\ map \in MapRec
      /\ iter.node \in N \cup {Null}
      /\ \A k \in Keys : Find(map, k) = IF k \in N THEN k ELSE Null
  BY <1>1, Seen, GoodNodes DEF Placed
<1>3. /\ Entries(map)' = Entries(map') /\ (map.size)' = map'.size /\ (iter.node)' = iter'.node
  BY DEF Entries, NodesUnder, Under
<1>4. NewIter.node = Null
  BY DEF NewIter
<1>5. ASSUME map' = map, iter' = NewIter
      PROVE  M!Start
  BY <1>3, <1>4, <1>5 DEF M!Start
<1>6. ASSUME GoodMap(map', {}), iter' = NewIter
      PROVE  M!Empty
  <2>1. Entries(map') = [k \in {} |-> map'.value[k]] /\ map'.size = Cardinality({})
    BY <1>6, Seen
  <2>2. [k \in {} |-> map'.value[k]] = [k \in {} |-> Null] /\ DOMAIN [k \in {} |-> Null] = {}
    OBVIOUS
  <2> QED BY <1>3, <1>4, <1>6, <2>1, <2>2, SameCardinality DEF M!Empty, M!Becomes, M!Nothing
<1>7. CASE Add
  <2>1. M!Put
    BY <1>1, <1>7, ImplementsPut DEF Add, Change
  <2> QED BY <2>1 DEF M!Next
<1>8. CASE AddUnused
  <2>1. PICK p \in Inputs :
          /\ map.valueRefs[p[2]] < MaxRefs
          /\ Change(IF Find(map, p[1]) = Null THEN MapAdd(Give(map, p[1], p[2]), p[1], p[2]) ELSE map)
    BY <1>8 DEF AddUnused
  <2>2. CASE Find(map, p[1]) = Null
    <3>1. M!Put
      BY <1>1, <2>1, <2>2, ImplementsPut DEF Change
    <3> QED BY <3>1 DEF M!Next
  <2>3. CASE Find(map, p[1]) # Null
    BY <1>5, <2>1, <2>3 DEF Change, M!Next
  <2> QED BY <2>2, <2>3
<1>9. CASE RemoveKey
  <2>1. PICK k \in Keys : map' = MapRemove(map, k) /\ iter' = NewIter
    BY <1>9 DEF RemoveKey, Change
  <2>2. CASE k \notin N
    <3>1. map' = map
      BY <1>2, <2>1, <2>2 DEF MapRemove
    <3> QED BY <1>5, <2>1, <3>1 DEF M!Next
  <2>3. CASE k \in N
    <3>1. GoodMap(map', N \ {k}) /\ \A j \in N \ {k} : map'.value[j] = map.value[j]
      BY <1>1, <2>1, MapRemoved
    <3>2. /\ Entries(map') = [j \in N \ {k} |-> map'.value[j]]
          /\ map'.size = Cardinality(N \ {k})
      BY <3>1, Seen
    <3>3. Entries(map') = M!Without(Entries(map), k)
      BY <1>2, <3>1, <3>2 DEF M!Without
    <3>4. DOMAIN M!Without(Entries(map), k) = N \ {k}
      BY <1>2 DEF M!Without
    <3>5. M!Delete
      BY <1>2, <1>3, <1>4, <2>1, <2>3, <3>2, <3>3, <3>4, SameCardinality DEF M!Delete, M!Becomes
    <3> QED BY <3>5 DEF M!Next
  <2> QED BY <2>2, <2>3
<1>10. CASE Merge
  <2>1. PICK d \in Sources :
          /\ \A k \in DOMAIN d : map.valueRefs[d[k]] + Cardinality(DOMAIN d) =< MaxRefs
          /\ map' = MapMerge(map, d) /\ iter' = NewIter
    BY <1>10 DEF Merge, Change
  <2>2. DOMAIN d \subseteq Keys /\ \A k \in DOMAIN d : d[k] \in Values
    BY MapAssumption
  <2>3. \A w \in Values : map.valueRefs[w] =< MaxRefs
    BY <1>1 DEF Bounded
  <2> DEFINE K == N \cup DOMAIN d
             u == [k \in DOMAIN Entries(map) \cup DOMAIN d |->
                     IF k \in DOMAIN d THEN d[k] ELSE Entries(map)[k]]
  <2>4. /\ GoodMap(map', K)
        /\ \A k \in K : map'.value[k] = IF k \in DOMAIN d THEN d[k] ELSE map.value[k]
    BY <1>1, <2>1, <2>2, <2>3, MapMerged
  <2>5. Entries(map') = [k \in K |-> map'.value[k]] /\ map'.size = Cardinality(K)
    <3> HIDE DEF K
    <3> QED BY <2>4, Seen
  <2>6. Entries(map') = u /\ DOMAIN u = K
    BY <1>2, <2>4, <2>5
  <2>7. M!Merge
    BY <1>3, <1>4, <2>1, <2>5, <2>6, SameCardinality DEF M!Merge, M!Becomes
  <2> QED BY <2>7 DEF M!Next
<1>11. CASE Clear
  <2>1. GoodMap(map', {}) /\ iter' = NewIter
    BY <1>1, <1>11, MapEmptied DEF Clear, Change
  <2> QED BY <1>6, <2>1 DEF M!Next
<1>12. CASE Free
  <2>1. GoodMap(map', {}) /\ iter' = NewIter
    BY <1>1, <1>12, FreedUnshared, UnsharedGood DEF Free, Change
  <2> QED BY <1>6, <2>1 DEF M!Next
<1>13. CASE TakeHash
  <2>1. map' = Hash(map) /\ iter' = iter
    BY <1>13 DEF TakeHash
  <2>2. GoodMap(map', N) /\ map'.value = map.value
    BY <1>1, <2>1, HashKept
  <2>3. Entries(map') = [j \in N |-> map'.value[j]] /\ map'.size = Cardinality(N)
    BY <2>2, Seen
  <2>4. UNCHANGED M!vars
    BY <1>2, <1>3, <2>1, <2>2, <2>3 DEF M!vars
  <2> QED BY <2>4
<1>14. CASE IterNext
  <2> DEFINE w == Walk("right")
  <2>1. StepsTo(N, iter.node, "right", w)
    <3>1. w = IF iter.node = Null THEN Extreme(map, map.root, Other("right"))
              ELSE Neighbour(map, iter.node, "right")
      BY DEF Walk
    <3> HIDE DEF w
    <3> QED BY <1>1, <1>2, <3>1, WalkSteps, SideFacts
  <2>2. iter'.node = w /\ map' = map
    BY <1>1, <1>14 DEF IterNext, Placed
  <2> HIDE DEF w
  <2>3. w = M!Least({k \in N : iter.node = Null \/ k > iter.node})
    BY <1>2, <2>1, StepsToLeast
  <2>4. M!Forward
    BY <1>2, <1>3, <2>2, <2>3 DEF M!Forward
  <2> QED BY <2>4 DEF M!Next
<1>15. CASE IterPrev
  <2> DEFINE w == Walk("left")
  <2>1. StepsTo(N, iter.node, "left", w)
    <3>1. w = IF iter.node = Null THEN Extreme(map, map.root, Other("left"))
              ELSE Neighbour(map, iter.node, "left")
      BY DEF Walk
    <3> HIDE DEF w
    <3> QED BY <1>1, <1>2, <3>1, WalkSteps, SideFacts
  <2>2. iter'.node = w /\ map' = map
    BY <1>1, <1>15 DEF IterPrev, Placed
  <2> HIDE DEF w
  <2>3. w = M!Greatest({k \in N : iter.node = Null \/ k < iter.node})
    BY <1>2, <2>1, StepsToGreatest
  <2>4. M!Backward
    BY <1>2, <1>3, <2>2, <2>3 DEF M!Backward
  <2> QED BY <2>4 DEF M!Next
<1>16. CASE IterStart
  BY <1>5, <1>16 DEF IterStart, M!Next
<1>17. CASE IterReplace
  <2>1. PICK v \in Values :
          /\ iter.node # Null /\ map.valueRefs[v] < MaxRefs
          /\ map' = ReplaceValue(map, iter.node, v) /\ iter' = iter
    BY <1>17 DEF IterReplace
  <2> DEFINE k == iter.node
  <2>2. k \in N
    BY <1>2, <2>1
  <2>3. /\ GoodMap(map', N)
        /\ \A j \in Keys : map'.value[j] = IF j = k THEN v ELSE map.value[j]
    BY <1>1, <2>1, <2>2, ReplaceKept
  <2>4. Entries(map') = [j \in N |-> map'.value[j]] /\ map'.size = Cardinality(N)
    BY <2>3, Seen
  <2>5. Entries(map') = M!With(Entries(map), k, v) /\ DOMAIN M!With(Entries(map), k, v) = N
    <3>1. N \cup {k} = N
      BY <2>2
    <3> QED BY <1>2, <2>3, <2>4, <3>1 DEF M!With
  <2>6. M!Replace
    BY <1>3, <2>1, <2>4, <2>5, SameCardinality DEF M!Replace, M!Becomes
  <2> QED BY <2>6 DEF M!Next
<1>18. CASE UNCHANGED vars
  BY <1>3, <1>18 DEF vars, M!vars
<1> QED BY <1>7, <1>8, <1>9, <1>10, <1>11, <1>12, <1>13, <1>14, <1>15, <1>16, <1>17, <1>18 DEF Next

(* The red-black tree is an ordered map: adding, merging, removing, emptying   *)
(* and replacing change the entries as they would change a function, the size *)
(* is the number of keys, and the iterator visits the keys in their order in   *)
(* both directions.                                                          *)
THEOREM OrderedMapImplemented == Spec => ImplementsOrderedMap
BY MapAlwaysGood, ImplementsInit, ImplementsNext, PTL DEF Spec, ImplementsOrderedMap, M!Spec
=============================================================================
