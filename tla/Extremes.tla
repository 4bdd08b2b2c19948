------------------------------ MODULE Extremes ------------------------------
(***************************************************************************)
(* Least and greatest elements: what the CHOOSE of a first schedule, of a  *)
(* free key or of a bound picks exists.  The library's induction theorems  *)
(* take an operator; the least counterexample does their work here.        *)
(***************************************************************************)
EXTENDS Integers, FiniteSetTheorems, WellFoundedInduction, TLAPS

(* A set of naturals that is not empty has a least element.                  *)
LEMMA LeastNat ==
  ASSUME NEW S, S \subseteq Nat, S # {}
  PROVE  \E m \in S : \A n \in S : m =< n
<1> DEFINE Less == OpToRel(<, Nat)
<1>1. IsWellFoundedOn(Less, Nat)
  BY NatLessThanWellFounded
<1>2. ASSUME NEW m \in Nat, NEW n \in Nat, ~ (<<n, m>> \in Less) PROVE m =< n
  BY <1>2, <<n, m>> \in Nat \X Nat DEF OpToRel
<1> HIDE DEF Less
<1>3. PICK m \in S : \A n \in S : ~ (<<n, m>> \in Less)
  BY <1>1, WFMin
<1>4. \A n \in S : m =< n
  BY <1>2, <1>3, Zenon
<1> QED BY <1>4

(* So has a set of integers with a lower bound.                              *)
LEMMA LeastFrom ==
  ASSUME NEW lo \in Int, NEW S, S \subseteq Int, \A x \in S : x >= lo, S # {}
  PROVE  \E m \in S : \A x \in S : m =< x
<1> DEFINE T == {x - lo : x \in S}
<1>1. T \subseteq Nat
  <2>1. \A x \in S : x - lo \in Nat
    OBVIOUS
  <2> QED BY <2>1
<1>2. T # {}
  OBVIOUS
<1>3. PICK m \in T : \A n \in T : m =< n
  BY <1>1, <1>2, LeastNat
<1>4. PICK x \in S : m = x - lo
  OBVIOUS
<1>5. \A y \in S : x =< y
  BY <1>3, <1>4
<1> QED BY <1>5

(* Among the arguments in Q of a function with a lower bound one has the     *)
(* least value.                                                              *)
LEMMA LeastValue ==
  ASSUME NEW S, NEW f \in [S -> Int], NEW lo \in Int, \A s \in S : f[s] >= lo,
         NEW Q, Q \subseteq S, Q # {}
  PROVE  \E s \in Q : \A q \in Q : f[s] =< f[q]
<1> DEFINE I == {f[q] : q \in Q}
<1>1. I \subseteq Int /\ I # {} /\ \A x \in I : x >= lo
  OBVIOUS
<1>2. PICK m \in I : \A x \in I : m =< x
  BY <1>1, LeastFrom
<1> QED BY <1>2

(* A finite set of naturals that is not empty has a greatest element: a      *)
(* smallest subset without one would lose it with any of its members.        *)
LEMMA GreatestNat ==
  ASSUME NEW S, IsFiniteSet(S), S \subseteq Nat, S # {}
  PROVE  \E m \in S : \A n \in S : n =< m
<1> DEFINE Bad == {T \in SUBSET S : T # {} /\ ~ \E m \in T : \A n \in T : n =< m}
           Sizes == {Cardinality(T) : T \in Bad}
<1> SUFFICES ASSUME Bad # {} PROVE FALSE
  OBVIOUS
<1>1. Sizes \subseteq Nat
  <2>1. \A T \in Bad : Cardinality(T) \in Nat
    BY FS_Subset, FS_CardinalityType
  <2> QED BY <2>1
<1>2. Sizes # {}
  OBVIOUS
<1>3. PICK c \in Sizes : \A d \in Sizes : c =< d
  BY <1>1, <1>2, LeastNat
<1>4. PICK T \in Bad : c = Cardinality(T)
  OBVIOUS
<1>5. PICK x \in T : TRUE
  OBVIOUS
<1>6. IsFiniteSet(T) /\ Cardinality(T) \in Nat
  BY FS_Subset, FS_CardinalityType
<1>7. T \ {x} \notin Bad
  <2>1. Cardinality(T \ {x}) = Cardinality(T) - 1
    BY <1>6, FS_RemoveElement
  <2>2. Cardinality(T \ {x}) \notin Sizes
    BY <1>3, <1>4, <1>6, <2>1
  <2> QED BY <2>2
<1>8. CASE T \ {x} = {}
  <2>1. x \in Nat /\ \A n \in T : n = x
    BY <1>8
  <2> QED BY <2>1
<1>9. CASE T \ {x} # {}
  <2>1. PICK m \in T \ {x} : \A n \in T \ {x} : n =< m
    BY <1>7, <1>9
  <2>2. m \in Nat /\ x \in Nat /\ T \subseteq Nat
    OBVIOUS
  <2> QED BY <2>1, <2>2
<1> QED BY <1>8, <1>9

=============================================================================
