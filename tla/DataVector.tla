----------------------------- MODULE DataVector -----------------------------
(***************************************************************************)
(* iot_data_vector_t of src/c/data.c: places that hold a value or nothing, *)
(* with a cached hash.                                                     *)
(***************************************************************************)
EXTENDS DataHash, FiniteSets

CONSTANTS Values,    \* values, of which the client keeps one reference each
          MaxLength  \* bound: places of a vector

VARIABLES vector, index   \* the vector and the client's iterator

vars == <<vector, index>>

(* skipped: a mark for recomputation of the hash was taken away.  It is      *)
(* history the code does not keep.                                           *)
AllocVector(size, refs) ==
  [values |-> [i \in 1..size |-> Null], hash |-> {}, rehash |-> FALSE,
   refs |-> refs, skipped |-> FALSE]

(* Places count from 0 in the code and from 1 here.  An index equal to the   *)
(* size is no place.                                                         *)
Init ==
  \E n \in 0..MaxLength : vector = AllocVector(n, [v \in Values |-> 1]) /\ index = n

Size == Len(vector.values)

AddRef(m, v) == IF v = Null THEN m ELSE [m EXCEPT !.refs[v] = @ + 1]
Release(m, v) == IF v = Null THEN m ELSE [m EXCEPT !.refs[v] = @ - 1]

(* The hash when v comes to a place that holds old.  The old part of the     *)
(* hash stays until it is recomputed.                                        *)
HashSetSlip(m, old, v) == [m EXCEPT !.hash = ValueHash(@, v)]
HashSet(m, old, v) ==
  IF old # Null THEN [m EXCEPT !.rehash = TRUE] ELSE [m EXCEPT !.hash = ValueHash(@, v)]

(* iot_data_vector_add.                                                     *)
VectorAdd(m, i, v) ==
  LET old == m.values[i]
  IN  [Release(HashSet(m, old, v), old) EXCEPT !.values[i] = v]

(* iot_data_vector_resize.  The mark is set by whether the size changes,     *)
(* whatever it was.                                                          *)
VectorResize(m, n) ==
  LET size == Len(m.values)
      freed == FoldLeft(LAMBDA r, i : IF i > n THEN Release(r, m.values[i]) ELSE r,
                        m, [i \in 1..size |-> i])
  IN  [freed EXCEPT !.values = [i \in 1..n |-> IF i =< size THEN @[i] ELSE Null],
                    !.rehash = (size # n),
                    !.skipped = n = size /\ (@ \/ m.rehash)]

(* One turn of the loop in iot_data_vector_compact: an empty place takes the *)
(* next value after it.                                                      *)
FillSlip(s, i) ==
  LET later == {j \in (i + 1)..Len(s) : s[j] # Null}
  IN  IF s[i] # Null \/ later = {} THEN s
      ELSE LET j == CHOOSE j \in later : \A k \in later : k =< j
           IN  [s EXCEPT ![i] = s[j], ![j] = Null]
Fill(s, i) ==
  LET later == {j \in (i + 1)..Len(s) : s[j] # Null}
  IN  IF s[i] # Null \/ later = {} THEN s
      ELSE LET j == CHOOSE j \in later : \A k \in later : j =< k
           IN  [s EXCEPT ![i] = s[j], ![j] = Null]

(* The size is left as the number of places that were filled.               *)
VectorCompact(m) ==
  LET filled == FoldLeft(Fill, m.values, [i \in 1..Len(m.values) |-> i])
  IN  [m EXCEPT !.values = SubSeq(filled, 1, Cardinality({i \in DOMAIN filled : filled[i] # Null}))]

TakenHash(m) ==
  IF m.rehash
  THEN [m EXCEPT !.hash = HashOfSeq(m.values), !.rehash = FALSE, !.skipped = FALSE]
  ELSE m

FreeVector(m) == FoldLeft(Release, m, m.values)

(* iot_data_shallow_copy.                                                   *)
ShallowCopy(m) ==
  FoldLeft(LAMBDA n, i : VectorAdd(AddRef(n, m.values[i]), i, m.values[i]),
           AllocVector(Len(m.values), m.refs), [i \in 1..Len(m.values) |-> i])

-----------------------------------------------------------------------------
(* What the client does.  A change other than a replacement through the      *)
(* iterator starts the iterator anew.                                        *)

Become(m) == vector' = m /\ index' = Len(m.values)

Add == \E i \in 1..Size, v \in Values \cup {Null} :
  Become(VectorAdd(AddRef(vector, v), i, v))

Resize == \E n \in 0..MaxLength : Become(VectorResize(vector, n))

Compact == Become(VectorCompact(vector))

(* iot_data_free, and a new vector.                                         *)
Renew == \E n \in 0..MaxLength : Become(AllocVector(n, FreeVector(vector).refs))

(* The client goes on with a copy and frees the vector it had.              *)
Copy ==
  LET copy == ShallowCopy(vector)
  IN  Become([copy EXCEPT !.refs = FreeVector([vector EXCEPT !.refs = copy.refs]).refs])

TakeHash == vector' = TakenHash(vector) /\ UNCHANGED index

IterStart == index' = Size /\ UNCHANGED vector

IterNext == index' = (IF index < Size THEN index + 1 ELSE 0) /\ UNCHANGED vector

IterPrev == index' = (IF index # 0 THEN index - 1 ELSE Size) /\ UNCHANGED vector

HasNext == index = Size \/ index + 1 < Size

(* The old value goes back to the client, who frees it.                     *)
IterReplace == \E v \in Values :
  /\ index < Size
  /\ LET old == vector.values[index + 1]
     IN  vector' = [Release(HashSet(AddRef(vector, v), old, v), old)
                      EXCEPT !.values[index + 1] = v]
  /\ UNCHANGED index

Next == \/ Add \/ Resize \/ Compact \/ Renew \/ Copy \/ TakeHash
        \/ IterStart \/ IterNext \/ IterPrev \/ IterReplace

-----------------------------------------------------------------------------
(* Parts of properties of Data *)

At == IF index = Size THEN 0 ELSE index + 1

Type ==
  /\ vector.values \in Seq(Values \cup {Null}) /\ Size =< MaxLength
  /\ vector.hash \subseteq Values /\ vector.refs \in [Values -> Nat]
  /\ index \in 0..MaxLength

Fresh == vector.rehash \/ vector.skipped \/ vector.hash = HashOfSeq(vector.values)

Conserved ==
  \A v \in Values : vector.refs[v] = 1 + Cardinality({i \in 1..Size : vector.values[i] = v})

=============================================================================
