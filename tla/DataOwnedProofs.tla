-------------------------- MODULE DataOwnedProofs --------------------------
(***************************************************************************)
(* Proofs about DataOwned: every buffer has one owner, every count is the  *)
(* number of references, and what a client put into a data stays there.    *)
(* References and buffers that nobody but the running function has are "in *)
(* hand": each operation of the library takes over what it is given and    *)
(* hands on what it leaves, and the client's slots are the hands between   *)
(* two calls.                                                              *)
(***************************************************************************)
EXTENDS DataOwned, Extremes

Ids == 1..MaxData \cup DOMAIN Constants

Stored(st) ==
  /\ st = [data |-> st.data, buffers |-> st.buffers]
  /\ DOMAIN st.data \subseteq Ids /\ st.data \in [DOMAIN st.data -> Datum]
  /\ DOMAIN st.buffers \subseteq 1..MaxBuffers \cup Kept
  /\ st.buffers \in [DOMAIN st.buffers -> Buffer]

MetaOf(data, o) == {x \in DOMAIN data : data[x].meta = o}
ValueOf(data, o) == {x \in DOMAIN data : data[x].value = o}
Inner(data, o) == Cardinality(MetaOf(data, o)) + Cardinality(ValueOf(data, o))

(* The data that own a buffer, and the buffers owned.                        *)
Owns(d) == d.release /\ d.at > 0
Owned(data) == {data[o].at : o \in {x \in DOMAIN data : Owns(data[x])}}

PlaceOf(kind, block) == IF kind = "pointer" THEN "pointed" ELSE IF block THEN "block" ELSE "heap"
PlaceFor(d) == PlaceOf(d.kind, d.block)

(* Metadata are maps without metadata, of values without metadata; only a     *)
(* string lies in the data itself or in a block.                             *)
Nested(data) == \A o \in DOMAIN data :
  LET d == data[o] IN
  /\ d.meta # None => d.meta \in DOMAIN data /\ data[d.meta].kind = "map"
  /\ d.value # None => /\ d.value \in DOMAIN data
                       /\ data[d.value].kind # "map" /\ data[d.value].meta = None
  /\ d.kind = "map" => d.meta = None /\ d.at = None
  /\ d.kind # "map" => d.value = None
  /\ d.block \/ d.at = Inside => d.kind = "string"

(* Constants stay, and own nothing.                                          *)
ConstantsStay(data) ==
  /\ DOMAIN Constants \subseteq DOMAIN data
  /\ \A o \in DOMAIN data : data[o].constant <=> o \in DOMAIN Constants
  /\ \A o \in DOMAIN Constants : ~ data[o].release /\ data[o].kind = "string"

(* Buffers are the client's for good, in hand, or owned by one data.         *)
OneOwner(st, hand) ==
  /\ DOMAIN st.buffers = Kept \cup hand \cup Owned(st.data)
  /\ \A o \in DOMAIN st.data : st.data[o].at > 0 => Owns(st.data[o]) \/ st.data[o].at \in Kept
  /\ \A o \in DOMAIN st.data : Owns(st.data[o]) =>
       /\ st.data[o].at \notin Kept \cup hand
       /\ st.buffers[st.data[o].at].place = PlaceFor(st.data[o])
       /\ \A p \in DOMAIN st.data : Owns(st.data[p]) /\ st.data[p].at = st.data[o].at => o = p

(* Counts are the references in hand and in metadata.                        *)
Counted(data, held) ==
  /\ \A o \in DOMAIN data \ DOMAIN Constants :
       data[o].refs = held[o] + Inner(data, o) /\ data[o].refs > 0
  /\ \A o \in Ids \ DOMAIN data : held[o] = 0

Good(st, held, hand) ==
  /\ Stored(st) /\ held \in [Ids -> Nat] /\ hand \subseteq 1..MaxBuffers
  /\ Nested(st.data) /\ ConstantsStay(st.data) /\ OneOwner(st, hand) /\ Counted(st.data, held)

(* What the client gave for good is what it was.                             *)
Lasting(st) ==
  /\ \A b \in Kept : st.buffers[b].content = b - MaxBuffers
  /\ \A o \in DOMAIN Constants : st.data[o].at = KeptBuffer(Constants[o])

HeldIn(sl) == [o \in Ids |-> Cardinality({s \in Slots : sl[s] = o})]

(* The metadata that are there hold a value.                                 *)
Complete(data) == \A o \in DOMAIN data : data[o].meta # None => data[data[o].meta].value # None

Views == [content : Contents \cup {Empty}, meta : Contents \cup {Empty}]

(* What is to be found in a data and its metadata.                           *)
MetaView(st, m) == IF m = None THEN None ELSE ContentOf(st, st.data[m].value)
View(st, o) == [content |-> ContentOf(st, o), meta |-> MetaView(st, st.data[o].meta)]

InSlots ==
  /\ slot \in [Slots -> Ids \cup {None}] /\ meant \in [Slots -> Views]
  /\ \A s \in Slots : slot[s] = None => meant[s] = Absent
  /\ \A s \in Slots : slot[s] # None => /\ slot[s] \in DOMAIN store.data
                                        /\ store.data[slot[s]].kind # "map"
                                        /\ meant[s] = View(store, slot[s])

InHand ==
  /\ mine \in [DOMAIN mine -> Contents \cup {Empty}]
  /\ \A b \in DOMAIN mine : store.buffers[b].content = mine[b]

IInv == /\ Good(store, HeldIn(slot), DOMAIN mine) /\ Complete(store.data) /\ Lasting(store)
        /\ InSlots /\ InHand

(* What is in st is in more too, and holds the same.                         *)
SameParts(d, e) ==
  /\ d.at = e.at /\ d.inside = e.inside /\ d.meta = e.meta /\ d.value = e.value
  /\ d.kind = "map" <=> e.kind = "map"

Extends(st, more) ==
  /\ \A o \in DOMAIN st.data : o \in DOMAIN more.data /\ SameParts(st.data[o], more.data[o])
  /\ \A b \in DOMAIN st.buffers : b \in DOMAIN more.buffers /\ more.buffers[b] = st.buffers[b]

-----------------------------------------------------------------------------
(* Memory *)

(* While a number is free there is a lowest one.                             *)
LEMMA LowestIsFree ==
  ASSUME NEW used, NEW max \in Nat, Cardinality(used \cap 1..max) + 1 =< max
  PROVE  LowestFree(used, max) \in 1..max /\ LowestFree(used, max) \notin used
<1> DEFINE F == (1..max) \ used
<1>1. F # {}
  <2> SUFFICES ASSUME F = {} PROVE FALSE
    OBVIOUS
  <2>1. used \cap 1..max = 1..max
    OBVIOUS
  <2>2. Cardinality(1..max) = max
    BY FS_Interval, 1 \in Int, max \in Int
  <2> DEFINE n == Cardinality(used \cap 1..max)
  <2>3. n = max /\ n + 1 =< max
    BY <2>1, <2>2, Zenon
  <2> HIDE DEF n
  <2> QED BY <2>3
<1>2. F \subseteq Nat
  OBVIOUS
<1>3. PICK n \in F : \A k \in F : n =< k
  BY <1>1, <1>2, LeastNat
<1>4. n \in 1..max /\ n \notin used /\ 1..(n - 1) \subseteq used
  BY <1>3
<1> QED BY <1>4 DEF LowestFree

(* What a new buffer and a new data are.                                     *)
LEMMA AllocatedIs ==
  ASSUME NEW st, Stored(st), Cardinality(DOMAIN st.buffers \cap 1..MaxBuffers) + 1 =< MaxBuffers,
         NEW place, NEW c
  PROVE  \E b \in 1..MaxBuffers :
           /\ b \notin DOMAIN st.buffers
           /\ Allocated(st, place, c) =
                [store |-> [data |-> st.data,
                            buffers |-> With(st.buffers, b, [place |-> place, content |-> c])],
                 result |-> b]
<1> DEFINE b == LowestFree(DOMAIN st.buffers, MaxBuffers)
<1>1. b \in 1..MaxBuffers /\ b \notin DOMAIN st.buffers
  BY LowestIsFree, OwnedAssumption
<1>2. Allocated(st, place, c) =
        Made([st EXCEPT !.buffers = With(@, b, [place |-> place, content |-> c])], b)
  BY DEF Allocated
<1> HIDE DEF b
<1>3. [st EXCEPT !.buffers = With(@, b, [place |-> place, content |-> c])]
        = [data |-> st.data, buffers |-> With(st.buffers, b, [place |-> place, content |-> c])]
  BY DEF Stored
<1> QED BY <1>1, <1>2, <1>3 DEF Made

-----------------------------------------------------------------------------
(* What changes of the store do to Good *)

LEMMA Distinct ==
  /\ None \notin Ids /\ None \notin Kept /\ Inside \notin Kept /\ None # Inside
  /\ Kept \cap 1..MaxBuffers = {} /\ Ids \subseteq Nat /\ Kept \subseteq Nat
  /\ DOMAIN Constants \cap 1..MaxData = {}
  /\ \A at \in {Inside, None} \cup 1..MaxBuffers \cup Kept : at > 0 <=> at \in 1..MaxBuffers \cup Kept
<1>1. /\ MaxData \in Nat /\ MaxBuffers \in Nat /\ Contents \subseteq Nat \ {0}
      /\ DOMAIN Constants \subseteq Nat \ (0..MaxData)
  BY OwnedAssumption DEF Empty
<1>2. \A k \in Kept : k \in Nat /\ k > MaxBuffers
  BY <1>1 DEF Kept, KeptBuffer
<1> QED BY <1>1, <1>2 DEF Ids, None, Inside

LEMMA CountsFinite ==
  ASSUME NEW data, DOMAIN data \subseteq Ids, NEW o
  PROVE  /\ IsFiniteSet(MetaOf(data, o)) /\ IsFiniteSet(ValueOf(data, o))
         /\ Cardinality(MetaOf(data, o)) \in Nat /\ Cardinality(ValueOf(data, o)) \in Nat
         /\ Inner(data, o) \in Nat
<1>1. IsFiniteSet(1..MaxData)
  BY FS_Interval, OwnedAssumption, 1 \in Int
<1>2. IsFiniteSet(Ids)
  BY <1>1, FS_Union, OwnedAssumption DEF Ids
<1>3. IsFiniteSet(MetaOf(data, o)) /\ IsFiniteSet(ValueOf(data, o))
  BY <1>2, FS_Subset DEF MetaOf, ValueOf
<1> QED BY <1>3, FS_CardinalityType DEF Inner

(* A buffer that is referred to is allocated.                                *)
LEMMA BuffersThere ==
  ASSUME NEW st, NEW hand, OneOwner(st, hand), NEW o \in DOMAIN st.data, st.data[o].at > 0
  PROVE  st.data[o].at \in DOMAIN st.buffers
<1>1. Owns(st.data[o]) => st.data[o].at \in Owned(st.data)
  BY DEF Owned
<1> QED BY <1>1 DEF OneOwner

(* A new buffer is in hand.                                                  *)
LEMMA BufferAdded ==
  ASSUME NEW st, NEW held, NEW hand, Good(st, held, hand),
         NEW b \in 1..MaxBuffers, b \notin DOMAIN st.buffers, NEW new \in Buffer,
         NEW st2, st2 = [data |-> st.data, buffers |-> With(st.buffers, b, new)]
  PROVE  Good(st2, held, hand \cup {b}) /\ Extends(st, st2)
<1>1. /\ st2.data = st.data /\ DOMAIN st2.buffers = DOMAIN st.buffers \cup {b}
      /\ st2.buffers[b] = new /\ \A x \in DOMAIN st.buffers : st2.buffers[x] = st.buffers[x]
  BY DEF With
<1>2. Stored(st2)
  BY DEF Stored, Good, With
<1>3. OneOwner(st2, hand \cup {b})
  <2>1. OneOwner(st, hand) /\ b \notin Kept
    BY Distinct DEF Good
  <2>2. \A o \in DOMAIN st.data : Owns(st.data[o]) => st.data[o].at \in DOMAIN st.buffers
    BY <2>1, BuffersThere DEF Owns
  <2> QED BY <1>1, <2>1, <2>2 DEF OneOwner
<1>4. Extends(st, st2)
  BY <1>1 DEF Extends, SameParts
<1> QED BY <1>1, <1>2, <1>3, <1>4 DEF Good

(* A buffer in hand is released.                                             *)
LEMMA BufferDropped ==
  ASSUME NEW st, NEW held, NEW hand, Good(st, held, hand), NEW b \in hand
  PROVE  /\ Good(Released(st, b), held, hand \ {b}) /\ Extends(Released(st, b), st)
         /\ Released(st, b) = [data |-> st.data, buffers |-> Without(st.buffers, b)]
<1> DEFINE st2 == Released(st, b)
<1>0. st2 = [data |-> st.data, buffers |-> Without(st.buffers, b)]
  BY DEF Released, Good, Stored
<1> HIDE DEF st2
<1>1. /\ st2.data = st.data /\ DOMAIN st2.buffers = DOMAIN st.buffers \ {b}
      /\ \A x \in DOMAIN st.buffers \ {b} : st2.buffers[x] = st.buffers[x]
  BY <1>0 DEF Without
<1>2. Stored(st2)
  BY <1>0 DEF Stored, Good, Without
<1>3. OneOwner(st2, hand \ {b})
  <2>1. OneOwner(st, hand) /\ b \in 1..MaxBuffers /\ b \notin Kept
    BY Distinct DEF Good
  <2>2. \A o \in DOMAIN st.data : Owns(st.data[o]) => st.data[o].at \in DOMAIN st.buffers /\ st.data[o].at # b
    BY <2>1, BuffersThere DEF Owns, OneOwner
  <2>3. b \notin Owned(st.data)
    BY <2>2 DEF Owned
  <2> QED BY <1>1, <2>1, <2>2, <2>3 DEF OneOwner
<1>4. Extends(st2, st)
  BY <1>1 DEF Extends, SameParts
<1> QED BY <1>0, <1>1, <1>2, <1>3, <1>4 DEF Good, st2

(* A new data has one reference, which is in hand, and owns its buffer.      *)
LEMMA DataAdded ==
  ASSUME NEW st, NEW held, NEW hand, Good(st, held, hand),
         NEW o \in 1..MaxData, o \notin DOMAIN st.data, NEW d \in Datum,
         d.meta = None, d.value = None, d.refs = 1, ~ d.constant,
         d.kind = "map" => d.at = None, d.block \/ d.at = Inside => d.kind = "string",
         Owns(d) => d.at \in hand /\ st.buffers[d.at].place = PlaceFor(d),
         d.at > 0 /\ ~ d.release => d.at \in Kept,
         NEW st2, st2 = [data |-> With(st.data, o, d), buffers |-> st.buffers]
  PROVE  /\ Good(st2, [held EXCEPT ![o] = 1], IF Owns(d) THEN hand \ {d.at} ELSE hand)
         /\ Extends(st, st2)
<1> DEFINE held2 == [held EXCEPT ![o] = 1]
           hand2 == IF Owns(d) THEN hand \ {d.at} ELSE hand
<1>1. /\ st2.buffers = st.buffers /\ DOMAIN st2.data = DOMAIN st.data \cup {o}
      /\ st2.data[o] = d /\ \A x \in DOMAIN st.data : st2.data[x] = st.data[x]
  BY DEF With
<1>2. o \in Ids /\ o # None /\ o \notin DOMAIN Constants
  BY Distinct DEF Ids
<1>3. Stored(st2)
  BY <1>2 DEF Stored, Good, With
<1>4. Nested(st2.data)
  BY <1>1, <1>2 DEF Nested, Good
<1>5. ConstantsStay(st2.data)
  BY <1>1, <1>2 DEF ConstantsStay, Good
<1>6. OneOwner(st2, hand2)
  <2>1. OneOwner(st, hand)
    BY DEF Good
  <2>2. CASE Owns(d)
    <3>1. Owned(st2.data) = Owned(st.data) \cup {d.at}
      BY <1>1, <2>2 DEF Owned
    <3>2. d.at \notin Kept
      BY <2>2, Distinct DEF Good
    <3>3. \A x \in DOMAIN st.data : Owns(st.data[x]) => st.data[x].at # d.at
      BY <2>1, <2>2 DEF OneOwner
    <3> QED BY <1>1, <2>1, <2>2, <3>1, <3>2, <3>3 DEF OneOwner
  <2>3. CASE ~ Owns(d)
    <3>1. Owned(st2.data) = Owned(st.data)
      BY <1>1, <2>3 DEF Owned
    <3>2. d.at > 0 => d.at \in Kept
      BY <2>3 DEF Owns
    <3> QED BY <1>1, <2>1, <2>3, <3>1, <3>2 DEF OneOwner
  <2> QED BY <2>2, <2>3
<1>7. Counted(st2.data, held2)
  <2>1. \A p \in Ids : MetaOf(st2.data, p) = MetaOf(st.data, p) /\ ValueOf(st2.data, p) = ValueOf(st.data, p)
    BY <1>1, Distinct DEF MetaOf, ValueOf
  <2>2. \A p \in Ids : Inner(st2.data, p) = Inner(st.data, p)
    BY <2>1 DEF Inner
  <2>3. MetaOf(st.data, o) = {} /\ ValueOf(st.data, o) = {}
    BY <1>2 DEF MetaOf, ValueOf, Good, Nested
  <2>4. Inner(st.data, o) = 0
    BY <2>3, FS_EmptySet DEF Inner
  <2>5. held2 \in [Ids -> Nat] /\ held2[o] = 1 /\ \A p \in Ids \ {o} : held2[p] = held[p]
    BY <1>2 DEF Good
  <2>6. Counted(st.data, held) /\ DOMAIN st.data \subseteq Ids
    BY DEF Good, Stored
  <2> HIDE DEF held2
  <2>7. \A p \in DOMAIN st.data \ DOMAIN Constants :
          /\ p # o /\ p \in Ids /\ st2.data[p] = st.data[p] /\ held2[p] = held[p]
          /\ Inner(st2.data, p) = Inner(st.data, p)
          /\ st.data[p].refs = held[p] + Inner(st.data, p) /\ st.data[p].refs > 0
    BY <1>1, <2>2, <2>5, <2>6 DEF Counted
  <2>8. st2.data[o].refs = held2[o] + Inner(st2.data, o) /\ st2.data[o].refs > 0
    BY <1>1, <1>2, <2>2, <2>4, <2>5
  <2>9. \A p \in Ids \ DOMAIN st2.data : held2[p] = 0
    BY <1>1, <2>5, <2>6 DEF Counted
  <2> QED BY <1>1, <2>7, <2>8, <2>9 DEF Counted
<1>8. held2 \in [Ids -> Nat] /\ hand2 \subseteq 1..MaxBuffers
  BY <1>2 DEF Good
<1>9. Extends(st, st2)
  BY <1>1 DEF Extends, SameParts
<1> HIDE DEF held2, hand2
<1> QED BY <1>3, <1>4, <1>5, <1>6, <1>7, <1>8, <1>9 DEF Good, held2, hand2

(* Only the count of o changes, as the references in hand do.                *)
LEMMA RefsChanged ==
  ASSUME NEW st, NEW held, NEW hand, Good(st, held, hand),
         NEW o \in DOMAIN st.data, o \notin DOMAIN Constants,
         NEW k \in Nat, NEW n \in Nat \ {0}, n - st.data[o].refs = k - held[o],
         NEW st2, st2 = [st EXCEPT !.data[o].refs = n]
  PROVE  Good(st2, [held EXCEPT ![o] = k], hand) /\ Extends(st, st2) /\ Extends(st2, st)
<1> DEFINE held2 == [held EXCEPT ![o] = k]
<1>0. /\ st2 = [data |-> [st.data EXCEPT ![o] = [st.data[o] EXCEPT !.refs = n]], buffers |-> st.buffers]
      /\ st.data \in [DOMAIN st.data -> Datum] /\ o \in Ids /\ st.data[o] \in Datum
  BY DEF Good, Stored
<1> DEFINE d2 == [st.data[o] EXCEPT !.refs = n]
<1>1. /\ st2.buffers = st.buffers /\ DOMAIN st2.data = DOMAIN st.data
      /\ st2.data[o] = d2 /\ \A x \in DOMAIN st.data \ {o} : st2.data[x] = st.data[x]
  BY <1>0
<1>2. /\ d2 \in Datum /\ d2.refs = n /\ d2.kind = st.data[o].kind /\ d2.at = st.data[o].at
      /\ d2.inside = st.data[o].inside /\ d2.release = st.data[o].release /\ d2.block = st.data[o].block
      /\ d2.constant = st.data[o].constant /\ d2.meta = st.data[o].meta /\ d2.value = st.data[o].value
  BY <1>0 DEF Datum
<1> HIDE DEF d2
<1>3. Stored(st2)
  BY <1>0, <1>1, <1>2 DEF Stored, Good, d2
<1>4. Nested(st2.data)
  BY <1>1, <1>2 DEF Nested, Good
<1>5. ConstantsStay(st2.data)
  BY <1>1, <1>2 DEF ConstantsStay, Good
<1>6. OneOwner(st2, hand)
  <2>1. \A x \in DOMAIN st.data : /\ Owns(st2.data[x]) = Owns(st.data[x]) /\ st2.data[x].at = st.data[x].at
                                 /\ PlaceFor(st2.data[x]) = PlaceFor(st.data[x])
    BY <1>1, <1>2 DEF Owns, PlaceFor
  <2>2. Owned(st2.data) = Owned(st.data)
    BY <1>1, <2>1 DEF Owned
  <2> QED BY <1>1, <2>1, <2>2 DEF OneOwner, Good
<1>7. Counted(st2.data, held2)
  <2>1. \A p \in Ids : MetaOf(st2.data, p) = MetaOf(st.data, p) /\ ValueOf(st2.data, p) = ValueOf(st.data, p)
    BY <1>1, <1>2 DEF MetaOf, ValueOf
  <2>2. \A p \in Ids : Inner(st2.data, p) = Inner(st.data, p)
    BY <2>1 DEF Inner
  <2>3. Inner(st.data, o) \in Nat /\ held[o] \in Nat /\ st.data[o].refs \in Nat
    BY <1>0, CountsFinite DEF Good, Stored, Datum
  <2>4. held2[o] = k /\ \A p \in Ids \ {o} : held2[p] = held[p]
    BY <1>0 DEF Good
  <2>5. Counted(st.data, held) /\ DOMAIN st.data \subseteq Ids
    BY DEF Good, Stored
  <2> HIDE DEF held2
  <2>6. n = k + Inner(st.data, o)
    BY <2>3, <2>5 DEF Counted
  <2> QED BY <1>1, <1>2, <2>2, <2>4, <2>5, <2>6 DEF Counted
<1>8. held2 \in [Ids -> Nat]
  BY <1>0 DEF Good
<1>9. Extends(st, st2) /\ Extends(st2, st)
  BY <1>1, <1>2 DEF Extends, SameParts
<1> HIDE DEF held2
<1> QED BY <1>3, <1>4, <1>5, <1>6, <1>7, <1>8, <1>9 DEF Good, held2

(* References to constants are not counted.                                  *)
LEMMA ConstantHeld ==
  ASSUME NEW st, NEW held, NEW hand, Good(st, held, hand), NEW o \in DOMAIN Constants, NEW k \in Nat
  PROVE  Good(st, [held EXCEPT ![o] = k], hand)
<1>1. o \in Ids /\ o \in DOMAIN st.data
  BY DEF Ids, Good, ConstantsStay
<1> DEFINE held2 == [held EXCEPT ![o] = k]
<1>2. held2 \in [Ids -> Nat] /\ \A p \in Ids \ {o} : held2[p] = held[p]
  BY <1>1 DEF Good
<1> HIDE DEF held2
<1>3. Counted(st.data, held2)
  BY <1>1, <1>2 DEF Counted, Good, Stored
<1> QED BY <1>2, <1>3 DEF Good, held2

(* One element more or less in a count.                                      *)
LEMMA CountsLess ==
  ASSUME NEW S, IsFiniteSet(S), NEW x
  PROVE  Cardinality(S \ {x}) = Cardinality(S) - (IF x \in S THEN 1 ELSE 0)
<1>1. CASE x \in S
  BY <1>1, FS_RemoveElement
<1>2. CASE x \notin S
  <2>1. S \ {x} = S /\ Cardinality(S) \in Nat
    BY <1>2, FS_CardinalityType
  <2> QED BY <1>2, <2>1
<1> QED BY <1>1, <1>2

LEMMA CountsMore ==
  ASSUME NEW S, IsFiniteSet(S), NEW x, x \notin S
  PROVE  Cardinality(S \cup {x}) = Cardinality(S) + 1
BY FS_AddElement

(* The store without o and the buffer that o owns.                           *)
Cut(st, o) == [data |-> Without(st.data, o),
               buffers |-> IF Owns(st.data[o]) THEN Without(st.buffers, st.data[o].at) ELSE st.buffers]

One(p, q) == IF p = q THEN 1 ELSE 0

(* When a data goes that only the caller has, what it refers to is in hand.  *)
LEMMA DataCut ==
  ASSUME NEW st, NEW held, NEW hand, Good(st, held, hand),
         NEW o \in DOMAIN st.data, o \notin DOMAIN Constants, st.data[o].refs =< 1, held[o] > 0,
         NEW held2, held2 = [p \in Ids |-> IF p = o THEN 0
                                          ELSE held[p] + One(p, st.data[o].meta) + One(p, st.data[o].value)]
  PROVE  /\ Good(Cut(st, o), held2, hand) /\ Extends(Cut(st, o), st) /\ held[o] = 1
         /\ st.data[o].meta # o /\ st.data[o].value # o
<1> DEFINE st2 == Cut(st, o)
           d == st.data[o]
<1>0. /\ o \in Ids /\ d \in Datum /\ held \in [Ids -> Nat] /\ DOMAIN st.data \subseteq Ids
      /\ Counted(st.data, held) /\ OneOwner(st, hand) /\ Nested(st.data)
  BY DEF Good, Stored
<1>1. /\ DOMAIN st2.data = DOMAIN st.data \ {o} /\ \A x \in DOMAIN st.data \ {o} : st2.data[x] = st.data[x]
      /\ st2.buffers = IF Owns(d) THEN Without(st.buffers, d.at) ELSE st.buffers
      /\ st2 = [data |-> st2.data, buffers |-> st2.buffers]
      /\ st2.data = Without(st.data, o)
  BY DEF Cut, Without
<1>2. /\ held[o] = 1 /\ Inner(st.data, o) = 0 /\ MetaOf(st.data, o) = {} /\ ValueOf(st.data, o) = {}
  <2>1. /\ st.data[o].refs = held[o] + Inner(st.data, o) /\ st.data[o].refs > 0
    BY <1>0 DEF Counted
  <2>2. Inner(st.data, o) \in Nat /\ held[o] \in Nat /\ st.data[o].refs \in Nat
    BY <1>0, CountsFinite DEF Datum
  <2>3. held[o] = 1 /\ Inner(st.data, o) = 0
    BY <2>1, <2>2
  <2>4. /\ IsFiniteSet(MetaOf(st.data, o)) /\ IsFiniteSet(ValueOf(st.data, o))
        /\ Cardinality(MetaOf(st.data, o)) \in Nat /\ Cardinality(ValueOf(st.data, o)) \in Nat
    BY <1>0, CountsFinite
  <2>5. Cardinality(MetaOf(st.data, o)) = 0 /\ Cardinality(ValueOf(st.data, o)) = 0
    BY <2>3, <2>4 DEF Inner
  <2> QED BY <2>3, <2>4, <2>5, FS_EmptySet
<1>3. d.meta # o /\ d.value # o /\ \A x \in DOMAIN st.data : st.data[x].meta # o /\ st.data[x].value # o
  BY <1>2 DEF MetaOf, ValueOf
<1> HIDE DEF st2
<1>4. Stored(st2)
  BY <1>1 DEF Stored, Good, Without
<1>5. Nested(st2.data)
  BY <1>0, <1>1, <1>3 DEF Nested
<1>6. ConstantsStay(st2.data)
  BY <1>1 DEF ConstantsStay, Good
<1>7. OneOwner(st2, hand)
  <2>2. CASE Owns(d)
    <3>1. \A x \in DOMAIN st.data \ {o} : Owns(st.data[x]) => st.data[x].at # d.at
      BY <1>0, <2>2 DEF OneOwner
    <3>2. Owned(st2.data) = Owned(st.data) \ {d.at}
      BY <1>1, <2>2, <3>1 DEF Owned
    <3>3. d.at \notin Kept \cup hand
      BY <1>0, <2>2 DEF OneOwner
    <3>4. /\ DOMAIN st2.buffers = DOMAIN st.buffers \ {d.at}
          /\ \A b \in DOMAIN st2.buffers : st2.buffers[b] = st.buffers[b]
      BY <1>1, <2>2 DEF Without
    <3>5. \A x \in DOMAIN st.data : Owns(st.data[x]) => st.data[x].at \in DOMAIN st.buffers
      BY <1>0, BuffersThere DEF Owns
    <3>6. DOMAIN st2.buffers = Kept \cup hand \cup Owned(st2.data)
      BY <1>0, <3>2, <3>3, <3>4 DEF OneOwner
    <3>7. \A x \in DOMAIN st2.data : Owns(st2.data[x]) => st2.buffers[st2.data[x].at] = st.buffers[st.data[x].at]
      BY <1>1, <3>1, <3>4, <3>5
    <3> QED BY <1>0, <1>1, <3>6, <3>7 DEF OneOwner
  <2>3. CASE ~ Owns(d)
    <3>1. Owned(st2.data) = Owned(st.data)
      BY <1>1, <2>3 DEF Owned
    <3> QED BY <1>0, <1>1, <2>3, <3>1 DEF OneOwner
  <2> QED BY <2>2, <2>3
<1>8. held2 \in [Ids -> Nat] /\ hand \subseteq 1..MaxBuffers
  BY <1>0 DEF Good, One
<1>9. Counted(st2.data, held2)
  <2>1. ASSUME NEW p \in Ids
        PROVE  Inner(st2.data, p) = Inner(st.data, p) - One(p, d.meta) - One(p, d.value)
    <3>1. MetaOf(st2.data, p) = MetaOf(st.data, p) \ {o} /\ ValueOf(st2.data, p) = ValueOf(st.data, p) \ {o}
      BY <1>1 DEF MetaOf, ValueOf
    <3>2. /\ IsFiniteSet(MetaOf(st.data, p)) /\ IsFiniteSet(ValueOf(st.data, p))
          /\ Cardinality(MetaOf(st.data, p)) \in Nat /\ Cardinality(ValueOf(st.data, p)) \in Nat
      BY <1>0, CountsFinite
    <3>3. o \in MetaOf(st.data, p) <=> p = d.meta
      BY DEF MetaOf
    <3>4. o \in ValueOf(st.data, p) <=> p = d.value
      BY DEF ValueOf
    <3>5. Cardinality(MetaOf(st2.data, p)) = Cardinality(MetaOf(st.data, p)) - One(p, d.meta)
      BY <3>1, <3>2, <3>3, CountsLess DEF One
    <3>6. Cardinality(ValueOf(st2.data, p)) = Cardinality(ValueOf(st.data, p)) - One(p, d.value)
      BY <3>1, <3>2, <3>4, CountsLess DEF One
    <3>7. One(p, d.meta) \in Nat /\ One(p, d.value) \in Nat
      BY DEF One
    <3> QED BY <3>2, <3>5, <3>6, <3>7 DEF Inner
  <2>2. ASSUME NEW p \in DOMAIN st2.data \ DOMAIN Constants
        PROVE  st2.data[p].refs = held2[p] + Inner(st2.data, p) /\ st2.data[p].refs > 0
    <3>1. p \in Ids /\ p # o /\ p \in DOMAIN st.data \ DOMAIN Constants /\ st2.data[p] = st.data[p]
      BY <1>0, <1>1
    <3>2. st.data[p].refs = held[p] + Inner(st.data, p) /\ st.data[p].refs > 0
      BY <1>0, <3>1 DEF Counted
    <3>3. held2[p] = held[p] + One(p, d.meta) + One(p, d.value)
      BY <3>1
    <3>4. One(p, d.meta) \in Nat /\ One(p, d.value) \in Nat /\ held[p] \in Nat /\ Inner(st.data, p) \in Nat
      BY <1>0, <3>1, CountsFinite DEF One
    <3> QED BY <2>1, <3>1, <3>2, <3>3, <3>4
  <2>3. ASSUME NEW p \in Ids \ DOMAIN st2.data PROVE held2[p] = 0
    <3>1. CASE p # o
      <4>1. p \notin DOMAIN st.data /\ p # None
        BY <1>1, <3>1, Distinct
      <4>2. p # d.meta /\ p # d.value
        BY <1>0, <4>1 DEF Nested
      <4>3. held[p] = 0
        BY <1>0, <4>1 DEF Counted
      <4> QED BY <3>1, <4>2, <4>3 DEF One
    <3> QED BY <3>1
  <2> QED BY <2>2, <2>3 DEF Counted
<1>10. Extends(st2, st)
  BY <1>1 DEF Extends, SameParts, Without
<1> QED BY <1>2, <1>3, <1>4, <1>5, <1>6, <1>7, <1>8, <1>9, <1>10 DEF Good, st2

(* st2 is st but for the value of m.                                         *)
ValueNow(st, st2, m, v) ==
  /\ st2.buffers = st.buffers /\ DOMAIN st2.data = DOMAIN st.data /\ st2.data[m].value = v
  /\ \A x \in DOMAIN st.data :
       /\ st2.data[x].kind = st.data[x].kind /\ st2.data[x].meta = st.data[x].meta
       /\ st2.data[x].at = st.data[x].at /\ st2.data[x].inside = st.data[x].inside
       /\ x # m => st2.data[x].value = st.data[x].value

(* A map takes over a reference to v, and its old value comes to hand.       *)
LEMMA ValueSet ==
  ASSUME NEW st, NEW held, NEW hand, Good(st, held, hand),
         NEW m \in DOMAIN st.data, st.data[m].kind = "map",
         NEW v \in DOMAIN st.data, st.data[v].kind # "map", st.data[v].meta = None, held[v] > 0,
         NEW st2, st2 = [st EXCEPT !.data[m].value = v],
         NEW held2, held2 = [p \in Ids |-> held[p] - One(p, v) + One(p, st.data[m].value)]
  PROVE  Good(st2, held2, hand) /\ ValueNow(st, st2, m, v)
<1> DEFINE d2 == [st.data[m] EXCEPT !.value = v]
           old == st.data[m].value
<1>0. /\ m \in Ids /\ v \in Ids /\ st.data[m] \in Datum /\ held \in [Ids -> Nat] /\ DOMAIN st.data \subseteq Ids
      /\ Counted(st.data, held) /\ OneOwner(st, hand) /\ Nested(st.data) /\ ConstantsStay(st.data)
      /\ m \notin DOMAIN Constants /\ m # v
  BY DEF Good, Stored, ConstantsStay
<1>1. /\ st2 = [data |-> [st.data EXCEPT ![m] = d2], buffers |-> st.buffers]
      /\ st.data \in [DOMAIN st.data -> Datum]
  BY DEF Good, Stored
<1>2. /\ st2.buffers = st.buffers /\ DOMAIN st2.data = DOMAIN st.data
      /\ st2.data[m] = d2 /\ \A x \in DOMAIN st.data \ {m} : st2.data[x] = st.data[x]
  BY <1>1
<1>3. v \in 0..MaxData \cup DOMAIN Constants
  BY <1>0, OwnedAssumption DEF Ids
<1>4. /\ d2 \in Datum /\ d2.refs = st.data[m].refs /\ d2.kind = "map" /\ d2.at = st.data[m].at
      /\ d2.release = st.data[m].release /\ d2.block = st.data[m].block
      /\ d2.constant = st.data[m].constant /\ d2.meta = st.data[m].meta /\ d2.value = v
      /\ d2.inside = st.data[m].inside
  BY <1>0, <1>3 DEF Datum
<1> HIDE DEF d2
<1>6. Stored(st2)
  BY <1>1, <1>2, <1>4 DEF Stored, Good
<1>7. Nested(st2.data)
  BY <1>0, <1>2, <1>4 DEF Nested
<1>8. ConstantsStay(st2.data)
  BY <1>0, <1>2, <1>4 DEF ConstantsStay
<1>9. OneOwner(st2, hand)
  <2>1. \A x \in DOMAIN st.data : /\ Owns(st2.data[x]) = Owns(st.data[x]) /\ st2.data[x].at = st.data[x].at
                                 /\ PlaceFor(st2.data[x]) = PlaceFor(st.data[x])
    BY <1>2, <1>4 DEF Owns, PlaceFor
  <2>2. Owned(st2.data) = Owned(st.data)
    BY <1>2, <2>1 DEF Owned
  <2> QED BY <1>0, <1>2, <2>1, <2>2 DEF OneOwner
<1>10. held2 \in [Ids -> Nat]
  BY <1>0 DEF One
<1>11. Counted(st2.data, held2)
  <2>1. ASSUME NEW p \in Ids
        PROVE  Inner(st2.data, p) = Inner(st.data, p) + One(p, v) - One(p, old)
    <3>1. MetaOf(st2.data, p) = MetaOf(st.data, p)
      BY <1>2, <1>4 DEF MetaOf
    <3>2. ValueOf(st2.data, p) = IF p = v THEN (ValueOf(st.data, p) \ {m}) \cup {m} ELSE ValueOf(st.data, p) \ {m}
      BY <1>2, <1>4 DEF ValueOf
    <3>3. /\ IsFiniteSet(MetaOf(st.data, p)) /\ IsFiniteSet(ValueOf(st.data, p))
          /\ Cardinality(MetaOf(st.data, p)) \in Nat /\ Cardinality(ValueOf(st.data, p)) \in Nat
      BY <1>0, CountsFinite
    <3>4. m \in ValueOf(st.data, p) <=> p = old
      BY DEF ValueOf
    <3>5. Cardinality(ValueOf(st.data, p) \ {m}) = Cardinality(ValueOf(st.data, p)) - One(p, old)
      BY <3>3, <3>4, CountsLess DEF One
    <3>6. IsFiniteSet(ValueOf(st.data, p) \ {m})
      BY <3>3, FS_Subset
    <3>7. Cardinality((ValueOf(st.data, p) \ {m}) \cup {m}) = Cardinality(ValueOf(st.data, p) \ {m}) + 1
      BY <3>6, CountsMore
    <3>8. Cardinality(ValueOf(st2.data, p)) = Cardinality(ValueOf(st.data, p)) - One(p, old) + One(p, v)
      BY <3>2, <3>3, <3>5, <3>7 DEF One
    <3>9. One(p, v) \in Nat /\ One(p, old) \in Nat
      BY DEF One
    <3> QED BY <3>1, <3>3, <3>8, <3>9 DEF Inner
  <2>2. ASSUME NEW p \in DOMAIN st2.data \ DOMAIN Constants
        PROVE  st2.data[p].refs = held2[p] + Inner(st2.data, p) /\ st2.data[p].refs > 0
    <3>1. p \in Ids /\ p \in DOMAIN st.data \ DOMAIN Constants /\ st2.data[p].refs = st.data[p].refs
      BY <1>0, <1>2, <1>4
    <3>2. st.data[p].refs = held[p] + Inner(st.data, p) /\ st.data[p].refs > 0
      BY <1>0, <3>1 DEF Counted
    <3>3. held2[p] = held[p] - One(p, v) + One(p, old)
      BY <3>1
    <3>4. One(p, v) \in Nat /\ One(p, old) \in Nat /\ held[p] \in Nat /\ Inner(st.data, p) \in Nat
      BY <1>0, <3>1, CountsFinite DEF One
    <3> QED BY <2>1, <3>1, <3>2, <3>3, <3>4
  <2>3. ASSUME NEW p \in Ids \ DOMAIN st2.data PROVE held2[p] = 0
    <3>1. p \notin DOMAIN st.data /\ p # None /\ p # v
      BY <1>2, Distinct
    <3>2. p # old
      BY <1>0, <3>1 DEF Nested
    <3>3. held[p] = 0
      BY <1>0, <3>1 DEF Counted
    <3> QED BY <3>1, <3>2, <3>3 DEF One
  <2> QED BY <2>2, <2>3 DEF Counted
<1>12. hand \subseteq 1..MaxBuffers
  BY DEF Good
<1>13. ValueNow(st, st2, m, v)
  BY <1>0, <1>2, <1>4 DEF ValueNow
<1> QED BY <1>6, <1>7, <1>8, <1>9, <1>10, <1>11, <1>12, <1>13 DEF Good

(* st2 is st but for the metadata of o.                                      *)
MetaIsSet(st, st2, o, m) ==
  /\ Stored(st) /\ m \in 0..MaxData => Stored(st2)
  /\ st2.buffers = st.buffers /\ DOMAIN st2.data = DOMAIN st.data
  /\ st2.data[o] = [st.data[o] EXCEPT !.meta = m]
  /\ \A x \in DOMAIN st.data \ {o} : st2.data[x] = st.data[x]

LEMMA MetaSets ==
  ASSUME NEW st, Stored(st), NEW o \in DOMAIN st.data, NEW m,
         NEW st2, st2 = [st EXCEPT !.data[o].meta = m]
  PROVE  MetaIsSet(st, st2, o, m)
<1> DEFINE d2 == [st.data[o] EXCEPT !.meta = m]
<1>1. /\ st2 = [data |-> [st.data EXCEPT ![o] = d2], buffers |-> st.buffers]
      /\ st.data \in [DOMAIN st.data -> Datum] /\ st.data[o] \in Datum
  BY DEF Stored
<1>2. /\ st2.buffers = st.buffers /\ DOMAIN st2.data = DOMAIN st.data
      /\ st2.data[o] = d2 /\ \A x \in DOMAIN st.data \ {o} : st2.data[x] = st.data[x]
  BY <1>1
<1>3. m \in 0..MaxData => d2 \in Datum
  BY <1>1 DEF Datum
<1>4. d2 = [st.data[o] EXCEPT !.meta = m]
  OBVIOUS
<1> HIDE DEF d2
<1>5. m \in 0..MaxData => Stored(st2)
  BY <1>1, <1>2, <1>3 DEF Stored
<1> QED BY <1>2, <1>4, <1>5 DEF MetaIsSet

(* A data takes over a reference to its metadata.                            *)
LEMMA MetaSet ==
  ASSUME NEW st, NEW held, NEW hand, Good(st, held, hand),
         NEW o \in DOMAIN st.data, st.data[o].kind # "map", st.data[o].meta = None,
         \A x \in DOMAIN st.data : st.data[x].value # o,
         NEW m \in DOMAIN st.data, st.data[m].kind = "map", held[m] > 0,
         NEW st2, MetaIsSet(st, st2, o, m),
         NEW held2 \in [Ids -> Nat], \A p \in Ids : held2[p] = held[p] - One(p, m)
  PROVE  Good(st2, held2, hand)
<1> DEFINE d2 == [st.data[o] EXCEPT !.meta = m]
<1>0. /\ m \in Ids /\ o \in Ids /\ st.data[o] \in Datum /\ held \in [Ids -> Nat] /\ DOMAIN st.data \subseteq Ids
      /\ Counted(st.data, held) /\ OneOwner(st, hand) /\ Nested(st.data) /\ ConstantsStay(st.data)
      /\ m \notin DOMAIN Constants /\ m # o /\ m # None
  BY Distinct DEF Good, Stored, ConstantsStay
<1>2. /\ st2.buffers = st.buffers /\ DOMAIN st2.data = DOMAIN st.data
      /\ st2.data[o] = d2 /\ \A x \in DOMAIN st.data \ {o} : st2.data[x] = st.data[x]
  BY DEF MetaIsSet
<1>3. m \in 0..MaxData
  BY <1>0, OwnedAssumption DEF Ids
<1>4. /\ d2 \in Datum /\ d2.refs = st.data[o].refs /\ d2.kind = st.data[o].kind /\ d2.at = st.data[o].at
      /\ d2.release = st.data[o].release /\ d2.block = st.data[o].block
      /\ d2.constant = st.data[o].constant /\ d2.meta = m /\ d2.value = st.data[o].value
  BY <1>0, <1>3 DEF Datum
<1> HIDE DEF d2
<1>6. Stored(st2)
  BY <1>3 DEF Good, MetaIsSet
<1>7. Nested(st2.data)
  BY <1>0, <1>2, <1>4 DEF Nested
<1>8. ConstantsStay(st2.data)
  BY <1>0, <1>2, <1>4 DEF ConstantsStay
<1>9. OneOwner(st2, hand)
  <2>1. \A x \in DOMAIN st.data : /\ Owns(st2.data[x]) = Owns(st.data[x]) /\ st2.data[x].at = st.data[x].at
                                 /\ PlaceFor(st2.data[x]) = PlaceFor(st.data[x])
    BY <1>2, <1>4 DEF Owns, PlaceFor
  <2>2. Owned(st2.data) = Owned(st.data)
    BY <1>2, <2>1 DEF Owned
  <2> QED BY <1>0, <1>2, <2>1, <2>2 DEF OneOwner
<1>10. held2 \in [Ids -> Nat] /\ \A p \in Ids : held2[p] = held[p] - One(p, m)
  BY <1>0 DEF One
<1>11. Counted(st2.data, held2)
  <2>1. ASSUME NEW p \in Ids
        PROVE  Inner(st2.data, p) = Inner(st.data, p) + One(p, m)
    <3>1. ValueOf(st2.data, p) = ValueOf(st.data, p)
      BY <1>2, <1>4 DEF ValueOf
    <3>2. MetaOf(st2.data, p) = IF p = m THEN MetaOf(st.data, p) \cup {o} ELSE MetaOf(st.data, p)
      BY <1>2, <1>4, Distinct DEF MetaOf
    <3>3. /\ IsFiniteSet(MetaOf(st.data, p)) /\ IsFiniteSet(ValueOf(st.data, p))
          /\ Cardinality(MetaOf(st.data, p)) \in Nat /\ Cardinality(ValueOf(st.data, p)) \in Nat
      BY <1>0, CountsFinite
    <3>4. o \notin MetaOf(st.data, p)
      BY Distinct DEF MetaOf
    <3>5. Cardinality(MetaOf(st.data, p) \cup {o}) = Cardinality(MetaOf(st.data, p)) + 1
      BY <3>3, <3>4, CountsMore
    <3>6. Cardinality(MetaOf(st2.data, p)) = Cardinality(MetaOf(st.data, p)) + One(p, m)
      BY <3>2, <3>3, <3>5 DEF One
    <3>7. One(p, m) \in Nat
      BY DEF One
    <3> QED BY <3>1, <3>3, <3>6, <3>7 DEF Inner
  <2>2. ASSUME NEW p \in DOMAIN st2.data \ DOMAIN Constants
        PROVE  st2.data[p].refs = held2[p] + Inner(st2.data, p) /\ st2.data[p].refs > 0
    <3>1. p \in Ids /\ p \in DOMAIN st.data \ DOMAIN Constants /\ st2.data[p].refs = st.data[p].refs
      BY <1>0, <1>2, <1>4
    <3>2. st.data[p].refs = held[p] + Inner(st.data, p) /\ st.data[p].refs > 0
      BY <1>0, <3>1 DEF Counted
    <3>4. One(p, m) \in Nat /\ held[p] \in Nat /\ Inner(st.data, p) \in Nat
      BY <1>0, <3>1, CountsFinite DEF One
    <3> QED BY <1>10, <2>1, <3>1, <3>2, <3>4
  <2>3. ASSUME NEW p \in Ids \ DOMAIN st2.data PROVE held2[p] = 0
    <3>1. p \notin DOMAIN st.data /\ p # m
      BY <1>2
    <3>3. held[p] = 0
      BY <1>0, <3>1 DEF Counted
    <3> QED BY <1>10, <3>1, <3>3 DEF One
  <2> QED BY <2>2, <2>3 DEF Counted
<1>12. hand \subseteq 1..MaxBuffers
  BY DEF Good
<1> QED BY <1>6, <1>7, <1>8, <1>9, <1>10, <1>11, <1>12 DEF Good

(* st2 is st when o has given its buffer away.                               *)
AsGiven(st, st2, o) ==
  /\ st.data[o].at \in 1..MaxBuffers /\ st2.buffers = st.buffers /\ DOMAIN st2.data = DOMAIN st.data
  /\ \A x \in DOMAIN st.data : /\ st2.data[x].meta = st.data[x].meta /\ st2.data[x].value = st.data[x].value
                                /\ st2.data[x].kind = st.data[x].kind
  /\ st2.data[o].at = None
  /\ \A x \in DOMAIN st.data \ {o} : st2.data[x] = st.data[x]

(* A data that gives its buffer away has none.                               *)
LEMMA BufferGiven ==
  ASSUME NEW st, NEW held, NEW hand, Good(st, held, hand),
         NEW o \in DOMAIN st.data, Owns(st.data[o]),
         NEW st2, st2 = [st EXCEPT !.data[o].at = None]
  PROVE  Good(st2, held, hand \cup {st.data[o].at}) /\ AsGiven(st, st2, o)
<1> DEFINE d2 == [st.data[o] EXCEPT !.at = None]
           b == st.data[o].at
           hand2 == hand \cup {b}
<1>0. /\ o \in Ids /\ st.data[o] \in Datum /\ held \in [Ids -> Nat] /\ DOMAIN st.data \subseteq Ids
      /\ Counted(st.data, held) /\ OneOwner(st, hand) /\ Nested(st.data) /\ ConstantsStay(st.data)
  BY Distinct DEF Good, Stored
<1>1. /\ st2 = [data |-> [st.data EXCEPT ![o] = d2], buffers |-> st.buffers]
      /\ st.data \in [DOMAIN st.data -> Datum]
  BY DEF Good, Stored
<1>2. /\ st2.buffers = st.buffers /\ DOMAIN st2.data = DOMAIN st.data
      /\ st2.data[o] = d2 /\ \A x \in DOMAIN st.data \ {o} : st2.data[x] = st.data[x]
  BY <1>1
<1>4. /\ d2 \in Datum /\ d2.refs = st.data[o].refs /\ d2.kind = st.data[o].kind /\ d2.at = None
      /\ d2.release = st.data[o].release /\ d2.block = st.data[o].block
      /\ d2.constant = st.data[o].constant /\ d2.meta = st.data[o].meta /\ d2.value = st.data[o].value
  BY <1>0 DEF Datum
<1>5. d2 = [st.data[o] EXCEPT !.at = None] /\ ~ Owns(d2)
  BY <1>4 DEF Owns, None
<1> HIDE DEF d2
<1>3. b \in 1..MaxBuffers /\ b \notin Kept /\ b \notin hand /\ b \in DOMAIN st.buffers
  <2>1. b > 0 /\ b \in {Inside, None} \cup 1..MaxBuffers \cup Kept /\ b \notin Kept \cup hand
    BY <1>0 DEF Owns, Datum, OneOwner
  <2>2. b \in 1..MaxBuffers \cup Kept
    BY <2>1, Distinct
  <2> QED BY <1>0, <2>1, <2>2, BuffersThere
<1>6. Stored(st2)
  BY <1>1, <1>2, <1>4 DEF Stored, Good
<1>7. Nested(st2.data)
  BY <1>0, <1>2, <1>4, Distinct DEF Nested
<1>8. ConstantsStay(st2.data)
  BY <1>0, <1>2, <1>4 DEF ConstantsStay
<1>9. OneOwner(st2, hand2)
  <2>1. \A x \in DOMAIN st.data \ {o} : Owns(st.data[x]) => st.data[x].at # b
    BY <1>0 DEF OneOwner
  <2>2. Owned(st2.data) = Owned(st.data) \ {b}
    BY <1>2, <1>5, <2>1 DEF Owned
  <2>3. DOMAIN st2.buffers = Kept \cup hand2 \cup Owned(st2.data)
    <3>1. b \in Owned(st.data)
      BY DEF Owned
    <3> QED BY <1>0, <1>2, <2>2, <3>1 DEF OneOwner
  <2>4. None > 0 <=> FALSE
    BY DEF None
  <2> QED BY <1>0, <1>2, <1>3, <1>4, <1>5, <2>1, <2>3, <2>4 DEF OneOwner
<1>10. Counted(st2.data, held)
  <2>1. \A p \in Ids : MetaOf(st2.data, p) = MetaOf(st.data, p) /\ ValueOf(st2.data, p) = ValueOf(st.data, p)
    BY <1>2, <1>4 DEF MetaOf, ValueOf
  <2>2. \A p \in Ids : Inner(st2.data, p) = Inner(st.data, p)
    BY <2>1 DEF Inner
  <2> QED BY <1>0, <1>2, <1>4, <2>2 DEF Counted
<1>12. hand2 \subseteq 1..MaxBuffers
  BY <1>3 DEF Good
<1> HIDE DEF hand2
<1>13. \A x \in DOMAIN st.data : /\ st2.data[x].meta = st.data[x].meta /\ st2.data[x].value = st.data[x].value
                               /\ st2.data[x].kind = st.data[x].kind
  BY <1>2, <1>4
<1>14. AsGiven(st, st2, o)
  BY <1>2, <1>3, <1>4, <1>13 DEF AsGiven
<1> QED BY <1>6, <1>7, <1>8, <1>9, <1>10, <1>12, <1>14, <1>0 DEF Good, hand2

(* Arrays become binaries and binaries arrays.                               *)
LEMMA KindChanged ==
  ASSUME NEW st, NEW held, NEW hand, Good(st, held, hand),
         NEW o \in DOMAIN st.data, st.data[o].kind \in {"array", "binary"},
         NEW kind \in {"array", "binary"},
         NEW st2, st2 = [st EXCEPT !.data[o].kind = kind]
  PROVE  Good(st2, held, hand) /\ Extends(st, st2) /\ Extends(st2, st)
<1> DEFINE d2 == [st.data[o] EXCEPT !.kind = kind]
<1>0. /\ o \in Ids /\ st.data[o] \in Datum /\ held \in [Ids -> Nat] /\ DOMAIN st.data \subseteq Ids
      /\ Counted(st.data, held) /\ OneOwner(st, hand) /\ Nested(st.data) /\ ConstantsStay(st.data)
  BY Distinct DEF Good, Stored
<1>1. /\ st2 = [data |-> [st.data EXCEPT ![o] = d2], buffers |-> st.buffers]
      /\ st.data \in [DOMAIN st.data -> Datum]
  BY DEF Good, Stored
<1>2. /\ st2.buffers = st.buffers /\ DOMAIN st2.data = DOMAIN st.data
      /\ st2.data[o] = d2 /\ \A x \in DOMAIN st.data \ {o} : st2.data[x] = st.data[x]
  BY <1>1
<1>4. /\ d2 \in Datum /\ d2.refs = st.data[o].refs /\ d2.kind = kind /\ d2.at = st.data[o].at
      /\ d2.inside = st.data[o].inside /\ d2.release = st.data[o].release /\ d2.block = st.data[o].block
      /\ d2.constant = st.data[o].constant /\ d2.meta = st.data[o].meta /\ d2.value = st.data[o].value
  BY <1>0 DEF Datum
<1> HIDE DEF d2
<1>6. Stored(st2)
  BY <1>1, <1>2, <1>4 DEF Stored, Good
<1>7. Nested(st2.data)
  BY <1>0, <1>2, <1>4 DEF Nested
<1>8. ConstantsStay(st2.data)
  BY <1>0, <1>2, <1>4 DEF ConstantsStay
<1>9. OneOwner(st2, hand)
  <2>1. \A x \in DOMAIN st.data : /\ Owns(st2.data[x]) = Owns(st.data[x]) /\ st2.data[x].at = st.data[x].at
                                 /\ PlaceFor(st2.data[x]) = PlaceFor(st.data[x])
    BY <1>2, <1>4 DEF Owns, PlaceFor, PlaceOf
  <2>2. Owned(st2.data) = Owned(st.data)
    BY <1>2, <2>1 DEF Owned
  <2> QED BY <1>0, <1>2, <2>1, <2>2 DEF OneOwner
<1>10. Counted(st2.data, held)
  <2>1. \A p \in Ids : MetaOf(st2.data, p) = MetaOf(st.data, p) /\ ValueOf(st2.data, p) = ValueOf(st.data, p)
    BY <1>2, <1>4 DEF MetaOf, ValueOf
  <2>2. \A p \in Ids : Inner(st2.data, p) = Inner(st.data, p)
    BY <2>1 DEF Inner
  <2> QED BY <1>0, <1>2, <1>4, <2>2 DEF Counted
<1>12. hand \subseteq 1..MaxBuffers
  BY DEF Good
<1>13. Extends(st, st2) /\ Extends(st2, st)
  BY <1>2, <1>4 DEF Extends, SameParts
<1> QED BY <1>0, <1>6, <1>7, <1>8, <1>9, <1>10, <1>12, <1>13 DEF Good

-----------------------------------------------------------------------------
(* iot_data_free *)

Fewer(held, o) == [held EXCEPT ![o] = @ - 1]

LEMMA ExtendsTransitive ==
  ASSUME NEW a, NEW b, NEW c, Extends(a, b), Extends(b, c)
  PROVE  Extends(a, c)
BY DEF Extends, SameParts

(* less without o, whose fields were d.                                      *)
CutAs(less, o, d) == [data |-> Without(less.data, o),
                      buffers |-> IF Owns(d) THEN Without(less.buffers, d.at) ELSE less.buffers]

(* The three ways through iot_data_free.                                     *)
LEMMA FreeCases ==
  ASSUME NEW st, NEW o, NEW less, st = [data |-> st.data, buffers |-> st.buffers],
         less = [data |-> less.data, buffers |-> less.buffers]
  PROVE  /\ o = None => FreeAfter(st, o, less) = st
         /\ o # None /\ st.data[o].constant => FreeAfter(st, o, less) = st
         /\ o # None /\ ~ st.data[o].constant /\ st.data[o].refs > 1 =>
              FreeAfter(st, o, less) = [st EXCEPT !.data[o].refs = @ - 1]
         /\ o # None /\ ~ st.data[o].constant /\ ~ (st.data[o].refs > 1) =>
              FreeAfter(st, o, less) = CutAs(less, o, st.data[o])
<1>1. /\ o = None => FreeAfter(st, o, less) = st
      /\ o # None /\ st.data[o].constant => FreeAfter(st, o, less) = st
      /\ o # None /\ ~ st.data[o].constant /\ st.data[o].refs > 1 =>
           FreeAfter(st, o, less) = [st EXCEPT !.data[o].refs = @ - 1]
  BY DEF FreeAfter
<1>2. ASSUME o # None, ~ st.data[o].constant, ~ (st.data[o].refs > 1)
      PROVE  FreeAfter(st, o, less) = CutAs(less, o, st.data[o])
  <2> DEFINE d == st.data[o]
             freed == IF d.release /\ d.at > 0 THEN Released(less, d.at) ELSE less
  <2>1. FreeAfter(st, o, less) = [freed EXCEPT !.data = Without(@, o)]
    BY <1>2 DEF FreeAfter
  <2>2. CASE Owns(d)
    <3>1. freed = [data |-> less.data, buffers |-> Without(less.buffers, d.at)]
      BY <2>2 DEF Owns, Released
    <3> QED BY <2>1, <2>2, <3>1 DEF CutAs
  <2>3. CASE ~ Owns(d)
    <3>1. freed = less
      BY <2>3 DEF Owns
    <3> QED BY <2>1, <2>3, <3>1 DEF CutAs
  <2> QED BY <2>2, <2>3
<1> QED BY <1>1, <1>2

LEMMA FreeForm ==
  ASSUME NEW st, NEW o, NEW less, st = [data |-> st.data, buffers |-> st.buffers],
         less = [data |-> less.data, buffers |-> less.buffers],
         NEW st2, st2 = FreeAfter(st, o, less)
  PROVE  st2 = [data |-> st2.data, buffers |-> st2.buffers]
<1>1. CASE o = None \/ (o # None /\ st.data[o].constant)
  BY <1>1, FreeCases
<1>2. CASE o # None /\ ~ st.data[o].constant /\ st.data[o].refs > 1
  BY <1>2, FreeCases
<1>3. CASE o # None /\ ~ st.data[o].constant /\ ~ (st.data[o].refs > 1)
  BY <1>3, FreeCases DEF CutAs
<1> QED BY <1>1, <1>2, <1>3

(* A data that others refer to too, or a constant, only loses a reference.   *)
LEMMA FreeShared ==
  ASSUME NEW st, NEW held, NEW hand, Good(st, held, hand), NEW o \in DOMAIN st.data, held[o] > 0,
         st.data[o].constant \/ st.data[o].refs > 1,
         NEW less, less = [data |-> less.data, buffers |-> less.buffers]
  PROVE  Good(FreeAfter(st, o, less), Fewer(held, o), hand) /\ Extends(FreeAfter(st, o, less), st)
<1>0. /\ o \in Ids /\ o # None /\ held \in [Ids -> Nat] /\ st.data[o] \in Datum
      /\ st = [data |-> st.data, buffers |-> st.buffers]
  BY Distinct DEF Good, Stored
<1>1. CASE st.data[o].constant
  <2>1. o \in DOMAIN Constants
    BY <1>1 DEF Good, ConstantsStay
  <2>2. Good(st, Fewer(held, o), hand)
    BY <1>0, <2>1, ConstantHeld, held[o] - 1 \in Nat DEF Fewer
  <2>3. FreeAfter(st, o, less) = st /\ Extends(st, st)
    BY <1>0, <1>1, FreeCases DEF Extends, SameParts
  <2> QED BY <2>2, <2>3
<1>2. CASE ~ st.data[o].constant
  <2>1. o \notin DOMAIN Constants /\ st.data[o].refs > 1 /\ st.data[o].refs \in Nat
    BY <1>0, <1>2 DEF Good, ConstantsStay, Datum
  <2>2. FreeAfter(st, o, less) = [st EXCEPT !.data[o].refs = st.data[o].refs - 1]
    BY <1>0, <1>2, <2>1, FreeCases
  <2> DEFINE k == held[o] - 1
             n == st.data[o].refs - 1
  <2>3. k \in Nat /\ n \in Nat \ {0} /\ n - st.data[o].refs = k - held[o]
    BY <1>0, <2>1
  <2>4. FreeAfter(st, o, less) = [st EXCEPT !.data[o].refs = n] /\ Fewer(held, o) = [held EXCEPT ![o] = k]
    BY <1>0, <2>2 DEF Fewer
  <2> HIDE DEF k, n
  <2> DEFINE st2 == [st EXCEPT !.data[o].refs = n]
  <2>5. st2 = [st EXCEPT !.data[o].refs = n]
    OBVIOUS
  <2> HIDE DEF st2
  <2>6. Good(st2, [held EXCEPT ![o] = k], hand) /\ Extends(st2, st)
    BY <2>1, <2>3, <2>5, RefsChanged
  <2> QED BY <2>4, <2>5, <2>6
<1> QED BY <1>1, <1>2

(* Two frees commute where neither data is the other.                        *)
LEMMA CutFirst ==
  ASSUME NEW st, st = [data |-> st.data, buffers |-> st.buffers],
         NEW less, less = [data |-> less.data, buffers |-> less.buffers],
         NEW o, NEW d, NEW p, p = None \/ p \in DOMAIN st.data \ {o}
  PROVE  FreeAfter(CutAs(st, o, d), p, CutAs(less, o, d)) = CutAs(FreeAfter(st, p, less), o, d)
<1> DEFINE cut == CutAs(st, o, d)
           cutLess == CutAs(less, o, d)
<1>0. /\ cut = [data |-> cut.data, buffers |-> cut.buffers]
      /\ cutLess = [data |-> cutLess.data, buffers |-> cutLess.buffers]
      /\ cut.data = Without(st.data, o) /\ cutLess.data = Without(less.data, o)
      /\ cut.buffers = IF Owns(d) THEN Without(st.buffers, d.at) ELSE st.buffers
      /\ cutLess.buffers = IF Owns(d) THEN Without(less.buffers, d.at) ELSE less.buffers
  BY DEF CutAs
<1>1. p # None => cut.data[p] = st.data[p]
  BY <1>0 DEF Without
<1>2. cut = CutAs(st, o, d) /\ cutLess = CutAs(less, o, d)
  OBVIOUS
<1> HIDE DEF cut, cutLess
<1>3. CASE p = None \/ (p # None /\ st.data[p].constant)
  <2>1. FreeAfter(st, p, less) = st
    BY <1>3, FreeCases
  <2>2. FreeAfter(cut, p, cutLess) = cut
    BY <1>0, <1>1, <1>3, FreeCases
  <2> QED BY <1>2, <2>1, <2>2
<1>4. CASE p # None /\ ~ st.data[p].constant /\ st.data[p].refs > 1
  <2> DEFINE e == [st.data[p] EXCEPT !.refs = @ - 1]
  <2>1. FreeAfter(st, p, less) = [st EXCEPT !.data[p].refs = @ - 1]
    BY <1>4, FreeCases
  <2>2. FreeAfter(cut, p, cutLess) = [cut EXCEPT !.data[p].refs = @ - 1]
    BY <1>0, <1>1, <1>4, FreeCases
  <2>3. [st EXCEPT !.data[p].refs = @ - 1] = [data |-> [st.data EXCEPT ![p] = e], buffers |-> st.buffers]
    OBVIOUS
  <2>4. [cut EXCEPT !.data[p].refs = @ - 1] = [data |-> [cut.data EXCEPT ![p] = e], buffers |-> cut.buffers]
    BY <1>0, <1>1, <1>4
  <2> HIDE DEF e
  <2>5. [Without(st.data, o) EXCEPT ![p] = e] = Without([st.data EXCEPT ![p] = e], o)
    BY <1>4 DEF Without
  <2> QED BY <1>0, <1>2, <2>1, <2>2, <2>3, <2>4, <2>5 DEF CutAs
<1>5. CASE p # None /\ ~ st.data[p].constant /\ ~ (st.data[p].refs > 1)
  <2> DEFINE e == st.data[p]
  <2>1. FreeAfter(st, p, less) = CutAs(less, p, e)
    BY <1>5, FreeCases
  <2>2. FreeAfter(cut, p, cutLess) = CutAs(cutLess, p, e)
    BY <1>0, <1>1, <1>5, FreeCases
  <2> HIDE DEF e
  <2>3. \A f, x, y : Without(Without(f, x), y) = Without(Without(f, y), x)
    <3>1. ASSUME NEW f, NEW x, NEW y PROVE Without(Without(f, x), y) = Without(Without(f, y), x)
      <4>1. (DOMAIN f \ {x}) \ {y} = (DOMAIN f \ {y}) \ {x}
        OBVIOUS
      <4> QED BY <4>1 DEF Without
    <3> QED BY <3>1
  <2>4. CutAs(cutLess, p, e) = CutAs(CutAs(less, p, e), o, d)
    BY <1>0, <2>3 DEF CutAs
  <2> QED BY <1>2, <2>1, <2>2, <2>4
<1> QED BY <1>3, <1>4, <1>5

(* What the free of o leaves is good for whom still has a reference.         *)
Left(st, st2, held, o, hand) == Good(st2, Fewer(held, o), hand) /\ Extends(st2, st)

LEMMA RecordForm ==
  ASSUME NEW st, NEW held, NEW hand, Good(st, held, hand)
  PROVE  st = [data |-> st.data, buffers |-> st.buffers]
BY DEF Good, Stored

LEMMA FreeNothing ==
  ASSUME NEW st, NEW held, NEW hand, Good(st, held, hand), NEW less,
         less = [data |-> less.data, buffers |-> less.buffers]
  PROVE  FreeAfter(st, None, less) = st /\ Left(st, st, held, None, hand)
<1>1. Fewer(held, None) = held
  BY Distinct DEF Good, Fewer
<1>2. FreeAfter(st, None, less) = st /\ Extends(st, st)
  BY RecordForm, FreeCases DEF Extends, SameParts
<1> QED BY <1>1, <1>2 DEF Left

(* A data without metadata that is no map.                                   *)
LEMMA FreeValueGood ==
  ASSUME NEW st, NEW held, NEW hand, Good(st, held, hand),
         NEW o, o = None \/ (/\ o \in DOMAIN st.data /\ held[o] > 0
                            /\ st.data[o].kind # "map" /\ st.data[o].meta = None)
  PROVE  Left(st, FreeValue(st, o), held, o, hand)
<1>0. st = [data |-> st.data, buffers |-> st.buffers]
  BY RecordForm
<1>1. CASE o = None
  BY <1>0, <1>1, FreeNothing DEF FreeValue
<1>2. CASE o # None /\ (st.data[o].constant \/ st.data[o].refs > 1)
  BY <1>0, <1>2, FreeShared DEF FreeValue, Left
<1>3. CASE o # None /\ ~ st.data[o].constant /\ ~ (st.data[o].refs > 1)
  <2>1. /\ o \in DOMAIN st.data /\ o \in Ids /\ o \notin DOMAIN Constants /\ st.data[o].refs =< 1
        /\ held \in [Ids -> Nat] /\ st.data[o].meta = None /\ st.data[o].value = None
    BY <1>3 DEF Good, Stored, Nested, ConstantsStay, Datum
  <2>2. FreeValue(st, o) = Cut(st, o)
    BY <1>0, <1>3, FreeCases DEF FreeValue, CutAs, Cut
  <2> DEFINE held2 == [p \in Ids |-> IF p = o THEN 0
                                    ELSE held[p] + One(p, st.data[o].meta) + One(p, st.data[o].value)]
  <2>h. held2 = [p \in Ids |-> IF p = o THEN 0
                              ELSE held[p] + One(p, st.data[o].meta) + One(p, st.data[o].value)]
    OBVIOUS
  <2> HIDE DEF held2
  <2>3. Good(Cut(st, o), held2, hand) /\ Extends(Cut(st, o), st) /\ held[o] = 1
    BY <1>3, <2>1, <2>h, DataCut
  <2>4. Fewer(held, o) = held2
    <3>1. \A p \in Ids : One(p, None) = 0
      BY Distinct DEF One
    <3>2. \A p \in Ids : held2[p] = IF p = o THEN 0 ELSE held[p]
      BY <2>1, <2>h, <3>1
    <3>3. \A p \in Ids : Fewer(held, o)[p] = IF p = o THEN 0 ELSE held[p]
      BY <2>1, <2>3 DEF Fewer
    <3>4. Fewer(held, o) = [p \in Ids |-> Fewer(held, o)[p]]
      BY <2>1 DEF Fewer
    <3>5. held2 = [p \in Ids |-> held2[p]]
      BY <2>h
    <3> QED BY <3>2, <3>3, <3>4, <3>5
  <2> QED BY <2>2, <2>3, <2>4 DEF Left
<1> QED BY <1>1, <1>2, <1>3

(* A map of metadata, and its value with it if it was the last reference.    *)
LEMMA FreeMapGood ==
  ASSUME NEW st, NEW held, NEW hand, Good(st, held, hand),
         NEW o, o = None \/ (/\ o \in DOMAIN st.data /\ held[o] > 0 /\ st.data[o].kind = "map")
  PROVE  Left(st, FreeMap(st, o), held, o, hand)
<1> DEFINE v == st.data[o].value
           less == FreeValue(st, v)
<1>0. /\ st = [data |-> st.data, buffers |-> st.buffers] /\ FreeMap(st, o) = FreeAfter(st, o, less)
      /\ less = [data |-> less.data, buffers |-> less.buffers]
  BY RecordForm, FreeForm DEF FreeMap, FreeValue
<1>v. less = FreeValue(st, v)
  OBVIOUS
<1> HIDE DEF less
<1>1. CASE o = None
  BY <1>0, <1>1, FreeNothing
<1>2. CASE o # None /\ (st.data[o].constant \/ st.data[o].refs > 1)
  BY <1>0, <1>2, FreeShared DEF Left
<1>3. CASE o # None /\ ~ st.data[o].constant /\ ~ (st.data[o].refs > 1)
  <2> DEFINE held2 == [p \in Ids |-> IF p = o THEN 0
                                    ELSE held[p] + One(p, st.data[o].meta) + One(p, v)]
             cut == Cut(st, o)
  <2>h. held2 = [p \in Ids |-> IF p = o THEN 0 ELSE held[p] + One(p, st.data[o].meta) + One(p, v)]
    OBVIOUS
  <2> HIDE DEF held2
  <2>1. /\ o \in DOMAIN st.data /\ o \in Ids /\ o \notin DOMAIN Constants /\ st.data[o].refs =< 1
        /\ held \in [Ids -> Nat] /\ st.data[o].meta = None
        /\ v = None \/ (v \in DOMAIN st.data /\ st.data[v].kind # "map" /\ st.data[v].meta = None)
        /\ DOMAIN st.data \subseteq Ids
    BY <1>3 DEF Good, Stored, Nested, ConstantsStay, Datum
  <2>2. Good(cut, held2, hand) /\ Extends(cut, st) /\ held[o] = 1 /\ v # o
    BY <1>3, <2>1, <2>h, DataCut
  <2>3. FreeMap(st, o) = FreeValue(cut, v)
    <3>1. FreeMap(st, o) = CutAs(less, o, st.data[o])
      BY <1>0, <1>3, FreeCases
    <3>2. cut = CutAs(st, o, st.data[o])
      BY DEF Cut, CutAs
    <3>3. FreeAfter(cut, v, cut) = CutAs(FreeAfter(st, v, st), o, st.data[o])
      BY <1>0, <2>1, <2>2, <3>2, CutFirst
    <3> QED BY <1>v, <3>1, <3>3 DEF FreeValue
  <2>4. v = None \/ (v \in DOMAIN cut.data /\ held2[v] > 0 /\ cut.data[v].kind # "map" /\ cut.data[v].meta = None)
    <3>1. ASSUME v # None
          PROVE  v \in Ids /\ v # o /\ v \in DOMAIN st.data /\ st.data[v].kind # "map" /\ st.data[v].meta = None
      BY <2>1, <2>2, <3>1
    <3>2. ASSUME v # None PROVE held2[v] > 0
      BY <2>1, <2>h, <3>1, <3>2, Distinct DEF One
    <3>3. ASSUME v # None PROVE v \in DOMAIN cut.data /\ cut.data[v] = st.data[v]
      BY <3>1, <3>3 DEF Cut, Without
    <3> QED BY <3>1, <3>2, <3>3
  <2> HIDE DEF cut
  <2>5. Left(cut, FreeValue(cut, v), held2, v, hand)
    BY <2>2, <2>4, FreeValueGood
  <2>6. Fewer(held2, v) = Fewer(held, o)
    <3>1. \A p \in Ids : One(p, None) = 0
      BY Distinct DEF One
    <3>2. \A p \in Ids : held2[p] = IF p = o THEN 0 ELSE held[p] + One(p, v)
      BY <2>1, <2>h, <3>1 DEF One
    <3>3. \A p \in Ids : Fewer(held, o)[p] = IF p = o THEN 0 ELSE held[p]
      BY <2>1, <2>2 DEF Fewer
    <3>4. \A p \in Ids : Fewer(held2, v)[p] = IF p = o THEN 0 ELSE held[p]
      BY <2>1, <2>2, <2>h, <3>2 DEF Fewer, One
    <3>5. Fewer(held, o) = [p \in Ids |-> Fewer(held, o)[p]]
      BY <2>1 DEF Fewer
    <3>6. Fewer(held2, v) = [p \in Ids |-> Fewer(held2, v)[p]]
      BY <2>h DEF Fewer
    <3> QED BY <3>3, <3>4, <3>5, <3>6
  <2> QED BY <2>2, <2>3, <2>5, <2>6, ExtendsTransitive DEF Left
<1> QED BY <1>1, <1>2, <1>3

(* Any data but a map, with its metadata.                                    *)
LEMMA FreeGood ==
  ASSUME NEW st, NEW held, NEW hand, Good(st, held, hand),
         NEW o \in DOMAIN st.data, held[o] > 0, st.data[o].kind # "map"
  PROVE  Left(st, Free(st, o), held, o, hand)
<1> DEFINE m == st.data[o].meta
           less == FreeMap(st, m)
           valueLess == FreeValue(st, st.data[m].value)
<1>0. /\ st = [data |-> st.data, buffers |-> st.buffers] /\ Free(st, o) = FreeAfter(st, o, less) /\ o # None
      /\ less = [data |-> less.data, buffers |-> less.buffers]
  <2>1. st = [data |-> st.data, buffers |-> st.buffers] /\ o # None
    BY RecordForm, Distinct DEF Good, Stored
  <2>2. valueLess = [data |-> valueLess.data, buffers |-> valueLess.buffers]
    BY <2>1, FreeForm DEF FreeValue
  <2>3. less = FreeAfter(st, m, valueLess)
    BY DEF FreeMap
  <2> HIDE DEF valueLess, less
  <2>4. less = [data |-> less.data, buffers |-> less.buffers]
    BY <2>1, <2>2, <2>3, FreeForm
  <2> QED BY <2>1, <2>4 DEF Free, less
<1>m. less = FreeMap(st, m)
  OBVIOUS
<1> HIDE DEF less, valueLess
<1>2. CASE st.data[o].constant \/ st.data[o].refs > 1
  BY <1>0, <1>2, FreeShared DEF Left
<1>3. CASE ~ st.data[o].constant /\ ~ (st.data[o].refs > 1)
  <2> DEFINE held2 == [p \in Ids |-> IF p = o THEN 0
                                    ELSE held[p] + One(p, m) + One(p, st.data[o].value)]
             cut == Cut(st, o)
  <2>h. held2 = [p \in Ids |-> IF p = o THEN 0 ELSE held[p] + One(p, m) + One(p, st.data[o].value)]
    OBVIOUS
  <2> HIDE DEF held2
  <2>1. /\ o \in Ids /\ o \notin DOMAIN Constants /\ st.data[o].refs =< 1
        /\ held \in [Ids -> Nat] /\ st.data[o].value = None
        /\ m = None \/ (m \in DOMAIN st.data /\ st.data[m].kind = "map")
        /\ DOMAIN st.data \subseteq Ids
    BY <1>3 DEF Good, Stored, Nested, ConstantsStay, Datum
  <2>2. Good(cut, held2, hand) /\ Extends(cut, st) /\ held[o] = 1 /\ m # o
    BY <1>3, <2>1, <2>h, DataCut
  <2> DEFINE v == st.data[m].value
  <2>3. Free(st, o) = FreeMap(cut, m)
    <3>1. Free(st, o) = CutAs(less, o, st.data[o])
      BY <1>0, <1>3, FreeCases
    <3>2. cut = CutAs(st, o, st.data[o])
      BY DEF Cut, CutAs
    <3>3. CASE m = None
      <4>1. FreeMap(st, m) = st /\ FreeMap(cut, m) = cut
        BY <3>3 DEF FreeMap, FreeAfter
      <4> QED BY <1>m, <3>1, <3>2, <4>1
    <3>4. CASE m # None
      <4>1. v = None \/ v \in DOMAIN st.data \ {o}
        <5>1. v # None => v \in DOMAIN st.data
          BY <2>1, <3>4 DEF Good, Nested
        <5>2. cut.data[m] = st.data[m] /\ m \in DOMAIN cut.data /\ o \notin DOMAIN cut.data
          BY <2>1, <2>2, <3>4 DEF Cut, Without
        <5>3. v # None => v \in DOMAIN cut.data
          BY <2>2, <5>2 DEF Good, Nested
        <5> QED BY <5>1, <5>2, <5>3
      <4>2. FreeValue(cut, v) = CutAs(FreeValue(st, v), o, st.data[o])
        BY <1>0, <3>2, <4>1, CutFirst DEF FreeValue
      <4>3. cut.data[m].value = v
        BY <2>1, <2>2, <3>4 DEF Cut, Without
      <4>4. FreeValue(st, v) = [data |-> FreeValue(st, v).data, buffers |-> FreeValue(st, v).buffers]
        BY <1>0, FreeForm DEF FreeValue
      <4>5. FreeAfter(cut, m, FreeValue(cut, v)) = CutAs(FreeAfter(st, m, FreeValue(st, v)), o, st.data[o])
        BY <1>0, <2>1, <2>2, <3>2, <3>4, <4>2, <4>4, CutFirst
      <4> QED BY <1>m, <3>1, <4>3, <4>5 DEF FreeMap
    <3> QED BY <3>3, <3>4
  <2>4. m = None \/ (m \in DOMAIN cut.data /\ held2[m] > 0 /\ cut.data[m].kind = "map")
    <3>1. ASSUME m # None
          PROVE  m \in Ids /\ m # o /\ m \in DOMAIN st.data /\ st.data[m].kind = "map"
      BY <2>1, <2>2, <3>1
    <3>2. ASSUME m # None PROVE held2[m] > 0
      BY <2>1, <2>h, <3>1, <3>2, Distinct DEF One
    <3>3. ASSUME m # None PROVE m \in DOMAIN cut.data /\ cut.data[m] = st.data[m]
      BY <3>1, <3>3 DEF Cut, Without
    <3> QED BY <3>1, <3>2, <3>3
  <2> HIDE DEF cut, v
  <2>5. Left(cut, FreeMap(cut, m), held2, m, hand)
    BY <2>2, <2>4, FreeMapGood
  <2>6. Fewer(held2, m) = Fewer(held, o)
    <3>1. \A p \in Ids : One(p, None) = 0
      BY Distinct DEF One
    <3>2. \A p \in Ids : held2[p] = IF p = o THEN 0 ELSE held[p] + One(p, m)
      BY <2>1, <2>h, <3>1 DEF One
    <3>3. \A p \in Ids : Fewer(held, o)[p] = IF p = o THEN 0 ELSE held[p]
      BY <2>1, <2>2 DEF Fewer
    <3>4. \A p \in Ids : Fewer(held2, m)[p] = IF p = o THEN 0 ELSE held[p]
      BY <2>1, <2>2, <2>h, <3>2 DEF Fewer, One
    <3>5. Fewer(held, o) = [p \in Ids |-> Fewer(held, o)[p]]
      BY <2>1 DEF Fewer
    <3>6. Fewer(held2, m) = [p \in Ids |-> Fewer(held2, m)[p]]
      BY <2>h DEF Fewer
    <3> QED BY <3>3, <3>4, <3>5, <3>6
  <2> QED BY <2>2, <2>3, <2>5, <2>6, ExtendsTransitive DEF Left
<1> QED BY <1>2, <1>3

-----------------------------------------------------------------------------
(* New data *)

RoomForData(st) == Cardinality(DOMAIN st.data \cap 1..MaxData) + 1 =< MaxData
RoomForBuffer(st) == Cardinality(DOMAIN st.buffers \cap 1..MaxBuffers) + 1 =< MaxBuffers

More(held, o) == [held EXCEPT ![o] = @ + 1]

ContentAt(st, at, c) == IF at = Inside THEN c ELSE IF at = None THEN Empty ELSE st.buffers[at].content

(* A new data with content c, its one reference and the hand are the caller's. *)
NewGiven(st, held, hand, made, kind, c) ==
  LET o == made.result IN
  /\ o \in 1..MaxData /\ o \notin DOMAIN st.data
  /\ Good(made.store, More(held, o), hand) /\ Extends(st, made.store)
  /\ DOMAIN made.store.data = DOMAIN st.data \cup {o}
  /\ \A x \in DOMAIN st.data : made.store.data[x] = st.data[x]
  /\ made.store.data[o].kind = kind /\ made.store.data[o].meta = None /\ made.store.data[o].value = None
  /\ made.store.data[o].refs = 1 /\ ~ made.store.data[o].constant
  /\ ContentOf(made.store, o) = c

LEMMA ContentIs ==
  ASSUME NEW st, NEW o \in DOMAIN st.data,
         st.data[o].at \in {Inside, None} \cup 1..MaxBuffers \cup Kept
  PROVE  ContentOf(st, o) = ContentAt(st, st.data[o].at, st.data[o].inside)
<1> DEFINE at == st.data[o].at
<1>1. at = Inside \/ at = None \/ at > 0
  BY Distinct
<1>2. Inside # None /\ ~ (Inside > 0) /\ ~ (None > 0)
  BY DEF Inside, None
<1> QED BY <1>1, <1>2 DEF ContentOf, ContentAt

(* A number that nobody has is in nobody's hand.                             *)
LEMMA NotHeld ==
  ASSUME NEW st, NEW held, NEW hand, Good(st, held, hand), NEW o \in 1..MaxData, o \notin DOMAIN st.data
  PROVE  o \in Ids /\ held[o] = 0 /\ More(held, o) = [held EXCEPT ![o] = 1]
<1>1. o \in Ids /\ held[o] = 0
  BY DEF Ids, Good, Counted
<1> QED BY <1>1 DEF More

LEMMA NewDataGood ==
  ASSUME NEW st, NEW held, NEW hand, Good(st, held, hand), RoomForData(st),
         NEW kind \in {"string", "array", "binary", "pointer", "map"},
         NEW at \in {Inside, None} \cup hand \cup Kept, NEW c \in Contents \cup {Empty},
         NEW release \in BOOLEAN, NEW block \in BOOLEAN,
         kind = "map" => at = None, block \/ at = Inside => kind = "string",
         at > 0 /\ ~ release => at \in Kept,
         at > 0 /\ release => at \in hand /\ st.buffers[at].place = PlaceOf(kind, block),
         NEW rest, rest = IF release /\ at > 0 THEN hand \ {at} ELSE hand
  PROVE  NewGiven(st, held, rest, NewData(st, kind, at, c, release, block), kind, ContentAt(st, at, c))
<1> DEFINE o == LowestFree(DOMAIN st.data, MaxData)
           d == [kind |-> kind, at |-> at, inside |-> IF at = Inside THEN c ELSE Empty,
                 release |-> release, block |-> block, constant |-> FALSE,
                 refs |-> 1, meta |-> None, value |-> None]
           made == NewData(st, kind, at, c, release, block)
           st2 == [data |-> With(st.data, o, d), buffers |-> st.buffers]
<1>1. o \in 1..MaxData /\ o \notin DOMAIN st.data
  BY LowestIsFree, OwnedAssumption DEF RoomForData
<1>2. made = [store |-> st2, result |-> o]
  <2>1. made = Made([st EXCEPT !.data = With(@, o, d)], o)
    BY DEF NewData
  <2> HIDE DEF o, d, made
  <2>2. [st EXCEPT !.data = With(@, o, d)] = [data |-> With(st.data, o, d), buffers |-> st.buffers]
    BY RecordForm
  <2> QED BY <2>1, <2>2 DEF Made
<1>3. d \in Datum
  <2>1. at \in {Inside, None} \cup 1..MaxBuffers \cup Kept
    BY DEF Good
  <2>2. None \in 0..MaxData
    BY OwnedAssumption DEF None
  <2> QED BY <2>1, <2>2 DEF Datum
<1>4. /\ d.meta = None /\ d.value = None /\ d.refs = 1 /\ ~ d.constant /\ d.kind = kind /\ d.at = at
      /\ d.block = block /\ d.release = release
      /\ PlaceFor(d) = PlaceOf(kind, block)
      /\ Owns(d) <=> (release /\ at > 0)
      /\ at = Inside => d.inside = c
  BY DEF PlaceFor, Owns
<1>5. /\ st2 = [data |-> With(st.data, o, d), buffers |-> st.buffers]
      /\ st2.data[o] = d /\ DOMAIN st2.data = DOMAIN st.data \cup {o} /\ st2.buffers = st.buffers
      /\ \A x \in DOMAIN st.data : st2.data[x] = st.data[x]
  BY <1>1 DEF With
<1> HIDE DEF o, d, made, st2
<1>6. /\ Good(st2, [held EXCEPT ![o] = 1], IF Owns(d) THEN hand \ {d.at} ELSE hand)
      /\ Extends(st, st2)
  <2>1. /\ d.kind = "map" => d.at = None
        /\ d.block \/ d.at = Inside => d.kind = "string"
        /\ d.at > 0 /\ ~ d.release => d.at \in Kept
    BY <1>4
  <2>2. Owns(d) => d.at \in hand /\ st.buffers[d.at].place = PlaceFor(d)
    BY <1>4
  <2>3. d.meta = None /\ d.value = None /\ d.refs = 1 /\ ~ d.constant
    BY <1>4
  <2>4. st2 = [data |-> With(st.data, o, d), buffers |-> st.buffers]
    BY <1>5
  <2> QED BY <1>1, <1>3, <2>1, <2>2, <2>3, <2>4, DataAdded, SMTT(30)
<1>7. ContentOf(st2, o) = ContentAt(st, at, c)
  <2>1. at \in {Inside, None} \cup 1..MaxBuffers \cup Kept
    BY DEF Good
  <2>2. ContentOf(st2, o) = ContentAt(st2, at, d.inside)
    BY <1>4, <1>5, <2>1, ContentIs
  <2> QED BY <1>4, <1>5, <2>2 DEF ContentAt
<1>8. Good(st2, More(held, o), rest)
  <2>1. (IF Owns(d) THEN hand \ {d.at} ELSE hand) = rest
    BY <1>4
  <2> QED BY <1>1, <1>6, <2>1, NotHeld
<1>9. made.store = st2 /\ made.result = o
  BY <1>2
<1> QED BY <1>1, <1>4, <1>5, <1>6, <1>7, <1>8, <1>9 DEF NewGiven, made

(* One that owns its buffer, and one that does not.                          *)
LEMMA NewOwner ==
  ASSUME NEW st, NEW held, NEW hand, Good(st, held, hand), RoomForData(st),
         NEW kind \in {"string", "array", "binary", "pointer"}, NEW b \in hand, NEW c \in Contents \cup {Empty},
         NEW block \in BOOLEAN, block => kind = "string", st.buffers[b].place = PlaceOf(kind, block),
         NEW rest, rest = hand \ {b}, NEW content, content = st.buffers[b].content
  PROVE  NewGiven(st, held, rest, NewData(st, kind, b, c, TRUE, block), kind, content)
<1>1. b > 0 /\ b # Inside /\ b # None
  <2>1. b \in 1..MaxBuffers
    BY DEF Good
  <2> QED BY <2>1, OwnedAssumption DEF Inside, None
<1> DEFINE release == TRUE
           made == NewData(st, kind, b, c, release, block)
<1>2. release \in BOOLEAN /\ release /\ b \in {Inside, None} \cup hand \cup Kept
  OBVIOUS
<1>3. rest = IF release /\ b > 0 THEN hand \ {b} ELSE hand
  BY <1>1
<1>5. made = NewData(st, kind, b, c, release, block)
  OBVIOUS
<1>6. kind \in {"string", "array", "binary", "pointer", "map"} /\ kind # "map"
  OBVIOUS
<1> HIDE DEF release, made
<1>4. NewGiven(st, held, rest, made, kind, ContentAt(st, b, c))
  BY <1>1, <1>2, <1>3, <1>5, <1>6, NewDataGood
<1>7. ContentAt(st, b, c) = st.buffers[b].content
  BY <1>1 DEF ContentAt
<1> QED BY <1>4, <1>5, <1>7 DEF release

LEMMA NewOther ==
  ASSUME NEW st, NEW held, NEW hand, Good(st, held, hand), RoomForData(st),
         NEW kind \in {"string", "array", "binary", "pointer", "map"}, NEW c \in Contents \cup {Empty},
         NEW at \in {Inside, None} \cup Kept, kind = "map" => at = None, at = Inside => kind = "string",
         NEW release \in BOOLEAN, at \in Kept => ~ release
  PROVE  NewGiven(st, held, hand, NewData(st, kind, at, c, release, FALSE), kind, ContentAt(st, at, c))
<1>1. ~ (release /\ at > 0) /\ (at > 0 => at \in Kept)
  BY DEF Inside, None
<1> DEFINE block == FALSE
           made == NewData(st, kind, at, c, release, block)
<1>2. block \in BOOLEAN /\ ~ block /\ at \in {Inside, None} \cup hand \cup Kept
  OBVIOUS
<1>3. hand = IF release /\ at > 0 THEN hand \ {at} ELSE hand
  BY <1>1
<1>5. made = NewData(st, kind, at, c, release, block)
  OBVIOUS
<1> HIDE DEF block, made
<1>4. NewGiven(st, held, hand, made, kind, ContentAt(st, at, c))
  BY <1>1, <1>2, <1>3, <1>5, NewDataGood
<1> QED BY <1>4, <1>5 DEF block

(* What follows the allocation of a buffer b for it.                         *)
LEMMA NewAfterBuffer ==
  ASSUME NEW st, NEW held, NEW hand, Good(st, held, hand), NEW b \in 1..MaxBuffers, b \notin DOMAIN st.buffers,
         NEW new, NEW st2, st2 = [data |-> st.data, buffers |-> With(st.buffers, b, new)],
         Extends(st, st2), NEW made, NEW kind, NEW c,
         NewGiven(st2, held, (hand \cup {b}) \ {b}, made, kind, c)
  PROVE  NewGiven(st, held, hand, made, kind, c)
<1>1. (hand \cup {b}) \ {b} = hand
  BY DEF Good, OneOwner
<1>2. Extends(st, made.store)
  BY ExtendsTransitive DEF NewGiven
<1> QED BY <1>1, <1>2 DEF NewGiven

(* A buffer that is copied into a new data.                                  *)
LEMMA CopyInto ==
  ASSUME NEW st, NEW held, NEW hand, Good(st, held, hand), RoomForData(st), RoomForBuffer(st),
         NEW place \in {"heap", "block"}, NEW c \in Contents \cup {Empty},
         NEW kind \in {"string", "array", "binary"}, place = "block" => kind = "string",
         NEW copy, copy = Allocated(st, place, c)
  PROVE  NewGiven(st, held, hand, NewData(copy.store, kind, copy.result, c, TRUE, place = "block"), kind, c)
<1>1. PICK b \in 1..MaxBuffers :
        /\ b \notin DOMAIN st.buffers
        /\ copy = [store |-> [data |-> st.data,
                              buffers |-> With(st.buffers, b, [place |-> place, content |-> c])],
                   result |-> b]
  BY AllocatedIs DEF RoomForBuffer, Good, Stored
<1> DEFINE new == [place |-> place, content |-> c]
           st2 == copy.store
<1>2. new \in Buffer /\ st2 = [data |-> st.data, buffers |-> With(st.buffers, b, new)] /\ copy.result = b
  BY <1>1 DEF Buffer
<1>3. st2.data = st.data /\ st2.buffers[b] = new /\ DOMAIN st2.buffers = DOMAIN st.buffers \cup {b}
  BY <1>2 DEF With
<1> HIDE DEF st2
<1>4. Good(st2, held, hand \cup {b}) /\ Extends(st, st2)
  BY <1>1, <1>2, BufferAdded
<1>5. RoomForData(st2)
  BY <1>3 DEF RoomForData
<1>6. b > 0 /\ b # Inside /\ b # None
  BY Distinct DEF Inside, None
<1> DEFINE more == hand \cup {b}
           rest == more \ {b}
           block == place = "block"
           made == NewData(st2, kind, b, c, TRUE, block)
<1>m. Good(st2, held, more) /\ b \in more /\ block \in BOOLEAN /\ (block => kind = "string")
      /\ st2.buffers[b].place = PlaceOf(kind, block) /\ st2.buffers[b].content = c
  BY <1>3, <1>4 DEF PlaceOf
<1>n. /\ made = NewData(st2, kind, b, c, TRUE, block) /\ rest = more \ {b}
      /\ kind \in {"string", "array", "binary", "pointer"}
  OBVIOUS
<1> HIDE DEF more, block, made, rest
<1>7. NewGiven(st2, held, rest, made, kind, c)
  BY <1>5, <1>m, <1>n, NewOwner
<1>9. NewGiven(st2, held, (hand \cup {b}) \ {b}, made, kind, c)
  BY <1>7 DEF more, rest
<1>10. NewGiven(st, held, hand, made, kind, c)
  BY <1>1, <1>2, <1>4, <1>9, NewAfterBuffer
<1> QED BY <1>2, <1>10 DEF st2, made, block

-----------------------------------------------------------------------------
(* Strings, arrays and pointers *)

(* The ways to give b to a new data of content c: copied, taken or referred  *)
(* to.                                                                       *)
Givable(st, hand, own, b, c) ==
  /\ own \in {"copy", "take", "ref"}
  /\ own = "copy" => RoomForBuffer(st)
  /\ own = "take" => b \in hand /\ st.buffers[b].place = "heap" /\ st.buffers[b].content = c
  /\ own = "ref" => b \in {Inside, None} \cup Kept /\ ContentAt(st, b, c) = c

AfterGiving(hand, own, b) == IF own = "take" THEN hand \ {b} ELSE hand

(* A buffer that is taken or referred to.                                    *)
LEMMA GivenTo ==
  ASSUME NEW st, NEW held, NEW hand, Good(st, held, hand), RoomForData(st),
         NEW c \in Contents \cup {Empty}, NEW own, NEW b, Givable(st, hand, own, b, c), own # "copy",
         NEW kind \in {"string", "array", "binary"}, b = Inside => kind = "string"
  PROVE  NewGiven(st, held, AfterGiving(hand, own, b), NewData(st, kind, b, c, own # "ref", FALSE), kind, c)
<1>1. CASE own = "take"
  <2>1. /\ b \in hand /\ st.buffers[b].place = PlaceOf(kind, FALSE) /\ st.buffers[b].content = c
        /\ kind \in {"string", "array", "binary", "pointer"}
    BY <1>1 DEF Givable, PlaceOf
  <2> DEFINE rest == hand \ {b}
             block == FALSE
  <2>2. rest = hand \ {b} /\ block \in BOOLEAN /\ ~ block /\ st.buffers[b].place = PlaceOf(kind, block)
    BY <2>1
  <2> HIDE DEF rest, block
  <2>3. NewGiven(st, held, rest, NewData(st, kind, b, c, TRUE, block), kind, c)
    BY <2>1, <2>2, NewOwner
  <2> QED BY <1>1, <2>3 DEF AfterGiving, rest, block
<1>2. CASE own = "ref"
  <2>1. b \in {Inside, None} \cup Kept /\ ContentAt(st, b, c) = c
    BY <1>2 DEF Givable
  <2>2. NewGiven(st, held, hand, NewData(st, kind, b, c, FALSE, FALSE), kind, ContentAt(st, b, c))
    BY <2>1, NewOther
  <2> QED BY <1>2, <2>1, <2>2 DEF AfterGiving
<1> QED BY <1>1, <1>2 DEF Givable

LEMMA AllocStringGood ==
  ASSUME NEW st, NEW held, NEW hand, Good(st, held, hand), RoomForData(st),
         NEW c \in Contents \cup {Empty}, NEW own, NEW b, Givable(st, hand, own, b, c)
  PROVE  NewGiven(st, held, AfterGiving(hand, own, b), AllocString(st, c, own, b), "string", c)
<1>1. CASE own # "copy"
  BY <1>1, GivenTo DEF AllocString
<1>2. CASE own = "copy" /\ FitsIn[c] = "data"
  <2>1. AllocString(st, c, own, b) = NewData(st, "string", Inside, c, TRUE, FALSE)
    BY <1>2 DEF AllocString
  <2>2. ContentAt(st, Inside, c) = c
    BY DEF ContentAt
  <2>3. NewGiven(st, held, hand, NewData(st, "string", Inside, c, TRUE, FALSE), "string", ContentAt(st, Inside, c))
    BY NewOther, Distinct
  <2> QED BY <1>2, <2>1, <2>2, <2>3 DEF AfterGiving
<1>3. CASE own = "copy" /\ FitsIn[c] # "data"
  <2> DEFINE place == FitsIn[c]
             copy == Allocated(st, place, c)
  <2>1. place \in {"heap", "block"}
    BY <1>3, OwnedAssumption
  <2>2. AllocString(st, c, own, b) = NewData(copy.store, "string", copy.result, c, TRUE, place = "block")
    BY <1>3 DEF AllocString
  <2>3. RoomForBuffer(st)
    BY <1>3 DEF Givable
  <2>4. copy = Allocated(st, place, c)
    OBVIOUS
  <2> HIDE DEF place, copy
  <2>5. NewGiven(st, held, hand, NewData(copy.store, "string", copy.result, c, TRUE, place = "block"), "string", c)
    BY <2>1, <2>3, <2>4, CopyInto
  <2> QED BY <1>3, <2>2, <2>5 DEF AfterGiving
<1> QED BY <1>1, <1>2, <1>3

(* An array of no bytes has no buffer.  What is copied may lie anywhere.      *)
LEMMA AllocArrayGood ==
  ASSUME NEW st, NEW held, NEW hand, Good(st, held, hand), RoomForData(st),
         NEW c \in Contents \cup {Empty}, NEW own, NEW b, Givable(st, hand, own, b, c),
         own = "take" => c # Empty, own # "copy" => b # Inside, NEW kind \in {"array", "binary"}
  PROVE  NewGiven(st, held, AfterGiving(hand, own, b), AllocArray(st, kind, c, own, b), kind, c)
<1>1. CASE c = Empty
  <2>1. AllocArray(st, kind, c, own, b) = NewData(st, kind, None, c, b # None /\ own # "ref", FALSE)
    BY <1>1 DEF AllocArray
  <2>2. ContentAt(st, None, c) = c
    BY <1>1 DEF None, Inside, ContentAt
  <2> DEFINE release == b # None /\ own # "ref"
  <2>4. /\ release \in BOOLEAN /\ kind \in {"string", "array", "binary", "pointer", "map"} /\ kind # "map"
        /\ None \in {Inside, None} \cup Kept /\ None \notin Kept /\ None # Inside
    BY Distinct
  <2> HIDE DEF release
  <2>5. NewGiven(st, held, hand, NewData(st, kind, None, c, release, FALSE), kind, ContentAt(st, None, c))
    BY <2>4, NewOther
  <2>3. NewGiven(st, held, hand, NewData(st, kind, None, c, b # None /\ own # "ref", FALSE), kind, c)
    BY <2>2, <2>5 DEF release
  <2> QED BY <1>1, <2>1, <2>2, <2>3 DEF AfterGiving
<1>2. CASE c # Empty /\ own = "copy"
  <2> DEFINE copy == Allocated(st, "heap", c)
  <2>1. AllocArray(st, kind, c, own, b) = NewData(copy.store, kind, copy.result, c, TRUE, FALSE)
    BY <1>2 DEF AllocArray
  <2>2. RoomForBuffer(st)
    BY <1>2 DEF Givable
  <2>3. copy = Allocated(st, "heap", c)
    OBVIOUS
  <2> HIDE DEF copy
  <2>4. NewGiven(st, held, hand, NewData(copy.store, kind, copy.result, c, TRUE, "heap" = "block"), kind, c)
    BY <2>2, <2>3, CopyInto
  <2> QED BY <1>2, <2>1, <2>4 DEF AfterGiving
<1>3. CASE c # Empty /\ own # "copy"
  BY <1>3, GivenTo DEF AllocArray
<1> QED BY <1>1, <1>2, <1>3

LEMMA AllocPointerGood ==
  ASSUME NEW st, NEW held, NEW hand, Good(st, held, hand), RoomForData(st), NEW freed \in BOOLEAN, NEW b,
         NEW c \in Contents \cup {Empty},
         b \in hand \cup Kept, st.buffers[b].content = c,
         freed => b \in hand /\ st.buffers[b].place = "pointed", ~ freed => b \in Kept
  PROVE  NewGiven(st, held, IF freed THEN hand \ {b} ELSE hand, AllocPointer(st, freed, b), "pointer", c)
<1>1. CASE freed
  <2> DEFINE rest == hand \ {b}
             block == FALSE
  <2>1. /\ b \in hand /\ st.buffers[b].place = PlaceOf("pointer", block) /\ Empty \in Contents \cup {Empty}
        /\ rest = hand \ {b} /\ block \in BOOLEAN /\ ~ block
    BY <1>1 DEF PlaceOf
  <2>3. AllocPointer(st, freed, b) = NewData(st, "pointer", b, Empty, TRUE, block)
    BY <1>1 DEF AllocPointer
  <2> HIDE DEF rest, block
  <2>2. NewGiven(st, held, rest, NewData(st, "pointer", b, Empty, TRUE, block), "pointer", c)
    BY <2>1, NewOwner
  <2> QED BY <1>1, <2>2, <2>3 DEF rest
<1>2. CASE ~ freed
  <2>1. b \in Kept /\ b # Inside /\ b # None /\ Empty \in Contents \cup {Empty}
    BY <1>2, Distinct
  <2>2. NewGiven(st, held, hand, NewData(st, "pointer", b, Empty, FALSE, FALSE), "pointer", ContentAt(st, b, Empty))
    BY <2>1, NewOther
  <2>3. AllocPointer(st, freed, b) = NewData(st, "pointer", b, Empty, FALSE, FALSE)
    BY <1>2 DEF AllocPointer
  <2> QED BY <1>2, <2>1, <2>2, <2>3 DEF ContentAt
<1> QED BY <1>1, <1>2

-----------------------------------------------------------------------------
(* What is to be found *)

LEMMA ContentTyped ==
  ASSUME NEW st, NEW held, NEW hand, Good(st, held, hand), NEW o \in DOMAIN st.data
  PROVE  ContentOf(st, o) \in Contents \cup {Empty}
<1>1. st.data[o] \in Datum /\ OneOwner(st, hand) /\ st.buffers \in [DOMAIN st.buffers -> Buffer]
  BY DEF Good, Stored
<1>2. ContentOf(st, o) = ContentAt(st, st.data[o].at, st.data[o].inside)
  BY <1>1, ContentIs DEF Datum
<1>3. st.data[o].at > 0 => st.buffers[st.data[o].at].content \in Contents \cup {Empty}
  BY <1>1, BuffersThere DEF Buffer
<1>4. st.data[o].at = Inside \/ st.data[o].at = None \/ st.data[o].at > 0
  BY <1>1, Distinct DEF Datum
<1> QED BY <1>1, <1>2, <1>3, <1>4 DEF ContentAt, Datum

LEMMA ViewTyped ==
  ASSUME NEW st, NEW held, NEW hand, Good(st, held, hand), Complete(st.data), NEW o \in DOMAIN st.data
  PROVE  View(st, o) \in Views
<1> DEFINE m == st.data[o].meta
<1>1. MetaView(st, m) \in Contents \cup {Empty}
  <2>1. CASE m = None
    BY <2>1 DEF MetaView, None, Empty
  <2>2. CASE m # None
    <3>1. st.data[m].value \in DOMAIN st.data
      BY <2>2 DEF Good, Nested, Complete
    <3> QED BY <2>2, <3>1, ContentTyped DEF MetaView
  <2> QED BY <2>1, <2>2
<1> QED BY <1>1, ContentTyped DEF View, Views

(* It is the same in what extends the store.                                 *)
LEMMA ContentKept ==
  ASSUME NEW st, NEW held, NEW hand, Good(st, held, hand), NEW more, Extends(st, more), NEW o \in DOMAIN st.data
  PROVE  ContentOf(more, o) = ContentOf(st, o)
<1>1. /\ st.data[o] \in Datum /\ OneOwner(st, hand) /\ o \in DOMAIN more.data
      /\ more.data[o].at = st.data[o].at /\ more.data[o].inside = st.data[o].inside
  BY DEF Good, Stored, Extends, SameParts
<1>2. /\ ContentOf(st, o) = ContentAt(st, st.data[o].at, st.data[o].inside)
      /\ ContentOf(more, o) = ContentAt(more, st.data[o].at, st.data[o].inside)
  BY <1>1, ContentIs DEF Datum
<1>3. st.data[o].at > 0 => more.buffers[st.data[o].at] = st.buffers[st.data[o].at]
  BY <1>1, BuffersThere DEF Extends
<1>4. st.data[o].at = Inside \/ st.data[o].at = None \/ st.data[o].at > 0
  BY <1>1, Distinct DEF Datum
<1> QED BY <1>2, <1>3, <1>4 DEF ContentAt

LEMMA ViewKept ==
  ASSUME NEW st, NEW held, NEW hand, Good(st, held, hand), Complete(st.data),
         NEW more, Extends(st, more), NEW o \in DOMAIN st.data
  PROVE  View(more, o) = View(st, o)
<1> DEFINE m == st.data[o].meta
<1>1. more.data[o].meta = m
  BY DEF Extends, SameParts
<1>2. MetaView(more, m) = MetaView(st, m)
  <2>1. CASE m # None
    <3>1. m \in DOMAIN st.data /\ st.data[m].value \in DOMAIN st.data
      BY <2>1 DEF Good, Nested, Complete
    <3>2. more.data[m].value = st.data[m].value
      BY <3>1 DEF Extends, SameParts
    <3> QED BY <2>1, <3>1, <3>2, ContentKept DEF MetaView
  <2> QED BY <2>1 DEF MetaView
<1> QED BY <1>1, <1>2, ContentKept DEF View

LEMMA CompleteKept ==
  ASSUME NEW st, NEW held, NEW hand, Good(st, held, hand), NEW more, Extends(st, more), Complete(more.data)
  PROVE  Complete(st.data)
BY DEF Complete, Good, Nested, Extends, SameParts

LEMMA LastingKept ==
  ASSUME NEW st, NEW held, NEW hand, Good(st, held, hand), NEW st2, NEW held2, NEW hand2, Good(st2, held2, hand2),
         Extends(st, st2) \/ Extends(st2, st), Lasting(st)
  PROVE  Lasting(st2)
<1>1. \A o \in DOMAIN Constants : o \in DOMAIN st.data /\ o \in DOMAIN st2.data
  BY DEF Good, ConstantsStay
<1>2. \A b \in Kept : b \in DOMAIN st.buffers /\ b \in DOMAIN st2.buffers
  BY DEF Good, OneOwner
<1>3. \A o \in DOMAIN Constants : st2.data[o].at = st.data[o].at
  BY <1>1 DEF Extends, SameParts
<1>4. \A b \in Kept : st2.buffers[b] = st.buffers[b]
  BY <1>2 DEF Extends
<1> QED BY <1>3, <1>4 DEF Lasting

-----------------------------------------------------------------------------
(* What the client refers to *)

LEMMA HeldTyped ==
  ASSUME NEW sl
  PROVE  /\ HeldIn(sl) \in [Ids -> Nat]
         /\ \A o \in Ids, s \in Slots : sl[s] = o => HeldIn(sl)[o] > 0
<1>1. ASSUME NEW o \in Ids
      PROVE  /\ IsFiniteSet({s \in Slots : sl[s] = o}) /\ Cardinality({s \in Slots : sl[s] = o}) \in Nat
             /\ \A s \in Slots : sl[s] = o => Cardinality({t \in Slots : sl[t] = o}) > 0
  <2> DEFINE S == {s \in Slots : sl[s] = o}
  <2>1. IsFiniteSet(S)
    BY OwnedAssumption, FS_Subset
  <2>2. Cardinality(S) \in Nat
    BY <2>1, FS_CardinalityType
  <2>3. ASSUME NEW s \in Slots, sl[s] = o PROVE Cardinality(S) > 0
    <3>1. S # {}
      BY <2>3
    <3> HIDE DEF S
    <3> QED BY <2>1, <2>2, <3>1, FS_EmptySet
  <2> QED BY <2>1, <2>2, <2>3
<1> QED BY <1>1 DEF HeldIn

LEMMA HeldMore ==
  ASSUME NEW sl, sl \in [Slots -> Ids \cup {None}], NEW s \in Slots, sl[s] = None, NEW o \in Ids,
         NEW sl2, sl2 = [sl EXCEPT ![s] = o]
  PROVE  HeldIn(sl2) = More(HeldIn(sl), o)
<1> DEFINE S(f, p) == {t \in Slots : f[t] = p}
<1>1. S(sl2, o) = S(sl, o) \cup {s} /\ s \notin S(sl, o)
  BY Distinct
<1>2. \A p \in Ids \ {o} : S(sl2, p) = S(sl, p)
  BY Distinct
<1>3. IsFiniteSet(S(sl, o))
  BY OwnedAssumption, FS_Subset
<1> HIDE DEF S
<1>4. Cardinality(S(sl2, o)) = Cardinality(S(sl, o)) + 1
  BY <1>1, <1>3, CountsMore
<1>5. \A p \in Ids : HeldIn(sl2)[p] = Cardinality(S(sl2, p)) /\ HeldIn(sl)[p] = Cardinality(S(sl, p))
  BY DEF HeldIn, S
<1>6. \A p \in Ids : HeldIn(sl2)[p] = More(HeldIn(sl), o)[p]
  BY <1>2, <1>4, <1>5, HeldTyped DEF More
<1>7. HeldIn(sl2) \in [Ids -> Nat] /\ More(HeldIn(sl), o) = [p \in Ids |-> More(HeldIn(sl), o)[p]]
  BY HeldTyped DEF More
<1> QED BY <1>6, <1>7

LEMMA HeldFewer ==
  ASSUME NEW sl, sl \in [Slots -> Ids \cup {None}], NEW s \in Slots, NEW o \in Ids, sl[s] = o,
         NEW sl2, sl2 = [sl EXCEPT ![s] = None]
  PROVE  HeldIn(sl2) = Fewer(HeldIn(sl), o)
<1> DEFINE S(f, p) == {t \in Slots : f[t] = p}
<1>1. S(sl2, o) = S(sl, o) \ {s} /\ s \in S(sl, o)
  BY Distinct
<1>2. \A p \in Ids \ {o} : S(sl2, p) = S(sl, p)
  BY Distinct
<1>3. IsFiniteSet(S(sl, o))
  BY OwnedAssumption, FS_Subset
<1> HIDE DEF S
<1>4. Cardinality(S(sl2, o)) = Cardinality(S(sl, o)) - 1
  BY <1>1, <1>3, CountsLess
<1>5. \A p \in Ids : HeldIn(sl2)[p] = Cardinality(S(sl2, p)) /\ HeldIn(sl)[p] = Cardinality(S(sl, p))
  BY DEF HeldIn, S
<1>6. \A p \in Ids : HeldIn(sl2)[p] = Fewer(HeldIn(sl), o)[p]
  BY <1>2, <1>4, <1>5, HeldTyped DEF Fewer
<1>7. HeldIn(sl2) \in [Ids -> Nat] /\ Fewer(HeldIn(sl), o) = [p \in Ids |-> Fewer(HeldIn(sl), o)[p]]
  BY HeldTyped DEF Fewer
<1> QED BY <1>6, <1>7

(* Who is still referred to is there, and holds what it held.                *)
LEMMA SeenStill ==
  ASSUME NEW st, NEW held, NEW hand, Good(st, held, hand), Complete(st.data),
         NEW st2, NEW held2, NEW hand2, Good(st2, held2, hand2), Extends(st, st2) \/ Extends(st2, st),
         NEW o \in Ids, o \in DOMAIN st.data, st.data[o].kind # "map", held2[o] > 0
  PROVE  o \in DOMAIN st2.data /\ st2.data[o].kind # "map" /\ View(st2, o) = View(st, o)
<1>1. o \in DOMAIN st2.data
  BY DEF Good, Counted
<1>2. CASE Extends(st, st2)
  BY <1>1, <1>2, ViewKept DEF Extends, SameParts
<1>3. CASE Extends(st2, st)
  <2>1. Complete(st2.data)
    BY <1>3, CompleteKept
  <2>2. View(st, o) = View(st2, o)
    BY <1>1, <1>3, <2>1, ViewKept
  <2> QED BY <1>1, <1>3, <2>2 DEF Extends, SameParts
<1> QED BY <1>2, <1>3

-----------------------------------------------------------------------------
(* A call that gives the client a reference *)

Gives(st, held, hand, made, view) ==
  /\ made.result \in DOMAIN made.store.data /\ made.result \in Ids
  /\ made.store.data[made.result].kind # "map"
  /\ Good(made.store, More(held, made.result), hand) /\ Complete(made.store.data)
  /\ Extends(st, made.store) /\ View(made.store, made.result) = view

LEMMA NewGives ==
  ASSUME NEW st, NEW held, NEW hand, Good(st, held, hand), Complete(st.data),
         NEW kind, kind # "map", NEW c, NEW made, NewGiven(st, held, hand, made, kind, c)
  PROVE  Gives(st, held, hand, made, New(c))
<1> DEFINE o == made.result
           st2 == made.store
<1>1. /\ o \in DOMAIN st2.data /\ o \in Ids /\ st2.data[o].kind # "map" /\ Good(st2, More(held, o), hand)
      /\ Extends(st, st2) /\ st2.data[o].meta = None /\ ContentOf(st2, o) = c
      /\ DOMAIN st2.data = DOMAIN st.data \cup {o} /\ \A x \in DOMAIN st.data : st2.data[x] = st.data[x]
  BY DEF NewGiven, Ids
<1> HIDE DEF o, st2
<1>2. Complete(st2.data)
  BY <1>1 DEF Complete, Good, Nested
<1>3. View(st2, o) = New(c)
  BY <1>1 DEF View, New, MetaView
<1> QED BY <1>1, <1>2, <1>3 DEF Gives, o, st2

LEMMA GetsGood ==
  ASSUME IInv, NEW s \in Slots, NEW made, NEW view,
         Gives(store, HeldIn(slot), DOMAIN mine, made, view), Gets(s, made, view), UNCHANGED mine
  PROVE  IInv'
<1> DEFINE o == made.result
           st2 == made.store
           held == HeldIn(slot)
           held2 == HeldIn(slot')
           hand == DOMAIN mine
<1>1. /\ slot[s] = None /\ store' = st2 /\ slot' = [slot EXCEPT ![s] = o] /\ meant' = [meant EXCEPT ![s] = view]
      /\ mine' = mine /\ slot \in [Slots -> Ids \cup {None}] /\ meant \in [Slots -> Views]
      /\ Good(store, held, hand) /\ Complete(store.data) /\ Lasting(store) /\ InSlots /\ InHand
  BY DEF Gets, Held, IInv, InSlots
<1>2. /\ o \in DOMAIN st2.data /\ o \in Ids /\ st2.data[o].kind # "map" /\ Good(st2, More(held, o), hand)
      /\ Complete(st2.data) /\ Extends(store, st2) /\ View(st2, o) = view
  BY DEF Gives
<1>3. held2 = More(held, o)
  BY <1>1, <1>2, HeldMore
<1> HIDE DEF o, st2, held, held2, hand
<1>4. Good(st2, held2, hand)
  BY <1>2, <1>3
<1>5. Lasting(st2)
  BY <1>1, <1>2, <1>4, LastingKept
<1>6. view \in Views
  BY <1>2, <1>4, ViewTyped
<1>7. ASSUME NEW r \in Slots, slot'[r] # None
      PROVE  /\ slot'[r] \in DOMAIN st2.data /\ st2.data[slot'[r]].kind # "map"
             /\ meant'[r] = View(st2, slot'[r])
  <2>1. CASE r = s
    <3>1. slot'[r] = o /\ meant'[r] = view
      BY <1>1, <2>1
    <3> QED BY <1>2, <3>1
  <2>2. CASE r # s
    <3>1. slot'[r] = slot[r] /\ meant'[r] = meant[r] /\ slot[r] # None
      BY <1>1, <1>7, <2>2
    <3>2. /\ slot[r] \in Ids /\ slot[r] \in DOMAIN store.data /\ store.data[slot[r]].kind # "map"
          /\ meant[r] = View(store, slot[r])
      BY <1>1, <3>1 DEF InSlots
    <3>3. slot[r] \in DOMAIN st2.data /\ st2.data[slot[r]].kind # "map"
      BY <1>2, <3>2 DEF Extends, SameParts
    <3>4. View(st2, slot[r]) = View(store, slot[r])
      BY <1>1, <1>2, <3>2, ViewKept
    <3> QED BY <3>1, <3>2, <3>3, <3>4
  <2> QED BY <2>1, <2>2
<1>8. \A r \in Slots : slot'[r] = None => meant'[r] = Absent
  BY <1>1, <1>2, Distinct DEF InSlots
<1>9. slot' \in [Slots -> Ids \cup {None}] /\ meant' \in [Slots -> Views]
  BY <1>1, <1>2, <1>6
<1>10. InSlots'
  BY <1>1, <1>7, <1>8, <1>9 DEF InSlots
<1>11. InHand'
  <2>1. \A b \in DOMAIN mine : b \in DOMAIN store.buffers /\ store.buffers[b].content = mine[b]
    BY <1>1 DEF InHand, Good, OneOwner, hand
  <2>2. \A b \in DOMAIN mine : st2.buffers[b] = store.buffers[b]
    BY <1>2, <2>1 DEF Extends
  <2> QED BY <1>1, <2>1, <2>2 DEF InHand
<1>12. Good(store', HeldIn(slot'), DOMAIN mine')
  BY <1>1, <1>4 DEF held2, hand
<1> QED BY <1>1, <1>2, <1>5, <1>10, <1>11, <1>12 DEF IInv, Lasting, Complete, Good, HeldIn, Ids

LEMMA AllocatedGood ==
  ASSUME NEW st, NEW held, NEW hand, Good(st, held, hand), RoomForBuffer(st),
         NEW place \in {"block", "heap", "pointed", "client"}, NEW c \in Contents \cup {Empty},
         NEW made, made = Allocated(st, place, c)
  PROVE  /\ made.result \in 1..MaxBuffers /\ made.result \notin DOMAIN st.buffers
         /\ made = [store |-> made.store, result |-> made.result]
         /\ made.store = [data |-> st.data,
                          buffers |-> With(st.buffers, made.result, [place |-> place, content |-> c])]
         /\ made.store.data = st.data
         /\ made.store.buffers[made.result].place = place /\ made.store.buffers[made.result].content = c
         /\ Good(made.store, held, hand \cup {made.result}) /\ Extends(st, made.store)
<1>1. PICK b \in 1..MaxBuffers :
        /\ b \notin DOMAIN st.buffers
        /\ made = [store |-> [data |-> st.data,
                              buffers |-> With(st.buffers, b, [place |-> place, content |-> c])],
                   result |-> b]
  BY AllocatedIs DEF RoomForBuffer, Good, Stored
<1> DEFINE new == [place |-> place, content |-> c]
           st2 == made.store
<1>2. new \in Buffer /\ st2 = [data |-> st.data, buffers |-> With(st.buffers, b, new)] /\ made.result = b
  BY <1>1 DEF Buffer
<1>3. st2.data = st.data /\ st2.buffers[b] = new
  BY <1>2 DEF With
<1> HIDE DEF st2
<1>4. Good(st2, held, hand \cup {b}) /\ Extends(st, st2)
  BY <1>1, <1>2, BufferAdded
<1>5. made = [store |-> st2, result |-> b]
  BY <1>1 DEF st2
<1> QED BY <1>1, <1>2, <1>3, <1>4, <1>5 DEF st2

LEMMA AllocGood ==
  ASSUME NEW st, NEW held, NEW hand, Good(st, held, hand), RoomForData(st),
         NEW c \in Contents \cup {Empty}, NEW own, NEW b, Givable(st, hand, own, b, c),
         NEW kind \in {"string", "array", "binary"}, b = Inside => kind = "string",
         own = "take" => c # Empty
  PROVE  NewGiven(st, held, AfterGiving(hand, own, b), AllocOf(st, kind, c, own, b), kind, c)
<1>1. CASE kind = "string"
  BY <1>1, AllocStringGood DEF AllocOf
<1>2. CASE kind # "string"
  <2>1. kind \in {"array", "binary"} /\ b # Inside
    BY <1>2
  <2>2. AllocOf(st, kind, c, own, b) = AllocArray(st, kind, c, own, b)
    BY <1>2 DEF AllocOf
  <2> QED BY <2>1, <2>2, AllocArrayGood
<1> QED BY <1>1, <1>2

-----------------------------------------------------------------------------
(* Make, MakePointer, UseConstant, Share, Convert *)

LEMMA RoomIs ==
  ASSUME IInv, Room(1)
  PROVE  RoomForData(store) /\ RoomForBuffer(store)
BY DEF Room, RoomForData, RoomForBuffer

LEMMA KeptIs ==
  ASSUME NEW c \in Contents, NEW st, Lasting(st)
  PROVE  /\ KeptBuffer(c) \in Kept /\ KeptBuffer(c) > 0 /\ KeptBuffer(c) # Inside /\ KeptBuffer(c) # None
         /\ st.buffers[KeptBuffer(c)].content = c
<1>1. MaxBuffers \in Nat /\ c \in Nat
  BY OwnedAssumption
<1>2. KeptBuffer(c) \in Kept /\ KeptBuffer(c) - MaxBuffers = c
  BY <1>1 DEF Kept, KeptBuffer
<1>3. KeptBuffer(c) > 0
  BY <1>1, OwnedAssumption DEF KeptBuffer, Empty
<1> QED BY <1>2, <1>3, Distinct DEF Lasting

(* A buffer of the client's that is given to a new data.                     *)
LEMMA TakenGood ==
  ASSUME NEW st, NEW held, NEW hand, Good(st, held, hand), RoomForData(st), RoomForBuffer(st),
         NEW kind \in {"string", "array", "binary"}, NEW c \in Contents \cup {Empty}, kind = "string" \/ c # Empty,
         NEW given, given = Allocated(st, "heap", c)
  PROVE  NewGiven(st, held, hand, AllocOf(given.store, kind, c, "take", given.result), kind, c)
<1> DEFINE b == given.result
           st2 == given.store
           more == hand \cup {b}
           new == [place |-> "heap", content |-> c]
           made == AllocOf(st2, kind, c, "take", b)
<1>1. /\ b \in 1..MaxBuffers /\ b \notin DOMAIN st.buffers
      /\ st2 = [data |-> st.data, buffers |-> With(st.buffers, b, new)]
      /\ st2.data = st.data /\ st2.buffers[b].place = "heap" /\ st2.buffers[b].content = c
      /\ Good(st2, held, more) /\ Extends(st, st2)
  BY AllocatedGood
<1>n. made = AllocOf(st2, kind, c, "take", b) /\ b \in more
  OBVIOUS
<1>m. more = hand \cup {b}
  OBVIOUS
<1>h. b # Inside
  BY <1>1 DEF Inside
<1> HIDE DEF b, st2, more, made, new
<1>2. RoomForData(st2)
  BY <1>1 DEF RoomForData
<1> DEFINE own == "take"
<1>3. Givable(st2, more, own, b, c)
  BY <1>1, <1>n DEF Givable
<1>4. NewGiven(st2, held, AfterGiving(more, own, b), made, kind, c)
  <2>1. CASE kind = "string"
    <3>1. made = AllocString(st2, c, own, b)
      BY <1>n, <2>1 DEF AllocOf
    <3> HIDE DEF own
    <3> QED BY <1>1, <1>2, <1>3, <2>1, <3>1, AllocStringGood
  <2>2. CASE kind # "string"
    <3>1. own = "take" /\ made = AllocOf(st2, kind, c, own, b)
      BY <1>n
    <3> HIDE DEF own
    <3> QED BY <1>1, <1>2, <1>3, <1>h, <2>2, <3>1, AllocGood
  <2> QED BY <2>1, <2>2
<1>5. NewGiven(st2, held, (hand \cup {b}) \ {b}, made, kind, c)
  BY <1>4, <1>m DEF AfterGiving
<1>6. NewGiven(st, held, hand, made, kind, c)
  BY <1>1, <1>5, NewAfterBuffer
<1> QED BY <1>6 DEF made, st2, b

LEMMA MakeGood ==
  ASSUME IInv, NEW s \in Slots, Make(s)
  PROVE  IInv'
<1> DEFINE held == HeldIn(slot)
           hand == DOMAIN mine
<1>0. /\ Good(store, held, hand) /\ Complete(store.data) /\ Lasting(store)
      /\ ByteContents \subseteq Contents /\ Empty \notin Contents
  BY OwnedAssumption DEF IInv
<1>1. PICK kind \in {"string", "array", "binary"}, own \in {"copy", "take", "ref"} :
        \E c \in Contents :
          LET given == IF own = "take" THEN Allocated(store, "heap", c) ELSE Made(store, KeptBuffer(c))
          IN  /\ Room(1) /\ UNCHANGED mine
              /\ Gets(s, AllocOf(given.store, kind, c, own, given.result), New(c))
  <2> SUFFICES ASSUME NEW kind \in {"string", "array", "binary"}, NEW own \in {"copy", "take", "ref"},
                      NEW c \in IF kind = "string" THEN Contents ELSE ByteContents,
                      LET given == IF own = "take" THEN Allocated(store, "heap", c) ELSE Made(store, KeptBuffer(c))
                      IN  /\ Room(1) /\ UNCHANGED mine
                          /\ Gets(s, AllocOf(given.store, kind, c, own, given.result), New(c))
               PROVE  \E c2 \in Contents :
                        LET given == IF own = "take" THEN Allocated(store, "heap", c2) ELSE Made(store, KeptBuffer(c2))
                        IN  /\ Room(1) /\ UNCHANGED mine
                            /\ Gets(s, AllocOf(given.store, kind, c2, own, given.result), New(c2))
    BY DEF Make
  <2>1. c \in Contents
    BY <1>0
  <2> QED BY <2>1
<1>2. PICK c \in Contents :
        LET given == IF own = "take" THEN Allocated(store, "heap", c) ELSE Made(store, KeptBuffer(c))
        IN  /\ Room(1) /\ UNCHANGED mine
            /\ Gets(s, AllocOf(given.store, kind, c, own, given.result), New(c))
  BY <1>1
<1> DEFINE given == IF own = "take" THEN Allocated(store, "heap", c) ELSE Made(store, KeptBuffer(c))
           made == AllocOf(given.store, kind, c, own, given.result)
<1>3. Room(1) /\ UNCHANGED mine /\ Gets(s, made, New(c)) /\ c # Empty
  BY <1>0, <1>2
<1>4. RoomForData(store) /\ RoomForBuffer(store)
  BY <1>3, RoomIs
<1>5. NewGiven(store, held, hand, made, kind, c)
  <2>1. CASE own = "take"
    <3> DEFINE allocated == Allocated(store, "heap", c)
    <3>1. allocated = Allocated(store, "heap", c)
      OBVIOUS
    <3>2. made = AllocOf(allocated.store, kind, c, "take", allocated.result)
      BY <2>1
    <3> HIDE DEF allocated, made, held, hand
    <3> QED BY <1>0, <1>3, <1>4, <3>1, <3>2, TakenGood
  <2>2. CASE own # "take"
    <3>1. made = AllocOf(store, kind, c, own, KeptBuffer(c))
      BY <2>2 DEF Made
    <3> DEFINE b == KeptBuffer(c)
    <3>2. b \in Kept /\ b # Inside /\ b # None /\ store.buffers[b].content = c
      BY <1>0, KeptIs
    <3> HIDE DEF made, b, held, hand
    <3>3. Givable(store, hand, own, b, c)
      BY <1>4, <2>2, <3>2 DEF Givable, ContentAt
    <3>4. NewGiven(store, held, AfterGiving(hand, own, b), AllocOf(store, kind, c, own, b), kind, c)
      BY <1>0, <1>4, <2>2, <3>2, <3>3, AllocGood
    <3> QED BY <2>2, <3>1, <3>4 DEF AfterGiving, b
  <2> QED BY <2>1, <2>2
<1> HIDE DEF given, made
<1>6. Gives(store, held, hand, made, New(c))
  BY <1>0, <1>5, NewGives
<1> QED BY <1>3, <1>6, GetsGood

LEMMA MakePointerGood ==
  ASSUME IInv, NEW s \in Slots, MakePointer(s)
  PROVE  IInv'
<1> DEFINE held == HeldIn(slot)
           hand == DOMAIN mine
<1>0. /\ Good(store, held, hand) /\ Complete(store.data) /\ Lasting(store) /\ ByteContents \subseteq Contents
  BY OwnedAssumption DEF IInv
<1>1. PICK c \in ByteContents, freed \in BOOLEAN :
        LET given == IF freed THEN Allocated(store, "pointed", c) ELSE Made(store, KeptBuffer(c))
        IN  /\ Room(1) /\ UNCHANGED mine
            /\ Gets(s, AllocPointer(given.store, freed, given.result), New(c))
  BY DEF MakePointer
<1> DEFINE given == IF freed THEN Allocated(store, "pointed", c) ELSE Made(store, KeptBuffer(c))
           made == AllocPointer(given.store, freed, given.result)
<1>3. Room(1) /\ UNCHANGED mine /\ Gets(s, made, New(c)) /\ c \in Contents
  BY <1>0, <1>1
<1>4. RoomForData(store) /\ RoomForBuffer(store)
  BY <1>3, RoomIs
<1>5. NewGiven(store, held, hand, made, "pointer", c)
  <2>1. CASE freed
    <3> DEFINE allocated == Allocated(store, "pointed", c)
               b == allocated.result
               st2 == allocated.store
               more == hand \cup {b}
               new == [place |-> "pointed", content |-> c]
    <3>1. allocated = Allocated(store, "pointed", c)
      OBVIOUS
    <3>2. made = AllocPointer(st2, TRUE, b) /\ more = hand \cup {b} /\ b \in more
      BY <2>1
    <3> HIDE DEF allocated, made, held, hand
    <3>3. /\ b \in 1..MaxBuffers /\ b \notin DOMAIN store.buffers
          /\ st2 = [data |-> store.data, buffers |-> With(store.buffers, b, new)]
          /\ st2.data = store.data /\ st2.buffers[b].place = "pointed" /\ st2.buffers[b].content = c
          /\ Good(st2, held, more) /\ Extends(store, st2)
      BY <1>0, <1>3, <1>4, <3>1, AllocatedGood
    <3> HIDE DEF b, st2, more, new
    <3>4. RoomForData(st2)
      BY <1>4, <3>3 DEF RoomForData
    <3>5. NewGiven(st2, held, IF TRUE THEN more \ {b} ELSE more, made, "pointer", c)
      BY <1>3, <3>2, <3>3, <3>4, AllocPointerGood
    <3>6. NewGiven(st2, held, (hand \cup {b}) \ {b}, made, "pointer", c)
      BY <3>2, <3>5
    <3> QED BY <1>0, <3>3, <3>6, NewAfterBuffer
  <2>2. CASE ~ freed
    <3> DEFINE b == KeptBuffer(c)
    <3>1. made = AllocPointer(store, FALSE, b)
      BY <2>2 DEF Made
    <3>2. b \in Kept /\ b \in hand \cup Kept /\ store.buffers[b].content = c
      BY <1>0, <1>3, KeptIs
    <3> HIDE DEF made, b, held, hand
    <3>3. NewGiven(store, held, IF FALSE THEN hand \ {b} ELSE hand, made, "pointer", c)
      BY <1>0, <1>3, <1>4, <3>1, <3>2, AllocPointerGood
    <3> QED BY <3>3
  <2> QED BY <2>1, <2>2
<1> HIDE DEF given, made
<1>6. Gives(store, held, hand, made, New(c))
  BY <1>0, <1>5, NewGives
<1> QED BY <1>3, <1>6, GetsGood

(* Another reference to a data that is there.                                *)
LEMMA MadeIs ==
  ASSUME NEW st, NEW o
  PROVE  Made(st, o).store = st /\ Made(st, o).result = o
BY DEF Made

LEMMA AddRefGood ==
  ASSUME NEW st, NEW held, NEW hand, Good(st, held, hand), NEW o \in DOMAIN st.data,
         NEW st2, st2 = AddRef(st, o)
  PROVE  /\ Good(st2, More(held, o), hand) /\ Extends(st, st2) /\ Extends(st2, st)
         /\ st2.buffers = st.buffers /\ DOMAIN st2.data = DOMAIN st.data
         /\ \A x \in DOMAIN st.data : /\ st2.data[x].meta = st.data[x].meta /\ st2.data[x].value = st.data[x].value
                                      /\ st2.data[x].kind = st.data[x].kind
<1>0. /\ o \in Ids /\ o # None /\ held \in [Ids -> Nat] /\ st.data[o] \in Datum
      /\ st = [data |-> st.data, buffers |-> st.buffers] /\ st.data \in [DOMAIN st.data -> Datum]
  BY Distinct DEF Good, Stored
<1>1. CASE st.data[o].constant
  <2>1. o \in DOMAIN Constants
    BY <1>1 DEF Good, ConstantsStay
  <2>2. Good(st, More(held, o), hand)
    BY <1>0, <2>1, ConstantHeld, held[o] + 1 \in Nat DEF More
  <2>3. st2 = st /\ Extends(st, st)
    BY <1>0, <1>1 DEF AddRef, Extends, SameParts
  <2> QED BY <2>2, <2>3
<1>2. CASE ~ st.data[o].constant
  <2> DEFINE k == held[o] + 1
             n == st.data[o].refs + 1
  <2>1. o \notin DOMAIN Constants /\ st.data[o].refs \in Nat /\ held[o] \in Nat
    BY <1>0, <1>2 DEF Good, ConstantsStay, Datum
  <2>2. st2 = [st EXCEPT !.data[o].refs = n]
    BY <1>0, <1>2 DEF AddRef
  <2>3. k \in Nat /\ n \in Nat \ {0} /\ n - st.data[o].refs = k - held[o]
    BY <2>1
  <2>4. More(held, o) = [held EXCEPT ![o] = k]
    BY <1>0 DEF More
  <2> HIDE DEF k, n
  <2>5. Good(st2, [held EXCEPT ![o] = k], hand) /\ Extends(st, st2) /\ Extends(st2, st)
    BY <2>1, <2>2, <2>3, RefsChanged
  <2> DEFINE d2 == [st.data[o] EXCEPT !.refs = n]
  <2>6. st2 = [data |-> [st.data EXCEPT ![o] = d2], buffers |-> st.buffers]
    BY <1>0, <2>2
  <2>7. d2.meta = st.data[o].meta /\ d2.value = st.data[o].value /\ d2.kind = st.data[o].kind
    BY <1>0 DEF Datum
  <2> HIDE DEF d2
  <2>8. /\ st2.buffers = st.buffers /\ DOMAIN st2.data = DOMAIN st.data
        /\ st2.data[o] = d2 /\ \A x \in DOMAIN st.data \ {o} : st2.data[x] = st.data[x]
    BY <1>0, <2>6
  <2> QED BY <2>4, <2>5, <2>7, <2>8
<1> QED BY <1>1, <1>2

LEMMA SharedGives ==
  ASSUME NEW st, NEW held, NEW hand, Good(st, held, hand), Complete(st.data),
         NEW o \in DOMAIN st.data, st.data[o].kind # "map"
  PROVE  Gives(st, held, hand, Made(AddRef(st, o), o), View(st, o))
<1> DEFINE st2 == AddRef(st, o)
           made == Made(st2, o)
<1>0. st2 = AddRef(st, o)
  OBVIOUS
<1>m. made.store = st2 /\ made.result = o
  BY MadeIs
<1> HIDE DEF st2, made
<1>1. /\ Good(st2, More(held, o), hand) /\ Extends(st, st2) /\ Extends(st2, st)
      /\ DOMAIN st2.data = DOMAIN st.data /\ st2.data[o].kind # "map"
  BY <1>0, AddRefGood
<1>2. Complete(st2.data)
  BY <1>1, CompleteKept
<1>3. View(st2, o) = View(st, o)
  BY <1>1, ViewKept
<1>4. o \in Ids
  BY DEF Good, Stored
<1> QED BY <1>m, <1>1, <1>2, <1>3, <1>4 DEF Gives, made, st2

LEMMA ShareGood ==
  ASSUME IInv, NEW s \in Slots, NEW r \in Slots, Share(s, r)
  PROVE  IInv'
<1> DEFINE o == slot[s]
           made == Made(AddRef(store, o), o)
<1>1. /\ o # None /\ Gets(r, made, meant[s]) /\ UNCHANGED mine
  BY DEF Share, Held
<1>2. /\ Good(store, HeldIn(slot), DOMAIN mine) /\ Complete(store.data)
      /\ o \in DOMAIN store.data /\ store.data[o].kind # "map" /\ meant[s] = View(store, o)
  BY <1>1 DEF IInv, InSlots
<1> HIDE DEF o
<1>3. Gives(store, HeldIn(slot), DOMAIN mine, made, View(store, o))
  BY <1>2, SharedGives
<1> HIDE DEF made
<1> QED BY <1>1, <1>2, <1>3, GetsGood

LEMMA UseConstantGood ==
  ASSUME IInv, NEW s \in Slots, UseConstant(s)
  PROVE  IInv'
<1>0. Good(store, HeldIn(slot), DOMAIN mine) /\ Complete(store.data) /\ Lasting(store)
  BY DEF IInv
<1>1. PICK o \in DOMAIN Constants :
        /\ Gets(s, Made(store, o), [content |-> Constants[o], meta |-> MetaView(store, store.data[o].meta)])
        /\ UNCHANGED mine
  BY DEF UseConstant, MetaView
<1>2. /\ o \in DOMAIN store.data /\ store.data[o].kind = "string" /\ store.data[o].constant /\ o # None
      /\ store.data[o].at = KeptBuffer(Constants[o]) /\ Constants[o] \in Contents
  BY <1>0, Distinct, OwnedAssumption DEF Good, ConstantsStay, Lasting, Ids
<1>3. ContentOf(store, o) = Constants[o]
  BY <1>0, <1>2, KeptIs DEF ContentOf
<1>4. Gets(s, Made(store, o), View(store, o))
  BY <1>1, <1>3 DEF View
<1>5. AddRef(store, o) = store
  BY <1>2 DEF AddRef
<1>6. Gives(store, HeldIn(slot), DOMAIN mine, Made(store, o), View(store, o))
  BY <1>0, <1>2, <1>5, SharedGives, "string" # "map"
<1> DEFINE made == Made(store, o)
           view == View(store, o)
<1>7. Gives(store, HeldIn(slot), DOMAIN mine, made, view) /\ Gets(s, made, view) /\ UNCHANGED mine
  BY <1>1, <1>4, <1>6
<1> HIDE DEF made, view
<1> QED BY <1>7, GetsGood

LEMMA ConvertGood ==
  ASSUME IInv, NEW s \in Slots, NEW r \in Slots, Convert(s, r)
  PROVE  IInv'
<1> DEFINE o == slot[s]
           c == ContentOf(store, o)
           held == HeldIn(slot)
           hand == DOMAIN mine
<1>0. /\ Good(store, held, hand) /\ Complete(store.data) /\ Room(1) /\ UNCHANGED mine /\ o # None
  BY DEF IInv, Convert, Is, Held
<1>1. RoomForData(store) /\ RoomForBuffer(store)
  BY <1>0, RoomIs
<1>2. o \in DOMAIN store.data /\ meant[s].content = c
  BY <1>0 DEF IInv, InSlots, View
<1>c. c = ContentOf(store, o)
  OBVIOUS
<1> HIDE DEF o, c, held, hand
<1>3. c \in Contents \cup {Empty}
  BY <1>0, <1>2, <1>c, ContentTyped
<1>4. ASSUME Gets(r, BinaryFromString(store, o), New(c)) PROVE IInv'
  <2> DEFINE made == BinaryFromString(store, o)
             own == "copy"
             kind == "binary"
             b == store.data[o].at
  <2>1. /\ made = AllocArray(store, kind, c, own, b) /\ own # "take" /\ own = "copy"
        /\ kind \in {"array", "binary"} /\ kind # "map"
    BY <1>c DEF BinaryFromString
  <2> HIDE DEF made, own, kind, b
  <2>2. Givable(store, hand, own, b, c)
    BY <1>1, <2>1 DEF Givable
  <2>3. NewGiven(store, held, AfterGiving(hand, own, b), made, kind, c)
    BY <1>0, <1>1, <1>3, <2>1, <2>2, AllocArrayGood
  <2>4. NewGiven(store, held, hand, made, kind, c)
    BY <2>1, <2>3 DEF AfterGiving
  <2>5. Gives(store, held, hand, made, New(c))
    BY <1>0, <2>1, <2>4, NewGives
  <2> QED BY <1>0, <1>4, <2>5, GetsGood DEF made, held, hand
<1>5. ASSUME Gets(r, StringFromBinary(store, o), New(c)) PROVE IInv'
  <2> DEFINE given == Allocated(store, "heap", c)
             made == StringFromBinary(store, o)
             kind == "string"
  <2>1. /\ given = Allocated(store, "heap", c) /\ kind \in {"string", "array", "binary"} /\ kind # "map"
        /\ kind = "string"
    OBVIOUS
  <2>2. made = AllocOf(given.store, kind, c, "take", given.result)
    BY <1>c DEF StringFromBinary, AllocOf
  <2> HIDE DEF given, made, kind
  <2>3. NewGiven(store, held, hand, AllocOf(given.store, kind, c, "take", given.result), kind, c)
    BY <1>0, <1>1, <1>3, <2>1, TakenGood
  <2>4. Gives(store, held, hand, made, New(c))
    BY <1>0, <2>1, <2>2, <2>3, NewGives
  <2> QED BY <1>0, <1>5, <2>4, GetsGood DEF made, held, hand
<1> QED BY <1>2, <1>4, <1>5 DEF Convert, o

-----------------------------------------------------------------------------
(* iot_data_copy *)

LEMMA MetaSame ==
  ASSUME NEW st, NEW held, NEW hand, Good(st, held, hand), NEW o \in DOMAIN st.data, st.data[o].meta = None
  PROVE  [AddRef(st, None) EXCEPT !.data[o].meta = None] = st
<1>1. /\ st = [data |-> st.data, buffers |-> st.buffers] /\ st.data \in [DOMAIN st.data -> Datum]
      /\ st.data[o] \in Datum
  BY DEF Good, Stored
<1>2. AddRef(st, None) = st
  BY DEF AddRef
<1> DEFINE d == st.data[o]
<1>3. [st EXCEPT !.data[o].meta = None] = [data |-> [st.data EXCEPT ![o] = [d EXCEPT !.meta = None]],
                                           buffers |-> st.buffers]
  BY <1>1
<1>4. [d EXCEPT !.meta = None] = d
  BY <1>1 DEF Datum
<1> QED BY <1>1, <1>2, <1>3, <1>4

(* The new data n of st gets the metadata of o.                              *)
LEMMA CopyMetaGives ==
  ASSUME NEW st, NEW held, NEW hand, Good(st, held, hand), Complete(st.data),
         NEW o \in DOMAIN st.data, NEW m, m = st.data[o].meta, m # None,
         NEW kind, kind # "map", NEW made, NewGiven(st, held, hand, made, kind, ContentOf(st, o)),
         NEW st3, st3 = [AddRef(made.store, m) EXCEPT !.data[made.result].meta = m]
  PROVE  Gives(st, held, hand, Made(st3, made.result), View(st, o))
<1> DEFINE st1 == made.store
           n == made.result
           st2 == AddRef(st1, m)
           held1 == More(held, n)
           held2 == More(held1, m)
           v == st.data[m].value
<1>0. /\ st2 = AddRef(st1, m) /\ held2 = More(held1, m) /\ held1 = More(held, n)
      /\ st3 = [st2 EXCEPT !.data[n].meta = m]
  OBVIOUS
<1>1. /\ n \in 1..MaxData /\ n \in Ids /\ n \notin DOMAIN st.data /\ Good(st1, held1, hand) /\ Extends(st, st1)
      /\ DOMAIN st1.data = DOMAIN st.data \cup {n} /\ \A x \in DOMAIN st.data : st1.data[x] = st.data[x]
      /\ st1.data[n].kind # "map" /\ st1.data[n].meta = None /\ st1.data[n].value = None
      /\ ContentOf(st1, n) = ContentOf(st, o)
  BY DEF NewGiven, Ids
<1>2. /\ m \in DOMAIN st.data /\ st.data[m].kind = "map" /\ v # None /\ v \in DOMAIN st.data /\ m # n
      /\ m \in Ids
  BY <1>1 DEF Good, Nested, Complete, Stored
<1> HIDE DEF st1, n, st2, held1, held2, v
<1>3. /\ Good(st2, held2, hand) /\ Extends(st1, st2) /\ Extends(st2, st1)
      /\ st2.buffers = st1.buffers /\ DOMAIN st2.data = DOMAIN st1.data
      /\ \A x \in DOMAIN st1.data : /\ st2.data[x].meta = st1.data[x].meta /\ st2.data[x].value = st1.data[x].value
                                    /\ st2.data[x].kind = st1.data[x].kind
  <2>1. Good(st1, held1, hand) /\ m \in DOMAIN st1.data
    BY <1>1, <1>2
  <2>2. st2 = AddRef(st1, m) /\ held2 = More(held1, m)
    BY <1>0
  <2> QED BY <2>1, <2>2, AddRefGood, SMTT(30)
<1>4. \A x \in DOMAIN st2.data : st2.data[x].value # n
  <2>1. \A x \in DOMAIN st.data : st.data[x].value # n
    BY <1>1, Distinct DEF Good, Nested
  <2> QED BY <1>1, <1>3, <2>1, Distinct
<1>5. /\ n \in DOMAIN st2.data /\ st2.data[n].kind # "map" /\ st2.data[n].meta = None
      /\ m \in DOMAIN st2.data /\ st2.data[m].kind = "map"
  BY <1>1, <1>2, <1>3
<1>6. held2[m] > 0 /\ held1 \in [Ids -> Nat] /\ \A p \in Ids : held1[p] = held2[p] - One(p, m)
  <2>1. held1 \in [Ids -> Nat] /\ held2 = [held1 EXCEPT ![m] = held1[m] + 1]
    BY <1>0, <1>1 DEF Good, More
  <2> QED BY <1>2, <2>1 DEF One
<1>7. /\ Good(st3, held1, hand) /\ st3.buffers = st2.buffers /\ DOMAIN st3.data = DOMAIN st2.data
      /\ st3.data[n] = [st2.data[n] EXCEPT !.meta = m]
      /\ \A x \in DOMAIN st2.data \ {n} : st3.data[x] = st2.data[x]
  <2>1. MetaIsSet(st2, st3, n, m)
    BY <1>0, <1>3, <1>5, MetaSets DEF Good
  <2>2. Good(st3, held1, hand)
    <3>1. Good(st2, held2, hand)
      BY <1>3
    <3> QED BY <1>4, <1>5, <1>6, <2>1, <3>1, MetaSet, SMTT(30)
  <2> QED BY <2>1, <2>2 DEF MetaIsSet
<1>8. st2.data[n] \in Datum
  BY <1>3, <1>5 DEF Good, Stored
<1>9. /\ st3.data[n].at = st2.data[n].at /\ st3.data[n].inside = st2.data[n].inside
      /\ st3.data[n].kind = st2.data[n].kind /\ st3.data[n].meta = m
  <2> DEFINE e == st2.data[n]
  <2>1. e \in Datum /\ st3.data[n] = [e EXCEPT !.meta = m]
    BY <1>7, <1>8
  <2> HIDE DEF e
  <2>2. /\ [e EXCEPT !.meta = m].at = e.at /\ [e EXCEPT !.meta = m].inside = e.inside
        /\ [e EXCEPT !.meta = m].kind = e.kind /\ [e EXCEPT !.meta = m].meta = m
    BY <2>1 DEF Datum
  <2> QED BY <2>1, <2>2 DEF e
<1>10. Extends(st, st3)
  <2>1. Extends(st, st2)
    BY <1>1, <1>3, ExtendsTransitive
  <2> QED BY <1>1, <1>7, <2>1 DEF Extends
<1>11. ContentOf(st3, n) = ContentOf(st, o)
  <2>1. ContentOf(st2, n) = ContentOf(st1, n)
    BY <1>1, <1>3, <1>5, ContentKept
  <2>2. ContentOf(st3, n) = ContentOf(st2, n)
    BY <1>7, <1>9 DEF ContentOf
  <2> QED BY <1>1, <2>1, <2>2
<1>12. MetaView(st3, m) = MetaView(st, m)
  <2>1. st3.data[m].value = v
    BY <1>2, <1>10 DEF Extends, SameParts, v
  <2>2. ContentOf(st3, v) = ContentOf(st, v)
    BY <1>2, <1>10, ContentKept
  <2> QED BY <1>2, <2>1, <2>2 DEF MetaView, v
<1>13. View(st3, n) = View(st, o)
  BY <1>9, <1>11, <1>12 DEF View
<1>14. Complete(st3.data)
  <2>1. Complete(st1.data)
    BY <1>1 DEF Complete, Good, Nested
  <2>2. Complete(st2.data)
    BY <1>3, <2>1, CompleteKept
  <2>3. st3.data[m].value # None
    BY <1>2, <1>10 DEF Extends, SameParts, v
  <2>4. ASSUME NEW x \in DOMAIN st3.data, st3.data[x].meta # None
        PROVE  st3.data[st3.data[x].meta].value # None
    <3>1. CASE x = n
      BY <1>9, <2>3, <3>1
    <3>2. CASE x # n
      <4>1. x \in DOMAIN st2.data /\ st3.data[x] = st2.data[x]
        BY <1>7, <3>2
      <4> DEFINE w == st2.data[x].meta
      <4>0. w # None
        BY <2>4, <4>1
      <4>2. w \in DOMAIN st2.data /\ st2.data[w].kind = "map"
        <5>1. Nested(st2.data)
          BY <1>3 DEF Good
        <5> QED BY <4>0, <4>1, <5>1 DEF Nested
      <4>3. w # n /\ st3.data[w] = st2.data[w]
        BY <1>5, <1>7, <4>2
      <4>4. st2.data[w].value # None
        BY <2>2, <4>0, <4>1 DEF Complete
      <4> QED BY <4>1, <4>3, <4>4
    <3> QED BY <3>1, <3>2
  <2> QED BY <2>4 DEF Complete
<1>15. n \in DOMAIN st3.data /\ st3.data[n].kind # "map"
  BY <1>5, <1>7, <1>9
<1>16. Good(st3, More(held, n), hand)
  BY <1>0, <1>7
<1>17. Made(st3, n).store = st3 /\ Made(st3, n).result = n
  BY MadeIs
<1>18. Gives(st, held, hand, Made(st3, n), View(st, o))
  BY <1>1, <1>10, <1>13, <1>14, <1>15, <1>16, <1>17 DEF Gives
<1> QED BY <1>18 DEF n

LEMMA CopyGives ==
  ASSUME NEW st, NEW held, NEW hand, Good(st, held, hand), Complete(st.data), RoomForData(st), RoomForBuffer(st),
         NEW o \in DOMAIN st.data, st.data[o].kind # "map", st.data[o].kind = "pointer" => st.data[o].meta = None
  PROVE  Gives(st, held, hand, Copy(st, o), View(st, o))
<1> DEFINE d == st.data[o]
           kind == d.kind
           m == d.meta
           c == ContentOf(st, o)
           own == CopyOwnership(d)
           b == d.at
           made == AllocOf(st, kind, c, own, b)
<1>0. /\ d \in Datum /\ o # None
  BY Distinct DEF Good, Stored
<1>1. CASE d.constant
  <2>1. AddRef(st, o) = st /\ Copy(st, o) = Made(st, o)
    BY <1>1 DEF AddRef, Copy
  <2> QED BY <2>1, SharedGives
<1>2. CASE ~ d.constant /\ kind = "pointer"
  <2> DEFINE st2 == AddRef(st, o)
  <2>1. Gives(st, held, hand, Made(st2, o), View(st, o))
    BY SharedGives
  <2>2. m = None
    BY <1>2
  <2>3. Copy(st, o) = Made([AddRef(st2, None) EXCEPT !.data[o].meta = None], o)
    BY <1>2, <2>2, MadeIs DEF Copy
  <2>e. st2 = AddRef(st, o)
    OBVIOUS
  <2> HIDE DEF st2
  <2>4. Good(st2, More(held, o), hand) /\ o \in DOMAIN st2.data /\ st2.data[o].meta = None
    BY <2>2, <2>e, AddRefGood
  <2>5. [AddRef(st2, None) EXCEPT !.data[o].meta = None] = st2
    BY <2>4, MetaSame
  <2> QED BY <2>1, <2>3, <2>5
<1>3. CASE ~ d.constant /\ kind # "pointer"
  <2>1. Copy(st, o) = Made([AddRef(made.store, m) EXCEPT !.data[made.result].meta = m], made.result)
    BY <1>3 DEF Copy
  <2>2. kind \in {"string", "array", "binary"} /\ kind # "map"
    BY <1>0, <1>3 DEF Datum
  <2>3. c \in Contents \cup {Empty}
    BY ContentTyped
  <2>4. own \in {"copy", "ref"}
    BY DEF CopyOwnership
  <2>5. own = "ref" => b \in {Inside, None} \cup Kept
    <3>1. SUFFICES ASSUME ~ d.release PROVE b \in {Inside, None} \cup Kept
      BY DEF CopyOwnership
    <3>2. b > 0 => b \in Kept
      BY <3>1 DEF Good, OneOwner, Owns
    <3> QED BY <1>0, <3>2, Distinct DEF Datum
  <2>6. ContentAt(st, b, c) = c
    <3>1. c = ContentAt(st, b, d.inside)
      BY <1>0, ContentIs DEF Datum
    <3> QED BY <3>1 DEF ContentAt
  <2>7. b = Inside => kind = "string"
    BY DEF Good, Nested
  <2>8. made = AllocOf(st, kind, c, own, b)
    OBVIOUS
  <2>9. m = None => View(st, o) = New(c)
    BY DEF View, New, MetaView
  <2>c. c = ContentOf(st, o) /\ m = st.data[o].meta
    OBVIOUS
  <2> HIDE DEF d, kind, m, c, own, b, made
  <2>10. Givable(st, hand, own, b, c) /\ own # "take"
    BY <2>4, <2>5, <2>6 DEF Givable
  <2>11. NewGiven(st, held, AfterGiving(hand, own, b), made, kind, c)
    BY <2>2, <2>3, <2>7, <2>8, <2>10, AllocGood
  <2>12. NewGiven(st, held, hand, made, kind, c)
    BY <2>10, <2>11 DEF AfterGiving
  <2>13. CASE m = None
    <3> DEFINE st1 == made.store
               n == made.result
    <3>1. Gives(st, held, hand, made, New(c))
      BY <2>2, <2>12, NewGives
    <3>2. Good(st1, More(held, n), hand) /\ n \in DOMAIN st1.data /\ st1.data[n].meta = None
      BY <2>12 DEF NewGiven
    <3>3. Copy(st, o) = Made([AddRef(st1, None) EXCEPT !.data[n].meta = None], n)
      BY <2>1, <2>13
    <3> HIDE DEF st1, n
    <3>4. [AddRef(st1, None) EXCEPT !.data[n].meta = None] = st1
      BY <3>2, MetaSame
    <3>5. Gives(st, held, hand, Made(st1, n), New(c))
      BY <3>1, MadeIs DEF Gives, st1, n
    <3> QED BY <2>9, <2>13, <3>3, <3>4, <3>5
  <2>14. CASE m # None
    <3> DEFINE st3 == [AddRef(made.store, m) EXCEPT !.data[made.result].meta = m]
    <3>1. st3 = [AddRef(made.store, m) EXCEPT !.data[made.result].meta = m]
      OBVIOUS
    <3> HIDE DEF st3
    <3>2. Gives(st, held, hand, Made(st3, made.result), View(st, o))
      BY <2>2, <2>12, <2>14, <2>c, <3>1, CopyMetaGives
    <3> QED BY <2>1, <3>1, <3>2
  <2> QED BY <2>13, <2>14
<1> QED BY <1>1, <1>2, <1>3

LEMMA CopyDataGood ==
  ASSUME IInv, NEW s \in Slots, NEW r \in Slots, CopyData(s, r)
  PROVE  IInv'
<1> DEFINE o == slot[s]
           made == Copy(store, o)
<1>1. /\ o # None /\ Room(1) /\ Gets(r, made, meant[s]) /\ UNCHANGED mine
      /\ store.data[o].kind = "pointer" => store.data[o].meta = None
  BY DEF CopyData, Held, Is
<1>2. /\ Good(store, HeldIn(slot), DOMAIN mine) /\ Complete(store.data)
      /\ o \in DOMAIN store.data /\ store.data[o].kind # "map" /\ meant[s] = View(store, o)
  BY <1>1 DEF IInv, InSlots
<1>3. RoomForData(store) /\ RoomForBuffer(store)
  BY <1>1, RoomIs
<1> HIDE DEF o
<1>4. Gives(store, HeldIn(slot), DOMAIN mine, made, View(store, o))
  BY <1>1, <1>2, <1>3, CopyGives
<1> HIDE DEF made
<1> QED BY <1>1, <1>2, <1>4, GetsGood

-----------------------------------------------------------------------------
(* FreeData, FreeBuffer, Retype, TakeBuffer *)

(* The store changes to what it extends or what extends it, and the client    *)
(* may let go of what one slot refers to.                                    *)
LEMMA SlotsKept ==
  ASSUME IInv, NEW st2, NEW hand2, Good(st2, HeldIn(slot'), hand2), Extends(store, st2) \/ Extends(st2, store),
         NEW gone \in SUBSET Slots,
         slot' = [q \in Slots |-> IF q \in gone THEN None ELSE slot[q]],
         meant' = [q \in Slots |-> IF q \in gone THEN Absent ELSE meant[q]],
         Complete(st2.data), store' = st2, InHand', hand2 = DOMAIN mine'
  PROVE  IInv'
<1>1. /\ Good(store, HeldIn(slot), DOMAIN mine) /\ Complete(store.data) /\ Lasting(store) /\ InSlots
      /\ slot \in [Slots -> Ids \cup {None}] /\ meant \in [Slots -> Views]
  BY DEF IInv, InSlots
<1>2. Lasting(st2)
  BY <1>1, LastingKept
<1>3. \A q \in Slots : /\ slot'[q] = IF q \in gone THEN None ELSE slot[q]
                       /\ meant'[q] = IF q \in gone THEN Absent ELSE meant[q]
  OBVIOUS
<1>4. Absent \in Views
  BY DEF Absent, Views, None, Empty
<1>5. slot' \in [Slots -> Ids \cup {None}] /\ meant' \in [Slots -> Views]
  BY <1>1, <1>4
<1> DEFINE held2 == HeldIn(slot')
<1>6. /\ Good(st2, held2, hand2)
      /\ \A q \in Slots : slot'[q] # None => held2[slot'[q]] > 0
  BY <1>5, HeldTyped
<1> HIDE DEF held2
<1>7. ASSUME NEW q \in Slots, slot'[q] # None
      PROVE  /\ slot'[q] \in DOMAIN st2.data /\ st2.data[slot'[q]].kind # "map"
             /\ meant'[q] = View(st2, slot'[q])
  <2> DEFINE o == slot[q]
  <2>1. slot'[q] = o /\ meant'[q] = meant[q] /\ o # None /\ held2[o] > 0
    BY <1>3, <1>6, <1>7
  <2>2. o \in Ids /\ o \in DOMAIN store.data /\ store.data[o].kind # "map" /\ meant[q] = View(store, o)
    BY <1>1, <2>1 DEF InSlots
  <2> HIDE DEF o
  <2>3. o \in DOMAIN st2.data /\ st2.data[o].kind # "map" /\ View(st2, o) = View(store, o)
    BY <1>1, <1>6, <2>1, <2>2, SeenStill
  <2> QED BY <2>1, <2>2, <2>3
<1>8. \A q \in Slots : slot'[q] = None => meant'[q] = Absent
  BY <1>1, <1>3 DEF InSlots
<1>9. InSlots'
  BY <1>5, <1>7, <1>8 DEF InSlots
<1>10. Good(store', HeldIn(slot'), DOMAIN mine')
  BY <1>6 DEF held2
<1> QED BY <1>2, <1>9, <1>10 DEF IInv, Lasting, Complete, Good, HeldIn, Ids

LEMMA HandKept ==
  ASSUME IInv, NEW held2, NEW st2, Good(st2, held2, DOMAIN mine), Extends(store, st2) \/ Extends(st2, store),
         store' = st2, mine' = mine
  PROVE  InHand'
<1>1. /\ mine \in [DOMAIN mine -> Contents \cup {Empty}]
      /\ \A b \in DOMAIN mine : b \in DOMAIN store.buffers /\ store.buffers[b].content = mine[b]
  BY DEF IInv, InHand, Good, OneOwner
<1>2. \A b \in DOMAIN mine : b \in DOMAIN st2.buffers
  BY DEF Good, OneOwner
<1>3. \A b \in DOMAIN mine : st2.buffers[b] = store.buffers[b]
  BY <1>1, <1>2 DEF Extends
<1> QED BY <1>1, <1>3 DEF InHand

LEMMA FreeDataGood ==
  ASSUME IInv, NEW s \in Slots, FreeData(s)
  PROVE  IInv'
<1> DEFINE o == slot[s]
           held == HeldIn(slot)
           hand == DOMAIN mine
           st2 == Free(store, o)
<1>1. /\ o # None /\ store' = st2 /\ slot' = [slot EXCEPT ![s] = None]
      /\ meant' = [meant EXCEPT ![s] = Absent] /\ mine' = mine
  BY DEF FreeData, Held
<1>2. /\ Good(store, held, hand) /\ Complete(store.data) /\ slot \in [Slots -> Ids \cup {None}]
      /\ meant \in [Slots -> Views] /\ o \in Ids /\ o \in DOMAIN store.data /\ store.data[o].kind # "map"
  BY <1>1 DEF IInv, InSlots
<1>3. held[o] > 0
  BY <1>2, HeldTyped
<1>4. HeldIn(slot') = Fewer(held, o)
  BY <1>1, <1>2, HeldFewer
<1>e. st2 = Free(store, o)
  OBVIOUS
<1> HIDE DEF o, held, hand, st2
<1>5. Good(st2, Fewer(held, o), hand) /\ Extends(st2, store)
  BY <1>2, <1>3, <1>e, FreeGood DEF Left
<1>6. Complete(st2.data)
  BY <1>2, <1>5, CompleteKept
<1>7. Good(st2, HeldIn(slot'), hand)
  BY <1>4, <1>5
<1>8. InHand'
  BY <1>1, <1>5, HandKept DEF hand
<1>9. /\ slot' = [q \in Slots |-> IF q \in {s} THEN None ELSE slot[q]]
      /\ meant' = [q \in Slots |-> IF q \in {s} THEN Absent ELSE meant[q]]
  BY <1>1, <1>2
<1>10. hand = DOMAIN mine'
  BY <1>1 DEF hand
<1>11. {s} \in SUBSET Slots
  OBVIOUS
<1> DEFINE gone == {s}
<1>12. /\ gone \in SUBSET Slots
       /\ slot' = [q \in Slots |-> IF q \in gone THEN None ELSE slot[q]]
       /\ meant' = [q \in Slots |-> IF q \in gone THEN Absent ELSE meant[q]]
  BY <1>9, <1>11
<1> HIDE DEF gone
<1> QED BY <1>1, <1>5, <1>6, <1>7, <1>8, <1>10, <1>12, SlotsKept

(* Nothing but the store and the buffers in hand changes.                    *)
LEMMA StoreOnly ==
  ASSUME IInv, NEW st2, NEW hand2, Good(st2, HeldIn(slot), hand2), Extends(store, st2) \/ Extends(st2, store),
         UNCHANGED <<slot, meant>>, Complete(st2.data), store' = st2, InHand', hand2 = DOMAIN mine'
  PROVE  IInv'
<1> DEFINE gone == {}
<1>1. slot \in [Slots -> Ids \cup {None}] /\ meant \in [Slots -> Views]
  BY DEF IInv, InSlots
<1>2. /\ gone \in SUBSET Slots
      /\ slot' = [q \in Slots |-> IF q \in gone THEN None ELSE slot[q]]
      /\ meant' = [q \in Slots |-> IF q \in gone THEN Absent ELSE meant[q]]
  BY <1>1
<1>3. Good(st2, HeldIn(slot'), hand2)
  OBVIOUS
<1> HIDE DEF gone
<1> QED BY <1>2, <1>3, SlotsKept

LEMMA FreeBufferGood ==
  ASSUME IInv, FreeBuffer
  PROVE  IInv'
<1>1. PICK b \in DOMAIN mine : /\ store' = Released(store, b) /\ mine' = Without(mine, b)
                               /\ UNCHANGED <<slot, meant>>
  BY DEF FreeBuffer
<1> DEFINE st2 == Released(store, b)
           held == HeldIn(slot)
           hand == DOMAIN mine
           hand2 == hand \ {b}
<1>2. Good(store, held, hand) /\ Complete(store.data) /\ InHand
  BY DEF IInv
<1>3. hand2 = DOMAIN mine' /\ \A c \in hand2 : mine'[c] = mine[c] /\ c \in DOMAIN mine
  BY <1>1 DEF Without
<1>e. /\ st2 = Released(store, b) /\ hand2 = hand \ {b} /\ b \in hand /\ hand = DOMAIN mine
      /\ store' = st2 /\ held = HeldIn(slot)
  BY <1>1
<1> HIDE DEF st2, held, hand, hand2
<1>4. Good(st2, held, hand2) /\ Extends(st2, store)
  BY <1>2, <1>e, BufferDropped
<1>5. Complete(st2.data)
  BY <1>2, <1>4, CompleteKept
<1>6. InHand'
  <2>1. \A c \in hand2 : c \in DOMAIN st2.buffers
    BY <1>4 DEF Good, OneOwner
  <2>2. \A c \in hand2 : st2.buffers[c].content = mine'[c]
    BY <1>2, <1>3, <1>4, <2>1 DEF Extends, InHand
  <2>3. mine' \in [DOMAIN mine' -> Contents \cup {Empty}]
    BY <1>1, <1>2 DEF InHand, Without
  <2> QED BY <1>3, <1>e, <2>2, <2>3 DEF InHand
<1>7. Good(st2, HeldIn(slot), hand2)
  BY <1>4, <1>e
<1> QED BY <1>1, <1>3, <1>4, <1>5, <1>6, <1>7, <1>e, StoreOnly

LEMMA RetypeGood ==
  ASSUME IInv, NEW s \in Slots, Retype(s)
  PROVE  IInv'
<1>1. PICK kind \in {"array", "binary"} :
        /\ store' = [store EXCEPT !.data[slot[s]].kind = kind] /\ UNCHANGED <<slot, mine, meant>>
  BY DEF Retype
<1> DEFINE o == slot[s]
           st2 == [store EXCEPT !.data[o].kind = kind]
           hand == DOMAIN mine
<1>2. o # None /\ store.data[o].kind \in {"array", "binary"}
  BY DEF Retype, Is, Held
<1>3. Good(store, HeldIn(slot), hand) /\ Complete(store.data) /\ o \in DOMAIN store.data
  BY <1>2 DEF IInv, InSlots
<1>e. st2 = [store EXCEPT !.data[o].kind = kind] /\ store' = st2 /\ hand = DOMAIN mine'
  BY <1>1
<1> HIDE DEF o, st2
<1>4. Good(st2, HeldIn(slot), hand) /\ Extends(store, st2) /\ Extends(st2, store)
  <2> DEFINE held == HeldIn(slot)
  <2>1. Good(store, held, hand)
    BY <1>3
  <2> HIDE DEF held
  <2>2. Good(st2, held, hand) /\ Extends(store, st2) /\ Extends(st2, store)
    BY <1>2, <1>3, <1>e, <2>1, KindChanged
  <2> QED BY <2>2 DEF held
<1>5. Complete(st2.data)
  BY <1>3, <1>4, CompleteKept
<1>6. InHand'
  BY <1>1, <1>4, <1>e, HandKept
<1> HIDE DEF hand
<1> QED BY <1>1, <1>4, <1>5, <1>6, <1>e, StoreOnly

(* Nobody but one slot has a data that may give its buffer.                  *)
LEMMA NobodyElse ==
  ASSUME IInv, NEW s \in Slots, NEW o, o = slot[s], o # None, o \notin DOMAIN Constants, store.data[o].refs = 1
  PROVE  /\ \A q \in Slots \ {s} : slot[q] # o
         /\ \A x \in DOMAIN store.data : store.data[x].meta # o /\ store.data[x].value # o
<1> DEFINE held == HeldIn(slot)
           sl == [slot EXCEPT ![s] = None]
<1>0. /\ Good(store, held, DOMAIN mine) /\ slot \in [Slots -> Ids \cup {None}]
      /\ o \in Ids /\ o \in DOMAIN store.data
  BY DEF IInv, InSlots
<1>1. held[o] > 0 /\ held[o] \in Nat
  BY <1>0, HeldTyped
<1>2. HeldIn(sl) = Fewer(held, o)
  BY <1>0, HeldFewer
<1>3. \A q \in Slots \ {s} : slot[q] = o => HeldIn(sl)[o] > 0
  <2>1. \A q \in Slots \ {s} : sl[q] = slot[q]
    BY <1>0
  <2> HIDE DEF sl
  <2> QED BY <1>0, <2>1, HeldTyped
<1> HIDE DEF held, sl
<1>4. /\ store.data[o].refs = held[o] + Inner(store.data, o) /\ Inner(store.data, o) \in Nat
      /\ DOMAIN store.data \subseteq Ids
  BY <1>0, CountsFinite DEF Good, Counted, Stored
<1>5. held[o] = 1 /\ Inner(store.data, o) = 0
  BY <1>1, <1>4
<1>6. HeldIn(sl)[o] = 0
  BY <1>0, <1>2, <1>5 DEF Fewer, Good
<1>7. MetaOf(store.data, o) = {} /\ ValueOf(store.data, o) = {}
  <2>1. /\ IsFiniteSet(MetaOf(store.data, o)) /\ IsFiniteSet(ValueOf(store.data, o))
        /\ Cardinality(MetaOf(store.data, o)) \in Nat /\ Cardinality(ValueOf(store.data, o)) \in Nat
    BY <1>4, CountsFinite
  <2>2. Cardinality(MetaOf(store.data, o)) = 0 /\ Cardinality(ValueOf(store.data, o)) = 0
    BY <1>5, <2>1 DEF Inner
  <2> QED BY <2>1, <2>2, FS_EmptySet
<1> QED BY <1>3, <1>6, <1>7 DEF MetaOf, ValueOf

LEMMA StutterGood ==
  ASSUME IInv, UNCHANGED vars
  PROVE  IInv'
BY DEF IInv, InSlots, InHand, vars

(* A copy of a content on the heap.                                          *)
CopiedTo(st, held, hand, made, c) ==
  /\ made.result \in 1..MaxBuffers /\ made.result \notin DOMAIN st.buffers /\ made.store.data = st.data
  /\ made.store.buffers[made.result].content = c
  /\ Good(made.store, held, hand \cup {made.result}) /\ Extends(st, made.store)

LEMMA HeapGood ==
  ASSUME NEW st, NEW held, NEW hand, Good(st, held, hand), RoomForBuffer(st),
         NEW c \in Contents \cup {Empty}, NEW made, made = Allocated(st, "heap", c)
  PROVE  CopiedTo(st, held, hand, made, c)
<1> DEFINE b == made.result
           st2 == made.store
           more == hand \cup {b}
           new == [place |-> "heap", content |-> c]
<1>1. /\ b \in 1..MaxBuffers /\ b \notin DOMAIN st.buffers
      /\ st2 = [data |-> st.data, buffers |-> With(st.buffers, b, new)]
      /\ st2.data = st.data /\ st2.buffers[b].place = "heap" /\ st2.buffers[b].content = c
      /\ Good(st2, held, more) /\ Extends(st, st2)
  BY AllocatedGood
<1> QED BY <1>1 DEF CopiedTo

LEMMA TakeBufferGood ==
  ASSUME IInv, NEW s \in Slots, TakeBuffer(s)
  PROVE  IInv'
<1> DEFINE o == slot[s]
           d == store.data[o]
           held == HeldIn(slot)
           hand == DOMAIN mine
           c == ContentOf(store, o)
           taken == Take(store, o)
<1>0. /\ Good(store, held, hand) /\ Complete(store.data) /\ Lasting(store) /\ InSlots /\ InHand
      /\ slot \in [Slots -> Ids \cup {None}] /\ meant \in [Slots -> Views]
      /\ o # None /\ d.kind \in {"array", "binary"} /\ Room(1)
      /\ store' = taken.store /\ slot' = slot
      /\ mine' = IF taken.result = None THEN mine ELSE With(mine, taken.result, meant[s].content)
      /\ meant' = IF MayGive(d) THEN [meant EXCEPT ![s].content = Empty] ELSE meant
  BY DEF IInv, InSlots, TakeBuffer, Is, Held
<1>1. o \in DOMAIN store.data /\ o \in Ids /\ meant[s] = View(store, o) /\ d \in Datum
  BY <1>0 DEF InSlots, Good, Stored
<1>2. c \in Contents \cup {Empty} /\ meant[s].content = c
  BY <1>0, <1>1, ContentTyped DEF View
<1>3. RoomForBuffer(store)
  BY <1>0, RoomIs
<1>4. CASE ~ MayGive(d)
  <2> DEFINE b == taken.result
             st2 == taken.store
             hand2 == hand \cup {b}
  <2>1. taken = Allocated(store, "heap", c)
    BY <1>4 DEF Take
  <2>e. hand2 = hand \cup {b} /\ c = meant[s].content
    BY <1>2
  <2> HIDE DEF held, hand, c
  <2>2. /\ b \in 1..MaxBuffers /\ b \notin DOMAIN store.buffers /\ st2.data = store.data
        /\ st2.buffers[b].content = c /\ Good(st2, held, hand2) /\ Extends(store, st2)
    <3>1. CopiedTo(store, held, hand, taken, c)
      BY <1>0, <1>2, <1>3, <2>1, HeapGood
    <3> HIDE DEF taken
    <3> QED BY <3>1 DEF CopiedTo
  <2> HIDE DEF b, st2, hand2, taken
  <2>3. mine' = With(mine, b, c) /\ meant' = meant /\ slot' = slot /\ store' = st2
    <3>1. b # None
      BY <2>2 DEF None
    <3> QED BY <1>0, <1>4, <2>e, <3>1 DEF b, st2
  <2>4. /\ DOMAIN mine' = hand2 /\ mine'[b] = c /\ mine' \in [hand2 -> Contents \cup {Empty}]
        /\ \A x \in hand \ {b} : mine'[x] = mine[x]
    <3>1. mine \in [hand -> Contents \cup {Empty}]
      BY <1>0 DEF InHand, hand
    <3> QED BY <1>2, <2>3, <2>e, <3>1 DEF With, hand
  <2>5. InHand'
    <3>1. \A x \in hand : x \in DOMAIN store.buffers /\ store.buffers[x].content = mine[x]
      BY <1>0 DEF InHand, Good, OneOwner, hand
    <3>2. \A x \in hand : st2.buffers[x] = store.buffers[x]
      BY <2>2, <3>1 DEF Extends
    <3> QED BY <2>2, <2>3, <2>4, <2>e, <3>1, <3>2 DEF InHand
  <2>6. Complete(st2.data) /\ Good(st2, HeldIn(slot), hand2)
    BY <1>0, <2>2 DEF held
  <2> QED BY <2>2, <2>3, <2>4, <2>5, <2>6, StoreOnly
<1>5. CASE MayGive(d) /\ ~ (d.at > 0)
  <2>1. d.at = None
    BY <1>0, <1>1, <1>5, Distinct DEF Datum, Good, Nested
  <2>2. c = Empty
    BY <2>1 DEF ContentOf, None, Inside
  <2>3. taken = Made([store EXCEPT !.data[o].at = None], None)
    BY <1>5, <2>1 DEF Take
  <2>4. [store EXCEPT !.data[o].at = None] = store
    <3>1. [store EXCEPT !.data[o].at = None] = [data |-> [store.data EXCEPT ![o] = [d EXCEPT !.at = None]],
                                                buffers |-> store.buffers]
      BY <1>0 DEF Good, Stored
    <3>2. [d EXCEPT !.at = None] = d
      BY <1>1, <2>1 DEF Datum
    <3> QED BY <1>0, <3>1, <3>2 DEF Good, Stored
  <2>5. store' = store /\ mine' = mine
    BY <1>0, <2>3, <2>4, MadeIs
  <2>6. meant' = meant
    <3>1. [meant[s] EXCEPT !.content = Empty] = meant[s]
      BY <1>0, <1>2, <2>2 DEF Views
    <3> QED BY <1>0, <1>5, <3>1
  <2> HIDE DEF taken
  <2> QED BY <1>0, <2>5, <2>6, StutterGood DEF vars
<1>6. CASE MayGive(d) /\ d.at > 0
  <2> DEFINE b == d.at
             st2 == [store EXCEPT !.data[o].at = None]
             hand2 == hand \cup {b}
  <2>1. Owns(d) /\ d.refs = 1
    BY <1>6 DEF MayGive, Owns
  <2>2. o \notin DOMAIN Constants
    BY <1>0, <2>1 DEF Good, ConstantsStay, Owns
  <2>3. taken.store = st2 /\ taken.result = b
    <3>1. taken = Made(st2, b)
      BY <1>6 DEF Take
    <3> HIDE DEF taken, st2, b
    <3> QED BY <3>1, MadeIs
  <2>e. st2 = [store EXCEPT !.data[o].at = None] /\ b = store.data[o].at /\ hand2 = hand \cup {b}
    OBVIOUS
  <2>f. /\ \A q \in Slots \ {s} : slot[q] # o
        /\ \A x \in DOMAIN store.data : store.data[x].meta # o /\ store.data[x].value # o
    BY <1>0, <2>1, <2>2, NobodyElse
  <2>g. b # None /\ b \in DOMAIN store.buffers /\ c = store.buffers[b].content /\ b # Inside
    <3>1. b # None /\ b # Inside
      BY <1>6 DEF None, Inside
    <3>2. b \in DOMAIN store.buffers
      BY <1>0, <1>1, <1>6, BuffersThere DEF Good
    <3> QED BY <1>6, <3>1, <3>2 DEF ContentOf
  <2>h. View(store, o) = [content |-> c, meta |-> MetaView(store, d.meta)]
    BY DEF View
  <2>i. store' = st2 /\ mine' = With(mine, b, c) /\ meant' = [meant EXCEPT ![s].content = Empty]
    BY <1>0, <1>2, <1>6, <2>3, <2>g
  <2> HIDE DEF taken, held, hand, c, st2, b, hand2
  <2>4. /\ Good(st2, held, hand2) /\ b \in 1..MaxBuffers
        /\ st2.buffers = store.buffers /\ DOMAIN st2.data = DOMAIN store.data
        /\ \A x \in DOMAIN store.data : /\ st2.data[x].meta = store.data[x].meta
                                        /\ st2.data[x].value = store.data[x].value
                                        /\ st2.data[x].kind = store.data[x].kind
        /\ st2.data[o].at = None
        /\ \A x \in DOMAIN store.data \ {o} : st2.data[x] = store.data[x]
    <3>1. Good(st2, held, hand \cup {store.data[o].at}) /\ AsGiven(store, st2, o)
      BY <1>0, <1>1, <2>1, <2>e, BufferGiven
    <3> QED BY <2>e, <3>1 DEF AsGiven
  <2>5. \A x \in DOMAIN store.data \ {o} : ContentOf(st2, x) = ContentOf(store, x)
    BY <2>4 DEF ContentOf
  <2>6. ContentOf(st2, o) = Empty
    BY <2>4 DEF ContentOf, None, Inside
  <2>7. \A x \in DOMAIN store.data : MetaView(st2, st2.data[x].meta) = MetaView(store, store.data[x].meta)
    <3>1. ASSUME NEW x \in DOMAIN store.data, store.data[x].meta # None
          PROVE  MetaView(st2, st2.data[x].meta) = MetaView(store, store.data[x].meta)
      <4> DEFINE m == store.data[x].meta
                 v == store.data[m].value
      <4>1. m \in DOMAIN store.data /\ v \in DOMAIN store.data /\ v # o
        BY <1>0, <2>f, <3>1 DEF Good, Nested, Complete
      <4>2. st2.data[x].meta = m /\ st2.data[m].value = v
        BY <2>4, <4>1
      <4> HIDE DEF m, v
      <4>3. MetaView(st2, m) = ContentOf(st2, v) /\ MetaView(store, m) = ContentOf(store, v)
        BY <3>1, <4>2 DEF MetaView, m, v
      <4> QED BY <2>5, <4>1, <4>2, <4>3 DEF m
    <3> QED BY <2>4, <3>1 DEF MetaView
  <2>8. View(st2, o) = [content |-> Empty, meta |-> MetaView(store, d.meta)]
    BY <1>1, <2>6, <2>7 DEF View
  <2>9. \A q \in Slots \ {s} : meant'[q] = meant[q]
    BY <1>0, <2>i
  <2>10. meant'[s] = View(st2, o) /\ meant' \in [Slots -> Views]
    <3> DEFINE old == meant[s]
    <3>1. old \in Views /\ old = [content |-> c, meta |-> MetaView(store, d.meta)]
      BY <1>0, <1>1, <2>h
    <3>2. meant'[s] = [old EXCEPT !.content = Empty]
      BY <1>0, <2>i
    <3> HIDE DEF old
    <3>3. [old EXCEPT !.content = Empty] = [content |-> Empty, meta |-> MetaView(store, d.meta)]
      BY <3>1
    <3>4. [old EXCEPT !.content = Empty] \in Views
      BY <3>1 DEF Views
    <3>5. meant' = [meant EXCEPT ![s] = [old EXCEPT !.content = Empty]]
      BY <2>i DEF old
    <3>6. meant' \in [Slots -> Views]
      BY <1>0, <3>4, <3>5
    <3> QED BY <2>8, <3>2, <3>3, <3>6
  <2>11. ASSUME NEW q \in Slots, slot'[q] # None
         PROVE  slot'[q] \in DOMAIN st2.data /\ st2.data[slot'[q]].kind # "map" /\ meant'[q] = View(st2, slot'[q])
    <3>1. CASE q = s
      BY <1>0, <1>1, <2>10, <2>4, <3>1
    <3>2. CASE q # s
      <4> DEFINE p == slot[q]
      <4>1. slot'[q] = p /\ p # o /\ meant'[q] = meant[q] /\ p # None
        BY <1>0, <2>11, <2>9, <2>f, <3>2
      <4>2. p \in DOMAIN store.data /\ store.data[p].kind # "map" /\ meant[q] = View(store, p)
        BY <1>0, <4>1 DEF InSlots
      <4> HIDE DEF p
      <4>3. View(st2, p) = View(store, p)
        BY <2>5, <2>7, <4>1, <4>2 DEF View
      <4> QED BY <2>4, <4>1, <4>2, <4>3
    <3> QED BY <3>1, <3>2
  <2>12. InSlots'
    <3>1. \A q \in Slots : slot'[q] = None => meant'[q] = Absent
      <4>1. \A q \in Slots : slot[q] = None => meant[q] = Absent
        BY <1>0 DEF InSlots
      <4> QED BY <1>0, <2>9, <4>1
    <3> QED BY <1>0, <2>10, <2>11, <2>i, <3>1 DEF InSlots
  <2>13. InHand'
    <3>1. /\ mine \in [hand -> Contents \cup {Empty}] /\ hand = DOMAIN mine
          /\ \A x \in hand : store.buffers[x].content = mine[x]
      BY <1>0 DEF InHand, hand
    <3>2. /\ DOMAIN mine' = hand2 /\ mine'[b] = c /\ mine' \in [hand2 -> Contents \cup {Empty}]
          /\ \A x \in hand \ {b} : mine'[x] = mine[x]
      BY <1>2, <2>i, <2>e, <3>1 DEF With
    <3>3. \A x \in hand2 : st2.buffers[x].content = mine'[x]
      BY <2>4, <2>e, <2>g, <3>1, <3>2
    <3> QED BY <2>i, <3>2, <3>3 DEF InHand
  <2>14. Good(store', HeldIn(slot'), DOMAIN mine')
    <3>1. DOMAIN mine' = hand2
      BY <2>i, <2>e DEF With, hand
    <3> QED BY <1>0, <2>4, <2>i, <3>1 DEF held
  <2>15. Complete(st2.data)
    BY <1>0, <2>4 DEF Complete, Good, Nested
  <2>16. Lasting(st2)
    <3>1. \A x \in DOMAIN Constants : x \in DOMAIN store.data \ {o}
      BY <1>0, <2>2 DEF Good, ConstantsStay
    <3> QED BY <1>0, <2>4, <3>1 DEF Lasting
  <2> QED BY <2>12, <2>13, <2>14, <2>15, <2>16, <2>i DEF IInv, Lasting, Complete, Good, HeldIn, Ids
<1> QED BY <1>4, <1>5, <1>6

-----------------------------------------------------------------------------
(* Annotate *)

(* What is written over the value of a map m is freed.                       *)
LEMMA ReplaceGood ==
  ASSUME NEW st, NEW held, NEW hand, Good(st, held, hand),
         NEW m \in DOMAIN st.data, st.data[m].kind = "map",
         NEW v \in DOMAIN st.data, st.data[v].kind # "map", st.data[v].meta = None, held[v] > 0,
         NEW st2, st2 = [st EXCEPT !.data[m].value = v],
         NEW old, old = st.data[m].value
  PROVE  /\ Good(FreeValue(st2, old), Fewer(held, v), hand) /\ Extends(FreeValue(st2, old), st2)
         /\ ValueNow(st, st2, m, v)
<1> DEFINE held2 == [p \in Ids |-> held[p] - One(p, v) + One(p, old)]
<1>h. held2 = [p \in Ids |-> held[p] - One(p, v) + One(p, st.data[m].value)]
  OBVIOUS
<1>0. /\ v \in Ids /\ held \in [Ids -> Nat] /\ m \in Ids /\ Nested(st.data)
      /\ old # None => old \in DOMAIN st.data /\ old \in Ids /\ st.data[old].kind # "map" /\ st.data[old].meta = None
  BY DEF Good, Stored, Nested
<1>p. \A p \in Ids : held2[p] = held[p] - One(p, v) + One(p, old)
  OBVIOUS
<1>q. held2 = [p \in Ids |-> held2[p]]
  OBVIOUS
<1> HIDE DEF held2
<1>1. Good(st2, held2, hand) /\ ValueNow(st, st2, m, v)
  BY <1>h, ValueSet
<1>2. old # None => /\ old \in DOMAIN st2.data /\ held2[old] > 0
                    /\ st2.data[old].kind # "map" /\ st2.data[old].meta = None
  <2>1. old # None => held2[old] > 0
    <3>1. old # None => held2[old] = held[old] - One(old, v) + 1
      BY <1>0, <1>p DEF One
    <3> QED BY <1>0, <3>1 DEF One
  <2> QED BY <1>0, <1>1, <2>1 DEF ValueNow
<1>3. Left(st2, FreeValue(st2, old), held2, old, hand)
  BY <1>1, <1>2, FreeValueGood
<1>4. Fewer(held2, old) = Fewer(held, v)
  <2>1. \A p \in Ids : Fewer(held2, old)[p] = held2[p] - One(p, old)
    <3>1. DOMAIN held2 = Ids /\ \A p \in Ids : held2[p] \in Int
      BY <1>0, <1>p, <1>q DEF One
    <3>2. \A p \in Ids : Fewer(held2, old)[p] = IF p = old THEN held2[p] - 1 ELSE held2[p]
      BY <3>1 DEF Fewer
    <3> QED BY <3>1, <3>2 DEF One
  <2>2. \A p \in Ids : Fewer(held, v)[p] = held[p] - One(p, v)
    BY <1>0 DEF Fewer, One
  <2>3. \A p \in Ids : One(p, v) \in Nat /\ One(p, old) \in Nat /\ held[p] \in Nat
    BY <1>0 DEF One
  <2>4. \A p \in Ids : Fewer(held2, old)[p] = Fewer(held, v)[p]
    BY <1>p, <2>1, <2>2, <2>3
  <2>5. Fewer(held2, old) = [p \in Ids |-> Fewer(held2, old)[p]]
    BY <1>q DEF Fewer
  <2>6. Fewer(held, v) = [p \in Ids |-> Fewer(held, v)[p]]
    BY <1>0 DEF Fewer
  <2> QED BY <2>4, <2>5, <2>6
<1> QED BY <1>1, <1>3, <1>4 DEF Left

(* o has metadata, which are the map m.                                      *)
WithMap(st, st1, o, m) ==
  /\ m \in DOMAIN st1.data /\ st1.data[m].kind = "map" /\ st1.data[o].meta = m
  /\ \A b \in DOMAIN st.buffers : b \in DOMAIN st1.buffers /\ st1.buffers[b] = st.buffers[b]
  /\ \A x \in DOMAIN st.data :
       /\ x \in DOMAIN st1.data /\ st1.data[x].kind = st.data[x].kind /\ st1.data[x].at = st.data[x].at
       /\ st1.data[x].value = st.data[x].value /\ ContentOf(st1, x) = ContentOf(st, x)
       /\ x # o => st1.data[x].meta = st.data[x].meta
  /\ \A x \in DOMAIN st1.data \ DOMAIN st.data : x = m
  /\ st.data[o].meta # None => m = st.data[o].meta
  /\ st.data[o].meta = None => m \notin DOMAIN st.data

(* Who shows the metadata of o, and what is to be found when they are v.     *)
Sharing(st, o, x) == x = o \/ (st.data[o].meta # None /\ st.data[x].meta = st.data[o].meta)

Annotated(st, st3, o, v) ==
  /\ Complete(st3.data)
  /\ \A b \in DOMAIN st.buffers : b \in DOMAIN st3.buffers /\ st3.buffers[b] = st.buffers[b]
  /\ \A x \in DOMAIN st.data :
       /\ st3.data[x].kind = st.data[x].kind /\ st3.data[x].at = st.data[x].at
       /\ ContentOf(st3, x) = ContentOf(st, x)
       /\ Sharing(st, o, x) => MetaView(st3, st3.data[x].meta) = ContentOf(st, v)
       /\ ~ Sharing(st, o, x) => MetaView(st3, st3.data[x].meta) = MetaView(st, st.data[x].meta)

LEMMA ValueAnnotates ==
  ASSUME NEW st, NEW held, NEW hand, Good(st, held, hand), Complete(st.data), NEW o \in DOMAIN st.data,
         NEW v \in DOMAIN st.data,
         NEW st1, NEW held1, Good(st1, held1, hand), NEW m, WithMap(st, st1, o, m),
         NEW st3, ValueNow(st1, st3, m, v)
  PROVE  Annotated(st, st3, o, v)
<1>0. /\ Nested(st.data) /\ Nested(st1.data) /\ v # None /\ m # None
      /\ m \in DOMAIN st1.data /\ st1.data[m].kind = "map" /\ st1.data[o].meta = m
      /\ st3.data[m].value = v
  BY Distinct DEF Good, Stored, WithMap, ValueNow
<1>1. /\ DOMAIN st3.data = DOMAIN st1.data /\ st3.buffers = st1.buffers
      /\ \A x \in DOMAIN st1.data :
           /\ st3.data[x].kind = st1.data[x].kind /\ st3.data[x].meta = st1.data[x].meta
           /\ st3.data[x].at = st1.data[x].at /\ st3.data[x].inside = st1.data[x].inside
           /\ x # m => st3.data[x].value = st1.data[x].value
  BY DEF ValueNow
<1>2. \A x \in DOMAIN st.data :
       /\ x \in DOMAIN st1.data /\ st1.data[x].kind = st.data[x].kind /\ st1.data[x].at = st.data[x].at
       /\ st1.data[x].value = st.data[x].value /\ ContentOf(st1, x) = ContentOf(st, x)
       /\ x # o => st1.data[x].meta = st.data[x].meta
  BY DEF WithMap
<1>3. \A x \in DOMAIN st.data : ContentOf(st3, x) = ContentOf(st, x)
  <2>1. \A x \in DOMAIN st1.data : ContentOf(st3, x) = ContentOf(st1, x)
    BY <1>1 DEF ContentOf
  <2> QED BY <1>2, <2>1
<1>4. ASSUME NEW x \in DOMAIN st.data
      PROVE  Sharing(st, o, x) <=> st1.data[x].meta = m
  <2>1. st.data[x].meta # None => st.data[x].meta \in DOMAIN st.data
    BY <1>0 DEF Nested
  <2> QED BY <1>0, <1>2, <2>1 DEF Sharing, WithMap
<1>5. ASSUME NEW x \in DOMAIN st.data, Sharing(st, o, x)
      PROVE  MetaView(st3, st3.data[x].meta) = ContentOf(st, v)
  <2>1. st3.data[x].meta = m
    BY <1>1, <1>2, <1>4, <1>5
  <2>2. MetaView(st3, m) = ContentOf(st3, v)
    BY <1>0 DEF MetaView
  <2> QED BY <1>3, <2>1, <2>2
<1>6. ASSUME NEW x \in DOMAIN st.data, ~ Sharing(st, o, x)
      PROVE  MetaView(st3, st3.data[x].meta) = MetaView(st, st.data[x].meta)
  <2> DEFINE w == st.data[x].meta
  <2>1. st3.data[x].meta = w /\ w # m
    BY <1>1, <1>2, <1>4, <1>6 DEF Sharing
  <2>2. CASE w = None
    BY <2>1, <2>2 DEF MetaView
  <2>3. CASE w # None
    <3>1. w \in DOMAIN st.data /\ st.data[w].value \in DOMAIN st.data
      BY <1>0, <2>3 DEF Nested, Complete
    <3>2. st3.data[w].value = st.data[w].value
      BY <1>1, <1>2, <2>1, <3>1
    <3> HIDE DEF w
    <3>3. MetaView(st3, w) = ContentOf(st3, st.data[w].value) /\ MetaView(st, w) = ContentOf(st, st.data[w].value)
      BY <2>3, <3>2 DEF MetaView
    <3> QED BY <1>3, <2>1, <3>1, <3>3 DEF w
  <2> QED BY <2>2, <2>3
<1>7. Complete(st3.data)
  <2>1. ASSUME NEW x \in DOMAIN st3.data, st3.data[x].meta # None
        PROVE  st3.data[st3.data[x].meta].value # None
    <3> DEFINE w == st3.data[x].meta
    <3>1. CASE w = m
      BY <1>0, <3>1
    <3>2. CASE w # m
      <4>1. x \in DOMAIN st1.data /\ st1.data[x].meta = w /\ w # None
        BY <1>1, <2>1
      <4>2. x \in DOMAIN st.data
        BY <1>0, <4>1 DEF Nested, WithMap
      <4>3. x # o /\ st.data[x].meta = w
        BY <1>0, <1>2, <3>2, <4>1, <4>2
      <4>4. w \in DOMAIN st.data /\ st.data[w].value # None
        BY <1>0, <4>1, <4>2, <4>3 DEF Nested, Complete
      <4>5. st3.data[w].value = st.data[w].value
        BY <1>1, <1>2, <3>2, <4>4
      <4> QED BY <4>4, <4>5
    <3> QED BY <3>1, <3>2
  <2> QED BY <2>1 DEF Complete
<1>8. \A b \in DOMAIN st.buffers : b \in DOMAIN st3.buffers /\ st3.buffers[b] = st.buffers[b]
  BY <1>1 DEF WithMap
<1>9. \A x \in DOMAIN st.data : st3.data[x].kind = st.data[x].kind /\ st3.data[x].at = st.data[x].at
  BY <1>1, <1>2
<1> QED BY <1>3, <1>5, <1>6, <1>7, <1>8, <1>9 DEF Annotated

(* The metadata of o are made if there are none.                             *)
MapFor(st, o) ==
  LET map == NewData(st, "map", None, Empty, FALSE, FALSE)
  IN  IF st.data[o].meta # None THEN Made(st, st.data[o].meta)
      ELSE Made([map.store EXCEPT !.data[o].meta = map.result], map.result)

LEMMA MapMade ==
  ASSUME NEW st, NEW held, NEW hand, Good(st, held, hand), RoomForData(st), NEW o \in DOMAIN st.data,
         st.data[o].kind # "map", st.data[o].meta = None, \A x \in DOMAIN st.data : st.data[x].value # o,
         NEW map, map = NewData(st, "map", None, Empty, FALSE, FALSE),
         NEW st1, st1 = [map.store EXCEPT !.data[o].meta = map.result]
  PROVE  Good(st1, held, hand) /\ WithMap(st, st1, o, map.result)
<1> DEFINE st2 == map.store
           m == map.result
           held2 == More(held, m)
<1>1. NewGiven(st, held, hand, map, "map", ContentAt(st, None, Empty))
  <2> DEFINE at == None
             kind == "map"
             release == FALSE
             c == Empty
             made == NewData(st, kind, at, c, release, FALSE)
  <2>1. /\ kind \in {"string", "array", "binary", "pointer", "map"} /\ c \in Contents \cup {Empty}
        /\ at \in {Inside, None} \cup Kept /\ (kind = "map" => at = None) /\ (at = Inside => kind = "string")
        /\ release \in BOOLEAN /\ (at \in Kept => ~ release)
    BY Distinct
  <2>2. made = map
    OBVIOUS
  <2>3. made = NewData(st, kind, at, c, release, FALSE)
    OBVIOUS
  <2>4. kind = "map" /\ ContentAt(st, at, c) = ContentAt(st, None, Empty)
    OBVIOUS
  <2> HIDE DEF at, kind, release, c, made
  <2>5. NewGiven(st, held, hand, made, kind, ContentAt(st, at, c))
    BY <2>1, <2>3, NewOther
  <2> QED BY <2>2, <2>4, <2>5
<1>2. /\ m \in 1..MaxData /\ m \notin DOMAIN st.data /\ Good(st2, held2, hand) /\ Extends(st, st2)
      /\ DOMAIN st2.data = DOMAIN st.data \cup {m} /\ \A x \in DOMAIN st.data : st2.data[x] = st.data[x]
      /\ st2.data[m].kind = "map" /\ st2.data[m].meta = None /\ st2.data[m].value = None
  BY <1>1 DEF NewGiven
<1>e. st1 = [st2 EXCEPT !.data[o].meta = m] /\ held2 = More(held, m)
  OBVIOUS
<1> HIDE DEF st2, m, held2
<1>3. m \in Ids /\ o \in DOMAIN st2.data /\ m \in DOMAIN st2.data /\ o # m /\ st2.data[o] \in Datum
  BY <1>2 DEF Ids, Good, Stored
<1>4. \A x \in DOMAIN st2.data : st2.data[x].value # o
  BY <1>2, Distinct DEF Good, Stored
<1>5. MetaIsSet(st2, st1, o, m)
  BY <1>2, <1>3, <1>e, MetaSets DEF Good
<1>6. held \in [Ids -> Nat] /\ held2[m] > 0 /\ \A p \in Ids : held[p] = held2[p] - One(p, m)
  <2>1. held \in [Ids -> Nat] /\ held2 = [held EXCEPT ![m] = held[m] + 1]
    BY <1>e DEF Good, More
  <2> QED BY <1>3, <2>1 DEF One
<1>7. st2.data[o].kind # "map" /\ st2.data[o].meta = None
  BY <1>2
<1>8. Good(st1, held, hand)
  BY <1>2, <1>3, <1>4, <1>5, <1>6, <1>7, MetaSet, SMTT(30)
<1>9. /\ st1.buffers = st2.buffers /\ DOMAIN st1.data = DOMAIN st2.data
      /\ st1.data[o] = [st2.data[o] EXCEPT !.meta = m]
      /\ \A x \in DOMAIN st2.data \ {o} : st1.data[x] = st2.data[x]
  BY <1>5 DEF MetaIsSet
<1>10. /\ st1.data[o].at = st2.data[o].at /\ st1.data[o].inside = st2.data[o].inside
       /\ st1.data[o].kind = st2.data[o].kind /\ st1.data[o].meta = m /\ st1.data[o].value = st2.data[o].value
  <2> DEFINE e == st2.data[o]
  <2>1. e \in Datum /\ st1.data[o] = [e EXCEPT !.meta = m]
    BY <1>3, <1>9
  <2> HIDE DEF e
  <2>2. /\ [e EXCEPT !.meta = m].at = e.at /\ [e EXCEPT !.meta = m].inside = e.inside
        /\ [e EXCEPT !.meta = m].kind = e.kind /\ [e EXCEPT !.meta = m].meta = m
        /\ [e EXCEPT !.meta = m].value = e.value
    BY <2>1 DEF Datum
  <2> QED BY <2>1, <2>2 DEF e
<1>11. \A x \in DOMAIN st.data : ContentOf(st1, x) = ContentOf(st, x)
  <2>1. \A x \in DOMAIN st.data : ContentOf(st1, x) = ContentOf(st2, x)
    <3>1. \A x \in DOMAIN st.data : st1.data[x].at = st2.data[x].at /\ st1.data[x].inside = st2.data[x].inside
      BY <1>2, <1>9, <1>10
    <3> QED BY <1>9, <3>1 DEF ContentOf
  <2>2. \A x \in DOMAIN st.data : ContentOf(st2, x) = ContentOf(st, x)
    BY <1>2, ContentKept
  <2> QED BY <2>1, <2>2
<1>12. \A x \in DOMAIN st.data :
         /\ x \in DOMAIN st1.data /\ st1.data[x].kind = st.data[x].kind /\ st1.data[x].at = st.data[x].at
         /\ st1.data[x].value = st.data[x].value
         /\ x # o => st1.data[x].meta = st.data[x].meta
  BY <1>2, <1>9, <1>10
<1>13. \A b \in DOMAIN st.buffers : b \in DOMAIN st1.buffers /\ st1.buffers[b] = st.buffers[b]
  BY <1>2, <1>9 DEF Extends
<1>14. WithMap(st, st1, o, m)
  <2>1. m \in DOMAIN st1.data /\ st1.data[m].kind = "map"
    BY <1>2, <1>3, <1>9
  <2>2. \A x \in DOMAIN st1.data \ DOMAIN st.data : x = m
    BY <1>2, <1>9
  <2> QED BY <1>2, <1>10, <1>11, <1>12, <1>13, <2>1, <2>2 DEF WithMap
<1> QED BY <1>8, <1>14 DEF m

LEMMA MapForGood ==
  ASSUME NEW st, NEW held, NEW hand, Good(st, held, hand), RoomForData(st), NEW o \in DOMAIN st.data,
         st.data[o].kind # "map", \A x \in DOMAIN st.data : st.data[x].value # o,
         NEW with, with = MapFor(st, o)
  PROVE  Good(with.store, held, hand) /\ WithMap(st, with.store, o, with.result)
<1>1. CASE st.data[o].meta # None
  <2> DEFINE m == st.data[o].meta
  <2>1. with.store = st /\ with.result = m
    BY <1>1, MadeIs DEF MapFor
  <2>2. m \in DOMAIN st.data /\ st.data[m].kind = "map"
    BY <1>1 DEF Good, Nested
  <2>3. WithMap(st, st, o, m)
    BY <1>1, <2>2 DEF WithMap
  <2> QED BY <2>1, <2>3
<1>2. CASE st.data[o].meta = None
  <2> DEFINE map == NewData(st, "map", None, Empty, FALSE, FALSE)
             st1 == [map.store EXCEPT !.data[o].meta = map.result]
  <2>1. with = Made(st1, map.result)
    BY <1>2 DEF MapFor
  <2>2. map = NewData(st, "map", None, Empty, FALSE, FALSE) /\ st1 = [map.store EXCEPT !.data[o].meta = map.result]
    OBVIOUS
  <2> HIDE DEF map, st1
  <2>3. Good(st1, held, hand) /\ WithMap(st, st1, o, map.result)
    BY <1>2, <2>2, MapMade
  <2> QED BY <2>1, <2>3, MadeIs
<1> QED BY <1>1, <1>2

(* What iot_data_set_metadata leaves.                                        *)
LEMMA SetMetadataGood ==
  ASSUME NEW st, NEW held, NEW hand, Good(st, held, hand), Complete(st.data), RoomForData(st),
         NEW o \in DOMAIN st.data, st.data[o].kind # "map", \A x \in DOMAIN st.data : st.data[x].value # o,
         NEW v \in DOMAIN st.data, st.data[v].kind # "map", st.data[v].meta = None, held[v] > 0, o # v,
         NEW fin, fin = SetMetadata(st, o, v)
  PROVE  /\ Good(fin, Fewer(held, v), hand)
         /\ \E st3 : Annotated(st, st3, o, v) /\ Extends(fin, st3)
<1> DEFINE with == MapFor(st, o)
           st1 == with.store
           m == with.result
           st3 == [st1 EXCEPT !.data[m].value = v]
           old == st1.data[m].value
<1>1. fin = FreeValue(st3, old)
  BY DEF SetMetadata, MapFor
<1>2. st3 = [st1 EXCEPT !.data[m].value = v] /\ old = st1.data[m].value
  OBVIOUS
<1>3. Good(st1, held, hand) /\ WithMap(st, st1, o, m)
  <2>1. with = MapFor(st, o)
    OBVIOUS
  <2> HIDE DEF with
  <2> QED BY <2>1, MapForGood
<1> HIDE DEF with, st1, m, st3, old
<1>4. /\ m \in DOMAIN st1.data /\ st1.data[m].kind = "map"
      /\ v \in DOMAIN st1.data /\ st1.data[v].kind # "map" /\ st1.data[v].meta = None
  BY <1>3 DEF WithMap
<1>5. Good(FreeValue(st3, old), Fewer(held, v), hand) /\ Extends(FreeValue(st3, old), st3) /\ ValueNow(st1, st3, m, v)
  BY <1>2, <1>3, <1>4, ReplaceGood
<1>6. Annotated(st, st3, o, v)
  BY <1>3, <1>5, ValueAnnotates
<1> QED BY <1>1, <1>5, <1>6

LEMMA AnnotateGood ==
  ASSUME IInv, NEW s \in Slots, NEW r \in Slots, Annotate(s, r)
  PROVE  IInv'
<1> DEFINE o == slot[s]
           v == slot[r]
           held == HeldIn(slot)
           held2 == HeldIn(slot')
           hand == DOMAIN mine
           fin == SetMetadata(store, o, v)
           shared == {q \in Held : \/ slot[q] = o
                                   \/ store.data[o].meta # None /\ store.data[slot[q]].meta = store.data[o].meta}
<1>0. /\ Good(store, held, hand) /\ Complete(store.data) /\ Lasting(store) /\ InSlots /\ InHand
      /\ slot \in [Slots -> Ids \cup {None}] /\ meant \in [Slots -> Views]
      /\ s # r /\ o # None /\ v # None /\ o # v /\ Room(1) /\ store.data[v].meta = None
      /\ \A x \in DOMAIN store.data : store.data[x].value # o
      /\ store' = fin /\ mine' = mine /\ slot' = [slot EXCEPT ![r] = None]
  BY DEF IInv, InSlots, Annotate, Held
<1>m. meant' = [q \in Slots |-> IF q = r THEN Absent
                                ELSE IF q \in shared THEN [meant[q] EXCEPT !.meta = meant[r].content]
                                ELSE meant[q]]
  BY DEF Annotate
<1>1. /\ o \in DOMAIN store.data /\ store.data[o].kind # "map"
      /\ v \in DOMAIN store.data /\ v \in Ids /\ store.data[v].kind # "map" /\ meant[r] = View(store, v)
      /\ \A q \in Slots : slot[q] # None => /\ slot[q] \in DOMAIN store.data /\ slot[q] \in Ids
                                            /\ store.data[slot[q]].kind # "map" /\ meant[q] = View(store, slot[q])
      /\ \A q \in Slots : slot[q] = None => meant[q] = Absent
  BY <1>0 DEF InSlots
<1>2. \A q \in Slots : q \in shared <=> slot[q] # None /\ Sharing(store, o, slot[q])
  BY <1>0 DEF Held, Sharing
<1>3. RoomForData(store)
  BY <1>0, RoomIs
<1>4. held[v] > 0 /\ held2 = Fewer(held, v)
  BY <1>0, <1>1, HeldTyped, HeldFewer
<1>5. \A q \in Slots : slot'[q] # None => held2[slot'[q]] > 0
  <2>1. slot' \in [Slots -> Ids \cup {None}]
    BY <1>0
  <2> QED BY <2>1, HeldTyped
<1>e. fin = SetMetadata(store, o, v)
  OBVIOUS
<1> HIDE DEF fin, held, held2, hand, shared
<1>6. /\ Good(fin, Fewer(held, v), hand)
      /\ \E st3 : Annotated(store, st3, o, v) /\ Extends(fin, st3)
  BY <1>0, <1>1, <1>3, <1>4, <1>e, SetMetadataGood
<1>7. PICK st3 : Annotated(store, st3, o, v) /\ Extends(fin, st3)
  BY <1>6
<1>8. Good(fin, held2, hand)
  BY <1>4, <1>6
<1>9. Complete(fin.data)
  BY <1>7, <1>8, CompleteKept DEF Annotated
<1>c. meant[r].content = ContentOf(store, v) /\ ContentOf(store, v) \in Contents \cup {Empty}
  BY <1>0, <1>1, ContentTyped DEF View
<1>10. ASSUME NEW q \in Slots, slot'[q] # None
       PROVE  /\ slot'[q] \in DOMAIN fin.data /\ fin.data[slot'[q]].kind # "map"
              /\ meant'[q] = View(fin, slot'[q])
  <2> DEFINE x == slot[q]
  <2>1. slot'[q] = x /\ q # r /\ x # None /\ held2[x] > 0
    BY <1>0, <1>5, <1>10
  <2>2. x \in DOMAIN store.data /\ x \in Ids /\ store.data[x].kind # "map" /\ meant[q] = View(store, x)
    BY <1>1, <2>1
  <2>3. q \in shared <=> Sharing(store, o, x)
    BY <1>2, <2>1
  <2>m. /\ q \in shared => meant'[q] = [meant[q] EXCEPT !.meta = meant[r].content]
        /\ q \notin shared => meant'[q] = meant[q]
    BY <1>m, <2>1
  <2> HIDE DEF x
  <2>4. x \in DOMAIN fin.data
    BY <1>8, <2>1, <2>2 DEF Good, Counted
  <2>5. View(fin, x) = View(st3, x) /\ fin.data[x].kind # "map"
    <3>1. View(st3, x) = View(fin, x)
      BY <1>7, <1>8, <1>9, <2>4, ViewKept
    <3> QED BY <1>7, <2>2, <2>4, <3>1 DEF Extends, SameParts, Annotated
  <2>6. /\ ContentOf(st3, x) = ContentOf(store, x)
        /\ Sharing(store, o, x) => MetaView(st3, st3.data[x].meta) = ContentOf(store, v)
        /\ ~ Sharing(store, o, x) => MetaView(st3, st3.data[x].meta) = MetaView(store, store.data[x].meta)
    BY <1>7, <2>2 DEF Annotated
  <2>7. CASE q \in shared
    <3> DEFINE w == meant[q]
    <3>1. w = [content |-> ContentOf(store, x), meta |-> MetaView(store, store.data[x].meta)]
      BY <2>2 DEF View
    <3>2. meant'[q] = [w EXCEPT !.meta = ContentOf(store, v)]
      BY <1>c, <2>m, <2>7
    <3> HIDE DEF w
    <3>3. [w EXCEPT !.meta = ContentOf(store, v)] = [content |-> ContentOf(store, x), meta |-> ContentOf(store, v)]
      BY <3>1
    <3>4. View(st3, x) = [content |-> ContentOf(store, x), meta |-> ContentOf(store, v)]
      BY <2>3, <2>6, <2>7 DEF View
    <3> QED BY <2>1, <2>4, <2>5, <3>2, <3>3, <3>4
  <2>8. CASE q \notin shared
    <3>1. meant'[q] = View(store, x)
      BY <2>2, <2>m, <2>8
    <3>2. View(st3, x) = View(store, x)
      BY <2>3, <2>6, <2>8 DEF View
    <3> QED BY <2>1, <2>4, <2>5, <3>1, <3>2
  <2> QED BY <2>7, <2>8
<1>11. meant' \in [Slots -> Views]
  <2>1. Absent \in Views
    BY DEF Absent, Views, None, Empty
  <2>2. \A q \in Slots : [meant[q] EXCEPT !.meta = meant[r].content] \in Views
    <3> DEFINE c == ContentOf(store, v)
    <3>1. meant[r].content = c /\ c \in Contents \cup {Empty}
      BY <1>c
    <3> HIDE DEF c
    <3>2. ASSUME NEW w \in Views PROVE [w EXCEPT !.meta = c] \in Views
      BY <3>1 DEF Views
    <3> QED BY <1>0, <3>1, <3>2
  <2>3. \A q \in Slots : meant[q] \in Views
    BY <1>0
  <2> QED BY <1>m, <2>1, <2>2, <2>3
<1>12. \A q \in Slots : slot'[q] = None => meant'[q] = Absent
  <2>1. ASSUME NEW q \in Slots, slot'[q] = None PROVE meant'[q] = Absent
    <3>1. CASE q = r
      BY <1>m, <3>1
    <3>2. CASE q # r
      <4>1. slot[q] = None
        BY <1>0, <2>1, <3>2
      <4>2. q \notin shared /\ meant[q] = Absent
        BY <1>1, <1>2, <4>1
      <4> QED BY <1>m, <3>2, <4>2
    <3> QED BY <3>1, <3>2
  <2> QED BY <2>1
<1>13. slot' \in [Slots -> Ids \cup {None}]
  BY <1>0
<1>14. InSlots'
  BY <1>0, <1>10, <1>11, <1>12, <1>13 DEF InSlots
<1>15. InHand'
  <2>1. \A b \in DOMAIN mine : b \in DOMAIN store.buffers /\ store.buffers[b].content = mine[b]
    BY <1>0 DEF InHand, Good, OneOwner, hand
  <2>2. \A b \in DOMAIN mine : b \in DOMAIN fin.buffers
    BY <1>8 DEF Good, OneOwner, hand
  <2>3. \A b \in DOMAIN mine : fin.buffers[b] = store.buffers[b]
    BY <1>7, <2>1, <2>2 DEF Extends, Annotated
  <2> QED BY <1>0, <2>1, <2>3 DEF InHand
<1>16. Lasting(fin)
  <2>1. \A x \in DOMAIN Constants : x \in DOMAIN store.data /\ x \in DOMAIN fin.data
    BY <1>0, <1>8 DEF Good, ConstantsStay
  <2>2. \A b \in Kept : b \in DOMAIN store.buffers /\ b \in DOMAIN fin.buffers
    BY <1>0, <1>8 DEF Good, OneOwner
  <2>3. \A x \in DOMAIN Constants : fin.data[x].at = store.data[x].at
    BY <1>7, <2>1 DEF Extends, SameParts, Annotated
  <2>4. \A b \in Kept : fin.buffers[b] = store.buffers[b]
    BY <1>7, <2>2 DEF Extends, Annotated
  <2> QED BY <1>0, <2>3, <2>4 DEF Lasting
<1>17. Good(store', HeldIn(slot'), DOMAIN mine')
  BY <1>0, <1>8 DEF held2, hand
<1> QED BY <1>0, <1>9, <1>14, <1>15, <1>16, <1>17 DEF IInv, Lasting, Complete, Good, HeldIn, Ids

-----------------------------------------------------------------------------
(* The theorems *)

LEMMA InitGood ==
  ASSUME Init
  PROVE  IInv
<1> DEFINE data == ConstantData
           held == HeldIn(slot)
<1>0. /\ store.data = data /\ DOMAIN store.buffers = Kept
      /\ \A b \in Kept : store.buffers[b] = [place |-> "client", content |-> b - MaxBuffers]
      /\ store = [data |-> store.data, buffers |-> store.buffers]
      /\ store.buffers = [b \in Kept |-> [place |-> "client", content |-> b - MaxBuffers]]
      /\ slot = [s \in Slots |-> None] /\ mine = << >> /\ meant = [s \in Slots |-> Absent]
  BY DEF Init
<1>1. /\ DOMAIN data = DOMAIN Constants
      /\ \A o \in DOMAIN Constants :
           /\ data[o] = [kind |-> "string", at |-> KeptBuffer(Constants[o]), inside |-> Empty, release |-> FALSE,
                         block |-> FALSE, constant |-> TRUE, refs |-> 1, meta |-> None, value |-> None]
           /\ data[o].kind = "string" /\ data[o].at = KeptBuffer(Constants[o]) /\ ~ data[o].release
           /\ ~ data[o].block /\ data[o].constant /\ data[o].meta = None /\ data[o].value = None
      /\ data = [o \in DOMAIN Constants |-> data[o]]
  BY DEF ConstantData
<1> HIDE DEF data
<1>2. ASSUME NEW o \in DOMAIN Constants
      PROVE  data[o] \in Datum /\ data[o].at \in Kept /\ data[o].at # Inside
  <2>1. Constants[o] \in Contents /\ KeptBuffer(Constants[o]) \in Kept
    BY OwnedAssumption DEF Kept
  <2>2. KeptBuffer(Constants[o]) # Inside
    BY <2>1, Distinct
  <2>3. 0 \in 0..MaxData /\ None = 0 /\ 1 \in Nat
    BY OwnedAssumption DEF None
  <2> DEFINE at == KeptBuffer(Constants[o])
             d == [kind |-> "string", at |-> at, inside |-> Empty, release |-> FALSE,
                   block |-> FALSE, constant |-> TRUE, refs |-> 1, meta |-> None, value |-> None]
  <2>4. data[o] = d /\ at \in Kept /\ at # Inside /\ data[o].at = at
    BY <1>1, <2>1, <2>2
  <2> HIDE DEF at
  <2>5. d \in Datum
    BY <2>3, <2>4 DEF Datum
  <2> QED BY <2>4, <2>5
<1>3. \A b \in Kept : b - MaxBuffers \in Contents /\ b > 0
  <2>1. MaxBuffers \in Nat /\ Contents \subseteq Nat \ {0}
    BY OwnedAssumption DEF Empty
  <2>2. \A c \in Contents : (MaxBuffers + c) - MaxBuffers = c /\ MaxBuffers + c > 0
    BY <2>1
  <2> QED BY <2>2 DEF Kept, KeptBuffer
<1>4. Stored(store)
  <2>1. \A b \in Kept : store.buffers[b] \in Buffer
    BY <1>0, <1>3 DEF Buffer
  <2>2. store.buffers \in [DOMAIN store.buffers -> Buffer]
    BY <1>0, <2>1
  <2>3. store.data \in [DOMAIN store.data -> Datum]
    BY <1>0, <1>1, <1>2
  <2> QED BY <1>0, <1>1, <2>2, <2>3 DEF Stored, Ids
<1>5. Nested(store.data)
  BY <1>0, <1>1, <1>2 DEF Nested
<1>6. ConstantsStay(store.data)
  BY <1>0, <1>1 DEF ConstantsStay
<1>7. mine \in [DOMAIN mine -> Contents \cup {Empty}] /\ DOMAIN mine = {}
  BY <1>0
<1>8. OneOwner(store, DOMAIN mine)
  <2>1. \A o \in DOMAIN store.data : ~ Owns(store.data[o])
    BY <1>0, <1>1 DEF Owns
  <2>2. Owned(store.data) = {}
    BY <2>1 DEF Owned
  <2> QED BY <1>0, <1>1, <1>2, <1>7, <2>1, <2>2 DEF OneOwner
<1>9. held \in [Ids -> Nat] /\ \A o \in Ids : held[o] = 0
  <2>1. \A o \in Ids : {s \in Slots : slot[s] = o} = {}
    BY <1>0, Distinct
  <2> QED BY <2>1, HeldTyped, FS_EmptySet DEF HeldIn
<1> HIDE DEF held
<1>10. Counted(store.data, held)
  BY <1>0, <1>1, <1>9 DEF Counted
<1>11. Good(store, held, DOMAIN mine)
  BY <1>4, <1>5, <1>6, <1>7, <1>8, <1>9, <1>10 DEF Good
<1>12. Complete(store.data)
  BY <1>0, <1>1 DEF Complete
<1>13. Lasting(store)
  <2>1. \A b \in Kept : store.buffers[b].content = b - MaxBuffers
    BY <1>0
  <2> QED BY <1>0, <1>1, <2>1 DEF Lasting
<1>14. InSlots
  BY <1>0 DEF InSlots, Absent, Views, None, Empty
<1>15. InHand
  BY <1>7 DEF InHand
<1> QED BY <1>11, <1>12, <1>13, <1>14, <1>15 DEF IInv, held

LEMMA NextGood ==
  ASSUME IInv, [Next]_vars
  PROVE  IInv'
<1>1. ASSUME NEW s \in Slots, Make(s) PROVE IInv'
  BY <1>1, MakeGood
<1>2. ASSUME NEW s \in Slots, MakePointer(s) PROVE IInv'
  BY <1>2, MakePointerGood
<1>3. ASSUME NEW s \in Slots, UseConstant(s) PROVE IInv'
  BY <1>3, UseConstantGood
<1>4. ASSUME NEW s \in Slots, FreeData(s) PROVE IInv'
  BY <1>4, FreeDataGood
<1>5. ASSUME NEW s \in Slots, TakeBuffer(s) PROVE IInv'
  BY <1>5, TakeBufferGood
<1>6. ASSUME NEW s \in Slots, Retype(s) PROVE IInv'
  BY <1>6, RetypeGood
<1>7. ASSUME NEW s \in Slots, NEW r \in Slots, Share(s, r) PROVE IInv'
  BY <1>7, ShareGood
<1>8. ASSUME NEW s \in Slots, NEW r \in Slots, CopyData(s, r) PROVE IInv'
  BY <1>8, CopyDataGood
<1>9. ASSUME NEW s \in Slots, NEW r \in Slots, Convert(s, r) PROVE IInv'
  BY <1>9, ConvertGood
<1>10. ASSUME NEW s \in Slots, NEW r \in Slots, Annotate(s, r) PROVE IInv'
  BY <1>10, AnnotateGood
<1>11. CASE FreeBuffer
  BY <1>11, FreeBufferGood
<1>12. CASE UNCHANGED vars
  BY <1>12, StutterGood
<1> QED BY <1>1, <1>2, <1>3, <1>4, <1>5, <1>6, <1>7, <1>8, <1>9, <1>10, <1>11, <1>12 DEF Next

LEMMA Typed ==
  ASSUME IInv
  PROVE  TypeOK
<1>1. /\ Stored(store) /\ OneOwner(store, DOMAIN mine) /\ InSlots /\ InHand
  BY DEF IInv, Good
<1>2. DOMAIN store = {"data", "buffers"}
  BY <1>1 DEF Stored
<1>3. slot \in [Slots -> DOMAIN store.data \cup {None}]
  <2>1. \A s \in Slots : slot[s] \in DOMAIN store.data \cup {None}
    BY <1>1 DEF InSlots
  <2> QED BY <1>1, <2>1 DEF InSlots
<1>4. DOMAIN mine \subseteq DOMAIN store.buffers
  BY <1>1 DEF OneOwner
<1> QED BY <1>1, <1>2, <1>3, <1>4 DEF TypeOK, Stored, InSlots, InHand, Views, Ids

LEMMA AllAccounted ==
  ASSUME IInv
  PROVE  Accounted
<1>1. /\ Stored(store) /\ OneOwner(store, DOMAIN mine) /\ Counted(store.data, HeldIn(slot))
      /\ ConstantsStay(store.data) /\ Good(store, HeldIn(slot), DOMAIN mine) /\ DOMAIN store.data \subseteq Ids
  BY DEF IInv, Good, Stored
<1>2. \A o : o \in Owners <=> o \in DOMAIN store.data /\ Owns(store.data[o])
  BY DEF Owners, Owns
<1>3. \A o \in DOMAIN store.data : store.data[o].at > 0 => store.data[o].at \in DOMAIN store.buffers
  BY <1>1, BuffersThere
<1>4. \A o, p \in Owners : store.data[o].at = store.data[p].at => o = p
  BY <1>1, <1>2 DEF OneOwner
<1>5. \A o \in Owners : store.data[o].at \notin DOMAIN mine \cup Kept
  BY <1>1, <1>2 DEF OneOwner
<1>6. DOMAIN store.buffers = Kept \cup DOMAIN mine \cup {store.data[o].at : o \in Owners}
  <2>1. {store.data[o].at : o \in Owners} = Owned(store.data)
    BY <1>2 DEF Owned
  <2> QED BY <1>1, <2>1 DEF OneOwner
<1>7. \A o \in Owners : store.buffers[store.data[o].at].place = PlaceFor(store.data[o])
  BY <1>1, <1>2 DEF OneOwner
<1>8. ASSUME NEW o \in DOMAIN store.data \ DOMAIN Constants
      PROVE  /\ store.data[o].refs = Cardinality({s \in Slots : slot[s] = o})
                   + Cardinality({x \in DOMAIN store.data : store.data[x].meta = o})
                   + Cardinality({x \in DOMAIN store.data : store.data[x].value = o})
             /\ store.data[o].refs > 0
  <2>1. /\ store.data[o].refs = HeldIn(slot)[o] + Inner(store.data, o) /\ store.data[o].refs > 0
        /\ HeldIn(slot)[o] \in Nat /\ o \in Ids
    BY <1>1 DEF Counted, Good
  <2>2. HeldIn(slot)[o] = Cardinality({s \in Slots : slot[s] = o})
    BY <2>1 DEF HeldIn
  <2>3. Cardinality(MetaOf(store.data, o)) \in Nat /\ Cardinality(ValueOf(store.data, o)) \in Nat
    BY <1>1, CountsFinite
  <2>4. store.data[o].refs = HeldIn(slot)[o] + Cardinality(MetaOf(store.data, o)) + Cardinality(ValueOf(store.data, o))
    BY <2>1, <2>3 DEF Inner
  <2> QED BY <2>1, <2>2, <2>4, Zenon DEF MetaOf, ValueOf
<1> QED BY <1>3, <1>4, <1>5, <1>6, <1>7, <1>8, Zenon DEF Accounted, PlaceFor, PlaceOf

LEMMA NothingSpoiled ==
  ASSUME IInv
  PROVE  Unspoiled
<1>1. InSlots /\ InHand
  BY DEF IInv
<1>2. ASSUME NEW s \in Held
      PROVE  /\ ContentOf(store, slot[s]) = meant[s].content
             /\ meant[s].meta = IF store.data[slot[s]].meta = None THEN None
                                ELSE ContentOf(store, store.data[store.data[slot[s]].meta].value)
  <2>1. meant[s] = View(store, slot[s])
    BY <1>1 DEF Held, InSlots
  <2> QED BY <2>1 DEF View, MetaView
<1> QED BY <1>1, <1>2 DEF Unspoiled, InHand

(* The inductive invariant that the three properties follow from: counts and  *)
(* owners are right for the references and buffers in the client's hands,     *)
(* metadata hold a value, and every slot shows what is meant.                *)
THEOREM Invariance == Spec => []IInv
<1>1. Init => IInv
  BY InitGood
<1>2. IInv /\ [Next]_vars => IInv'
  BY NextGood
<1> QED BY <1>1, <1>2, PTL DEF Spec

(* Whatever iot_data_free, iot_data_copy, iot_data_binary_take and the others *)
(* do, what a client refers to is allocated and has its type.                *)
THEOREM TypeCorrect == Spec => []TypeOK
<1>1. IInv => TypeOK
  BY Typed
<1> QED BY <1>1, Invariance, PTL

(* Every buffer behind a string, an array, a binary or a pointer is freed by  *)
(* exactly one data or by the client, to where it came from, none is lost,    *)
(* and refs counts the references: iot_data_free frees nothing twice.        *)
THEOREM BuffersOwnedOnce == Spec => []Accounted
<1>1. IInv => Accounted
  BY AllAccounted
<1> QED BY <1>1, Invariance, PTL

(* No call on one data changes what a client finds in another, or in a buffer *)
(* it took, but for metadata that are shared.                                *)
THEOREM ContentsKept == Spec => []Unspoiled
<1>1. IInv => Unspoiled
  BY NothingSpoiled
<1> QED BY <1>1, Invariance, PTL

=============================================================================
