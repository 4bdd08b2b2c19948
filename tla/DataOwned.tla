----------------------------- MODULE DataOwned -----------------------------
(***************************************************************************)
(* Who owns the memory behind a data of src/c/data.c: strings, arrays,     *)
(* binaries and pointers copy, take or refer to a buffer, a string that is *)
(* copied may lie in the data itself or in a block of the cache, constants *)
(* are neither counted nor freed, a client takes a buffer back, and copies *)
(* share their metadata.  A content stands for characters or bytes.        *)
(***************************************************************************)
EXTENDS Integers, FiniteSets

CONSTANTS Contents,     \* contents of strings but for the empty one
          ByteContents, \* those of arrays, binaries and what a pointer points to
          FitsIn,       \* content of a string -> "data", "block" or "heap"
          Constants,    \* data a client made constant -> their content
          Slots,        \* references a client has at a time
          MaxData,      \* bound: data allocated at a time
          MaxBuffers,   \* bound: buffers allocated at a time
          MaxTaken      \* bound: buffers a client took and has not freed

Empty == 0

(* Contents and places are numbers to tell them from none.                   *)
ASSUME OwnedAssumption ==
  /\ IsFiniteSet(Slots) /\ MaxData \in Nat /\ MaxBuffers \in Nat
  /\ Contents \subseteq Nat \ {Empty} /\ ByteContents \subseteq Contents
  /\ FitsIn \in [Contents \cup {Empty} -> {"data", "block", "heap"}]
  /\ IsFiniteSet(DOMAIN Constants) /\ DOMAIN Constants \subseteq Nat \ (0..MaxData)
  /\ \A o \in DOMAIN Constants : Constants[o] \in Contents

VARIABLES store,   \* the data and the buffers that are allocated
          slot,    \* slot -> the data a client refers to
          mine,    \* buffer the client is to free -> its content
          meant    \* slot -> what is to be found in it, and its metadata

vars == <<store, slot, mine, meant>>

None == 0
Inside == -1      \* the place of a string in the data itself

(* A buffer that the client keeps while data refer to it.                   *)
KeptBuffer(c) == MaxBuffers + c

Kept == {KeptBuffer(c) : c \in Contents}

-----------------------------------------------------------------------------
(* Memory *)

LowestFree(used, max) == CHOOSE n \in 1..max : n \notin used /\ 1..(n - 1) \subseteq used

With(f, x, v) == [y \in DOMAIN f \cup {x} |-> IF y = x THEN v ELSE f[y]]

Without(f, x) == [y \in DOMAIN f \ {x} |-> f[y]]

Made(st, o) == [store |-> st, result |-> o]

(* A new buffer, from malloc or from the block cache.                       *)
Allocated(st, place, c) ==
  LET b == LowestFree(DOMAIN st.buffers, MaxBuffers)
  IN  Made([st EXCEPT !.buffers = With(@, b, [place |-> place, content |-> c])], b)

Released(st, b) == [st EXCEPT !.buffers = Without(@, b)]

(* iot_data_block_alloc_data.                                               *)
NewData(st, kind, at, content, release, block) ==
  LET o == LowestFree(DOMAIN st.data, MaxData)
      new == [kind |-> kind, at |-> at, inside |-> IF at = Inside THEN content ELSE Empty,
              release |-> release, block |-> block, constant |-> FALSE,
              refs |-> 1, meta |-> None, value |-> None]
  IN  Made([st EXCEPT !.data = With(@, o, new)], o)

ContentOf(st, o) ==
  LET d == st.data[o]
  IN  CASE d.at = Inside -> d.inside
        [] d.at = None -> Empty
        [] d.at > 0 -> st.buffers[d.at].content

AddRef(st, o) ==
  IF o = None THEN st ELSE IF st.data[o].constant THEN st ELSE [st EXCEPT !.data[o].refs = @ + 1]

(* iot_data_free of o, when less is what the frees of its parts leave: the    *)
(* parts come first, then what the data owns.  A block goes back to the cache, *)
(* anything else to the heap or the client's function.                       *)
FreeAfter(st, o, less) ==
  LET d == st.data[o]
      freed == IF d.release /\ d.at > 0 THEN Released(less, d.at) ELSE less
  IN  IF o = None THEN st
      ELSE IF d.constant THEN st
      ELSE IF d.refs > 1 THEN [st EXCEPT !.data[o].refs = @ - 1]
      ELSE [freed EXCEPT !.data = Without(@, o)]

(* Metadata are a map, which holds a value without metadata.                 *)
FreeValue(st, o) == FreeAfter(st, o, st)
FreeMap(st, o) == FreeAfter(st, o, FreeValue(st, st.data[o].value))
Free(st, o) == FreeAfter(st, o, FreeMap(st, st.data[o].meta))

-----------------------------------------------------------------------------
(* Strings, arrays and pointers.  The client's buffer is b. *)

(* iot_data_alloc_string.                                                   *)
AllocString(st, c, own, b) ==
  LET place == FitsIn[c]
      copy == Allocated(st, place, c)
  IN  CASE own # "copy" -> NewData(st, "string", b, c, own # "ref", FALSE)
        [] own = "copy" /\ place = "data" -> NewData(st, "string", Inside, c, TRUE, FALSE)
        [] own = "copy" /\ place # "data" ->
             NewData(copy.store, "string", copy.result, c, TRUE, place = "block")

(* iot_data_alloc_array, of bytes.  An array of none has no buffer, and is    *)
(* marked to release one unless it was made from no pointer at all.          *)
AllocArray(st, kind, c, own, b) ==
  LET copy == Allocated(st, "heap", c)
  IN  IF c = Empty THEN NewData(st, kind, None, c, b # None /\ own # "ref", FALSE)
      ELSE IF own = "copy" THEN NewData(copy.store, kind, copy.result, c, TRUE, FALSE)
      ELSE NewData(st, kind, b, c, own # "ref", FALSE)

AllocOf(st, kind, c, own, b) ==
  IF kind = "string" THEN AllocString(st, c, own, b) ELSE AllocArray(st, kind, c, own, b)

(* iot_data_alloc_pointer: the client's function frees what it points to.    *)
AllocPointer(st, freed, b) == NewData(st, "pointer", b, Empty, freed, FALSE)

(* iot_data_copy.  Mutant: a copy refers to the buffer of its original.       *)
CopyOwnershipSlip(d) == "ref"

CopyOwnership(d) == IF d.release THEN "copy" ELSE "ref"

Copy(st, o) ==
  LET d == st.data[o]
      made == IF d.kind = "pointer" THEN Made(AddRef(st, o), o)
              ELSE AllocOf(st, d.kind, ContentOf(st, o), CopyOwnership(d), d.at)
  IN  IF d.constant THEN Made(st, o)
      ELSE Made([AddRef(made.store, d.meta) EXCEPT !.data[made.result].meta = d.meta], made.result)

(* iot_data_binary_take: the result is the buffer, which is a copy if it is   *)
(* not the data's to give, or somebody else may read it there.  Mutant: the   *)
(* buffer of a data that others refer to is given away.                      *)
MayGiveSlip(d) == d.release

MayGive(d) == d.release /\ d.refs = 1
Take(st, o) ==
  IF MayGive(st.data[o]) THEN Made([st EXCEPT !.data[o].at = None], st.data[o].at)
  ELSE Allocated(st, "heap", ContentOf(st, o))

(* iot_data_binary_from_string and iot_data_string_from_binary.              *)
BinaryFromString(st, o) == AllocArray(st, "binary", ContentOf(st, o), "copy", st.data[o].at)
StringFromBinary(st, o) ==
  LET copy == Allocated(st, "heap", ContentOf(st, o))
  IN  AllocString(copy.store, ContentOf(st, o), "take", copy.result)

(* iot_data_set_metadata, of one key: the map of the metadata is made with    *)
(* the first, and shared by the copies made since.                           *)
SetMetadata(st, o, v) ==
  LET map == NewData(st, "map", None, Empty, FALSE, FALSE)
      with == IF st.data[o].meta # None THEN Made(st, st.data[o].meta)
              ELSE Made([map.store EXCEPT !.data[o].meta = map.result], map.result)
  IN  FreeValue([with.store EXCEPT !.data[with.result].value = v],
                with.store.data[with.result].value)

-----------------------------------------------------------------------------
(* What the client does *)

ConstantData ==
  [o \in DOMAIN Constants |->
     [kind |-> "string", at |-> KeptBuffer(Constants[o]), inside |-> Empty, release |-> FALSE,
      block |-> FALSE, constant |-> TRUE, refs |-> 1, meta |-> None, value |-> None]]

Absent == [content |-> Empty, meta |-> None]

Init ==
  /\ store = [data |-> ConstantData,
              buffers |-> [b \in Kept |-> [place |-> "client", content |-> b - MaxBuffers]]]
  /\ slot = [s \in Slots |-> None] /\ mine = << >>
  /\ meant = [s \in Slots |-> Absent]

(* Bound: room for n more data and buffers.                                 *)
Room(n) == /\ Cardinality(DOMAIN store.data \cap 1..MaxData) + n =< MaxData
           /\ Cardinality(DOMAIN store.buffers \cap 1..MaxBuffers) + n =< MaxBuffers

Held == {s \in Slots : slot[s] # None}
Is(s, kinds) == s \in Held /\ store.data[slot[s]].kind \in kinds

Gets(s, made, expected) ==
  /\ s \notin Held
  /\ store' = made.store
  /\ slot' = [slot EXCEPT ![s] = made.result]
  /\ meant' = [meant EXCEPT ![s] = expected]

New(c) == [content |-> c, meta |-> None]

(* The client allocates what is taken, and keeps what is referred to.        *)
Make(s) == \E kind \in {"string", "array", "binary"}, own \in {"copy", "take", "ref"} :
  \E c \in (IF kind = "string" THEN Contents ELSE ByteContents) :
    LET given == IF own = "take" THEN Allocated(store, "heap", c) ELSE Made(store, KeptBuffer(c))
    IN  Room(1) /\ Gets(s, AllocOf(given.store, kind, c, own, given.result), New(c)) /\ UNCHANGED mine

MakePointer(s) == \E c \in ByteContents, freed \in BOOLEAN :
  LET given == IF freed THEN Allocated(store, "pointed", c) ELSE Made(store, KeptBuffer(c))
  IN  Room(1) /\ Gets(s, AllocPointer(given.store, freed, given.result), New(c)) /\ UNCHANGED mine

UseConstant(s) == \E o \in DOMAIN Constants :
  Gets(s, Made(store, o),
       [content |-> Constants[o],
        meta |-> LET m == store.data[o].meta
                 IN  IF m = None THEN None ELSE ContentOf(store, store.data[m].value)])
  /\ UNCHANGED mine

Share(s, r) == /\ s \in Held /\ Gets(r, Made(AddRef(store, slot[s]), slot[s]), meant[s])
               /\ UNCHANGED mine

(* The metadata of a pointer gets a reference from each copy, though there is *)
(* only one pointer, and is never freed; that is left out.                   *)
CopyData(s, r) ==
  /\ s \in Held /\ Room(1)
  /\ Is(s, {"pointer"}) => store.data[slot[s]].meta = None
  /\ Gets(r, Copy(store, slot[s]), meant[s])
  /\ UNCHANGED mine

FreeData(s) ==
  /\ s \in Held
  /\ store' = Free(store, slot[s])
  /\ slot' = [slot EXCEPT ![s] = None] /\ meant' = [meant EXCEPT ![s] = Absent]
  /\ UNCHANGED mine

TakeBuffer(s) ==
  LET taken == Take(store, slot[s]) IN
  /\ Is(s, {"array", "binary"}) /\ Room(1) /\ Cardinality(DOMAIN mine) < MaxTaken
  /\ store' = taken.store
  /\ mine' = IF taken.result = None THEN mine ELSE With(mine, taken.result, meant[s].content)
  /\ meant' = IF MayGive(store.data[slot[s]]) THEN [meant EXCEPT ![s].content = Empty] ELSE meant
  /\ UNCHANGED slot

FreeBuffer == \E b \in DOMAIN mine :
  /\ store' = Released(store, b)
  /\ mine' = Without(mine, b)
  /\ UNCHANGED <<slot, meant>>

Convert(s, r) ==
  /\ Room(1) /\ UNCHANGED mine
  /\ \/ Is(s, {"string"}) /\ Gets(r, BinaryFromString(store, slot[s]), New(meant[s].content))
     \/ Is(s, {"binary"}) /\ Gets(r, StringFromBinary(store, slot[s]), New(meant[s].content))

(* iot_data_array_to_binary and iot_data_binary_to_array.                    *)
Retype(s) == \E kind \in {"array", "binary"} :
  /\ Is(s, {"array", "binary"})
  /\ store' = [store EXCEPT !.data[slot[s]].kind = kind]
  /\ UNCHANGED <<slot, mine, meant>>

(* The client hands its reference r over.  Metadata have no metadata.  The    *)
(* metadata show in all that share them.                                     *)
Annotate(s, r) ==
  LET o == slot[s]
      v == slot[r]
      sharing == {q \in Held : \/ slot[q] = o
                               \/ store.data[o].meta # None /\ store.data[slot[q]].meta = store.data[o].meta}
  IN
  /\ s # r /\ {s, r} \subseteq Held /\ o # v /\ Room(1)
  /\ store.data[v].meta = None /\ \A x \in DOMAIN store.data : store.data[x].value # o
  /\ store' = SetMetadata(store, o, v)
  /\ slot' = [slot EXCEPT ![r] = None]
  /\ meant' = [q \in Slots |-> IF q = r THEN Absent
                               ELSE IF q \in sharing THEN [meant[q] EXCEPT !.meta = meant[r].content]
                               ELSE meant[q]]
  /\ UNCHANGED mine

Next ==
  \/ \E s \in Slots : Make(s) \/ MakePointer(s) \/ UseConstant(s) \/ FreeData(s) \/ TakeBuffer(s) \/ Retype(s)
  \/ \E s, r \in Slots : Share(s, r) \/ CopyData(s, r) \/ Convert(s, r) \/ Annotate(s, r)
  \/ FreeBuffer

Spec == Init /\ [][Next]_vars

-----------------------------------------------------------------------------
(* Properties *)

Datum == [kind : {"string", "array", "binary", "pointer", "map"},
          at : {Inside, None} \cup 1..MaxBuffers \cup Kept, inside : Contents \cup {Empty},
          release : BOOLEAN, block : BOOLEAN, constant : BOOLEAN, refs : Nat,
          meta : 0..MaxData, value : 0..MaxData \cup DOMAIN Constants]

Buffer == [place : {"block", "heap", "pointed", "client"}, content : Contents \cup {Empty}]

(* What a client refers to is allocated.                                    *)
TypeOK ==
  /\ DOMAIN store = {"data", "buffers"}
  /\ DOMAIN store.data \subseteq 1..MaxData \cup DOMAIN Constants
  /\ store.data \in [DOMAIN store.data -> Datum]
  /\ DOMAIN store.buffers \subseteq 1..MaxBuffers \cup Kept
  /\ store.buffers \in [DOMAIN store.buffers -> Buffer]
  /\ slot \in [Slots -> DOMAIN store.data \cup {None}]
  /\ DOMAIN mine \subseteq DOMAIN store.buffers
  /\ mine \in [DOMAIN mine -> Contents \cup {Empty}]
  /\ meant \in [Slots -> [content : Contents \cup {Empty}, meta : Contents \cup {Empty}]]

Owners == {o \in DOMAIN store.data : store.data[o].release /\ store.data[o].at > 0}

(* Every buffer has one that frees it, to where it came from; every data one  *)
(* reference for each place that holds it.                                   *)
Accounted ==
  /\ \A o \in DOMAIN store.data : store.data[o].at > 0 => store.data[o].at \in DOMAIN store.buffers
  /\ \A o, p \in Owners : store.data[o].at = store.data[p].at => o = p
  /\ \A o \in Owners : store.data[o].at \notin DOMAIN mine \cup Kept
  /\ DOMAIN store.buffers = Kept \cup DOMAIN mine \cup {store.data[o].at : o \in Owners}
  /\ \A o \in Owners :
       LET d == store.data[o]
       IN  store.buffers[d.at].place =
             (IF d.kind = "pointer" THEN "pointed" ELSE IF d.block THEN "block" ELSE "heap")
  /\ \A o \in DOMAIN store.data \ DOMAIN Constants :
       store.data[o].refs = Cardinality({s \in Slots : slot[s] = o})
         + Cardinality({x \in DOMAIN store.data : store.data[x].meta = o})
         + Cardinality({x \in DOMAIN store.data : store.data[x].value = o})
       /\ store.data[o].refs > 0

(* What the client put into a data or took from one is there, whatever was    *)
(* freed, taken or copied since, and its metadata too.                       *)
Unspoiled ==
  /\ \A s \in Held :
       LET d == store.data[slot[s]]
       IN  /\ ContentOf(store, slot[s]) = meant[s].content
           /\ meant[s].meta = IF d.meta = None THEN None ELSE ContentOf(store, store.data[d.meta].value)
  /\ \A b \in DOMAIN mine : store.buffers[b].content = mine[b]

=============================================================================
