------------------------------ MODULE DataTree ------------------------------
(***************************************************************************)
(* Trees of maps and vectors of src/c/data.c that share their parts: every *)
(* composed data holds a reference to each of its values, copies are deep  *)
(* or shallow, iot_data_add_at, remove_at and update_at make a new tree of *)
(* the old one and share the rest with it, and iot_data_compress lets      *)
(* equal values share one data.  A key is a number.                        *)
(***************************************************************************)
EXTENDS Trees

CONSTANTS TreeValues,   \* values of leaves
          TreeStarts,   \* trees a client builds
          Handles,      \* trees a client has at a time
          MaxObjects,   \* bound: data allocated at a time
          MaxCalls,     \* bound: calls of the client
          MaxDepth      \* bound: length of a path

VARIABLES heap,     \* the data that are allocated
          handle,   \* handle -> the client's tree
          meant,    \* handle -> what the tree is to be, as a value
          calls     \* the client's calls so far

vars == <<heap, handle, meant, calls>>

None == 0

-----------------------------------------------------------------------------
(* Allocation and references *)

Address(h) == CHOOSE o \in 1..MaxObjects : o \notin DOMAIN h /\ \A x \in 1..(o - 1) : x \in DOMAIN h

(* What an operation gives: the heap and the data it made.                  *)
Made(h, o) == [heap |-> h, data |-> o]

New(h, label, items) ==
  Made((Address(h) :> [label |-> label, items |-> items, refs |-> 1]) @@ h, Address(h))

AddRef(h, o) == IF o = None THEN h ELSE [h EXCEPT ![o].refs = @ + 1]

InOrder(items) == SetToSortSeq(DOMAIN items, <)

(* iot_data_free.                                                           *)
RECURSIVE Free(_, _)
Free(h, o) ==
  LET items == h[o].items
      rest == [x \in DOMAIN h \ {o} |-> h[x]]
  IN  IF o = None THEN h
      ELSE IF h[o].refs > 1 THEN [h EXCEPT ![o].refs = @ - 1]
      ELSE FoldLeft(LAMBDA g, i : Free(g, items[i]), rest, InOrder(items))

(* iot_data_map_add and iot_data_vector_add: v comes to i, and what was     *)
(* there loses a reference.                                                 *)
Put(h, o, i, v) ==
  LET items == h[o].items
      put == [h EXCEPT ![o].items = (i :> v) @@ items]
  IN  IF i \in DOMAIN items THEN Free(put, items[i]) ELSE put

(* iot_data_map_remove.                                                     *)
MapRemove(h, o, k) ==
  LET items == h[o].items
      less == [x \in DOMAIN items \ {k} |-> items[x]]
  IN  IF k \in DOMAIN items THEN Free([h EXCEPT ![o].items = less], items[k]) ELSE h

(* iot_data_vector_compact.                                                 *)
Compact(h, o) ==
  LET items == h[o].items
      filled == SelectSeq(InOrder(items), LAMBDA i : items[i] # None)
  IN  [h EXCEPT ![o].items = [n \in DOMAIN filled |-> items[filled[n]]]]

-----------------------------------------------------------------------------
(* Copies *)

(* iot_data_shallow_copy.                                                   *)
ShallowCopy(h, o) ==
  LET items == h[o].items
  IN  IF h[o].label \notin {AMap, AVector} THEN Made(AddRef(h, o), o)
      ELSE New(FoldLeft(LAMBDA g, i : AddRef(g, items[i]), h, InOrder(items)), h[o].label, items)

(* iot_data_copy.                                                           *)
RECURSIVE Copy(_, _)
Copy(h, o) ==
  LET items == h[o].items
      empty == New(h, h[o].label, IF h[o].label = AVector THEN [i \in DOMAIN items |-> None] ELSE << >>)
      place(g, i) == LET c == Copy(g, items[i]) IN Put(c.heap, empty.data, i, c.data)
  IN  IF o = None THEN Made(h, None)
      ELSE Made(FoldLeft(place, empty.heap, InOrder(items)), empty.data)

-----------------------------------------------------------------------------
(* Paths.  A path is consumed from its head. *)

At(h, o, i) == IF i \in DOMAIN h[o].items THEN h[o].items[i] ELSE None

RECURSIVE GetAt(_, _, _)
GetAt(h, o, p) == IF p = << >> \/ o = None THEN o ELSE GetAt(h, At(h, o, Head(p)), Tail(p))

RECURSIVE AddAt(_, _, _, _)
AddAtSlip(h, o, p, v) ==
  LET below == AddAt(h, At(h, o, Head(p)), Tail(p), v)
  IN  IF p = << >> THEN Made(h, v) ELSE Made(Put(below.heap, o, Head(p), below.data), o)
AddAt(h, o, p, v) ==
  LET copy == ShallowCopy(h, o)
      below == AddAt(copy.heap, At(h, o, Head(p)), Tail(p), v)
  IN  IF p = << >> THEN Made(h, v)
      ELSE Made(Put(below.heap, copy.data, Head(p), below.data), copy.data)

RECURSIVE RemoveFrom(_, _, _)
RemoveFrom(h, o, p) ==
  LET copy == ShallowCopy(h, o)
      i == Head(p)
      below == RemoveFrom(copy.heap, At(h, o, i), Tail(p))
  IN  CASE p = << >> -> copy
        [] Len(p) > 1 -> Made(Put(below.heap, copy.data, i, below.data), copy.data)
        [] Len(p) = 1 /\ h[o].label = AMap -> Made(MapRemove(copy.heap, copy.data, i), copy.data)
        [] Len(p) = 1 /\ h[o].label = AVector ->
             Made(Compact(Put(copy.heap, copy.data, i, None), copy.data), copy.data)

(* The client's function gives a new value for a leaf, and a reference to   *)
(* the data for a map or a vector.                                          *)
Fn(h, o, v) ==
  IF h[o].label \in {AMap, AVector} THEN Made(AddRef(h, o), o) ELSE New(h, v, << >>)

RECURSIVE UpdateAt(_, _, _, _)
UpdateAt(h, o, p, v) ==
  LET copy == ShallowCopy(h, o)
      i == Head(p)
      below == UpdateAt(copy.heap, At(h, o, i), Tail(p), v)
  IN  CASE p = << >> -> Fn(h, o, v)
        [] p # << >> /\ h[o].label = AMap /\ At(h, o, i) = None -> copy
        [] p # << >> /\ h[o].label \notin {AMap, AVector} -> copy
        [] OTHER -> Made(Put(below.heap, copy.data, i, below.data), copy.data)

-----------------------------------------------------------------------------
(* Compression *)

RECURSIVE TreeOf(_, _)
TreeOf(h, o) ==
  IF o = None THEN Leaf(Nothing)
  ELSE Tree(h[o].label, [i \in DOMAIN h[o].items |-> TreeOf(h, h[o].items[i])])

(* m is the heap and the cache, which refers twice to each of its data, as   *)
(* key and as value.  The data at place i of o goes to the cache, or gives   *)
(* way to an equal one from it.                                              *)
RECURSIVE Compressed(_, _)
CacheAdd(m, o, i) ==
  LET d == m.heap[o].items[i]
      equal == {c \in m.cache : TreeOf(m.heap, c) = TreeOf(m.heap, d)}
      c == CHOOSE c \in equal : TRUE
      twice == AddRef(AddRef(m.heap, d), d)
  IN  IF equal # {}
      THEN [m EXCEPT !.heap = [AddRef(Free(@, d), c) EXCEPT ![o].items[i] = c]]
      ELSE Compressed([heap |-> twice, cache |-> m.cache \cup {d}], d)

(* iot_data_compress_with_cache.                                            *)
Compressed(m, o) ==
  FoldLeft(LAMBDA n, i : CacheAdd(n, o, i), m, InOrder(m.heap[o].items))

(* iot_data_compress.                                                       *)
Compress(h, o) ==
  LET m == Compressed([heap |-> h, cache |-> {}], o)
  IN  FoldLeft(LAMBDA g, c : Free(Free(g, c), c), m.heap, SetToSortSeq(m.cache, <))

-----------------------------------------------------------------------------
(* What the client does.  It changes no data that another one refers to.    *)

(* The calls by which a client builds a tree.                               *)
RECURSIVE Build(_, _)
Build(h, t) ==
  LET empty == New(h, Root(t), IF Root(t) = AVector THEN [i \in DOMAIN Branches(t) |-> None] ELSE << >>)
      place(g, i) ==
        IF t[<<i>>] = Nothing THEN g
        ELSE LET c == Build(g, SubTree(t, <<i>>)) IN Put(c.heap, empty.data, i, c.data)
  IN  Made(FoldLeft(place, empty.heap, Indexes(t, << >>)), empty.data)

Init ==
  /\ heap = << >> /\ handle = [d \in Handles |-> None]
  /\ meant = [d \in Handles |-> Leaf(Nothing)] /\ calls = 0

Held == {d \in Handles : handle[d] # None}
Size(t) == Cardinality({p \in DOMAIN t : t[p] # Nothing})

(* Bound: room for n more data.                                             *)
Room(n) == Cardinality(DOMAIN heap) + n =< MaxObjects

Keep(d, made, t) ==
  /\ calls < MaxCalls /\ calls' = calls + 1
  /\ heap' = made.heap
  /\ handle' = [handle EXCEPT ![d] = made.data]
  /\ meant' = [meant EXCEPT ![d] = t]

BuildTree(d) == \E t \in TreeStarts :
  d \notin Held /\ Room(Size(t)) /\ Keep(d, Build(heap, t), t)

FreeTree(d) == d \in Held /\ Keep(d, Made(Free(heap, handle[d]), None), Leaf(Nothing))

CopyTree(d, e) ==
  /\ d \in Held /\ e \notin Held /\ Room(Size(meant[d]))
  /\ \/ Keep(e, Copy(heap, handle[d]), meant[d])
     \/ Keep(e, ShallowCopy(heap, handle[d]), meant[d])

(* A new tree e of d, with a new value, or another tree, at p.              *)
AddToTree(d, e) == \E p \in DOMAIN meant[d] \ {<< >>} :
  /\ d \in Held /\ e \notin Held /\ meant[d][p] # Nothing /\ Room(Len(p) + 1)
  /\ \/ \E v \in TreeValues :
          LET value == New(heap, v, << >>)
          IN  Keep(e, AddAt(value.heap, handle[d], p, value.data), AddedAt(meant[d], p, Leaf(v)))
     \/ \E c \in Held :
          /\ \A q \in DOMAIN meant[c] : Len(p) + Len(q) =< MaxDepth
          /\ Keep(e, AddAt(AddRef(heap, handle[c]), handle[d], p, handle[c]),
                  AddedAt(meant[d], p, meant[c]))

RemoveFromTree(d, e) == \E p \in DOMAIN meant[d] \ {<< >>} :
  /\ d \in Held /\ e \notin Held /\ Room(Len(p))
  /\ Keep(e, RemoveFrom(heap, handle[d], p), RemovedAt(meant[d], p))

(* Paths that end under a leaf or at a key that a map does not have.         *)
Beyond(t) ==
  {p \o <<i>> : p \in {q \in DOMAIN t : t[q] = AMap \/ t[q] > 0}, i \in {1, 2}} \ DOMAIN t

UpdateTree(d, e) == \E p \in DOMAIN meant[d] \cup Beyond(meant[d]), v \in TreeValues :
  /\ d \in Held /\ e \notin Held /\ Room(Len(p) + 1)
  /\ p \in DOMAIN meant[d] => meant[d][p] # Nothing
  /\ Keep(e, UpdateAt(heap, handle[d], p, v),
          IF p \in DOMAIN meant[d] /\ meant[d][p] \notin {AMap, AVector}
          THEN AddedAt(meant[d], p, Leaf(v)) ELSE meant[d])

(* A data that is only referred to by the client is changed in place.       *)
ChangeTree(d) == \E i \in ToSet(Indexes(meant[d], << >>)), v \in TreeValues :
  LET value == New(heap, v, << >>) IN
  /\ d \in Held /\ heap[handle[d]].refs = 1 /\ Room(1)
  /\ Keep(d, Made(Put(value.heap, handle[d], i, value.data), handle[d]),
          AddedAt(meant[d], <<i>>, Leaf(v)))

CompressTree(d) ==
  /\ d \in Held /\ \A p \in DOMAIN meant[d] : meant[d][p] # Nothing
  /\ Keep(d, Made(Compress(heap, handle[d]), handle[d]), meant[d])

Next ==
  \/ \E d \in Handles : BuildTree(d) \/ FreeTree(d) \/ ChangeTree(d) \/ CompressTree(d)
  \/ \E d, e \in Handles :
       CopyTree(d, e) \/ AddToTree(d, e) \/ RemoveFromTree(d, e) \/ UpdateTree(d, e)

-----------------------------------------------------------------------------
(* Parts of properties of Data *)

Kept ==
  \A d \in Held :
    /\ TreeOf(heap, handle[d]) = meant[d]
    /\ \A p \in DOMAIN meant[d] :
         TreeOf(heap, GetAt(heap, handle[d], p)) = SubTree(meant[d], p)

Conserved ==
  \A o \in DOMAIN heap :
    LET places == {x \in DOMAIN heap : \E i \in DOMAIN heap[x].items : heap[x].items[i] = o}
        holding(x) == Cardinality({i \in DOMAIN heap[x].items : heap[x].items[i] = o})
    IN  /\ heap[o].refs > 0
        /\ heap[o].refs = Cardinality({d \in Handles : handle[d] = o})
                          + FoldLeft(LAMBDA n, x : n + holding(x), 0, SetToSortSeq(places, <))

=============================================================================
