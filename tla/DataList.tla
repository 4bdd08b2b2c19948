------------------------------ MODULE DataList ------------------------------
(***************************************************************************)
(* iot_data_list_t of src/c/data.c: elements linked in both directions, of *)
(* which the head carries the length, with a cached hash, and the blocks   *)
(* the elements live in.  A block comes from the block cache, a linked     *)
(* list of free blocks whose link is the first word of the block, as is    *)
(* the next link of an element, or from the heap when the thread chose so. *)
(* next leads from the tail, where an iterator starts, to the head.        *)
(***************************************************************************)
EXTENDS DataHash, FiniteSets

CONSTANTS Values,      \* values, of which the client keeps one reference each
          HeapBlocks,  \* bound: blocks the heap gives at a time
          ChunkSize,   \* IOT_DATA_BLOCKS: blocks in one allocation of the cache
          MaxBlocks,   \* bound: blocks in the cache
          MaxLength    \* bound: elements of a list

VARIABLES list,        \* the list and the memory its elements live in
          position     \* the element under the client's iterator

vars == <<list, position>>

Blocks == (1..MaxBlocks) \cup HeapBlocks

-----------------------------------------------------------------------------
(* Blocks *)

(* iot_data_alloc_block with an empty cache links the blocks of a new chunk. *)
NewChunk(m) ==
  LET first == m.blocks + 1
      last == m.blocks + ChunkSize
  IN  [m EXCEPT !.cache = first, !.blocks = last,
         !.next = [b \in Blocks |-> IF b \in first..(last - 1) THEN b + 1 ELSE @[b]]]

(* An allocation clears the memory.  As nobody reads what a free block held   *)
(* but its link, it is cleared here when it is freed.                        *)
Clear(m, b) == [m EXCEPT !.next[b] = Null, !.prev[b] = Null, !.value[b] = Null, !.length[b] = 0]

(* The cache after its first block, the one it gives, was taken.             *)
FromCache(m) == [m EXCEPT !.cache = m.next[@], !.next[m.cache] = Null]

FreeOnHeap(m) == CHOOSE b \in HeapBlocks \ m.heap : \A c \in HeapBlocks \ m.heap : b =< c

(* iot_element_alloc: the memory and the block.                             *)
ElementAlloc(m) ==
  IF m.fromHeap
  THEN LET b == FreeOnHeap(m) IN <<[m EXCEPT !.heap = @ \cup {b}], b>>
  ELSE LET n == IF m.cache = Null THEN NewChunk(m) ELSE m IN <<FromCache(n), n.cache>>

ElementFree(m, b) ==
  IF b \in HeapBlocks
  THEN [Clear(m, b) EXCEPT !.heap = @ \ {b}]
  ELSE [Clear(m, b) EXCEPT !.next[b] = m.cache, !.cache = b]

-----------------------------------------------------------------------------
(* The list *)

NoMemory ==
  [head |-> Null, tail |-> Null, hash |-> {}, rehash |-> FALSE,
   next |-> [b \in Blocks |-> Null], prev |-> [b \in Blocks |-> Null],
   value |-> [b \in Blocks |-> Null], length |-> [b \in Blocks |-> 0],
   cache |-> Null, blocks |-> 0, heap |-> {}, fromHeap |-> FALSE,
   refs |-> [v \in Values |-> 1]]

(* iot_data_init fills the cache.                                           *)
Init == list = NewChunk(NoMemory) /\ position = Null

(* What iot_data_list_iter walks, from b on.  A link that leads on past      *)
(* every block is cut off.                                                   *)
RECURSIVE ElementsFrom(_, _, _)
ElementsFrom(m, b, n) ==
  IF b = Null \/ n = 0 THEN << >> ELSE <<b>> \o ElementsFrom(m, m.next[b], n - 1)

Elements(m) == ElementsFrom(m, m.tail, Cardinality(Blocks))

ValuesOf(m) == LET es == Elements(m) IN [i \in DOMAIN es |-> m.value[es[i]]]

Length(m) == IF m.head = Null THEN 0 ELSE m.length[m.head]

AddRef(m, v) == [m EXCEPT !.refs[v] = @ + 1]
Release(m, v) == [m EXCEPT !.refs[v] = @ - 1]

(* While rehash is set the cached hash is never used, so it is not kept.     *)
Mark(m) == [m EXCEPT !.rehash = TRUE, !.hash = {}]
AddHash(m, v) == IF m.rehash THEN m ELSE [m EXCEPT !.hash = ValueHash(@, v)]

TakenHash(m) ==
  IF m.rehash THEN [m EXCEPT !.hash = HashOfSeq(ValuesOf(m)), !.rehash = FALSE] ELSE m

(* iot_data_list_tail_push.                                                 *)
TailPush(m, v) ==
  LET old == m.tail
      alloc == ElementAlloc(m)
      b == alloc[2]
      n == [alloc[1] EXCEPT !.tail = b, !.value[b] = v, !.next[b] = old]
      linked == IF old = Null THEN [n EXCEPT !.head = b] ELSE [n EXCEPT !.prev[old] = b]
  IN  AddHash([linked EXCEPT !.length[linked.head] = @ + 1], v)

(* iot_data_list_head_push.                                                 *)
HeadPush(m, v) ==
  LET old == m.head
      alloc == ElementAlloc(m)
      b == alloc[2]
      n == [alloc[1] EXCEPT !.head = b, !.value[b] = v, !.prev[b] = old,
                            !.length[b] = Length(m) + 1]
  IN  AddHash(IF old = Null THEN [n EXCEPT !.tail = b] ELSE [n EXCEPT !.next[old] = b], v)

(* iot_data_list_tail_pop of a list that has an element.                    *)
TailPop(m) ==
  LET b == m.tail
      t == m.next[b]
      n == IF t = Null THEN [m EXCEPT !.tail = Null, !.head = Null]
           ELSE [m EXCEPT !.tail = t, !.prev[t] = Null, !.length[m.head] = @ - 1]
  IN  ElementFree(Mark(n), b)

(* iot_data_list_head_pop: the new head takes the length over.              *)
NewHeadSlip(m, h) == [m EXCEPT !.head = h, !.next[h] = Null]
NewHead(m, h) == [m EXCEPT !.head = h, !.next[h] = Null, !.length[h] = m.length[m.head] - 1]

HeadPop(m) ==
  LET b == m.head
      h == m.prev[b]
      n == IF h = Null THEN [m EXCEPT !.head = Null, !.tail = Null] ELSE NewHead(m, h)
  IN  ElementFree(Mark(n), b)

(* An element that is neither head nor tail.                                *)
Unlink(m, b) ==
  [m EXCEPT !.prev[m.next[b]] = m.prev[b], !.next[m.prev[b]] = m.next[b],
            !.length[m.head] = @ - 1]

(* iot_data_list_remove_element.                                            *)
RemoveElement(m, b) ==
  Release(CASE b = m.head -> HeadPop(m)
            [] b # m.head /\ b = m.tail -> TailPop(m)
            [] OTHER -> ElementFree(Mark(Unlink(m, b)), b),
          m.value[b])

(* iot_data_list_find_element: the first one from the tail.                 *)
FindElement(m, v) ==
  LET found == SelectSeq(Elements(m), LAMBDA b : m.value[b] = v)
  IN  IF found = << >> THEN Null ELSE found[1]

RECURSIVE EmptyList(_)
EmptyList(m) == IF m.head = Null THEN m ELSE EmptyList(Release(HeadPop(m), m.value[m.head]))

(* iot_data_free of the list.                                               *)
FreeList(m) ==
  LET freed == FoldLeft(LAMBDA n, b : ElementFree(Release(n, m.value[b]), b), m, Elements(m))
  IN  [freed EXCEPT !.head = Null, !.tail = Null, !.hash = {}, !.rehash = FALSE]

(* iot_data_shallow_copy: the memory with the copy in it, next to the list.  *)
ShallowCopy(m) ==
  FoldLeft(LAMBDA n, v : HeadPush(AddRef(n, v), v),
           [m EXCEPT !.head = Null, !.tail = Null, !.hash = {}, !.rehash = FALSE],
           ValuesOf(m))

-----------------------------------------------------------------------------
(* What the client does.  It keeps its iterator over a replacement and a    *)
(* removal through the iterator only.                                       *)

Become(m) == list' = m /\ position' = Null

FreeBlocks == ToSet(ElementsFrom(list, list.cache, Cardinality(Blocks)))

(* Bound: memory for n more elements.                                       *)
Room(n) ==
  IF list.fromHeap THEN Cardinality(HeapBlocks \ list.heap) >= n
                   ELSE Cardinality(FreeBlocks) + MaxBlocks - list.blocks >= n

CanGrow == Length(list) < MaxLength /\ Room(1)

PushAtHead == \E v \in Values : CanGrow /\ Become(HeadPush(AddRef(list, v), v))

PushAtTail == \E v \in Values : CanGrow /\ Become(TailPush(AddRef(list, v), v))

(* The client frees what it pops.                                           *)
PopHead == list.head # Null /\ Become(Release(HeadPop(list), list.value[list.head]))

PopTail == list.tail # Null /\ Become(Release(TailPop(list), list.value[list.tail]))

RemoveFound == \E v \in Values :
  LET b == FindElement(list, v) IN b # Null /\ Become(RemoveElement(list, b))

Empty == Become(EmptyList(list))

Free == Become(FreeList(list))

(* The client goes on with a copy and frees the list it had.                *)
Copy ==
  LET copy == ShallowCopy(list)
      freed == FreeList([copy EXCEPT !.head = list.head, !.tail = list.tail])
  IN  Room(Length(list)) /\ Become([freed EXCEPT !.head = copy.head, !.tail = copy.tail, !.hash = copy.hash])

TakeHash == list' = TakenHash(list) /\ UNCHANGED position

(* iot_data_alloc_heap.  Bound: only while the list is short.               *)
AllocHeap == Length(list) =< 1 /\ list' = [list EXCEPT !.fromHeap = ~@] /\ UNCHANGED position

IterStart == position' = Null /\ UNCHANGED list

IterNext ==
  /\ position' = IF position = Null THEN list.tail ELSE list.next[position]
  /\ UNCHANGED list

Before == IF position = Null THEN list.head ELSE list.prev[position]

IterPrev == position' = Before /\ UNCHANGED list

HasNext == position = Null \/ list.next[position] # Null

(* The old value goes back to the client, who frees it.                     *)
IterReplace == \E v \in Values :
  /\ position # Null
  /\ list' = [Release(Mark(AddRef(list, v)), list.value[position]) EXCEPT !.value[position] = v]
  /\ UNCHANGED position

IterRemove ==
  /\ position # Null
  /\ position' = Before
  /\ list' = RemoveElement(list, position)

Next == \/ PushAtHead \/ PushAtTail \/ PopHead \/ PopTail \/ RemoveFound \/ Empty \/ Free
        \/ Copy \/ TakeHash \/ AllocHeap \/ IterStart \/ IterNext \/ IterPrev
        \/ IterReplace \/ IterRemove

-----------------------------------------------------------------------------
(* Parts of properties of Data *)

At ==
  IF position = Null THEN 0
  ELSE LET es == Elements(list) IN CHOOSE i \in DOMAIN es : es[i] = position

Type ==
  /\ list.head \in Blocks \cup {Null} /\ list.tail \in Blocks \cup {Null}
  /\ list.next \in [Blocks -> Blocks \cup {Null}] /\ list.prev \in [Blocks -> Blocks \cup {Null}]
  /\ list.value \in [Blocks -> Values \cup {Null}] /\ list.length \in [Blocks -> 0..MaxLength]
  /\ list.refs \in [Values -> Nat] /\ list.hash \subseteq Values
  /\ list.blocks \in 0..MaxBlocks /\ list.heap \subseteq HeapBlocks
  /\ position \in Blocks \cup {Null}

Fresh == list.rehash \/ list.hash = HashOfSeq(ValuesOf(list))

(* The length the head carries counts the elements, a block is in one place, *)
(* and a value has one reference for every element that holds it.            *)
Conserved ==
  LET elements == Elements(list)
      used == ToSet(elements)
      unused == FreeBlocks
  IN  /\ Length(list) = Len(elements) /\ Cardinality(used) = Length(list)
      /\ used \cap HeapBlocks = list.heap
      /\ used \cap unused = {}
      /\ (used \cup unused) \ HeapBlocks = 1..list.blocks
      /\ \A v \in Values : list.refs[v] = 1 + Cardinality({b \in used : list.value[b] = v})

=============================================================================
