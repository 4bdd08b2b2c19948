------------------------------ MODULE DataMap ------------------------------
(***************************************************************************)
(* iot_data_map_t of src/c/data.c: a red-black tree of nodes that own a    *)
(* key and a value, with a cached hash, changed and iterated by one        *)
(* client.  A node is named by its key: a tree has one node per key, and   *)
(* the code relinks nodes, it never moves a key to another one.  The left  *)
(* and right mirror images in the code are one operator with a side.       *)
(*                                                                         *)
(* A loop of the code is a function of the turns it has made: it starts    *)
(* with what the loop starts with, and stays as it is once the loop is     *)
(* left.  No loop makes more turns than there are keys.                    *)
(***************************************************************************)
EXTENDS DataHash, FiniteSets

CONSTANTS Keys,      \* integers, compared as iot_data_cmp compares keys
          Values,    \* integers as well: a key and a value can be equal
          Inputs,    \* bound: the pairs a client adds
          Sources,   \* maps given to iot_data_map_merge
          MaxRefs,   \* bound: references to one key or value
          MaxWalked  \* bound: size of a map that is iterated

ASSUME MapAssumption ==
  /\ IsFiniteSet(Keys) /\ Keys \subseteq Nat \ {Null}
  /\ IsFiniteSet(Values) /\ Values \subseteq Nat \ {Null}
  /\ Inputs \subseteq Keys \X Values
  /\ \A d \in Sources : DOMAIN d \subseteq Keys /\ \A k \in DOMAIN d : d[k] \in Values
  /\ MaxRefs \in Nat \ {0} /\ MaxWalked \in Nat

VARIABLES map,    \* the tree, its size and hash, and the reference counts
          iter    \* the client's iot_data_map_iter_t

vars == <<map, iter>>

Sides == {"left", "right"}
Other(s) == IF s = "left" THEN "right" ELSE "left"

(* skipped: a black node went without rebalancing; replaced: a value went   *)
(* through the iterator.  Both are history the code does not keep.          *)
EmptyMap(keyRefs, valueRefs) ==
  [root |-> Null, size |-> 0, hash |-> {}, rehash |-> FALSE,
   child |-> [s \in Sides |-> [k \in Keys |-> Null]],
   parent |-> [k \in Keys |-> Null],
   red |-> [k \in Keys |-> FALSE],
   value |-> [k \in Keys |-> Null],
   keyRefs |-> keyRefs, valueRefs |-> valueRefs,
   skipped |-> FALSE, replaced |-> FALSE]

NewIter == [node |-> Null, count |-> 0, wrapped |-> FALSE]

(* The client keeps one reference to every key and value of its own.        *)
UnsharedMap == EmptyMap([k \in Keys |-> 1], [v \in Values |-> 1])

Init == map = UnsharedMap /\ iter = NewIter

Turns == 0..Cardinality(Keys)
LastTurn == Cardinality(Keys)

(* Where a walk from n along next ends.                                     *)
EndOf(n, next) ==
  LET at[i \in Turns] ==
        IF i = 0 THEN n
        ELSE LET x == at[i - 1] IN IF next[x] = Null THEN x ELSE next[x]
  IN  at[LastTurn]

-----------------------------------------------------------------------------
(* Links and colours.  Null counts as black. *)

IsRed(m, n) == n # Null /\ m.red[n]
SetRed(m, n, c) == IF n = Null THEN m ELSE [m EXCEPT !.red[n] = c]
SetParent(m, n, p) == IF n = Null THEN m ELSE [m EXCEPT !.parent[n] = p]

SideOf(m, n) == IF m.child["left"][m.parent[n]] = n THEN "left" ELSE "right"

(* v takes the place of u under u's parent.                                 *)
Hang(m, u, v) ==
  IF m.parent[u] = Null THEN [m EXCEPT !.root = v]
                        ELSE [m EXCEPT !.child[SideOf(m, u)][m.parent[u]] = v]

Transplant(m, u, v) == SetParent(Hang(m, u, v), v, m.parent[u])

Lowered(m, x, y, c, s) ==
  [m EXCEPT !.child[Other(s)][x] = c, !.child[s][y] = x, !.parent[x] = y]

(* iot_node_rol for side left, iot_node_ror for side right: x goes down to  *)
(* that side and its child of the other side comes up.                      *)
Rotate(m, x, s) ==
  LET y == m.child[Other(s)][x]
      c == m.child[s][y]
  IN  Lowered(SetParent(Transplant(m, x, y), c, x), x, y, c, s)

Extreme(m, n, s) == IF n = Null THEN Null ELSE EndOf(n, m.child[s])

(* The way a search for k takes.                                            *)
Towards(k, n) == IF k < n THEN "left" ELSE "right"
Onward(m, k) == [n \in Keys |-> IF n = k THEN Null ELSE m.child[Towards(k, n)][n]]
Nearest(m, k) == EndOf(m.root, Onward(m, k))
Find(m, k) == IF m.root # Null /\ Nearest(m, k) = k THEN k ELSE Null

-----------------------------------------------------------------------------
(* Insertion *)

(* The parent turns black and the grandparent red.                          *)
RepaintSlip(m, p, g) == SetRed(m, p, FALSE)
Repaint(m, p, g) == SetRed(SetRed(m, p, FALSE), g, TRUE)

(* One turn of iot_node_insert_balance: the tree and the node it goes on at. *)
InsertTurn(m, k) ==
  LET p == m.parent[k]
      g == m.parent[p]
      s == SideOf(m, p)
      u == m.child[Other(s)][g]
      inner == SideOf(m, k) = Other(s)
  IN  CASE IsRed(m, u) -> <<SetRed(Repaint(m, p, g), u, FALSE), g>>
        [] ~IsRed(m, u) /\ inner ->
             <<Rotate(Repaint(Rotate(m, p, s), k, g), g, Other(s)), p>>
        [] OTHER -> <<Rotate(Repaint(m, p, g), g, Other(s)), k>>

InsertEnds(m, k) == k = m.root \/ ~IsRed(m, m.parent[k])

InsertBalance(m, k) ==
  LET loop[i \in Turns] ==
        IF i = 0 THEN <<m, k>>
        ELSE LET t == loop[i - 1] IN IF InsertEnds(t[1], t[2]) THEN t ELSE InsertTurn(t[1], t[2])
      balanced == loop[LastTurn][1]
  IN  SetRed(balanced, balanced.root, FALSE)

(* A new node, red, under the last one of the search.                       *)
Linked(m, k, y) ==
  [m EXCEPT !.child[Towards(k, y)][y] = k, !.parent[k] = y, !.red[k] = TRUE]

Insert(m, k) ==
  LET y == Nearest(m, k) IN
  IF m.root = Null THEN [m EXCEPT !.root = k, !.red[k] = FALSE]
  ELSE IF m.parent[y] # Null THEN InsertBalance(Linked(m, k, y), k) ELSE Linked(m, k, y)

-----------------------------------------------------------------------------
(* Removal *)

(* Case 3.4 paints the sibling like the parent, and the parent and the far   *)
(* nephew black.                                                             *)
InheritColourSlip(m, p, o) ==
  LET sib == m.child[o][p] IN SetRed(SetRed(m, sib, m.red[p]), p, FALSE)
InheritColour(m, p, o) ==
  LET sib == m.child[o][p]
  IN  SetRed(SetRed(SetRed(m, sib, m.red[p]), p, FALSE), m.child[o][sib], FALSE)

(* One turn of iot_node_remove_balance.                                      *)
RemoveTurn(m, x) ==
  LET p == m.parent[x]
      s == SideOf(m, x)
      o == Other(s)
      sib1 == m.child[o][p]
      m1 == IF IsRed(m, sib1)                                      \* 3.1
            THEN Rotate(SetRed(SetRed(m, sib1, FALSE), p, TRUE), p, s) ELSE m
      sib == m1.child[o][p]
      near == IF sib = Null THEN Null ELSE m1.child[s][sib]
      far == IF sib = Null THEN Null ELSE m1.child[o][sib]
      m3 == IF IsRed(m1, far) THEN m1                              \* 3.3
            ELSE Rotate(SetRed(SetRed(m1, near, FALSE), sib, TRUE), sib, o)
      m4 == Rotate(InheritColour(m3, p, o), p, s)                  \* 3.4
  IN  IF IsRed(m1, near) \/ IsRed(m1, far)
      THEN <<m4, m4.root>>
      ELSE <<SetRed(m1, sib, TRUE), p>>                            \* 3.2

RemoveEnds(m, x) == x = m.root \/ IsRed(m, x)

RemoveBalance(m, z) ==
  LET loop[i \in Turns] ==
        IF i = 0 THEN <<m, z>>
        ELSE LET t == loop[i - 1] IN IF RemoveEnds(t[1], t[2]) THEN t ELSE RemoveTurn(t[1], t[2])
      last == loop[LastTurn]
  IN  SetRed(last[1], last[2], FALSE)

(* z leaves the tree; a node with two children hands its place and colour   *)
(* to its successor y.                                                      *)
Unlink(m, z) ==
  LET l == m.child["left"][z]
      r == m.child["right"][z]
      y == Extreme(m, r, "left")
      x == m.child["right"][y]
      m1 == IF m.parent[y] = z THEN SetParent(m, x, y)
            ELSE [SetParent(Transplant(m, y, x), r, y) EXCEPT !.child["right"][y] = r]
      m2 == [SetParent(Transplant(m1, z, y), l, y)
               EXCEPT !.child["left"][y] = l, !.red[y] = m.red[z]]
  IN  CASE l = Null -> <<Transplant(m, z, r), r, m.red[z]>>
        [] l # Null /\ r = Null -> <<Transplant(m, z, l), l, m.red[z]>>
        [] OTHER -> <<m2, x, m.red[y]>>

(* iot_node_delete gives up the key and the value and frees the node.       *)
GivenUp(m, n) ==
  [m EXCEPT !.keyRefs[n] = @ - 1, !.valueRefs[m.value[n]] = @ - 1, !.value[n] = Null]
NodeDelete(m, n) ==
  [GivenUp(m, n) EXCEPT !.child = [s \in Sides |-> [m.child[s] EXCEPT ![n] = Null]],
                        !.parent[n] = Null, !.red[n] = FALSE]

NodeRemove(m, z) ==
  LET u == Unlink(m, z)
      x == u[2]
      balanced == IF x # Null /\ ~u[3] THEN RemoveBalance(u[1], x) ELSE u[1]
      lost == x = Null /\ ~u[3] /\ balanced.root # Null
  IN  [NodeDelete(balanced, z)
         EXCEPT !.skipped = balanced.root # Null /\ (@ \/ lost)]

-----------------------------------------------------------------------------
(* The hash: the exclusive or of the hashes of keys and values.  While       *)
(* rehash is set the cached hash is never used, so it is not kept.           *)

MapHash(h, k, v) == IF v = k THEN Xor(h, {k}) ELSE Xor(Xor(h, {k}), {v})

(* The exclusive or over all entries: what was applied an odd number of      *)
(* times.                                                                    *)
HashOf(d) ==
  {x \in Keys \cup Values : Cardinality({k \in DOMAIN d : x \in {k, d[k]}}) % 2 = 1}

MarkSlip(m) == m
Mark(m) == [m EXCEPT !.rehash = TRUE, !.hash = {}, !.replaced = FALSE]

(* The nodes below a node and itself.                                       *)
Under(m) ==
  LET under[n \in Keys \cup {Null}] ==
        IF n = Null THEN {}
        ELSE {n} \cup under[m.child["left"][n]] \cup under[m.child["right"][n]]
  IN  under
NodesUnder(m, n) == Under(m)[n]

Entries(m) == [k \in NodesUnder(m, m.root) |-> m.value[k]]

Hash(m) ==
  IF m.rehash
  THEN [m EXCEPT !.hash = HashOf(Entries(m)), !.rehash = FALSE]
  ELSE m

-----------------------------------------------------------------------------
(* The operations of the map *)

(* The client passes references of its own to the map.                      *)
Give(m, k, v) == [m EXCEPT !.keyRefs[k] = @ + 1, !.valueRefs[v] = @ + 1]

MapAddSlip(m, k, v) ==
  IF Find(m, k) # Null
  THEN [Mark(m) EXCEPT !.valueRefs[m.value[k]] = @ - 1, !.value[k] = v]
  ELSE [Insert(m, k) EXCEPT !.value[k] = v, !.size = @ + 1,
          !.hash = IF m.rehash THEN {} ELSE MapHash(@, k, v)]
MapAdd(m, k, v) ==
  IF Find(m, k) # Null
  THEN [Mark(m) EXCEPT !.keyRefs[k] = @ - 1, !.valueRefs[m.value[k]] = @ - 1,
                       !.value[k] = v]
  ELSE [Insert(m, k) EXCEPT !.value[k] = v, !.size = @ + 1,
          !.hash = IF m.rehash THEN {} ELSE MapHash(@, k, v)]

MapRemoveSlip(m, k) ==
  [Mark(IF Find(m, k) # Null THEN NodeRemove(m, k) ELSE m) EXCEPT !.size = @ - 1]
MapRemove(m, k) ==
  IF Find(m, k) # Null
  THEN [Mark(NodeRemove(m, k)) EXCEPT !.size = @ - 1]
  ELSE m

MapEmpty(m) ==
  LET loop[i \in Turns] ==
        IF i = 0 THEN m
        ELSE LET t == loop[i - 1]
             IN  IF t.root = Null THEN t ELSE MapRemove(t, Extreme(t, t.root, "left"))
  IN  loop[LastTurn]

(* The entries of d are added in the order of the keys; left are those to    *)
(* come.                                                                     *)
Least(K) == CHOOSE k \in K : \A j \in K : k =< j

MapMerge(m, d) ==
  LET loop[i \in Turns] ==
        IF i = 0 THEN [to |-> m, left |-> DOMAIN d]
        ELSE LET t == loop[i - 1]
                 k == Least(t.left)
             IN  IF t.left = {} THEN t
                 ELSE [to |-> MapAdd(Give(t.to, k, d[k]), k, d[k]), left |-> t.left \ {k}]
  IN  loop[LastTurn].to

(* iot_node_free deletes every node of the tree.                             *)
NodeFree(m) ==
  LET gone == NodesUnder(m, m.root)
  IN  EmptyMap([k \in Keys |-> m.keyRefs[k] - IF k \in gone THEN 1 ELSE 0],
               [v \in Values |-> m.valueRefs[v] - Cardinality({k \in gone : m.value[k] = v})])

(* iot_data_copy of a map, as far as a comparison sees it: new keys and      *)
(* values, added in the order of the keys.                                   *)
MapCopy(m) == MapMerge(UnsharedMap, Entries(m))

(* iot_data_cmp of two maps, which hashes both, finds no difference.         *)
MapEqual(m, n) ==
  /\ m.size = n.size
  /\ Hash(m).hash = Hash(n).hash
  /\ Entries(m) = Entries(n)

-----------------------------------------------------------------------------
(* What the client does.  A change other than a replaced value invalidates   *)
(* its iterator.                                                             *)

Change(m) == map' = m /\ iter' = NewIter

Add == \E p \in Inputs :
  /\ map.valueRefs[p[2]] < MaxRefs
  /\ Change(MapAdd(Give(map, p[1], p[2]), p[1], p[2]))

(* A refused key and value stay the caller's, who frees them.                *)
AddUnused == \E p \in Inputs :
  /\ map.valueRefs[p[2]] < MaxRefs
  /\ Change(IF Find(map, p[1]) = Null THEN MapAdd(Give(map, p[1], p[2]), p[1], p[2]) ELSE map)

RemoveKey == \E k \in Keys : Change(MapRemove(map, k))

Merge == \E d \in Sources :
  /\ \A k \in DOMAIN d : map.valueRefs[d[k]] + Cardinality(DOMAIN d) =< MaxRefs
  /\ Change(MapMerge(map, d))

Clear == Change(MapEmpty(map))

(* iot_data_free of the map; the client goes on with a new one.              *)
Free == Change(NodeFree(map))

TakeHash == map' = Hash(map) /\ UNCHANGED iter

(* The way up, as long as it comes from side s.                             *)
Upward(m, s) ==
  [n \in Keys |-> LET p == m.parent[n] IN IF p # Null /\ n = m.child[s][p] THEN p ELSE Null]

(* iot_node_next for side right, iot_node_prev for side left.                *)
NeighbourSlip(m, n, s) ==
  IF m.child[s][n] # Null THEN Extreme(m, m.child[s][n], Other(s)) ELSE m.parent[n]
Neighbour(m, n, s) ==
  IF m.child[s][n] # Null THEN Extreme(m, m.child[s][n], Other(s))
  ELSE m.parent[EndOf(n, Upward(m, s))]

Walk(s) ==
  IF iter.node = Null THEN Extreme(map, map.root, Other(s)) ELSE Neighbour(map, iter.node, s)

NextCountSlip(c) == IF c < map.size THEN c + 1 ELSE c
NextCount(c) == IF c < map.size THEN c + 1 ELSE 0

IterNext ==
  /\ map.size =< MaxWalked
  /\ iter' = [iter EXCEPT !.node = Walk("right"), !.count = NextCount(@)]
  /\ UNCHANGED map

IterPrev ==
  /\ map.size =< MaxWalked
  /\ iter' = [node |-> Walk("left"),
              count |-> IF iter.count > 0 THEN iter.count - 1 ELSE 0,
              wrapped |-> iter.wrapped \/ (iter.node = Null /\ map.root # Null)]
  /\ UNCHANGED map

IterStart == iter' = NewIter /\ UNCHANGED map

(* The old value goes back to the client, who frees it.                      *)
ReplaceValue(m, n, v) ==
  LET given == [m EXCEPT !.valueRefs[v] = @ + 1]
  IN  [given EXCEPT !.valueRefs[m.value[n]] = @ - 1, !.value[n] = v, !.replaced = ~m.rehash]

IterReplace == \E v \in Values :
  /\ iter.node # Null /\ <<iter.node, v>> \in Inputs /\ map.valueRefs[v] < MaxRefs
  /\ map' = ReplaceValue(map, iter.node, v) /\ UNCHANGED iter

Next == \/ Add \/ AddUnused \/ RemoveKey \/ Merge \/ Clear \/ Free \/ TakeHash
        \/ IterNext \/ IterPrev \/ IterStart \/ IterReplace

Spec == Init /\ [][Next]_vars

-----------------------------------------------------------------------------
(* Properties *)

Nodes == NodesUnder(map, map.root)

TypeOK ==
  /\ map.root \in Keys \cup {Null} /\ map.size \in Nat
  /\ map.hash \subseteq Keys \cup Values /\ map.rehash \in BOOLEAN
  /\ map.child \in [Sides -> [Keys -> Keys \cup {Null}]]
  /\ map.parent \in [Keys -> Keys \cup {Null}] /\ map.red \in [Keys -> BOOLEAN]
  /\ map.value \in [Keys -> Values \cup {Null}]
  /\ map.keyRefs \in [Keys -> Nat] /\ map.valueRefs \in [Values -> 0..MaxRefs]
  /\ map.skipped \in BOOLEAN /\ map.replaced \in BOOLEAN
  /\ iter \in [node : Keys \cup {Null}, count : Nat, wrapped : BOOLEAN]

(* However keys were added and removed, the links of the tree agree in both  *)
(* directions, no red node has a red child and the root is black: what       *)
(* iot_node_insert_balance and iot_node_remove_balance dereference without a *)
(* test (a grandparent, a sibling's children) is there.                      *)
TreeLinked ==
  /\ map.root # Null => map.parent[map.root] = Null /\ ~map.red[map.root]
  /\ \A n \in Nodes, s \in Sides :
       LET c == map.child[s][n]
       IN  c # Null => map.parent[c] = n /\ ~(map.red[n] /\ map.red[c])

BlackCounts(m) ==
  LET counts[n \in Keys \cup {Null}] ==
        IF n = Null THEN {0}
        ELSE {h + (IF m.red[n] THEN 0 ELSE 1) :
                h \in counts[m.child["left"][n]] \cup counts[m.child["right"][n]]}
  IN  counts[m.root]

(* Every path from the root down to a missing child passes the same number   *)
(* of black nodes, as long as no black node without a child to take its      *)
(* place has been removed: iot_node_remove does not rebalance after that.    *)
BalancedUntilSkipped == ~map.skipped => Cardinality(BlackCounts(map)) = 1

(* The counts of a key and of a value are the client's own reference and one *)
(* for every node that holds it: no operation leaks one or frees one twice,  *)
(* neither a replaced value, nor the key of a pair that was already there.   *)
RefsAreHolders ==
  /\ \A k \in Keys : map.keyRefs[k] = IF k \in Nodes THEN 2 ELSE 1
  /\ \A v \in Values : map.valueRefs[v] = 1 + Cardinality({k \in Nodes : map.value[k] = v})

(* A cached hash that is not marked for recomputation is the hash of the     *)
(* entries, unless a value was replaced through an iterator since then.      *)
HashFresh == map.rehash \/ map.replaced \/ map.hash = HashOf(Entries(map))

(* iot_data_map_iter_has_next, which compares a count, agrees with what the  *)
(* next iot_data_map_iter_next will find, whatever steps forward and back    *)
(* were taken before, unless a step back left the first element and started  *)
(* again from the last one.                                                  *)
HasNextIsRight ==
  ~iter.wrapped => ((iter.count < map.size) <=> (Walk("right") # Null))

(* The tree is an ordered map: what a lookup finds, what the size says and   *)
(* the order an iterator takes in either direction are those of OrderedMap.  *)
M == INSTANCE OrderedMap WITH dict <- Entries(map), size <- map.size, at <- iter.node

ImplementsOrderedMap == M!Spec

(* iot_data_equal: a map equals a copy of it.                                *)
EqualsItsCopy == MapEqual(map, MapCopy(map))
=============================================================================
