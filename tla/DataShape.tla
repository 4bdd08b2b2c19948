----------------------------- MODULE DataShape -----------------------------
(***************************************************************************)
(* What src/c/data.c makes of a vector of vectors: an array or a vector of *)
(* the elements of one type, and its dimensions; and src/c/data-yaml.c,    *)
(* which makes composed data of the events of libyaml.  Vectors and YAML   *)
(* are documents of DataText.                                              *)
(***************************************************************************)
EXTENDS DataText

TypeOf(label) == CASE label = AVector -> "vector"
                   [] label = AMap -> "map"
                   [] label \in DOMAIN StringOf -> "string"
                   [] label \in Numbers -> "number"
                   [] label = Nothing -> "none"

Elements(t) == [n \in DOMAIN Indexes(t, << >>) |-> SubTree(t, <<Indexes(t, << >>)[n]>>)]

-----------------------------------------------------------------------------
(* Elements of a vector.  A number can be cast to every type of number.      *)

Counts(label, type, castable) ==
  \/ TypeOf(label) = type
  \/ ~castable /\ type = "multi" /\ label # Nothing
  \/ castable /\ TypeOf(label) = "number"

(* iot_data_vector_elements.                                                *)
RECURSIVE ElementCount(_, _, _, _)
ElementCount(t, type, recurse, castable) ==
  LET counted(n, e) ==
        IF recurse /\ Root(e) = AVector THEN n + ElementCount(e, type, TRUE, castable)
        ELSE IF Counts(Root(e), type, castable) THEN n + 1 ELSE n
  IN  FoldLeft(counted, 0, Elements(t))

(* iot_data_vector_copy_to_array and, with the values that are not cast but  *)
(* of the type, copy_to_vector.                                             *)
RECURSIVE Collected(_, _, _)
Collected(t, type, recurse) ==
  LET collect(s, e) ==
        IF recurse /\ Root(e) = AVector THEN s \o Collected(e, type, TRUE)
        ELSE IF TypeOf(Root(e)) = type THEN Append(s, e) ELSE s
  IN  FoldLeft(collect, << >>, Elements(t))

Dimension(t) == LET size == Len(Elements(t))
                IN  IF ElementCount(t, "vector", FALSE, FALSE) = size THEN size ELSE 0

(* iot_data_vector_depth: 0 stands for no depth yet, and for depths that      *)
(* differ, at which the loop ends.                                           *)
RECURSIVE Depth(_)
Depth(t) ==
  LET depths == [n \in DOMAIN Elements(t) |-> Depth(Elements(t)[n])]
  IN  IF Dimension(t) = 0 THEN 1
      ELSE IF \A n \in DOMAIN depths : depths[n] = depths[1] THEN depths[1] + 1 ELSE 1

(* iot_data_vector_dims.  The dimensions are an array of as many places as    *)
(* the vector is deep; overrun tells of a place behind it.                   *)
RECURSIVE DimsFrom(_, _, _)
DimsFrom(s, t, d) ==
  LET size == Len(Elements(t))
      first == s.dims[d] = 0
      total == IF first THEN (IF s.total = 0 THEN size ELSE s.total * size) ELSE s.total
      set == [s EXCEPT !.dims[d] = IF first THEN size ELSE @, !.total = total,
                       !.ok = first \/ s.dims[d] = size]
      under(r, e) == IF r.ok THEN DimsFrom(r, e, d + 1) ELSE r
  IN  IF d \notin DOMAIN s.dims THEN [s EXCEPT !.overrun = TRUE]
      ELSE IF set.ok /\ ElementCount(t, "vector", FALSE, FALSE) = size
           THEN FoldLeft(under, set, Elements(t)) ELSE set

(* iot_data_vector_dimensions.                                              *)
Dimensions(t) ==
  LET s == DimsFrom([dims |-> [d \in 1..Depth(t) |-> 0], total |-> 0, ok |-> TRUE, overrun |-> FALSE], t, 1)
  IN  IF s.ok THEN s ELSE [s EXCEPT !.dims = << >>, !.total = 0]

-----------------------------------------------------------------------------
(* YAML.  What is read is a value, the event after it, and whether an        *)
(* exception was made; with one there is no value.                           *)

Event(kind, label) == [kind |-> kind, label |-> label]

(* The events of a document, from libyaml.                                   *)
RECURSIVE YamlEvents(_)
YamlEvents(t) ==
  LET indexes == Indexes(t, << >>)
      element(n) == YamlEvents(SubTree(t, <<indexes[n]>>))
      entry(n) == <<Event("scalar", indexes[n])>> \o element(n)
  IN  CASE Root(t) = AMap -> <<Event("mapping", AMap)>> \o
             FlattenSeq([n \in DOMAIN indexes |-> entry(n)]) \o <<Event("end", AMap)>>
        [] Root(t) = AVector -> <<Event("sequence", AVector)>> \o
             FlattenSeq([n \in DOMAIN indexes |-> element(n)]) \o <<Event("end", AVector)>>
        [] Root(t) \notin {AMap, AVector} -> <<Event("scalar", Root(t))>>

Parsed(tree, next) == [tree |-> tree, next |-> next, exception |-> FALSE]
Exception == [tree |-> Leaf(Nothing), next |-> 0, exception |-> TRUE]

RECURSIVE ValueFromYaml(_, _), VectorFromYaml(_, _, _), MapFromYaml(_, _, _, _)

(* The value that begins with event i, which is not an end.                  *)
ValueFromYaml(events, i) ==
  CASE events[i].kind = "scalar" -> Parsed(Leaf(events[i].label), i + 1)
    [] events[i].kind = "sequence" -> VectorFromYaml(events, Leaf(AVector), i + 1)
    [] events[i].kind = "mapping" -> MapFromYaml(events, Leaf(AMap), Nothing, i + 1)

(* iot_data_vector_from_yaml: the vector grows with each element.            *)
VectorFromYaml(events, t, i) ==
  LET value == ValueFromYaml(events, i)
      size == Len(Indexes(t, << >>))
  IN  IF i > Len(events) THEN Exception
      ELSE IF events[i].kind = "end" THEN Parsed(t, i + 1)
      ELSE IF value.exception THEN Exception
      ELSE VectorFromYaml(events, AddedAt(t, <<size + 1>>, value.tree), value.next)

(* iot_data_map_from_yaml: a scalar is a name if there is none, and a map or  *)
(* a sequence is refused then.                                              *)
MapFromYaml(events, t, name, i) ==
  LET value == ValueFromYaml(events, i)
  IN  IF i > Len(events) THEN Exception
      ELSE IF events[i].kind = "end" THEN Parsed(t, i + 1)
      ELSE IF events[i].kind = "scalar" /\ name = Nothing
           THEN MapFromYaml(events, t, events[i].label, i + 1)
      ELSE IF value.exception \/ name = Nothing THEN Exception
      ELSE MapFromYaml(events, AddedAt(t, <<name>>, value.tree), Nothing, value.next)

(* iot_data_from_yaml.                                                      *)
FromYaml(events) == IF events = << >> THEN Exception ELSE ValueFromYaml(events, 1)

(* iot_data_value_from_yaml of a plain number.                               *)
FromYamlNumber(n) ==
  CASE n.type = "bool" -> n
    [] n.type \in FloatTypes -> Num("f64", IF n.value = NaN THEN NaN ELSE ReadFloat(FloatText(n)))
    [] n.type \in IntTypes -> Num(IF n.value < Highest("i64") THEN "i64" ELSE "u64", n.value)

-----------------------------------------------------------------------------
(* Parts of properties of Data *)

(* The elements of t of a type that vectors in vectors hold, in order.        *)
Before(p, q) == \E n \in 0..Min({Len(p), Len(q)}) :
  /\ SubSeq(p, 1, n) = SubSeq(q, 1, n)
  /\ n = Len(p) \/ (n < Len(p) /\ n < Len(q) /\ p[n + 1] < q[n + 1])
Within(t, recurse) ==
  {p \in DOMAIN t \ {<< >>} : /\ \A q \in DOMAIN t : IsStrictPrefix(q, p) => t[q] = AVector
                              /\ recurse \/ Len(p) = 1}
OfType(t, type, recurse) ==
  LET paths == SetToSortSeq({p \in Within(t, recurse) : TypeOf(t[p]) = type}, Before)
  IN  [n \in DOMAIN paths |-> SubTree(t, paths[n])]

(* An array is made with room for what is collected, and holds the numbers.  *)
Flattens ==
  Root(document) = AVector => \A recurse \in BOOLEAN, type \in {"number", "string", "map"} :
    /\ Collected(document, type, recurse) = OfType(document, type, recurse)
    /\ Len(Collected(document, type, recurse)) =< ElementCount(document, type, recurse, TRUE)

(* Down to level n there are only vectors with elements, and at level n none  *)
(* that has only vectors.                                                   *)
Uniform(t, n) ==
  /\ \A p \in DOMAIN t : Len(p) < n => t[p] = AVector /\ Elements(SubTree(t, p)) # << >>
  /\ \A p \in DOMAIN t : Len(p) = n - 1 => \E q \in DOMAIN t : Len(q) = n /\ IsPrefix(p, q) /\ t[q] # AVector

ShapeRight ==
  \A n \in 1..MaxParts : Uniform(document, n) =>
    LET s == Dimensions(document)
        sizes(d) == {Len(Indexes(document, p)) : p \in {q \in DOMAIN document : Len(q) = d - 1}}
    IN  /\ ~s.overrun
        /\ s.ok <=> \A d \in 1..n : Cardinality(sizes(d)) = 1
        /\ s.ok => /\ \A d \in 1..n : sizes(d) = {s.dims[d]}
                   /\ Len(s.dims) = n /\ s.total = FoldLeft(LAMBDA x, y : x * y, 1, s.dims)

(* Events that break off, or have a map or a vector for a name, give nothing. *)
YamlKept ==
  LET events == YamlEvents(document)
  IN  /\ FromYaml(events) = Parsed(document, Len(events) + 1)
      /\ \A n \in 0..(Len(events) - 1) : FromYaml(SubSeq(events, 1, n)).exception
      /\ Root(document) = AMap /\ Len(events) > 2 /\ events[3].kind # "scalar" =>
           FromYaml(<<events[1]>> \o SubSeq(events, 3, Len(events))).exception

YamlNumberKept == number.value # NaN => ComesBack(number, FromYamlNumber(number))

=============================================================================
