------------------------------ MODULE DataText ------------------------------
(***************************************************************************)
(* Composed data written as text and read back: src/c/json.c,              *)
(* src/c/data-json.c and the maps, arrays and strings of                   *)
(* src/c/data-cbor.c.  A document is a tree whose leaves and keys are      *)
(* numbers: those StringOf names stand for strings, the others for the     *)
(* numbers that are one symbol of a text.  Texts to read are valid JSON.   *)
(***************************************************************************)
EXTENDS DataCodec, Trees

CONSTANTS StringOf,   \* leaves and keys that are strings -> their characters
          Numbers,    \* leaves that are numbers
          Keys,       \* keys of maps
          ValBuff,    \* IOT_VAL_BUFF_SIZE
          Documents,  \* documents a client starts from, but for the smallest
          MaxParts    \* bound: paths of a document that is added to

VARIABLE document

Unknown == -3

-----------------------------------------------------------------------------
(* Writing.  What is written at once is a piece: its symbols, and the room  *)
(* that is made for it first.                                               *)

(* iot_data_repr_size and the switch of iot_data_strcat_escape: characters   *)
(* take one, two or six symbols.                                            *)
Escape(c) ==
  CASE c \in {"quote", "backslash"} -> <<"backslash", c>>
    [] c = "newline" -> <<"backslash", "n">>
    [] c = "control" -> <<"backslash", "u", "0", "0", "0", "1">>
    [] OTHER -> <<c>>

Escaped(s) == FlattenSeq([i \in DOMAIN s |-> Escape(s[i])])

Piece(symbols, room) == [symbols |-> symbols, room |-> room]

Mark(c) == <<Piece(<<c>>, 1)>>

WriteString(s) == Mark("quote") \o <<Piece(Escaped(s), Len(Escaped(s)))>> \o Mark("quote")

(* iot_data_dump_json_ptr.                                                  *)
WriteNumber(v) == <<Piece(<<ToString(v)>>, ValBuff)>>

(* iot_data_dump_json: a comma goes before each entry of a map but the       *)
(* first, and after each of a vector that has a next one.                    *)
RECURSIVE DumpJson(_)
DumpJson(t) ==
  LET indexes == Indexes(t, << >>)
      comma(n) == IF n = 1 THEN << >> ELSE Mark(",")
      entry(n) == comma(n) \o WriteString(StringOf[indexes[n]]) \o Mark(":")
                  \o DumpJson(SubTree(t, <<indexes[n]>>))
      element(n) == comma(n) \o DumpJson(SubTree(t, <<indexes[n]>>))
  IN  CASE Root(t) = AMap -> Mark("{") \o FlattenSeq([n \in DOMAIN indexes |-> entry(n)]) \o Mark("}")
        [] Root(t) = AVector ->
             Mark("[") \o FlattenSeq([n \in DOMAIN indexes |-> element(n)]) \o Mark("]")
        [] Root(t) \in DOMAIN StringOf -> WriteString(StringOf[Root(t)])
        [] Root(t) \in Numbers -> WriteNumber(Root(t))

Json(t) == FlattenSeq([i \in DOMAIN DumpJson(t) |-> DumpJson(t)[i].symbols])

(* iot_data_holder_realloc, and what a piece leaves free.                    *)
Realloc(h, required) ==
  LET inc == Max({required, IF h.size > DoublingLimit THEN BuffIncrement ELSE h.size})
  IN  [size |-> h.size + inc, free |-> h.free + inc]

Added(h, piece) ==
  LET room == IF h.free < piece.room THEN Realloc(h, piece.room) ELSE h
  IN  [room EXCEPT !.free = @ - Len(piece.symbols)]

(* iot_data_to_json_with_size.                                              *)
Written(t, size) == FoldLeft(Added, [size |-> size, free |-> size - 1], DumpJson(t))

-----------------------------------------------------------------------------
(* The tokeniser.  Tokens and symbols are counted from 1.                    *)

Blanks == {"blank"}
PrimitiveEnds == {":", ",", "]", "}"} \cup Blanks

(* iot_json_init.                                                           *)
Parser == [pos |-> 1, tokens |-> << >>, super |-> 0, count |-> 0, error |-> "none"]

Failed(p, error) == [p EXCEPT !.error = error]

(* The next token, of n; the one it belongs to has one more.                *)
NewToken(p, n, type, start, end) ==
  LET token == [type |-> type, start |-> start, end |-> end, size |-> 0, parent |-> p.super]
      in == IF p.super = 0 THEN p ELSE [p EXCEPT !.tokens[p.super].size = @ + 1]
  IN  IF Len(p.tokens) >= n THEN Failed(p, "NOMEM")
      ELSE [in EXCEPT !.tokens = Append(@, token), !.count = @ + 1]

Open(p, n, c) ==
  LET q == NewToken(p, n, IF c = "{" THEN "OBJECT" ELSE "ARRAY", p.pos, 0)
  IN  IF q.error = "none" THEN [q EXCEPT !.super = Len(q.tokens)] ELSE q

(* The token that is still open, from the last one up, is closed.           *)
RECURSIVE CloseFrom(_, _, _)
CloseFrom(p, i, type) ==
  LET token == p.tokens[i]
  IN  CASE token.end = 0 /\ token.type # type -> Failed(p, "INVAL")
        [] token.end = 0 /\ token.type = type ->
             [p EXCEPT !.tokens[i].end = p.pos + 1, !.super = token.parent]
        [] token.end # 0 /\ token.parent # 0 -> CloseFrom(p, token.parent, type)
        [] token.end # 0 /\ token.parent = 0 ->
             IF token.type # type \/ p.super = 0 THEN Failed(p, "INVAL") ELSE p

Close(p, c) ==
  IF p.tokens = << >> THEN Failed(p, "INVAL")
  ELSE CloseFrom(p, Len(p.tokens), IF c = "}" THEN "OBJECT" ELSE "ARRAY")

(* iot_json_parse_string: where the string ends whose characters are from i *)
(* on, 0 if it does not, and -1 at an escape that is not one.               *)
RECURSIVE StringEnd(_, _)
StringEnd(js, i) ==
  CASE i > Len(js) -> 0
    [] i =< Len(js) /\ js[i] = "quote" -> i
    [] i < Len(js) /\ js[i] = "backslash" ->
         CASE js[i + 1] \in {"quote", "backslash", "n"} -> StringEnd(js, i + 2)
           [] js[i + 1] = "u" ->
                IF \A k \in (i + 2)..Min({i + 5, Len(js)}) : js[k] \in {"0", "1"}
                THEN StringEnd(js, i + 6) ELSE -1
           [] OTHER -> -1
    [] OTHER -> StringEnd(js, i + 1)

ParseString(p, n, js) ==
  LET end == StringEnd(js, p.pos + 1)
      escaped == \E i \in p.pos..end : js[i] = "backslash"
      q == NewToken(p, n, IF escaped THEN "STRING_ESC" ELSE "STRING", p.pos + 1, end)
  IN  CASE end = 0 -> Failed(p, "PART")
        [] end = -1 -> Failed(p, "INVAL")
        [] end > 0 -> IF q.error = "none" THEN [q EXCEPT !.pos = end] ELSE q

(* iot_json_parse_primitive.                                                *)
ParsePrimitive(p, n, js) ==
  LET end == Min({i \in p.pos..Len(js) : js[i] \in PrimitiveEnds} \cup {Len(js) + 1})
      q == NewToken(p, n, "PRIMITIVE", p.pos, end)
  IN  IF q.error = "none" THEN [q EXCEPT !.pos = end - 1] ELSE q

(* A comma ends a value, and leaves the key that it belongs to.              *)
Comma(p) ==
  IF p.super # 0 /\ p.tokens[p.super].type \notin {"ARRAY", "OBJECT"}
  THEN [p EXCEPT !.super = p.tokens[p.super].parent] ELSE p

AtSymbol(p, n, js) ==
  LET c == js[p.pos]
  IN  CASE c \in {"{", "["} -> Open(p, n, c)
        [] c \in {"}", "]"} -> Close(p, c)
        [] c = "quote" -> ParseString(p, n, js)
        [] c \in Blanks -> p
        [] c = ":" -> [p EXCEPT !.super = Len(p.tokens)]
        [] c = "," -> Comma(p)
        [] OTHER -> ParsePrimitive(p, n, js)

(* iot_json_parse with room for n tokens.                                    *)
RECURSIVE ParseFrom(_, _, _)
ParseFrom(p, n, js) ==
  LET q == AtSymbol(p, n, js)
  IN  CASE p.pos > Len(js) -> IF \E i \in DOMAIN p.tokens : p.tokens[i].end = 0
                              THEN Failed(p, "PART") ELSE p
        [] p.pos =< Len(js) ->
             IF q.error = "none" THEN ParseFrom([q EXCEPT !.pos = @ + 1], n, js) ELSE q
Parse(js, n) == ParseFrom(Parser, n, js)

-----------------------------------------------------------------------------
(* Reading.  What is read is a value, the token after it and the cache of   *)
(* strings with the references to each.                                     *)

(* iot_data_string_from_json_token.                                         *)
RECURSIVE Unescaped(_)
Unescaped(s) ==
  CASE s = << >> -> << >>
    [] s # << >> /\ Head(s) # "backslash" -> <<Head(s)>> \o Unescaped(Tail(s))
    [] s # << >> /\ Head(s) = "backslash" ->
         CASE s[2] = "n" -> <<"newline">> \o Unescaped(SubSeq(s, 3, Len(s)))
           [] s[2] = "u" -> <<"control">> \o Unescaped(SubSeq(s, 7, Len(s)))
           [] OTHER -> <<s[2]>> \o Unescaped(SubSeq(s, 3, Len(s)))

StringOfToken(js, token) ==
  LET s == SubSeq(js, token.start, token.end - 1)
  IN  IF token.type = "STRING_ESC" THEN Unescaped(s) ELSE s

Named(s) == IF \E v \in DOMAIN StringOf : StringOf[v] = s
            THEN CHOOSE v \in DOMAIN StringOf : StringOf[v] = s ELSE Unknown

NumberNamed(s) == IF \E v \in Numbers : s = <<ToString(v)>>
                  THEN CHOOSE v \in Numbers : s = <<ToString(v)>> ELSE Unknown

Read(tree, next, cache) == [tree |-> tree, next |-> next, cache |-> cache]

(* iot_data_string_from_json: a string that is in the cache is shared; one  *)
(* that is not enters as key and as value.                                  *)
StringFrom(tokens, js, i, cache) ==
  LET v == Named(StringOfToken(js, tokens[i]))
      cached == IF v \in DOMAIN cache THEN [cache EXCEPT ![v] = @ + 1] ELSE (v :> 3) @@ cache
  IN  Read(Leaf(v), i + 1, cached)

(* iot_data_value_from_json, with map, vector and primitive.                *)
RECURSIVE ValueFrom(_, _, _, _)
EntryFrom(tokens, js, r, n) ==
  LET key == StringFrom(tokens, js, r.next, r.cache)
      value == ValueFrom(tokens, js, key.next, key.cache)
  IN  Read(AddedAt(r.tree, <<Root(key.tree)>>, value.tree), value.next, value.cache)
ElementFrom(tokens, js, r, n) ==
  LET value == ValueFrom(tokens, js, r.next, r.cache)
  IN  Read(AddedAt(r.tree, <<n>>, value.tree), value.next, value.cache)
ValueFrom(tokens, js, i, cache) ==
  LET token == tokens[i]
      items == [n \in 1..token.size |-> n]
  IN  CASE token.type = "OBJECT" ->
             FoldLeft(LAMBDA r, n : EntryFrom(tokens, js, r, n), Read(Leaf(AMap), i + 1, cache), items)
        [] token.type = "ARRAY" ->
             FoldLeft(LAMBDA r, n : ElementFrom(tokens, js, r, n), Read(Leaf(AVector), i + 1, cache), items)
        [] token.type = "PRIMITIVE" ->
             Read(Leaf(NumberNamed(StringOfToken(js, token))), i + 1, cache)
        [] token.type \in {"STRING", "STRING_ESC"} -> StringFrom(tokens, js, i, cache)

(* The tokens that iot_data_from_json_with_cache makes room for.             *)
Approximate(js) ==
  1 + Len(SelectSeq(js, LAMBDA c : c \in {",", "{"})) + 2 * Len(SelectSeq(js, LAMBDA c : c \in {":", "["}))

FromJson(js) ==
  LET p == Parse(js, Approximate(js))
  IN  IF p.error # "none" THEN Read(Leaf(Nothing), 1, << >>) ELSE ValueFrom(p.tokens, js, 1, << >>)

(* iot_data_primitive_from_json of a written number.                         *)
FromJsonNumber(n) ==
  CASE n.type = "bool" -> n
    [] n.type \in FloatTypes -> Num("f64", IF n.value = NaN THEN NaN ELSE ReadFloat(FloatText(n)))
    [] n.type \in IntTypes -> Num(IF n.value =< Highest("i64") THEN "i64" ELSE "u64", n.value)

-----------------------------------------------------------------------------
(* CBOR: a head for each item, with the characters of a string. *)

Item(head, chars) == [head |-> head, chars |-> chars]

CborString(s) == <<Item(WriteUint(Len(s), "string"), s)>>

RECURSIVE DumpCbor(_)
DumpCbor(t) ==
  LET indexes == Indexes(t, << >>)
      under(n) == DumpCbor(SubTree(t, <<indexes[n]>>))
      head(tag) == <<Item(WriteUint(Len(indexes), tag), << >>)>>
  IN  CASE Root(t) = AMap ->
             head("map") \o FlattenSeq([n \in DOMAIN indexes |-> CborString(StringOf[indexes[n]]) \o under(n)])
        [] Root(t) = AVector -> head("array") \o FlattenSeq([n \in DOMAIN indexes |-> under(n)])
        [] Root(t) \in DOMAIN StringOf -> CborString(StringOf[Root(t)])
        [] Root(t) \in Numbers -> <<Item(WriteUint(Root(t), "uint"), << >>)>>

(* cbor_to_iot_data of item i, with what follows it.                         *)
RECURSIVE FromItems(_, _)
FromItems(items, i) ==
  LET head == items[i].head
      pair(r, n) ==
        LET value == FromItems(items, r.next + 1)
        IN  Read(AddedAt(r.tree, <<Named(items[r.next].chars)>>, value.tree), value.next, << >>)
      element(r, n) ==
        LET value == FromItems(items, r.next)
        IN  Read(AddedAt(r.tree, <<n>>, value.tree), value.next, << >>)
      each == [n \in 1..head.raw |-> n]
  IN  CASE head.tag = "map" -> FoldLeft(pair, Read(Leaf(AMap), i + 1, << >>), each)
        [] head.tag = "array" -> FoldLeft(element, Read(Leaf(AVector), i + 1, << >>), each)
        [] head.tag = "string" -> Read(Leaf(Named(items[i].chars)), i + 1, << >>)
        [] head.tag = "uint" -> Read(Leaf(head.raw), i + 1, << >>)

-----------------------------------------------------------------------------
(* What the client does: it composes a document. *)

Labels == DOMAIN StringOf \cup Numbers \cup {AMap, AVector}

DocumentInit == document \in Documents \cup {Leaf(l) : l \in Labels}

(* iot_data_map_add or iot_data_vector_add behind the last element.          *)
Compose == \E p \in DOMAIN document, l \in Labels :
  /\ Cardinality(DOMAIN document) < MaxParts
  /\ \/ \E k \in Keys : /\ document[p] = AMap /\ p \o <<k>> \notin DOMAIN document
                        /\ document' = AddedAt(document, p \o <<k>>, Leaf(l))
     \/ /\ document[p] = AVector
        /\ document' = AddedAt(document, p \o <<Len(Indexes(document, p)) + 1>>, Leaf(l))

-----------------------------------------------------------------------------
(* Parts of properties of Data *)

(* The places of a document that string v is at, as key or as value.         *)
Places(t, v) == Cardinality({p \in DOMAIN t : t[p] = v})
                + Cardinality({p \in DOMAIN t \ {<< >>} : t[Front(p)] = AMap /\ Last(p) = v})

(* A text with blanks around its marks.  No string is a mark alone.          *)
Marks == {<<c>> : c \in {"{", "}", "[", "]", ":", ","}}
Spaced(t) ==
  LET pieces == DumpJson(t)
      blank(x) == IF x \in Marks THEN <<"blank">> \o x \o <<"blank">> ELSE x
  IN  FlattenSeq([i \in DOMAIN pieces |-> blank(pieces[i].symbols)])

JsonKept ==
  LET js == Json(document)
      used == Parse(js, Approximate(js)).count
      back == FromJson(js)
  IN  /\ back.tree = document /\ back.next = used + 1
      /\ FromJson(Spaced(document)).tree = document
      /\ \A v \in DOMAIN back.cache : back.cache[v] - 2 = Places(document, v)
      /\ \A n \in 0..(used - 1) : Parse(js, n).error = "NOMEM"

JsonFits == \A size \in BuffSizes : LET h == Written(document, size) IN
              h.free >= 0 /\ Len(Json(document)) + 1 + h.free = h.size

JsonNumberKept == number.value # NaN => ComesBack(number, FromJsonNumber(number))

CborTreeKept ==
  LET items == DumpCbor(document)
  IN  FromItems(items, 1).tree = document /\ FromItems(items, 1).next = Len(items) + 1

=============================================================================
