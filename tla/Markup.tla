------------------------------- MODULE Markup -------------------------------
(***************************************************************************)
(* Texts with markup: elements of XML, which src/c/data-xml.c makes maps   *)
(* from the events of yxml, and the variables in a configuration, which    *)
(* iot_config_substitute_env of src/c/config.c replaces.  The characters   *)
(* of a text from XML are the digits of a number, and no text is 0.        *)
(***************************************************************************)
EXTENDS DataShape

CONSTANTS Pieces,      \* what a configuration is made of, at a time
          Environment, \* name of a variable -> its value
          MaxEnvLen,   \* IOT_MAX_ENV_LEN
          MaxPieces    \* bound: pieces of a configuration

VARIABLES config,      \* a configuration, in characters
          pieces       \* how many pieces it is made of

NoText == 0

(* The keys of the map of an element.                                       *)
Name == 1
Attributes == 2
Children == 3
Content == 4

-----------------------------------------------------------------------------
(* XML.  What is read is the map, the event after it, and the text that was  *)
(* collected by then, which the recursion shares; or nothing, after an error. *)

Elem(tree, next, chars) == [tree |-> tree, next |-> next, chars |-> chars, failed |-> FALSE]
NoElem == [tree |-> Leaf(Nothing), next |-> 0, chars |-> NoText, failed |-> TRUE]

(* The children become a vector with the first of them.                      *)
AddChild(t, child) ==
  LET with == IF <<Children>> \in DOMAIN t THEN t ELSE AddedAt(t, <<Children>>, Leaf(AVector))
  IN  AddedAt(with, <<Children, Len(Indexes(with, <<Children>>)) + 1>>, child)

WithContent(t, chars) == IF chars = NoText THEN t ELSE AddedAt(t, <<Content>>, Leaf(chars))

RECURSIVE ElemFrom(_, _, _), NewElem(_, _, _, _)

(* iot_data_map_from_xml, from event i on: it starts without a text.         *)
NewElem(root, label, events, i) ==
  LET named == Tree(AMap, (Name :> Leaf(label)) @@ (Attributes :> Leaf(AMap)))
  IN  ElemFrom(root, Elem(named, i, NoText), events)

(* Its loop.  The first element takes the place of the root and ends it.     *)
ElemFrom(root, r, events) ==
  LET e == events[r.next]
      child == NewElem(FALSE, e.label, events, r.next + 1)
  IN  IF r.next > Len(events) THEN r
      ELSE CASE e.kind = "start" ->
                  IF child.failed \/ root THEN child
                  ELSE ElemFrom(root, Elem(AddChild(r.tree, child.tree), child.next, child.chars), events)
             [] e.kind = "end" -> Elem(WithContent(r.tree, r.chars), r.next + 1, NoText)
             [] e.kind \in {"attrval", "content"} ->
                  ElemFrom(root, Elem(r.tree, r.next + 1, 10 * r.chars + e.label), events)
             [] e.kind = "attrend" ->
                  ElemFrom(root, Elem(AddedAt(r.tree, <<Attributes, e.label>>, Leaf(r.chars)),
                                      r.next + 1, NoText), events)
             [] e.kind = "error" -> NoElem

(* iot_data_from_xml.                                                       *)
FromXml(events) == NewElem(TRUE, NoText, events, 1)

-----------------------------------------------------------------------------
(* Configurations *)

Result(ok, chars) == [ok |-> ok, chars |-> chars]

Refers(s) == Len(s) > 1 /\ s[1] = "$" /\ s[2] = "{" /\ Contains(s, "}")

(* iot_config_substitute_env; NULL is not ok.                                *)
RECURSIVE Substituted(_)
Substituted(s) ==
  LET end == SelectInSeq(s, LAMBDA c : c = "}")
      key == SubSeq(s, 3, end - 1)
      known == key # << >> /\ Len(key) < MaxEnvLen /\ key \in DOMAIN Environment
      before(t, r) == Result(r.ok, IF r.ok THEN t \o r.chars ELSE << >>)
  IN  IF s = << >> THEN Result(TRUE, << >>)
      ELSE IF ~Refers(s) THEN before(<<Head(s)>>, Substituted(Tail(s)))
      ELSE IF known THEN before(Environment[key], Substituted(SubSeq(s, end + 1, Len(s))))
      ELSE Result(FALSE, << >>)

MarkupInit == config = << >> /\ pieces = 0

AddPiece == \E p \in Pieces :
  pieces < MaxPieces /\ pieces' = pieces + 1 /\ config' = config \o p

-----------------------------------------------------------------------------
(* Parts of properties of Data.  A document stands for an element: its       *)
(* strings are attributes of a map, and text between the children of a       *)
(* vector; a number is an attribute without text, or a child with nothing.   *)

ElementName(t) == CASE Root(t) = AMap -> 1 [] Root(t) = AVector -> 2 [] OTHER -> 3
IsText(t) == Root(t) \in DOMAIN StringOf
Composed(t) == Root(t) \in {AMap, AVector}

IsAttribute(t, k) == Root(t) = AMap /\ ~Composed(SubTree(t, <<k>>))
IsChild(t, k) == ~IsAttribute(t, k) /\ ~IsText(SubTree(t, <<k>>))

RECURSIVE XmlEvents(_)
XmlEvents(t) ==
  LET indexes == Indexes(t, << >>)
      under(k) == SubTree(t, <<k>>)
      part(k) ==
        CASE IsAttribute(t, k) -> (IF IsText(under(k)) THEN <<Event("attrval", Root(under(k)))>> ELSE << >>)
                                  \o <<Event("attrend", k)>>
          [] IsChild(t, k) -> XmlEvents(under(k))
          [] OTHER -> <<Event("content", Root(under(k)))>>
      parts(Is(_)) == LET ks == SelectSeq(indexes, Is) IN FlattenSeq([n \in DOMAIN ks |-> part(ks[n])])
  IN  <<Event("start", ElementName(t))>> \o parts(LAMBDA k : IsAttribute(t, k))
      \o parts(LAMBDA k : ~IsAttribute(t, k)) \o <<Event("end", 0)>>

(* The text of an element is what follows its last child.                    *)
RECURSIVE XmlMap(_)
XmlMap(t) ==
  LET all == ToSet(Indexes(t, << >>))
      children == SelectSeq(Indexes(t, << >>), LAMBDA k : IsChild(t, k))
      attributes == {k \in all : IsAttribute(t, k)}
      last == SelectSeq(Indexes(t, << >>), LAMBDA k : ~IsAttribute(t, k) /\ \A c \in ToSet(children) : k > c)
      chars == FoldLeft(LAMBDA n, k : 10 * n + t[<<k>>], NoText, last)
      attribute(k) == Leaf(IF IsText(SubTree(t, <<k>>)) THEN t[<<k>>] ELSE NoText)
      maps == [n \in DOMAIN children |-> XmlMap(SubTree(t, <<children[n]>>))]
  IN  Tree(AMap, (Name :> Leaf(ElementName(t)))
                 @@ (Attributes :> Tree(AMap, [k \in attributes |-> attribute(k)]))
                 @@ (IF children = << >> THEN << >> ELSE Children :> Tree(AVector, maps))
                 @@ (IF chars = NoText THEN << >> ELSE Content :> Leaf(chars)))

XmlKept ==
  LET events == XmlEvents(document)
  IN  Composed(document) =>
        /\ FromXml(events) = Elem(XmlMap(document), Len(events) + 1, NoText)
        /\ \A n \in 0..(Len(events) - 1) :
             FromXml(SubSeq(events, 1, n) \o <<Event("error", 0)>>).failed

(* The first "${" with a "}" behind it is replaced, once, and what follows   *)
(* the "}" likewise; without one the text is as it was.                      *)
Opens(s, i) == i < Len(s) /\ s[i] = "$" /\ s[i + 1] = "{"
SubstitutesRight ==
  LET Ends(i) == {j \in DOMAIN config : j > i /\ config[j] = "}"}
      opens == {i \in DOMAIN config : Opens(config, i) /\ Ends(i) # {}}
      i == Min(opens)
      j == Min(Ends(i))
      key == SubSeq(config, i + 2, j - 1)
      rest == Substituted(SubSeq(config, j + 1, Len(config)))
  IN  IF opens = {} THEN Substituted(config) = Result(TRUE, config)
      ELSE IF key \in DOMAIN Environment /\ Len(key) < MaxEnvLen /\ rest.ok
      THEN Substituted(config) =
             Result(TRUE, SubSeq(config, 1, i - 1) \o Environment[key] \o rest.chars)
      ELSE ~Substituted(config).ok

=============================================================================
