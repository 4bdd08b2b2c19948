-------------------------------- MODULE Data --------------------------------
(***************************************************************************)
(* A client and one iot_data_t of a kind it chose: a list or a vector,     *)
(* which iot_data_iter_t walks by dispatching on the type, a number, data  *)
(* that is written as CBOR or taken to and from base64, a document that is *)
(* written as JSON or CBOR and read back, trees that share their parts, or *)
(* a configuration with variables.                                         *)
(***************************************************************************)
EXTENDS Markup

CONSTANTS Values, HeapBlocks, ChunkSize, MaxBlocks, MaxLength,
          TreeValues, TreeStarts, Handles, MaxObjects, MaxCalls, MaxDepth

ASSUME DataAssumption ==
  /\ IsFiniteSet(Values) /\ Values \subseteq Nat \ {0}
  /\ IsFiniteSet(HeapBlocks) /\ HeapBlocks \subseteq Nat \ (0..MaxBlocks)
  /\ ChunkSize \in Nat \ {0} /\ MaxBlocks % ChunkSize = 0
  /\ Width[8] < Width[16] /\ Width[16] < F32Digits /\ F32Digits < Width[32]
  /\ Width[32] < F64Digits /\ F64Digits < Width[64]
  /\ FltMax > 2 * 2 ^ Width[64] /\ DblMax > FltMax
  /\ 10 ^ (F32Text - 1) > 2 ^ F32Digits /\ 10 ^ (F64Text - 1) > 2 ^ F64Digits
  /\ InHead =< 2 ^ Width[8]
  /\ BuffSizes \subseteq Nat \ {0}
  /\ IsInjective(StringOf) /\ Keys \subseteq DOMAIN StringOf
  /\ \A v \in DOMAIN StringOf : StringOf[v] \notin Marks /\ v \notin Numbers
  /\ Numbers \subseteq Nat \ {0} /\ DOMAIN StringOf \subseteq Nat \ {0}

VARIABLES type, list, position, vector, index, heap, handle, meant, calls

tree == <<heap, handle, meant, calls>>

setting == <<config, pieces>>

vars == <<type, number, holder, binary, text, list, position, vector, index, tree, document,
          setting>>

L == INSTANCE DataList
V == INSTANCE DataVector
T == INSTANCE DataTree

Kinds == {"list", "vector", "number", "cbor", "base64", "tree", "document", "config"}

(* What belongs to another kind of data does not vary.                       *)
Init ==
  /\ type \in Kinds /\ L!Init /\ V!Init /\ T!Init /\ NumberInit /\ CodecInit
  /\ type # "vector" => index = 0
  /\ type # "number" => number = Num("i8", 0)
  /\ type # "cbor" => \A n \in BuffSizes : holder.size =< n
  /\ DocumentInit /\ MarkupInit
  /\ type # "document" => document = Leaf(AMap)

ListStep == type = "list" /\ L!Next
            /\ UNCHANGED <<type, number, holder, binary, text, vector, index, tree, document, setting>>

VectorStep == type = "vector" /\ V!Next
              /\ UNCHANGED <<type, number, holder, binary, text, list, position, tree, document, setting>>

NumberStep == type = "number" /\ NumberNext
              /\ UNCHANGED <<type, holder, binary, text, list, position, vector, index, tree, document, setting>>

CborStep == type = "cbor" /\ Write
            /\ UNCHANGED <<type, number, list, position, vector, index, tree, document, setting>>

Base64Step == type = "base64" /\ (AddByte \/ AddCharacter)
              /\ UNCHANGED <<type, number, list, position, vector, index, tree, document, setting>>

TreeStep == type = "tree" /\ T!Next
            /\ UNCHANGED <<type, number, holder, binary, text, list, position, vector, index, document, setting>>

DocumentStep == type = "document" /\ Compose
                /\ UNCHANGED <<type, number, holder, binary, text, list, position, vector, index, tree, setting>>

ConfigStep == type = "config" /\ AddPiece
              /\ UNCHANGED <<type, number, holder, binary, text, list, position, vector, index, tree, document>>

Next == ListStep \/ VectorStep \/ NumberStep \/ CborStep \/ Base64Step \/ TreeStep
        \/ DocumentStep \/ ConfigStep

Spec == Init /\ [][Next]_vars

-----------------------------------------------------------------------------
(* iot_data_iter_t *)

Items == IF type = "vector" THEN vector.values ELSE L!ValuesOf(list)

At == IF type = "vector" THEN V!At ELSE L!At

HasNext == IF type = "vector" THEN V!HasNext ELSE L!HasNext

-----------------------------------------------------------------------------
(* Properties *)

(* Lists and vectors are sequences under every operation: pushes and pops at *)
(* both ends, removal by value and under the iterator, copies, resizing and  *)
(* compaction, which keeps the order; and the iterator stands where the      *)
(* sequence says, in both directions.                                        *)
S == INSTANCE Sequence WITH items <- Items, at <- At, more <- HasNext, Nothing <- 0

ImplementsSequence == S!Spec

(* A cached hash of a list or vector that is not marked for recomputation is *)
(* the hash of the values, whatever pushes, replacements and copies went     *)
(* before, unless iot_data_vector_resize took a pending mark away by         *)
(* resizing to the size the vector had.                                      *)
HashFresh == L!Fresh /\ V!Fresh

(* The blocks of the cache are free or in the list, each once, none is lost  *)
(* and none given twice, though the free list and the elements share a link; *)
(* the length at the head counts the elements; every value has one reference *)
(* per place that holds it, also in trees that share their parts, and no     *)
(* data without a reference stays allocated.                                 *)
NothingLost == L!Type /\ L!Conserved /\ V!Type /\ V!Conserved /\ T!Conserved

(* A client's tree stays what it was, and gives at every path what it holds, *)
(* while other trees share its parts and are freed, copied, compressed or    *)
(* changed at a path: iot_data_add_at, remove_at and update_at make a new    *)
(* tree and leave the old one alone.                                         *)
TreesKept == T!Kept

(* A cast gives the value, its nearest float or its integer part, and is     *)
(* refused exactly out of range, but for values just above the highest 64    *)
(* bit integer; no number leaves the range of its type; comparison by value  *)
(* orders numbers of all integer types, but for a negative number and one of *)
(* an unsigned type; equality agrees with it for numbers that were not       *)
(* incremented.  A vector becomes an array or a vector of all its elements   *)
(* of a type, in order and in the room that was counted for them; its        *)
(* dimensions are those of its parts if all these are as deep and none is    *)
(* empty, and refused if their sizes differ.                                 *)
NumbersRight == /\ type = "number" => NumberType /\ CastRight /\ CompareRight
                /\ type = "document" => Flattens /\ ShapeRight

(* What is written comes back: a number through CBOR, but for the float 0.0; *)
(* through JSON and YAML an f64, an integer or a boolean of equal value, and *)
(* for an f32 the f64 nearest to its digits, of which it is the nearest f32, *)
(* though the two need not be equal; bytes through base64; and maps, vectors *)
(* and strings through JSON, with blanks or without, and CBOR.  None         *)
(* writes past the buffer it sized, any valid base64 text fits the room      *)
(* computed for it, the guess of the JSON reader makes room for all tokens   *)
(* and reads as many as there are, with fewer it refuses, and equal strings  *)
(* become one data with a reference for each of its places.  YAML gives the  *)
(* data whose events come from libyaml, or nothing when these break off; XML *)
(* the elements of yxml, with the text behind their last children.  Each     *)
(* ${name} of a configuration is replaced once, or the text is refused.      *)
CodecsInvert ==
  /\ type = "number" => CborKept /\ JsonNumberKept /\ YamlNumberKept
  /\ type = "cbor" => BufferFits
  /\ type = "base64" => Base64Kept /\ RoomIsEnough
  /\ type = "document" => JsonKept /\ JsonFits /\ CborTreeKept /\ YamlKept /\ XmlKept
  /\ type = "config" => SubstitutesRight

=============================================================================
