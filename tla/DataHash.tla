------------------------------ MODULE DataHash ------------------------------
(***************************************************************************)
(* The hash of composed data in src/c/data.c: the exclusive or of the      *)
(* hashes of its parts.  The hash of a part is the part, taken as a        *)
(* symbol, and a hash is the set of symbols that were applied an odd       *)
(* number of times.                                                        *)
(***************************************************************************)
EXTENDS Integers, SequencesExt

Null == 0

Xor(a, b) == (a \ b) \cup (b \ a)

(* iot_data_hash of NULL changes nothing.                                   *)
ValueHash(h, v) == IF v = Null THEN h ELSE Xor(h, {v})

(* iot_data_hash of a list or a vector whose cached hash is marked.         *)
HashOfSeq(s) == FoldLeft(ValueHash, {}, s)

=============================================================================
