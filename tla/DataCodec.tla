----------------------------- MODULE DataCodec -----------------------------
(***************************************************************************)
(* src/c/data-cbor.c for numbers, with the buffer it writes to, and        *)
(* src/c/base64.c.  A CBOR number is a head: a tag, the width of what      *)
(* follows the first byte, 0 if the number is in it, and the number.  A    *)
(* character of base64 text is what the table dec maps it to.              *)
(***************************************************************************)
EXTENDS DataNumber, SequencesExt

CONSTANTS InHead,         \* 0x18: the least number that is not in the first byte
          DoublingLimit,  \* IOT_CBOR_BUFF_DOUBLING_LIMIT
          BuffIncrement,  \* IOT_CBOR_BUFF_INCREMENT
          BuffSizes,      \* bound: sizes a caller starts with
          MaxWritten,     \* bound: bytes written to a buffer
          Bytes,          \* bound: bytes that are encoded
          MaxBytes,
          Characters,     \* bound: characters that are decoded
          MaxText

VARIABLES holder,   \* iot_cbor_holder_t
          binary,   \* bytes to encode
          text      \* characters to decode

-----------------------------------------------------------------------------
(* CBOR *)

HighestUnsigned(w) == 2 ^ Width[w] - 1

(* iot_data_cbor_write_uint.                                                *)
WriteUint(x, tag) ==
  [tag |-> tag, raw |-> x,
   width |-> CASE x < InHead -> 0
               [] x >= InHead /\ x =< HighestUnsigned(8) -> 8
               [] x > HighestUnsigned(8) /\ x =< HighestUnsigned(16) -> 16
               [] x > HighestUnsigned(16) /\ x =< HighestUnsigned(32) -> 32
               [] x > HighestUnsigned(32) -> 64]

(* iot_data_cbor_write_int.                                                 *)
WriteInt(x) == IF x < 0 THEN WriteUint(-1 - x, "negint") ELSE WriteUint(x, "uint")

(* A float goes through write_uint as its bits.  Those of a float, and of a  *)
(* double, need all their width but for 0.0, of which they are 0.            *)
WriteFloat(x, w) ==
  IF x = 0 THEN WriteUint(0, "float") ELSE [tag |-> "float", raw |-> x, width |-> w]

(* iot_data_dump_cbor of a number.                                          *)
ToCbor(n) ==
  CASE n.type \in Signed -> WriteInt(n.value \div 2)
    [] n.type \in Unsigned -> WriteUint(n.value \div 2, "uint")
    [] n.type = "f32" -> WriteFloat(n.value, 32)
    [] n.type = "f64" -> WriteFloat(n.value, 64)
    [] n.type = "bool" -> [tag |-> "bool", raw |-> n.value, width |-> 0]

SignedOf(w) == CASE w = 8 -> "i8" [] w = 16 -> "i16" [] w = 32 -> "i32" [] w = 64 -> "i64"
UnsignedOf(w) == CASE w = 8 -> "u8" [] w = 16 -> "u16" [] w = 32 -> "u32" [] w = 64 -> "u64"

(* libcbor reads the number in a first byte as one of 8 bits.                *)
ItemWidth(h) == IF h.width = 0 THEN 8 ELSE h.width

(* cbor_negint_to_iot_data: a number that its width cannot negate goes to    *)
(* the next one, from 64 bits to none.                                       *)
FromNegint(h) ==
  LET w == ItemWidth(h)
      x == -2 * (1 + h.raw)
  IN  CASE x >= Lowest(SignedOf(w)) -> Num(SignedOf(w), x)
        [] x < Lowest(SignedOf(w)) /\ w < 64 -> Num(SignedOf(2 * w), x)
        [] x < Lowest(SignedOf(w)) /\ w = 64 -> Refused

(* iot_data_from_cbor of a number.  libcbor rejects a float in a first byte: *)
(* that is where the simple values are.                                      *)
FromCbor(h) ==
  CASE h.tag = "uint" -> Num(UnsignedOf(ItemWidth(h)), 2 * h.raw)
    [] h.tag = "negint" -> FromNegint(h)
    [] h.tag = "float" /\ h.width = 0 -> Refused
    [] h.tag = "float" /\ h.width = 32 -> Num("f32", h.raw)
    [] h.tag = "float" /\ h.width = 64 -> Num("f64", h.raw)
    [] h.tag = "bool" -> Num("bool", h.raw)

(* iot_cbor_holder_check_size.                                              *)
Grown(h, required) ==
  LET total == h.index + required
      inc == IF h.size > DoublingLimit THEN BuffIncrement ELSE h.size
  IN  IF h.size < total
      THEN h.size + (IF h.size + inc < total THEN required ELSE inc)
      ELSE h.size

-----------------------------------------------------------------------------
(* Base64 *)

Space == 64
Equals == 65
Invalid == 66

EncodeSize(n) == (n \div 3) * 4 + (IF n % 3 # 0 THEN 4 ELSE 0) + 1

MaxDecodeSize(s) == (Len(s) \div 4) * 3 + (IF Len(s) % 4 # 0 THEN 2 ELSE 0)

(* One to three bytes give as many characters and one, padded to four.       *)
EncodeGroup(b, x) ==
  LET byte(i) == IF i =< Len(b) THEN b[i] ELSE 0
      n == byte(x) * 2 ^ 16 + byte(x + 1) * 2 ^ 8 + byte(x + 2)
  IN  <<n \div 2 ^ 18, (n \div 2 ^ 12) % 64,
        IF x + 1 =< Len(b) THEN (n \div 2 ^ 6) % 64 ELSE Equals,
        IF x + 2 =< Len(b) THEN n % 64 ELSE Equals>>

(* iot_b64_encode into a buffer of EncodeSize, without the terminator.       *)
RECURSIVE EncodeFrom(_, _)
EncodeFrom(b, x) == IF x > Len(b) THEN << >> ELSE EncodeGroup(b, x) \o EncodeFrom(b, x + 3)
Encode(b) == EncodeFrom(b, 1)

(* What the loop of iot_b64_decode does with a character that it decodes.    *)
(* The buffer overflows where room bytes are not enough.                     *)
DecodeStep(d, c, room) ==
  LET buf == d.buf * 64 + c
      more == <<buf \div 2 ^ 16, (buf \div 2 ^ 8) % 256, buf % 256>>
  IN  IF d.iter < 3 THEN [d EXCEPT !.buf = buf, !.iter = @ + 1]
      ELSE IF Len(d.out) + 3 > room THEN [d EXCEPT !.failed = TRUE]
      ELSE [d EXCEPT !.buf = 0, !.iter = 0, !.out = @ \o more]

RECURSIVE DecodeFrom(_, _, _, _)
DecodeFrom(d, s, x, room) ==
  CASE x > Len(s) \/ d.failed -> d
    [] x =< Len(s) /\ ~d.failed /\ s[x] = Equals -> d
    [] x =< Len(s) /\ ~d.failed /\ s[x] = Space -> DecodeFrom(d, s, x + 1, room)
    [] x =< Len(s) /\ ~d.failed /\ s[x] = Invalid -> [d EXCEPT !.failed = TRUE]
    [] OTHER -> DecodeFrom(DecodeStep(d, s[x], room), s, x + 1, room)

(* iot_b64_decode: the bytes, or refused.  A single character that is left   *)
(* over is dropped.                                                          *)
Decode(s, room) ==
  LET d == DecodeFrom([iter |-> 0, buf |-> 0, out |-> << >>, failed |-> FALSE], s, 1, room)
      rest == CASE d.iter = 3 -> <<d.buf \div 2 ^ 10, (d.buf \div 4) % 256>>
                [] d.iter = 2 -> <<d.buf \div 16>>
                [] OTHER -> << >>
  IN  IF d.failed \/ Len(d.out \o rest) > room THEN Refused ELSE d.out \o rest

(* iot_data_alloc_array_from_base64.                                        *)
ArrayFromBase64(s) == Decode(s, MaxDecodeSize(s))

-----------------------------------------------------------------------------

CodecInit ==
  /\ \E n \in BuffSizes : holder = [size |-> n, index |-> 0]
  /\ binary = << >> /\ text = << >>

(* A write of one to nine bytes, or of a string: the check comes first.      *)
Write == \E required \in 1..MaxWritten :
  /\ holder.index + required =< MaxWritten
  /\ holder' = [size |-> Grown(holder, required), index |-> holder.index + required]
  /\ UNCHANGED <<binary, text>>

AddByte == \E b \in Bytes :
  /\ Len(binary) < MaxBytes /\ text = << >>
  /\ binary' = Append(binary, b)
  /\ UNCHANGED <<holder, text>>

AddCharacter == \E c \in Characters :
  /\ Len(text) < MaxText /\ binary = << >>
  /\ text' = Append(text, c)
  /\ UNCHANGED <<holder, binary>>

-----------------------------------------------------------------------------
(* Parts of properties of Data *)

CborKept ==
  number.value # NaN =>
    LET back == FromCbor(ToCbor(number))
    IN  IF number.type \in FloatTypes /\ number.value = 0
        THEN back = Refused
        ELSE back # Refused /\ Compare(number, back, TRUE) = 0

BufferFits == holder.index =< holder.size

Base64Kept ==
  /\ Len(Encode(binary)) + 1 = EncodeSize(Len(binary))
  /\ ArrayFromBase64(Encode(binary)) = binary

(* A text without an invalid character always decodes, in the room that      *)
(* iot_b64_maxdecodesize tells.                                              *)
RoomIsEnough == Invalid \notin ToSet(text) => ArrayFromBase64(text) # Refused

=============================================================================
