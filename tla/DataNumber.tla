----------------------------- MODULE DataNumber -----------------------------
(***************************************************************************)
(* The numbers of src/c/data.c: allocation, increment and decrement, cast  *)
(* and comparison.  A value is counted in halves, so that a float may have *)
(* a fraction.  The widths of the types are parameters, in the order they  *)
(* have in the code: 8 < 16 < digits of a float < 32 < digits of a double  *)
(* < 64 bits.  Floats have no subnormals and no negative zero.             *)
(***************************************************************************)
EXTENDS Integers, FiniteSets, Sequences

CONSTANTS Width,      \* bits of an integer type, named by its bits
          F32Digits,  \* bits of the significand of a float, and of a double
          F64Digits,
          F32Text,    \* digits of the text of a float, and of a double
          F64Text,
          FltMax,     \* FLT_MAX, in halves
          DblMax,     \* bound: doubles, in halves
          MaxSteps,   \* bound: increments and decrements of one number
          NaN,        \* not a number
          Refused     \* the answer of a cast that is not possible

VARIABLE number

(* IOT_DATA_INT8 to IOT_DATA_BOOL.                                           *)
Types == <<"i8", "u8", "i16", "u16", "i32", "u32", "i64", "u64", "f32", "f64", "bool">>
TypeSet == {Types[i] : i \in DOMAIN Types}
Signed == {"i8", "i16", "i32", "i64"}
Unsigned == {"u8", "u16", "u32", "u64"}
IntTypes == Signed \cup Unsigned
FloatTypes == {"f32", "f64"}
Rank(t) == CHOOSE i \in DOMAIN Types : Types[i] = t

Bits(t) == CASE t \in {"i8", "u8"} -> Width[8]
             [] t \in {"i16", "u16"} -> Width[16]
             [] t \in {"i32", "u32"} -> Width[32]
             [] t \in {"i64", "u64"} -> Width[64]

Abs(x) == IF x < 0 THEN -x ELSE x

(* To the nearest value with p digits of a base, the last of which counts a  *)
(* power of the base times unit; to the even one of two.                     *)
RoundNat(x, p, base, unit) ==
  LET q == CHOOSE q \in {unit * base ^ e : e \in 0..9} :
             x < q * base ^ p /\ (q = unit \/ q * base ^ p =< base * x)
      r == x % q
      d == x \div q
  IN  IF 2 * r < q \/ (2 * r = q /\ d % 2 = 0) THEN d * q ELSE (d + 1) * q
RoundTo(x, p, base, unit) ==
  IF x < 0 THEN -RoundNat(-x, p, base, unit) ELSE RoundNat(x, p, base, unit)
Round(x, p) == RoundTo(x, p, 2, 1)

Digits(t) == IF t = "f32" THEN F32Digits ELSE F64Digits

(* Towards zero, in halves.                                                  *)
Truncated(x) == IF x < 0 THEN -2 * ((-x) \div 2) ELSE 2 * (x \div 2)

(* The bounds of a type, of which cast keeps doubles: max_vals and min_vals. *)
Highest(t) == CASE t \in Signed -> 2 * (2 ^ (Bits(t) - 1) - 1)
                [] t \in Unsigned -> 2 * (2 ^ Bits(t) - 1)
                [] t = "f32" -> FltMax
Lowest(t) == CASE t \in Signed -> -2 * 2 ^ (Bits(t) - 1)
               [] t \in Unsigned -> 0
               [] t = "f32" -> -FltMax
MaxVal(t) == Round(Highest(t), F64Digits)

F32Values == {Round(x, F32Digits) : x \in (-FltMax)..FltMax} \cup {NaN}
F64Values == {Round(x, F64Digits) : x \in (-DblMax)..DblMax} \cup {NaN}

ValuesOf(t) ==
  CASE t \in IntTypes -> {2 * i : i \in (Lowest(t) \div 2)..(Highest(t) \div 2)}
    [] t = "f32" -> F32Values
    [] t = "f64" -> F64Values
    [] t = "bool" -> {0, 2}

-----------------------------------------------------------------------------
(* Cast *)

(* A 64 bit value as a double.                                               *)
AsDouble(n) == IF n.type \in {"i64", "u64"} THEN Round(n.value, F64Digits) ELSE n.value

OutOfRange(n, t) ==
  /\ t \notin {"f64", "bool"} /\ n.value # NaN
  /\ AsDouble(n) > MaxVal(t) \/ AsDouble(n) < Lowest(t)

(* An integer modulo the width of a type.                                    *)
Wrap(x, t) ==
  LET m == 2 * 2 ^ Bits(t)
  IN  IF t \in Signed /\ x % m > Highest(t) THEN (x % m) - m ELSE x % m

(* The outcomes of the C conversion.  Of a floating value that the integer   *)
(* type cannot hold it is undefined.                                         *)
Convert(n, t) ==
  LET x == n.value
  IN  CASE t = "bool" -> {IF x = 0 THEN 0 ELSE 2}
        [] t \in FloatTypes -> {IF x = NaN THEN NaN ELSE Round(x, Digits(t))}
        [] t \in IntTypes /\ n.type \in {"i64", "u64", "bool"} -> {Wrap(x, t)}
        [] t \in IntTypes /\ n.type \notin {"i64", "u64", "bool"} ->
             IF x # NaN /\ Truncated(x) \in ValuesOf(t) THEN {Truncated(x)} ELSE ValuesOf(t)

(* iot_data_cast_val: the outcomes it can have.                              *)
Cast(n, t) == IF OutOfRange(n, t) THEN {Refused} ELSE Convert(n, t)

-----------------------------------------------------------------------------
(* Floats as text *)

TextDigitsSlip(t) == (IF t = "f32" THEN F32Text ELSE F64Text) - 1
TextDigits(t) == IF t = "f32" THEN F32Text ELSE F64Text

(* snprintf of a float, in tenths, which write a half exactly.               *)
FloatText(n) == RoundTo(5 * n.value, TextDigits(n.type), 10, 1)

(* strtod: the nearest double.                                               *)
ReadFloat(tenths) == RoundTo(tenths, F64Digits, 2, 5) \div 5

-----------------------------------------------------------------------------
(* Hash and comparison *)

(* (uint32_t) val, and an arbitrary function of a float it is undefined for. *)
HashOf(t, x) == IF x = NaN THEN 0 ELSE Truncated(x) % (2 * 2 ^ Width[32])

Num(t, x) == [type |-> t, value |-> x, hash |-> HashOf(t, x), steps |-> 0]

Sign(x, y) == IF x = y /\ x # NaN THEN 0
              ELSE IF x # NaN /\ y # NaN /\ x < y THEN -1 ELSE 1

(* Integers are cast to 64 bits; where a signed one meets an unsigned one C  *)
(* compares both as unsigned.                                                *)
AsUnsigned(x) == Wrap(x, "u64")

CompareInts(a, b) ==
  IF a.type \in Signed /\ b.type \in Signed
  THEN Sign(a.value, b.value)
  ELSE Sign(AsUnsigned(a.value), AsUnsigned(b.value))

(* iot_data_cmp of two numbers.                                              *)
CompareSlip(a, b, byValue) ==
  CASE a.type = b.type -> Sign(a.value, b.value)
    [] a.type # b.type /\ byValue /\ {a.type, b.type} \subseteq IntTypes ->
         Sign(Wrap(a.value, "i64"), Wrap(b.value, "i64"))
    [] a.type # b.type /\ byValue /\ {a.type, b.type} \subseteq FloatTypes ->
         Sign(a.value, b.value)
    [] OTHER -> Sign(Rank(a.type), Rank(b.type))
Compare(a, b, byValue) ==
  CASE a.type = b.type -> Sign(a.value, b.value)
    [] a.type # b.type /\ byValue /\ {a.type, b.type} \subseteq IntTypes -> CompareInts(a, b)
    [] a.type # b.type /\ byValue /\ {a.type, b.type} \subseteq FloatTypes ->
         Sign(a.value, b.value)
    [] OTHER -> Sign(Rank(a.type), Rank(b.type))

(* iot_data_equal.                                                           *)
Equal(a, b) == a.hash = b.hash /\ Compare(a, b, FALSE) = 0

-----------------------------------------------------------------------------

(* iot_data_alloc_i8 to iot_data_alloc_bool.                                 *)
NumberInit == \E t \in TypeSet : \E x \in ValuesOf(t) : number = Num(t, x)

(* iot_data_inc_dec: the value changes in place.  Signed integers wrap, which *)
(* C leaves open for the wider ones; a bool stays.                           *)
Stepped(n, d) ==
  CASE n.type \in IntTypes -> Wrap(n.value + d, n.type)
    [] n.type \in FloatTypes -> IF n.value = NaN THEN NaN ELSE Round(n.value + d, Digits(n.type))
    [] n.type = "bool" -> n.value

IncDec(d) ==
  /\ number.steps < MaxSteps
  /\ number' = [number EXCEPT !.value = Stepped(number, d), !.steps = @ + 1]

Increment == IncDec(2)
Decrement == IncDec(-2)

(* iot_data_transform gives the same number, a new one or NULL.              *)
Transform == \E t \in TypeSet \ {number.type} : \E x \in Cast(number, t) :
  number' = IF x = Refused THEN number ELSE Num(t, x)

NumberNext == Increment \/ Decrement \/ Transform

-----------------------------------------------------------------------------
(* Parts of properties of Data *)

NumberType ==
  /\ number.type \in TypeSet /\ number.hash \in Nat /\ number.steps \in 0..MaxSteps
  /\ number.value \in ValuesOf(number.type) \cup (IF number.type = "f64" THEN Int ELSE {})

(* What a cast promises: the value where the type has it, else the nearest   *)
(* one, or towards zero, and a refusal out of the range of the type.         *)
Promised(n, t) ==
  LET x == n.value
  IN  CASE t = "bool" -> {IF x = 0 THEN 0 ELSE 2}
        [] t = "f64" -> {Round(x, F64Digits)}
        [] t \notin {"bool", "f64"} /\ (x > Highest(t) \/ x < Lowest(t)) -> {Refused}
        [] t \in IntTypes /\ x =< Highest(t) /\ x >= Lowest(t) -> {Truncated(x)}
        [] t = "f32" /\ x =< Highest(t) /\ x >= Lowest(t) -> {Round(x, F32Digits)}

(* Just above the highest 64 bit integer, whose double is higher than it.    *)
Doubtful(n, t) == t \in {"i64", "u64"} /\ n.value > Highest(t) /\ AsDouble(n) = MaxVal(t)

CastRight ==
  number.value # NaN => \A t \in TypeSet :
    ~Doubtful(number, t) => Cast(number, t) = Promised(number, t)

(* A number read back has the value of the one written.  An f32 comes back   *)
(* as the double its text is nearest to, of which it is the nearest f32.     *)
ComesBack(n, back) ==
  IF n.type = "f32" THEN back.type = "f64" /\ Round(back.value, F32Digits) = n.value
  ELSE Compare(n, back, TRUE) = 0

Comparable(n) ==
  IF n.type \in IntTypes THEN IntTypes ELSE IF n.type \in FloatTypes THEN FloatTypes ELSE {n.type}

(* A negative number meets one of an unsigned type.                          *)
Mixed(a, b) == \/ a.type \in Signed /\ b.type \in Unsigned /\ a.value < 0
               \/ b.type \in Signed /\ a.type \in Unsigned /\ b.value < 0

CompareRight ==
  number.steps = 0 /\ number.value # NaN =>
    \A t \in Comparable(number) : \A x \in ValuesOf(t) \ {NaN} :
      LET other == Num(t, x)
      IN  /\ ~Mixed(number, other) => Compare(number, other, TRUE) = Sign(number.value, x)
          /\ t = number.type => (Equal(number, other) <=> number.value = x)

=============================================================================
