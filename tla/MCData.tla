------------------------------- MODULE MCData -------------------------------
(* The instance of Data that TLC checks. *)
EXTENDS Data

(* 8 < 16 < 24 < 32 < 53 < 64 bits.                                          *)
MCWidth == (8 :> 2) @@ (16 :> 3) @@ (32 :> 5) @@ (64 :> 9)
MCBlocks == {101}
(* [1, nothing, {1: 1}] and {1: [1, 2], 2: 2}                                *)
MCStarts ==
  {Tree(AVector, (1 :> Leaf(1)) @@ (2 :> Leaf(Nothing)) @@ (3 :> Tree(AMap, 1 :> Leaf(1)))),
   Tree(AMap, (1 :> Tree(AVector, (1 :> Leaf(1)) @@ (2 :> Leaf(2)))) @@ (2 :> Leaf(2)))}
MCStringOf == (1 :> <<"a", ",">>) @@ (2 :> <<"quote", "newline", "control", "backslash">>)
MCPieces == {<<"$">>, <<"{">>, <<"a">>, <<"}">>, <<"$", "{", "a">>}
(* The second value is not looked at again, the third name is too long.      *)
MCEnvironment == (<<"a">> :> << >>) @@ (<<"a", "a">> :> <<"$", "{", "a", "}">>)
                 @@ (<<"a", "a", "a">> :> <<"b">>) @@ (<<"{">> :> <<"b">>)
(* Vectors of vectors of equal sizes, of other sizes and in three levels, and *)
(* [{1: []}, "a,", {1: {}, 2: [5, 5, 5]}].                                   *)
Vector(s) == Tree(AVector, s)
Row(n) == Vector([i \in 1..n |-> Leaf(IF i = 2 THEN 1 ELSE 5)])
MCDocuments ==
  {Vector(<<Row(2), Row(2), Row(2)>>), Vector(<<Row(1), Row(2)>>),
   Vector(<<Vector(<<Row(1), Row(1)>>), Vector(<<Row(1), Row(1)>>)>>),
   Vector(<<Vector(<<Row(1)>>), Vector(<<Row(2)>>)>>),
   Vector(<<Vector(<<Leaf(5), Row(1)>>), Row(2)>>),
   Vector(<<Tree(AMap, 1 :> Vector(<< >>)), Leaf(1),
            Tree(AMap, (1 :> Leaf(AMap)) @@ (2 :> Row(3)))>>)}
=============================================================================
