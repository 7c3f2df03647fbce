--------------------------- MODULE MCShadowMemory ---------------------------
(***************************************************************************)
(* Four bytes of main, two of a function that main calls and a global of   *)
(* one byte: objects of one, two and four bytes, and arrays of them.       *)
(***************************************************************************)
EXTENDS ShadowMemory, TLC

Bytes == 0 .. 6

Frames == [b \in Bytes |-> IF b < 4 THEN 2 ELSE IF b < 6 THEN 3 ELSE 1]

Symmetry == Permutations(Value)
=============================================================================
