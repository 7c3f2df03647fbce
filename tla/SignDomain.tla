----------------------------- MODULE SignDomain -----------------------------
(* The sign domain: eight values, numbered as in the source, and tables of *)
(* its operations whose rows and columns follow the same numbers. Values   *)
(* lie in storage of their own, which a backward operation may delete.     *)
EXTENDS LavaTristate, Sequences

Bot == 0    \* nothing
Ltz == 1
Gtz == 2    \* also: true
Eqz == 3    \* also: false
Nez == 4
Gez == 5    \* also: maybe
Lez == 6
Top == 7    \* everything

Freed == 8  \* the storage of the value was deleted, and its nodes still hold it

AddLut ==
    <<<<0, 0, 0, 0, 0, 0, 0, 0>>,
      <<0, 1, 7, 1, 7, 7, 1, 7>>,
      <<0, 7, 2, 7, 2, 2, 7, 7>>,
      <<0, 1, 2, 3, 4, 5, 6, 7>>,
      <<0, 7, 7, 4, 7, 7, 7, 7>>,
      <<0, 7, 5, 5, 7, 5, 7, 7>>,
      <<0, 6, 7, 6, 7, 7, 6, 7>>,
      <<0, 7, 7, 7, 7, 7, 7, 7>>>>

MulLut ==
    <<<<0, 0, 0, 0, 0, 0, 0, 0>>,
      <<0, 2, 1, 3, 4, 6, 5, 7>>,
      <<0, 1, 2, 3, 4, 5, 6, 7>>,
      <<0, 3, 3, 3, 3, 3, 3, 3>>,
      <<0, 4, 4, 3, 4, 7, 7, 7>>,
      <<0, 6, 5, 3, 7, 5, 6, 7>>,
      <<0, 5, 6, 3, 7, 6, 5, 7>>,
      <<0, 7, 7, 3, 7, 7, 7, 7>>>>

EqLut ==
    <<<<0, 0, 0, 0, 0, 0, 0, 0>>,
      <<0, 5, 3, 3, 5, 3, 5, 5>>,
      <<0, 3, 5, 3, 5, 5, 3, 5>>,
      <<0, 3, 3, 2, 3, 5, 5, 5>>,
      <<0, 5, 5, 3, 5, 5, 5, 5>>,
      <<0, 3, 5, 5, 5, 5, 5, 5>>,
      <<0, 5, 3, 5, 5, 5, 5, 5>>,
      <<0, 5, 5, 5, 5, 5, 5, 5>>>>

NeLut ==
    <<<<0, 0, 0, 0, 0, 0, 0, 0>>,
      <<0, 5, 2, 2, 5, 2, 5, 5>>,
      <<0, 2, 5, 2, 5, 5, 2, 5>>,
      <<0, 2, 2, 3, 2, 5, 5, 5>>,
      <<0, 5, 5, 2, 5, 5, 5, 5>>,
      <<0, 2, 5, 5, 5, 5, 5, 5>>,
      <<0, 5, 2, 5, 5, 5, 5, 5>>,
      <<0, 5, 5, 5, 5, 5, 5, 5>>>>

SltLut ==
    <<<<0, 0, 0, 0, 0, 0, 0, 0>>,
      <<0, 5, 2, 2, 5, 2, 5, 5>>,
      <<0, 3, 5, 3, 5, 5, 3, 5>>,
      <<0, 3, 2, 3, 5, 5, 5, 5>>,
      <<0, 5, 5, 5, 5, 5, 5, 5>>,
      <<0, 3, 5, 5, 5, 5, 5, 5>>,
      <<0, 5, 2, 5, 5, 5, 5, 5>>,
      <<0, 5, 5, 5, 5, 5, 5, 5>>>>

MeetLut ==
    <<<<0, 0, 0, 0, 0, 0, 0, 0>>,
      <<0, 1, 0, 0, 1, 0, 1, 1>>,
      <<0, 0, 2, 0, 2, 2, 0, 2>>,
      <<0, 0, 0, 3, 0, 3, 3, 3>>,
      <<0, 1, 2, 0, 4, 2, 1, 4>>,
      <<0, 0, 2, 3, 2, 5, 3, 5>>,
      <<0, 1, 0, 3, 1, 3, 6, 6>>,
      <<0, 1, 2, 3, 4, 5, 6, 7>>>>

Look(lut, a, b) == lut[a + 1][b + 1]

SignMeaning(a, x) ==
    CASE a = Bot -> FALSE [] a = Ltz -> x < 0  [] a = Gtz -> x > 0  [] a = Eqz -> x = 0
      [] a = Nez -> x # 0 [] a = Gez -> x >= 0 [] a = Lez -> x <= 0 [] a = Top -> TRUE
      [] a = Freed -> FALSE

SignLift(v) == IF v = 0 THEN Eqz ELSE IF v < 0 THEN Ltz ELSE Gtz

SignAny(from, to) ==
    CASE to < from -> Bot
      [] from = 0 /\ to >= from -> IF to = 0 THEN Eqz ELSE Gez
      [] from # 0 /\ to = 0 /\ to >= from -> Lez
      [] from <= to /\ to < 0 -> Ltz
      [] 0 < from /\ from <= to -> Gtz
      [] OTHER -> Top

\* assume meets with true or false; an empty value is not noticed.
SignAssume(a, c) == Look(MeetLut, a, IF c THEN Gtz ELSE Eqz)

\* Lowering an empty value fails.
SignTristate(a) ==
    CASE a \in {Ltz, Gtz, Nez} -> "true" [] a = Eqz -> "false"
      [] a \in {Gez, Lez, Top} -> "maybe" [] OTHER -> "fail"

\* The operations that look at their operands.
SignReads == {"add", "mul", "eq", "ne", "slt", "sgt"}

\* Subtraction, division, shifts, bit operations, unsigned and weak
\* comparisons and casts know nothing.
SignOp(op, a, b) ==
    CASE op = "add" -> Look(AddLut, a, b)
      [] op = "mul" -> Look(MulLut, a, b)
      [] op = "eq"  -> Look(EqLut, a, b)
      [] op = "ne"  -> Look(NeLut, a, b)
      [] op = "slt" -> Look(SltLut, a, b)
      [] op = "sgt" -> Look(SltLut, b, a)
      [] op = "ffalse" -> Eqz
      [] OTHER -> Top

\* Of != and > that came true, the left operand is to become the difference of
\* both. It is passed as a reference of its own to the storage: the assignment
\* deletes the storage, and only that reference learns of the new one.
SignDeletes(op, r) == op \in {"ne", "sgt"} /\ r = Gtz
=============================================================================
