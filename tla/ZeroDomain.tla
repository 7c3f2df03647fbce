----------------------------- MODULE ZeroDomain -----------------------------
(* The zero domain: a value is zero (0), not zero (1), unknown (2) or      *)
(* nothing (3). Tables as in the source, rows for the left operand.        *)
EXTENDS LavaTristate, Sequences

Zero == 0    NonZero == 1    Unknown == 2    Nothing == 3

ZAdd   == <<<<0, 1, 2>>, <<1, 2, 2>>, <<2, 2, 2>>>>      \* also xor and !=
ZShift == <<<<0, 0, 0>>, <<1, 2, 2>>, <<2, 2, 2>>>>      \* also unsigned >
ZAnd   == <<<<0, 0, 0>>, <<0, 2, 2>>, <<0, 2, 2>>>>
ZOr    == <<<<0, 1, 2>>, <<1, 1, 1>>, <<2, 1, 2>>>>
ZEq    == <<<<1, 0, 2>>, <<0, 2, 2>>, <<2, 2, 2>>>>
ZUge   == <<<<1, 0, 2>>, <<1, 2, 2>>, <<1, 2, 2>>>>
ZSgt   == <<<<0, 2, 2>>, <<2, 2, 2>>, <<2, 2, 2>>>>
ZSge   == <<<<1, 2, 2>>, <<2, 2, 2>>, <<2, 2, 2>>>>

ZeroMeaning(a, x) == CASE a = Zero -> x = 0 [] a = NonZero -> x # 0
                       [] a = Unknown -> TRUE [] OTHER -> FALSE

ZeroLift(v) == IF v = 0 THEN Zero ELSE NonZero

\* intersect: the values left, none when the path is cancelled.
ZeroAssume(a, c) ==
    LET want == IF c THEN NonZero ELSE Zero
    IN  CASE a = Zero -> IF want # NonZero THEN {Zero} ELSE {}
          [] a = NonZero -> IF want # Zero THEN {NonZero} ELSE {}
          [] OTHER -> {want}

ZeroTristate(a) == CASE a = Zero -> "false" [] a = NonZero -> "true" [] OTHER -> "maybe"

\* A divisor that may be zero is reported.
ZeroDivisions == {"sdiv", "udiv", "srem", "urem"}

ZeroFails(op, b) == op \in ZeroDivisions /\ b # NonZero

ZeroOp(op, a, b) ==
    LET look(lut, x, y) == lut[x + 1][y + 1]
    IN  CASE op \in {"add", "sub", "mul"} -> look(ZAdd, a, b)
          [] op \in ZeroDivisions -> IF a # Zero THEN Unknown ELSE Zero
          [] op \in {"shl", "ashr", "lshr", "ugt"} -> look(ZShift, a, b)
          [] op = "and" -> look(ZAnd, a, b)
          [] op = "or"  -> look(ZOr, a, b)
          [] op \in {"xor", "ne"} -> look(ZAdd, a, b)
          [] op = "eq"  -> look(ZEq, a, b)
          [] op = "uge" -> look(ZUge, a, b)
          [] op = "ult" -> look(ZShift, b, a)
          [] op = "ule" -> look(ZUge, b, a)
          [] op = "sgt" -> look(ZSgt, a, b)
          [] op = "sge" -> look(ZSge, a, b)
          [] op = "slt" -> look(ZSgt, b, a)
          [] op = "sle" -> look(ZSge, b, a)

ZeroCast(op, a) ==
    IF op \in {"sext", "zext"} THEN a ELSE IF a = Zero THEN Zero ELSE Unknown
=============================================================================
