------------------------------ MODULE LampDomain ------------------------------
(* What the lamp library of each domain answers to a call of the program:  *)
(* values of relational domains (intervals, signs, zeros), the unit and    *)
(* constant domains, their semilattice (trivial), and terms. An answer is  *)
(* an outcome: a value, or how the process ended instead; a cancelled path *)
(* has none.                                                               *)
EXTENDS SignDomain, ZeroDomain, IntervalBackward, SequencesExt

CONSTANTS Width,        \* bits of the program's numbers; there are numbers twice as wide
          MaxAny        \* how many unknown numbers a program asks for

ASSUME WidthAssumption == Width \in Nat \ {0} /\ MaxAny \in Nat \ {0}

\* The bounds of intervals hold the numbers that come from outside.
ASSUME NumbersAssumption == 2 ^ Width <= MaxBound

Domains == {"interval", "sign", "zero", "bitvec", "unit", "constant", "trivial", "term"}

\* The libraries whose values remember how they were made.
Relational == {"interval", "sign", "zero", "bitvec"}

Divisions == {"sdiv", "udiv", "srem", "urem"}
Shifts    == {"shl", "ashr", "lshr"}
Bits      == {"and", "or", "xor"}
Arith     == {"add", "sub", "mul"} \cup Divisions \cup Shifts \cup Bits
Compares  == {"eq", "ne", "slt", "sle", "sgt", "sge", "ult", "ule", "ugt", "uge"}
Casts     == {"zext", "sext", "trunc", "zfit"}

Got(V) == {[how |-> "ok", val |-> v] : v \in V}

Ends(how) == {[how |-> how]}

\* domain_mixin: an operation a domain does not have fails.
Fails == Ends("trap")

-----------------------------------------------------------------------------
\* Machine numbers of w bits.
Signed(x, w) == LET m == x % 2 ^ w IN IF m >= 2 ^ (w - 1) THEN m - 2 ^ w ELSE m

Unsigned(x, w) == x % 2 ^ w

Bit(x, i) == (x \div 2 ^ i) % 2

BitAt(op, a, b, i) ==
    LET s == Bit(a, i) + Bit(b, i)
    IN  CASE op = "and" -> s \div 2 [] op = "or" -> Lesser(s, 1) [] op = "xor" -> s % 2

\* What the lowest k bits are worth.
BitSum(op, a, b, w) ==
    LET sum[k \in 0 .. w] == IF k = 0 THEN 0 ELSE sum[k - 1] + BitAt(op, a, b, k - 1) * 2 ^ (k - 1)
    IN  sum

BitOp(op, a, b, w) == BitSum(op, a, b, w)[w]

Truth(b) == IF b THEN 1 ELSE 0

\* The result before it is cut to w bits.
RawOp(op, x, y, w) ==
    LET u(z) == Unsigned(z, w)
        s(z) == Signed(z, w)
    IN  CASE op = "add"  -> u(x) + u(y)
          [] op = "sub"  -> u(x) - u(y)
          [] op = "mul"  -> u(x) * u(y)
          [] op = "sdiv" -> Truncated(s(x), s(y))
          [] op = "udiv" -> u(x) \div u(y)
          [] op = "srem" -> s(x) - s(y) * Truncated(s(x), s(y))
          [] op = "urem" -> u(x) % u(y)
          [] op = "shl"  -> u(x) * 2 ^ u(y)
          [] op = "lshr" -> u(x) \div 2 ^ u(y)
          [] op = "ashr" -> s(x) \div 2 ^ u(y)
          [] op \in Bits -> BitOp(op, u(x), u(y), w)
          [] op = "eq"  -> Truth(u(x) = u(y))
          [] op = "ne"  -> Truth(u(x) # u(y))
          [] op = "slt" -> Truth(s(x) < s(y))
          [] op = "sle" -> Truth(s(x) <= s(y))
          [] op = "sgt" -> Truth(s(x) > s(y))
          [] op = "sge" -> Truth(s(x) >= s(y))
          [] op = "ult" -> Truth(u(x) < u(y))
          [] op = "ule" -> Truth(u(x) <= u(y))
          [] op = "ugt" -> Truth(u(x) > u(y))
          [] op = "uge" -> Truth(u(x) >= u(y))

MachineOp(op, x, y, w) == Unsigned(RawOp(op, x, y, w), w)

\* From w to v bits.
MachineCast(op, x, w, v) == Unsigned(IF op = "sext" THEN Signed(x, w) ELSE Unsigned(x, w), v)

\* Divisions by zero and shifts by the width or more are not defined.
Defined(op, x, y, w) ==
    /\ op \in Divisions => Unsigned(y, w) # 0
    /\ op \in {"sdiv", "srem"} => ~(Signed(x, w) = -(2 ^ (w - 1)) /\ Signed(y, w) = -1)
    /\ op \in Shifts => Unsigned(y, w) < w

-----------------------------------------------------------------------------
\* Values of the unit and constant domains; a constant keeps its width.
UnitValue == [dom |-> "unit", num |-> 0, bw |-> 0]

\* Whatever is asked of the unit domain and, so far, of bit-vector intervals.
UnitAnswer == Got({UnitValue})
BitvecAnswer == Got({UnitValue})

Constant(v, w) == [dom |-> "constant", num |-> v, bw |-> w]

\* with_type: operands are read in the width of the first, and the result is a
\* number of a promoted type, which is wider.
WithType(op, a, b) ==
    IF a.bw # b.bw THEN Fails
    ELSE Got({Constant(RawOp(op, a.num, b.num, a.bw) % 2 ^ (2 * Width), a.bw)})

\* set_bw masks the value; the width stays what it was.
SetBw(a, v) == Constant(Unsigned(a.num, v), a.bw)

ConstantCast(op, a, v) ==
    SetBw(IF op = "sext" THEN Constant(Signed(a.num, a.bw) % 2 ^ (2 * Width), a.bw) ELSE a, v)

\* assume: a constant is left as it is or cancels the path.
ConstantAssume(a, c) == IF a.num = Truth(c) THEN {a} ELSE {}

\* Terms are what the solver takes them for: a number for every choice of the
\* unknowns.
Worlds == [1 .. MaxAny -> 0 .. 2 ^ Width - 1]

TermOp(op, a, b, w) ==
    [m \in Worlds |->
        IF Defined(op, a[m], b[m], w) THEN MachineOp(op, a[m], b[m], w)
        ELSE CASE op \in {"udiv", "sdiv"} /\ Unsigned(b[m], w) = 0 ->
                     IF op = "sdiv" /\ Signed(a[m], w) < 0 THEN 1 ELSE 2 ^ w - 1
               [] op \in {"urem", "srem"} -> IF Unsigned(b[m], w) = 0 THEN a[m] ELSE 0
               [] op = "sdiv" /\ Unsigned(b[m], w) # 0 -> a[m]
               [] op = "ashr" -> IF Signed(a[m], w) < 0 THEN 2 ^ w - 1 ELSE 0
               [] OTHER -> 0]

TermCast(op, a, w, v) == [m \in Worlds |-> MachineCast(op, a[m], w, v)]

-----------------------------------------------------------------------------
\* __lamp_lift_* and __lamp_wrap_*: the argument is an unsigned number.
DomLift(d, v, w) ==
    CASE d = "interval" -> Got(IvMake(Iv(v, v)))
      [] d = "sign" -> Got({SignLift(v)})
      [] d = "zero" -> Got({ZeroLift(v)})
      [] d = "unit" -> UnitAnswer
      [] d = "bitvec" -> BitvecAnswer
      [] d \in {"constant", "trivial"} -> Got({Constant(v, w)})
      [] d = "term" -> Got({[m \in Worlds |-> v]})

\* __lamp_any_*; k counts the unknowns.
DomAny(d, k) ==
    CASE d = "interval" -> Got({IvTop})
      [] d = "sign" -> Got({Top})
      [] d = "zero" -> Got({Unknown})
      [] d \in {"unit", "trivial"} -> UnitAnswer
      [] d = "bitvec" -> BitvecAnswer
      [] d = "constant" -> Fails
      [] d = "term" -> Got({[m \in Worlds |-> m[k]]})

\* __lamp_any_range_*
DomRange(d, from, to) ==
    CASE d = "interval" -> Got(IvMake(Iv(from, to)))
      [] d = "sign" -> Got({SignAny(from, to)})
      [] d \in {"unit", "trivial"} -> UnitAnswer
      [] d = "bitvec" -> BitvecAnswer
      [] OTHER -> Fails

\* __lamp_any_varg_*: the least interval of the arguments.
DomOneOf(d, vs) ==
    CASE d = "interval" -> Got(IvMake(IvJoin(IvJoin(Iv(0, -1), Iv(vs[1], vs[1])), Iv(vs[2], vs[2]))))
      [] d \in {"unit", "trivial"} -> UnitAnswer
      [] d = "bitvec" -> BitvecAnswer
      [] OTHER -> Fails

\* Forward operations. A domain without an operation fails; what follows the
\* use of deleted storage is not defined.
RelationalOp(d, op, a, b) ==
    CASE d = "interval" -> IF IntervalFaults(op, a, b) THEN Ends("trap")
                           ELSE Got(UNION {IvMake(i) : i \in IntervalOp(op, a, b)})
      [] d = "sign" -> IF op \in SignReads /\ Freed \in {a, b} THEN Ends("wild")
                       ELSE Got({SignOp(op, a, b)})
      [] d = "zero" -> IF ZeroFails(op, b) THEN Fails ELSE Got({ZeroOp(op, a, b)})
      [] d = "bitvec" -> BitvecAnswer

\* semilattice::op: the operation runs in the join of the operands' domains,
\* where both are lifted to; constants are below unit.
SemilatticeJoin(S) == IF S = {"constant"} THEN "constant" ELSE "unit"

InDomain(dom, answer) == IF dom = "unit" THEN UnitAnswer ELSE answer

SemilatticeOp(op, a, b) == InDomain(SemilatticeJoin({a.dom, b.dom}), WithType(op, a, b))

SemilatticeCast(op, a, v) == InDomain(a.dom, Got({ConstantCast(op, a, v)}))

DomOp(d, op, a, b, w) ==
    CASE d \in Relational -> RelationalOp(d, op, a, b)
      [] d = "unit" -> UnitAnswer
      [] d = "constant" -> WithType(op, a, b)
      [] d = "trivial" -> SemilatticeOp(op, a, b)
      [] d = "term" -> Got({TermOp(op, a, b, w)})

DomCast(d, op, a, w, v) ==
    CASE d = "interval" -> Got(IvMake(a))
      [] d = "sign" -> Got({Top})
      [] d = "zero" -> Got({ZeroCast(op, a)})
      [] d = "unit" -> UnitAnswer
      [] d = "bitvec" -> BitvecAnswer
      [] d = "constant" -> Got({ConstantCast(op, a, v)})
      [] d = "trivial" -> SemilatticeCast(op, a, v)
      [] d = "term" -> IF op = "zfit" THEN Fails ELSE Got({TermCast(op, a, w, v)})

\* __lamp_to_tristate
DomTristate(d, a) ==
    CASE d = "interval" -> IvTristate(a)
      [] d = "sign" -> SignTristate(a)
      [] d = "zero" -> ZeroTristate(a)
      [] d \in {"constant", "trivial"} /\ a.dom = "constant" -> TriOf(a.num # 0)
      [] OTHER -> "maybe"

\* What a value stands for: x is a number of w bits, a truth value 0 or 1.
DomMeaning(d, a, x, w) ==
    LET number == IF w = 1 THEN x ELSE Signed(x, w)
    IN  CASE d = "interval" -> IvMeaning(a, number)
          [] d = "sign" -> SignMeaning(a, number)
          [] d = "zero" -> ZeroMeaning(a, number)
          [] OTHER -> a.dom = "unit" \/ Unsigned(a.num, w) = x
=============================================================================
