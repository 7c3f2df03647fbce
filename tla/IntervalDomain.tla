--------------------------- MODULE IntervalDomain ---------------------------
(* Intervals with saturating bounds: the least and the greatest number the *)
(* machine has stand for the infinities. An operation that cancels the     *)
(* path has no result: results are sets of at most one interval.           *)
EXTENDS LavaTristate, Sequences, FiniteSetsExt

CONSTANTS MaxBound,         \* the greatest number of the bound type
          ChooseBound       \* how many cases a backward operation may split

ASSUME BoundsAssumption == MaxBound \in Nat \ {0} /\ ChooseBound \in 1 .. MaxBound - 1

PlusInf == MaxBound
MinusInf == -MaxBound - 1

IsInf(x) == x \in {PlusInf, MinusInf}

Saturate(x) == IF x >= PlusInf THEN PlusInf ELSE IF x <= MinusInf THEN MinusInf ELSE x

\* The number a machine of this width keeps of n.
Wrapped(n) ==
    LET m == PlusInf - MinusInf + 1
        k == n % m
    IN  IF k > PlusInf THEN k - m ELSE k

BoundNeg(x) == CASE x = MinusInf -> PlusInf [] x = PlusInf -> MinusInf [] OTHER -> -x

\* Bounds are sets of at most one number too: opposite infinities cancel.
BoundAdd(x, y) ==
    CASE ~IsInf(x) /\ ~IsInf(y) -> {Saturate(x + y)}
      [] ~IsInf(x) /\ IsInf(y) -> {y}
      [] IsInf(x) /\ IsInf(y) /\ x # y -> {}
      [] OTHER -> {x}

BoundSub(x, y) == BoundAdd(x, BoundNeg(y))

BoundMul(x, y) ==
    IF x = 0 \/ y = 0 THEN 0
    ELSE IF IsInf(x) \/ IsInf(y) THEN IF (x > 0) # (y > 0) THEN MinusInf ELSE PlusInf
    ELSE Saturate(x * y)

Truncated(x, y) ==
    LET abs(z) == IF z < 0 THEN -z ELSE z
        q == abs(x) \div abs(y)
    IN  IF (x < 0) = (y < 0) THEN q ELSE -q

\* A division of a number by zero ends the process, and is told apart below.
BoundDiv(x, y) ==
    CASE ~IsInf(x) /\ ~IsInf(y) -> IF y = 0 THEN {} ELSE {Truncated(x, y)}
      [] ~IsInf(x) /\ IsInf(y) -> {0}
      [] IsInf(x) /\ ~IsInf(y) -> {IF y < 0 THEN BoundNeg(x) ELSE x}
      [] OTHER -> {}

Remainder(x, y) ==
    IF y = 0 THEN {} ELSE IF IsInf(x) \/ IsInf(y) THEN {x} ELSE {x - y * Truncated(x, y)}

\* k is the factor a shift stands for, 0 for an infinite shift to the right.
BoundShift(x, y, left) ==
    IF y < 0 \/ (IsInf(x) /\ IsInf(y)) THEN {}
    ELSE IF IsInf(x) THEN {x}
    ELSE IF y = PlusInf THEN {IF left THEN 0 ELSE PlusInf}
    ELSE {IF left THEN Wrapped(x * 2 ^ y) ELSE x \div 2 ^ y}

Iv(l, h) == <<l, h>>
Low(i) == i[1]
High(i) == i[2]

IvTop == Iv(MinusInf, PlusInf)

IvEmpty(i) == High(i) < Low(i)

\* The constructor of the domain cancels the path on an empty interval.
IvMake(i) == IF IvEmpty(i) THEN {} ELSE {i}

IvOfTri(t) == CASE t = "maybe" -> Iv(0, 1) [] t = "true" -> Iv(1, 1) [] t = "false" -> Iv(0, 0)

IvTristate(i) ==
    IF i = Iv(0, 0) THEN "false" ELSE IF Low(i) <= 0 /\ 0 <= High(i) THEN "maybe" ELSE "true"

IvMeaning(i, x) == (Low(i) = MinusInf \/ Low(i) <= x) /\ (High(i) = PlusInf \/ x <= High(i))

Greater(x, y) == IF x < y THEN y ELSE x
Lesser(x, y) == IF y < x THEN y ELSE x

IvMeet(i, j) ==
    CASE IvEmpty(i) -> i [] ~IvEmpty(i) /\ IvEmpty(j) -> j
      [] OTHER -> Iv(Greater(Low(i), Low(j)), Lesser(High(i), High(j)))

IvJoin(i, j) ==
    CASE IvEmpty(i) -> j [] ~IvEmpty(i) /\ IvEmpty(j) -> i
      [] OTHER -> Iv(Lesser(Low(i), Low(j)), Greater(High(i), High(j)))

\* size() counts in unsigned machine numbers.
IvSize(i) == (High(i) - Low(i) + 1) % (PlusInf - MinusInf + 1)

IvAdd(i, j) == {Iv(l, h) : l \in BoundAdd(Low(i), Low(j)), h \in BoundAdd(High(i), High(j))}

IvSub(i, j) == {Iv(l, h) : l \in BoundSub(Low(i), High(j)), h \in BoundSub(High(i), Low(j))}

\* minmax of the four corners, if none of them cancels.
Corners(i, j, op(_, _)) ==
    LET cs == {op(x, y) : x \in {Low(i), High(i)}, y \in {Low(j), High(j)}}
    IN  IF {} \in cs THEN {} ELSE {Iv(Min(UNION cs), Max(UNION cs))}

IvMul(i, j) == LET mul(x, y) == {BoundMul(x, y)} IN Corners(i, j, mul)

\* An empty divisor does not include the zero it has for a bound, and the first
\* corner of a number and that zero ends the process, unless one before cancels.
ZeroBound(j) == IvEmpty(j) /\ 0 \in {Low(j), High(j)}

DivFaults(i, j) ==
    /\ ZeroBound(j)
    /\ \/ ~IsInf(Low(i))
       \/ ~IsInf(High(i)) /\ ~IsInf(Low(j)) /\ ~IsInf(High(j))

RemFaults(i, j) == ZeroBound(j) /\ ~IsInf(Low(i))

IntervalFaults(op, i, j) ==
    \/ op \in {"sdiv", "udiv"} /\ DivFaults(i, j)
    \/ op \in {"srem", "urem"} /\ RemFaults(i, j)

IvDiv(i, j) == IF Low(j) <= 0 /\ 0 <= High(j) THEN {} ELSE Corners(i, j, BoundDiv)

IvRem(i, j) == IF Low(j) <= 0 /\ 0 <= High(j) THEN {} ELSE Corners(i, j, Remainder)

IvShift(i, j, left) == LET sh(x, y) == BoundShift(x, y, left) IN Corners(i, j, sh)

\* intersects: one interval begins and ends before the other; some empty ones
\* do not.
Apart(i, j) == Low(i) < Low(j) /\ High(i) < Low(j)

IvEq(i, j) ==
    IF Low(i) = High(i) /\ i = j THEN "true"
    ELSE IF Apart(i, j) \/ Apart(j, i) THEN "false" ELSE "maybe"

IvLessTouching(i, j) ==
    IF High(i) <= Low(j) THEN "true" ELSE IF Low(i) > High(j) THEN "false" ELSE "maybe"

IvLess(i, j) ==
    IF Low(i) = High(i) /\ Low(j) = High(j) THEN TriOf(Low(i) < Low(j))
    ELSE IF High(i) < Low(j) THEN "true" ELSE IF Low(i) > High(j) THEN "false" ELSE "maybe"

\* Comparisons of either signedness are the signed ones; bit operations ask for
\* the interval from plus to minus infinity, which cancels.
IntervalOp(op, i, j) ==
    CASE op = "add" -> IvAdd(i, j)
      [] op = "sub" -> IvSub(i, j)
      [] op = "mul" -> IvMul(i, j)
      [] op \in {"sdiv", "udiv"} -> IvDiv(i, j)
      [] op \in {"srem", "urem"} -> IvRem(i, j)
      [] op = "shl" -> IvShift(i, j, TRUE)
      [] op \in {"ashr", "lshr"} -> IvShift(i, j, FALSE)
      [] op = "eq" -> {IvOfTri(IvEq(i, j))}
      [] op = "ne" -> {IvOfTri(TriNot(IvEq(i, j)))}
      [] op \in {"slt", "ult"} -> {IvOfTri(IvLess(i, j))}
      [] op \in {"sgt", "ugt"} -> {IvOfTri(IvLess(j, i))}
      [] op \in {"sle", "ule"} -> {IvOfTri(TriNot(IvLess(j, i)))}
      [] op \in {"sge", "uge"} -> {IvOfTri(TriNot(IvLess(i, j)))}
      [] OTHER -> {}

IntervalAssume(i, c) == IvMake(IvMeet(i, IvOfTri(TriOf(c))))
=============================================================================
