-------------------------- MODULE IntervalBackward --------------------------
(* Backward operations of the interval domain. They change the values of   *)
(* the operands a and b to fit the value of the result r; operands are     *)
(* nodes of a store, and may be the same node. Where they split a case     *)
(* with __lart_choose there is a store for every outcome, where they       *)
(* cancel there is none.                                                   *)
EXTENDS IntervalDomain

Put(s, n, i) == [s EXCEPT !.val[n] = i]

End(s, how) == [s EXCEPT !.out = how]

Then(S, next(_)) == UNION {IF s.out = "ok" THEN next(s) ELSE {s} : s \in S}

\* __lart_choose( int( n ) ): without a value to choose it does not return.
Split(s, n, next(_)) ==
    IF Wrapped(n) < 1 THEN {End(s, "stuck")} ELSE UNION {next(i) : i \in 0 .. Wrapped(n) - 1}

CutAssigned(s, n, I) == UNION {IF IvEmpty(i) THEN {} ELSE {Put(s, n, i)} : i \in I}

\* intersect
Cut(s, n, I) ==
    UNION {LET m == IvMeet(s.val[n], i) IN IF IvEmpty(m) THEN {} ELSE {Put(s, n, m)} : i \in I}

CutQuotient(s, n, i, j) == IF DivFaults(i, j) THEN {End(s, "trap")} ELSE Cut(s, n, IvDiv(i, j))

\* meet_low and meet_high leave an empty interval in place.
MeetLow(s, n, b) == Put(s, n, Iv(Greater(Low(s.val[n]), b), High(s.val[n])))
MeetHigh(s, n, b) == Put(s, n, Iv(Low(s.val[n]), Lesser(High(s.val[n]), b)))

Shifted(x, d) == IF IsInf(x) THEN x ELSE Saturate(x + d)

Exclude(s, n, b) ==
    LET i == s.val[n]
        j == Iv(IF Low(i) = b THEN Low(i) + 1 ELSE Low(i),
                IF High(i) = b THEN High(i) - 1 ELSE High(i))
    IN  IF IvEmpty(j) THEN {} ELSE {Put(s, n, j)}

SplittableZero(d) == 0 <= d /\ d <= ChooseBound

Splittable(d) == 0 < d /\ d <= ChooseBound

\* badd_ and bsub_: what the bounds of the result say beyond intersections is
\* shared out between the operands; sub turns the bounds of b around.
ShareLow(s, d, a, b, sub) ==
    LET share(i) == LET t == MeetLow(s, a, Shifted(Low(s.val[a]), i))
                    IN  {IF sub THEN MeetHigh(t, b, Shifted(High(t.val[b]), i - d))
                         ELSE MeetLow(t, b, Shifted(Low(t.val[b]), d - i))}
    IN  IF Splittable(d) THEN Split(s, d + 1, share) ELSE {s}

ShareHigh(s, d, a, b, sub) ==
    LET share(i) == LET t == MeetHigh(s, a, Shifted(High(s.val[a]), -i))
                    IN  {IF sub THEN MeetLow(t, b, Shifted(Low(t.val[b]), d - i))
                         ELSE MeetHigh(t, b, Shifted(High(t.val[b]), i - d))}
    IN  IF Splittable(d) THEN Split(s, d + 1, share) ELSE {s}

Share(s, r, a, b, sub) ==
    LET old == s.val[r]
        corrected(new) ==
            UNION {Then(ShareLow(s, dl, a, b, sub), LAMBDA t : ShareHigh(t, dh, a, b, sub)) :
                   dl \in BoundSub(Low(old), Low(new)), dh \in BoundSub(High(new), High(old))}
    IN  UNION {IF IvEq(new, old) = "true" THEN {s} ELSE corrected(new) :
               new \in IF sub THEN IvSub(s.val[a], s.val[b]) ELSE IvAdd(s.val[a], s.val[b])}

BackAdd(s, r, a, b) ==
    Then(Then(Cut(s, a, IvSub(s.val[r], s.val[b])),
              LAMBDA t : Cut(t, b, IvSub(t.val[r], t.val[a]))),
         LAMBDA t : Share(t, r, a, b, FALSE))

BackSub(s, r, a, b) ==
    Then(Then(Cut(s, a, IvAdd(s.val[r], s.val[b])),
              LAMBDA t : Cut(t, b, IvSub(t.val[a], t.val[r]))),
         LAMBDA t : Share(t, r, a, b, TRUE))

\* A division by a bound that is zero ends the process.
DivUp(x, y) == Truncated(x, y) + IF x # y * Truncated(x, y) THEN 1 ELSE 0

RaiseFactors(s, r, a, b) ==
    LET l == Low(s.val[r])
        nl == DivUp(l, High(s.val[b]))
        nh == DivUp(l, Low(s.val[b]))
        t == MeetLow(s, a, nl)
        share(i) == LET u == MeetLow(MeetLow(t, a, nh - i), b, DivUp(l, nh - i))
                    IN  IF nh - i = 0 THEN {End(s, "trap")}
                        ELSE IF IvEmpty(u.val[a]) \/ IvEmpty(u.val[b]) THEN {} ELSE {u}
    IN  IF 0 \in {Low(s.val[b]), High(s.val[b])} THEN {End(s, "trap")}
        ELSE Split(t, nh - nl + 1, share)

LowerFactors(s, r, a, b) ==
    LET h == High(s.val[r])
        nl == Greater(Truncated(h, High(s.val[b])), Low(s.val[a]))
        share(i) == LET u == MeetHigh(MeetHigh(s, a, nl + i), b, Truncated(h, nl + i))
                    IN  IF nl + i = 0 THEN {End(s, "trap")}
                        ELSE IF IvEmpty(u.val[a]) \/ IvEmpty(u.val[b]) THEN {} ELSE {u}
    IN  IF High(s.val[b]) = 0 THEN {End(s, "trap")}
        ELSE Split(s, High(s.val[a]) - nl + 1, share)

ShareFactors(s, r, a, b) ==
    UNION {LET old == s.val[r]
           IN  IF Low(old) <= Low(new) /\ High(new) <= High(old) THEN {s}
               ELSE UNION {Then(IF Splittable(dl) THEN RaiseFactors(s, r, a, b) ELSE {s},
                                LAMBDA t : IF Splittable(dh) THEN LowerFactors(t, r, a, b) ELSE {t}) :
                           dl \in BoundSub(Low(old), Low(new)), dh \in BoundSub(High(new), High(old))} :
           new \in IvMul(s.val[a], s.val[b])}

Infinite(i) == Low(i) = MinusInf \/ High(i) = PlusInf

\* The return of the first case has no semicolon and takes the next statement in.
BackMul(s, r, a, b) ==
    IF Infinite(s.val[a]) \/ Infinite(s.val[b]) THEN CutQuotient(s, a, s.val[r], s.val[b])
    ELSE Then(CutQuotient(s, b, s.val[r], s.val[a]), LAMBDA t : ShareFactors(t, r, a, b))

BackDiv(s, r, a, b) ==
    Then(Cut(s, a, IvMul(s.val[b], s.val[r])),
         LAMBDA t : IF Infinite(t.val[a]) \/ Infinite(t.val[r]) THEN {t}
                    ELSE CutQuotient(t, b, t.val[a], t.val[r]))

\* bgt_: every case takes a border between b and a.
Above(s, a, b, strict) ==
    LET off(S, n, m, end(_)) == IF strict THEN Then(S, LAMBDA t : Exclude(t, n, end(t.val[m]))) ELSE S
        first == off({MeetLow(s, a, Low(s.val[b]))}, a, b, Low)
        second == off({MeetHigh(t, b, High(t.val[a])) : t \in first}, b, a, High)
        border(t, common) ==
            Split(t, IF strict THEN IvSize(common) + 1 ELSE IvSize(common),
                  LAMBDA i : LET d == Shifted(Low(common), i)
                             IN  Then(Cut(t, a, {Iv(d, High(t.val[a]))}),
                                      LAMBDA u : Cut(u, b, {Iv(Low(u.val[b]),
                                                               IF strict THEN Shifted(d, -1) ELSE d)})))
        split(t) == LET common == IvMeet(t.val[a], t.val[b])
                    IN  IF IvEmpty(common) \/ ChooseBound < Wrapped(IvSize(common)) THEN {t}
                        ELSE border(t, common)
    IN  Then(second, split)

\* beq_impl: every case takes one common value; the count leaves the last one out.
Same(s, a, b) ==
    LET at(t, n, i) == Cut(t, n, {Iv(Shifted(Low(t.val[n]), i), Shifted(Low(t.val[n]), i))})
        pick(t, size) == Split(t, size, LAMBDA i : Then(at(t, a, i), LAMBDA u : at(u, b, i)))
    IN  Then(Then(Cut(s, a, {s.val[b]}), LAMBDA t : Cut(t, b, {t.val[a]})),
             LAMBDA t : UNION {IF Splittable(size) THEN pick(t, size) ELSE {t} :
                               size \in BoundSub(High(t.val[a]), Low(t.val[a]))})

\* bne_impl
Different(s, a, b) ==
    LET x == s.val[a]  y == s.val[b]
    IN  IF IvEmpty(IvMeet(x, y)) THEN {s}
        ELSE IF Low(x) = High(x) /\ Low(x) \in {Low(y), High(y)} THEN Exclude(s, b, Low(x))
        ELSE IF Low(y) = High(y) /\ Low(y) \in {Low(x), High(x)} THEN Exclude(s, a, Low(y))
        ELSE Above(s, a, b, TRUE) \cup Above(s, b, a, TRUE)

\* Only a result that is a definite truth value has consequences.
BackEq(s, r, a, b, negated) ==
    LET yes == s.val[r] = IvOfTri(TriOf(~negated))
        no  == s.val[r] = IvOfTri(TriOf(negated))
    IN  IF yes THEN Same(s, a, b) ELSE IF no THEN Different(s, a, b) ELSE {s}

BackGtTrue(s, r, a, b, negated) ==
    IF s.val[r] = IvOfTri(TriOf(~negated)) THEN Above(s, a, b, TRUE) ELSE {s}

BackGt(s, r, a, b, negated) ==
    LET yes == s.val[r] = IvOfTri(TriOf(~negated))
        no  == s.val[r] = IvOfTri(TriOf(negated))
    IN  IF yes THEN Above(s, a, b, TRUE) ELSE IF no THEN Above(s, b, a, FALSE) ELSE {s}

IntervalBack(op, s, r, a, b) ==
    CASE op = "add" -> BackAdd(s, r, a, b)
      [] op = "sub" -> BackSub(s, r, a, b)
      [] op = "mul" -> BackMul(s, r, a, b)
      [] op \in {"sdiv", "udiv"} -> BackDiv(s, r, a, b)
      [] op = "eq" -> BackEq(s, r, a, b, FALSE)
      [] op = "ne" -> BackEq(s, r, a, b, TRUE)
      [] op \in {"sgt", "ugt"} -> BackGt(s, r, a, b, FALSE)
      [] op \in {"slt", "ult"} -> BackGt(s, r, b, a, FALSE)
      [] op \in {"sge", "uge"} -> BackGt(s, r, b, a, TRUE)
      [] op \in {"sle", "ule"} -> BackGt(s, r, a, b, TRUE)
      [] op = "zfit" -> {Put(s, a, s.val[r])}
      [] OTHER -> {s}
=============================================================================
