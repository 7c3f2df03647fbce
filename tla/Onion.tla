------------------------------- MODULE Onion -------------------------------
(* The types of the data-flow analysis: a value's onion has one layer for  *)
(* every level of indirection, the value itself in the last one and what   *)
(* its pointers lead to before it. A layer says whether it is a pointer    *)
(* and whether it is abstract: no, yes or maybe.                           *)
EXTENDS Naturals, Sequences, SequencesExt

Tri == {"no", "yes", "maybe"}

TriJoin(a, b) == IF a = b THEN a ELSE "maybe"

TypeLayer(p, a) == [pointer |-> p, abstract |-> a]

Layers == [pointer : Tri, abstract : Tri]

LayerJoin(a, b) ==
    TypeLayer(TriJoin(a.pointer, b.pointer), TriJoin(a.abstract, b.abstract))

\* The onion of a value whose type has n levels of pointers.
TypeOnion(n) ==
    [i \in 1 .. n + 1 |-> TypeLayer(IF i = 1 THEN "no" ELSE "yes", "no")]

MakeAbstract(o) == [o EXCEPT ![Len(o)].abstract = "yes"]

MakeAbstractPointer(o) ==
    [[MakeAbstract(o) EXCEPT ![Len(o)].pointer = "yes"]
        EXCEPT ![1] = TypeLayer("maybe", "maybe")]

MaybeAbstract(o) == \E i \in DOMAIN o : o[i].abstract # "no"

IsAbstract(o) == Last(o).abstract # "no"

IsAbstractPointer(o) == Last(o).pointer # "no" /\ IsAbstract(o)

Wrap(o) == Append(o, TypeLayer("yes", "no"))

PeelAlways(o) == Front(o)

Peel(o) == IF Len(o) = 1 THEN [o EXCEPT ![1].pointer = "maybe"] ELSE Front(o)

\* Onions of different sizes are aligned at their last layers; the surplus
\* layers collapse into the first of the shorter one.
OnionJoin(a, b) ==
    LET short == IF Len(a) <= Len(b) THEN a ELSE b
        long  == IF Len(a) <= Len(b) THEN b ELSE a
        d     == Len(long) - Len(short)
        core  == TypeLayer("maybe",
                    IF \A k \in 1 .. d + 1 : long[k].abstract = short[1].abstract
                    THEN short[1].abstract ELSE "maybe")
    IN  [i \in 1 .. Len(short) |->
            IF i = 1 /\ d > 0 THEN core ELSE LayerJoin(short[i], long[i + d])]

\* One onion is above another when joining adds nothing to it.
Below(a, b) == OnionJoin(a, b) = b
=============================================================================
