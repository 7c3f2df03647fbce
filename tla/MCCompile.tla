----------------------------- MODULE MCCompile -----------------------------
(* Small programs for the compiler, and the reference the result of the    *)
(* data-flow analysis is compared with.                                    *)
EXTENDS Instrument, TLC

\* A gep of elements of one byte has no scaled index.
Lowered(g) ==
    IF g = "gep" THEN [int |-> "g1", scale |-> "g2", sum |-> "g3", ptr |-> "g4"]
                 ELSE [int |-> "h1", sum |-> "h3", ptr |-> "h4"]

Unborn(V) == {<<v, "unborn", "f", 0, << >> >> : v \in V}

\* rows: <<value, kind, function, nesting, operands>>
Program(id, rows, callee, formals, pts, gens) ==
    LET V == {r[1] : r \in rows}
        col(i) == [v \in V |-> (CHOOSE r \in rows : r[1] = v)[i]] @@ << >>
    IN  [id |-> id, kind |-> col(2), fn |-> col(3), nest |-> col(4), ops |-> col(5),
         callee |-> callee @@ [c \in {v \in V : col(2)[v] = "call"} |->
                                 IF c = "r2" THEN "any2" ELSE "any"],
         formals |-> formals @@ [g \in DOMAIN gens |-> << >>], pts |-> pts, gens |-> gens,
         lamp |-> DOMAIN gens, lowered |-> "k",
         newbr |-> [v \in {w \in V : col(2)[w] \in {"cmp", "select"}} |->
                       IF col(2)[v] = "cmp" THEN "nb" ELSE "nb2"],
         newgep |-> [g \in {w \in V : col(2)[w] = "gep"} |-> Lowered(g)]]

None == << >>

\* A counter in memory: the loop closes through the store.
Loop == Program("loop",
    {<<"any", "function", "none", 0, None>>, <<"ce", "cexpr", "none", 0, <<"any">> >>,
     <<"r", "call", "f", 0, <<"ce">> >>, <<"a", "alloca", "f", 1, None>>, <<"s1", "store", "f", 0, <<"r", "a">> >>,
     <<"l", "load", "f", 0, <<"a">> >>, <<"b", "bin", "f", 0, <<"l", "k">> >>,
     <<"s2", "store", "f", 0, <<"b", "a">> >>, <<"c", "cmp", "f", 0, <<"l", "k">> >>,
     <<"br", "branch", "f", 0, <<"c">> >>, <<"k", "const", "none", 0, None>>},
    None, None, "a" :> {"a"}, "any" :> "scalar")

\* A comparison that is returned, a select, and a recursive function.
Calls == Program("calls",
    {<<"any", "function", "none", 0, None>>, <<"g", "function", "none", 0, None>>,
     <<"r", "call", "f", 0, None>>, <<"x", "call", "f", 0, <<"r">> >>,
     <<"c", "cmp", "f", 0, <<"x", "k">> >>, <<"z", "cast", "f", 0, <<"c">> >>,
     <<"q", "arg", "g", 0, None>>, <<"sel", "select", "g", 0, <<"k", "q", "k">> >>,
     <<"y", "call", "g", 0, <<"sel">> >>, <<"ret", "ret", "g", 0, <<"y">> >>,
     <<"ret2", "ret", "g", 0, <<"q">> >>,
     <<"nb", "unborn", "f", 0, None>>, <<"nb2", "unborn", "g", 0, None>>, <<"k", "const", "none", 0, None>>},
    [c \in {"x", "y"} |-> "g"], "g" :> <<"q">>, None, "any" :> "scalar")

\* A pointer in memory leads to the abstract value.
Memory == Program("memory",
    {<<"any", "function", "none", 0, None>>, <<"r", "call", "f", 0, None>>,
     <<"a", "alloca", "f", 1, None>>, <<"pp", "alloca", "f", 2, None>>,
     <<"s1", "store", "f", 0, <<"a", "pp">> >>, <<"s2", "store", "f", 0, <<"r", "a">> >>,
     <<"l1", "load", "f", 1, <<"pp">> >>, <<"l2", "load", "f", 0, <<"l1">> >>,
     <<"d", "bin", "f", 0, <<"l2", "l2">> >>, <<"s3", "store", "f", 0, <<"d", "l1">> >>,
     <<"k", "const", "none", 0, None>>},
    None, None, ("a" :> {"a"}) @@ ("pp" :> {"pp"}) @@ ("l1" :> {"a"}), "any" :> "scalar")

\* An abstract pointer goes through an integer and meets an onion of another size.
Pointers == Program("pointers",
    {<<"any", "function", "none", 0, None>>, <<"any2", "function", "none", 0, None>>,
     <<"r", "call", "f", 1, None>>,
     <<"r2", "call", "f", 0, None>>, <<"gep", "gep", "f", 1, <<"r", "r2">> >>,
     <<"i", "cast", "f", 0, <<"gep">> >>, <<"j", "cast", "f", 2, <<"i">> >>,
     <<"a", "alloca", "f", 2, None>>, <<"ph", "phi", "f", 2, <<"j", "a">> >>,
     <<"l", "load", "f", 1, <<"ph">> >>, <<"l2", "load", "f", 0, <<"l">> >>,
     <<"k", "const", "none", 0, None>>} \cup Unborn({"g1", "g2", "g3", "g4"}),
    None, None, ("a" :> {"a"}) @@ ("ph" :> {"a"}), ("any" :> "pointer") @@ ("any2" :> "scalar"))

\* Two abstract numbers in memory, as code without optimisation has them: a
\* quotient, and a comparison that is branched on and used.
Quotient == Program("quotient",
    {<<"any", "function", "none", 0, None>>, <<"x", "call", "f", 0, None>>, <<"y", "call", "f", 0, None>>,
     <<"a", "alloca", "f", 1, None>>, <<"s1", "store", "f", 0, <<"x", "a">> >>,
     <<"l1", "load", "f", 0, <<"a">> >>, <<"q", "div", "f", 0, <<"l1", "y">> >>,
     <<"s2", "store", "f", 0, <<"q", "a">> >>, <<"l2", "load", "f", 0, <<"a">> >>,
     <<"c", "cmp", "f", 0, <<"l2", "k">> >>, <<"z", "cast", "f", 0, <<"c">> >>,
     <<"br", "branch", "f", 0, <<"c">> >>, <<"nb", "unborn", "f", 0, None>>,
     <<"k", "const", "none", 0, None>>},
    None, None, "a" :> {"a"}, "any" :> "scalar")

\* The quotient of two numbers is the operand of a sum and of a call.
Sum == Program("sum",
    {<<"any", "function", "none", 0, None>>, <<"g", "function", "none", 0, None>>,
     <<"x", "call", "f", 0, None>>, <<"q", "div", "f", 0, <<"x", "k">> >>,
     <<"b", "bin", "f", 0, <<"q", "k">> >>, <<"p", "arg", "g", 0, None>>,
     <<"y", "call", "f", 0, <<"b", "k">> >>, <<"ret", "ret", "g", 0, <<"p">> >>,
     <<"p2", "arg", "g", 0, None>>, <<"k", "const", "none", 0, None>>},
    "y" :> "g", "g" :> <<"p", "p2">>, None, "any" :> "scalar")

\* A function whose second parameter is concrete, a comparison of its result as
\* an integer and a condition that stays one.
Transfer == Program("transfer",
    {<<"any", "function", "none", 0, None>>, <<"g", "function", "none", 0, None>>,
     <<"x", "call", "f", 0, None>>, <<"y", "call", "f", 0, <<"x", "k">> >>,
     <<"t", "cast", "f", 0, <<"y">> >>, <<"br", "branch", "f", 0, <<"t">> >>,
     <<"p", "arg", "g", 0, None>>, <<"p2", "arg", "g", 0, None>>,
     <<"b", "bin", "g", 0, <<"p", "p2">> >>, <<"d", "div", "g", 0, <<"b", "p">> >>,
     <<"ret", "ret", "g", 0, <<"b">> >>, <<"k", "const", "none", 0, None>>},
    "y" :> "g", "g" :> <<"p", "p2">>, None, "any" :> "scalar")

\* An abstract pointer, moved by an abstract and by a concrete index, is stored
\* to, loaded from and compared as an integer.
Indexed == Program("indexed",
    {<<"any", "function", "none", 0, None>>, <<"any2", "function", "none", 0, None>>,
     <<"r", "call", "f", 1, None>>, <<"r2", "call", "f", 0, None>>,
     <<"gep", "gep", "f", 1, <<"r", "r2">> >>, <<"gep2", "gep", "f", 1, <<"gep", "k">> >>,
     <<"s", "store", "f", 0, <<"r2", "gep2">> >>, <<"l", "load", "f", 0, <<"gep">> >>,
     <<"k", "const", "none", 0, None>>} \cup Unborn({"g1", "g2", "g3", "g4", "h1", "h3", "h4"}),
    None, None, ("gep2" :> {}) @@ ("h4" :> {}), ("any" :> "pointer") @@ ("any2" :> "scalar"))

\* Every well-typed program of an abstract value r, an object a for values of
\* its type, an object pp for pointers to them, and two instructions.
Shapes == {<<"phi", n, <<x, y>> >> : n \in 0 .. 2, x, y \in {"r", "a", "pp", "i", "j"}}
            \cup {<<"load", n, <<x>> >> : n \in 0 .. 2, x \in {"a", "pp", "i", "j"}}
            \cup {<<"store", 0, <<x, y>> >> : x, y \in {"r", "a", "pp", "i", "j"}}

Nest(x, i, j) == CASE x = "r" -> 0 [] x = "a" -> 1 [] x = "pp" -> 2
                   [] x = "i" -> i[2] [] x = "j" -> j[2]

WellTyped(s, i, j) ==
    LET n(k) == Nest(s[3][k], i, j)
    IN  CASE s[1] = "phi"   -> n(1) = s[2] /\ n(2) = s[2]
          [] s[1] = "load"  -> n(1) = s[2] + 1
          [] s[1] = "store" -> n(2) = n(1) + 1

Pieces(i, j) == Program("pieces",
    {<<"any", "function", "none", 0, None>>, <<"r", "call", "f", 0, None>>,
     <<"a", "alloca", "f", 1, None>>, <<"pp", "alloca", "f", 2, None>>,
     <<"s", "store", "f", 0, <<"a", "pp">> >>, <<"k", "const", "none", 0, None>>,
     <<"i", i[1], "f", i[2], i[3]>>, <<"j", j[1], "f", j[2], j[3]>>},
    None, None,
    [x \in {"a", "pp", "i", "j"} |->
        CASE Nest(x, i, j) = 1 -> {"a"} [] Nest(x, i, j) = 2 -> {"pp"} [] OTHER -> {}],
    "any" :> "scalar")

AllPieces == {Pieces(s[1], s[2]) : s \in {t \in Shapes \X Shapes :
                /\ t[1][1] # "store"      \* a store has no value of its own
                /\ t[2][1] = "store" => "j" \notin Range(t[1][3]) \cup Range(t[2][3])
                /\ WellTyped(t[1], t[1], t[2]) /\ WellTyped(t[2], t[1], t[2])}}

MCPrograms == {Loop, Calls, Memory, Pointers, Quotient, Transfer, Indexed} \cup AllPieces

SumProgram == {Sum}

ASSUME SupportableAssumption == \A p \in MCPrograms : Supportable(p)

-----------------------------------------------------------------------------
\* The same equations without a queue: every edge of every reached value at
\* once, until nothing changes.
Eager(f) == f @@ << >>      \* TLC evaluates the function once

EagerIR(p) == [p EXCEPT !.kind = Eager(@), !.ops = Eager(@)]

Analysed == stage = "dfa" /\ DfaDone

Whole(p) == FoldSet(LAMBDA f, q : EagerIR(Prepare(q, f)), p,
                    {p.fn[v] : v \in Values(p)} \ {"none"})

RECURSIVE LeastAbove(_, _)
LeastAbove(step(_), x) ==
    LET y == step(x) IN IF y = x THEN x ELSE LeastAbove(step, y)

Reference(p) ==
    LET base == Eager([v \in Values(p) |-> TypeOnion(p.nest[v])])
        start == [v \in Values(p) |->
            IF v \notin Roots(p) THEN base[v]
            ELSE IF RootKind(p, v) = "scalar" THEN MakeAbstract(base[v])
                 ELSE MakeAbstractPointer(base[v])]
        all == Eager([v \in Values(p) |-> Edges(p, v)])
        into(t, v) == {e \in UNION {all[w] : w \in {x \in Values(p) : t[x] # base[x]}} : e.to = v}
        round(t) == Eager([v \in Values(p) |->
            FoldSet(LAMBDA e, o : Joined(p, e, o, t[e.from]), t[v], into(t, v))])
    IN  LeastAbove(round, start)

\* What may hold an abstract value when the program runs: values and objects.
Pts(p, x) == IF x \in DOMAIN p.pts THEN p.pts[x] ELSE {}

Flow(p, S) ==
    LET stores == {s \in Values(p) : p.kind[s] = "store" /\ p.ops[s][1] \in S.values}
        passed(c) == {p.formals[p.callee[c]][i] : i \in {j \in DOMAIN p.ops[c] : p.ops[c][j] \in S.values}}
        moves == {v \in Values(p) : /\ p.kind[v] \in UniformKinds \ {"call", "arg", "alloca"}
                                    /\ Range(p.ops[v]) \cap S.values # {}}
        loads == {v \in Values(p) : /\ p.kind[v] = "load"
                                    /\ p.ops[v][1] \in S.values \/ Pts(p, p.ops[v][1]) \cap S.objects # {}}
        returns == {c \in DOMAIN p.callee : \E v \in Values(p) :
                       p.kind[v] = "ret" /\ p.fn[v] = p.callee[c] /\ p.ops[v][1] \in S.values}
    IN  [values  |-> S.values \cup moves \cup loads \cup returns
                       \cup UNION {passed(c) : c \in {d \in DOMAIN p.callee : ~Lamp(p, d)}},
         objects |-> S.objects \cup UNION {Pts(p, p.ops[s][2]) : s \in stores}]

MayHold(p) ==
    LET flow(S) == Flow(p, S)
    IN  LeastAbove(flow, [values |-> Roots(p), objects |-> {}]).values

-----------------------------------------------------------------------------
\* When the queue is empty the types are the least solution of the equations of
\* the whole program: neither the order of the edges (dfa.cpp:258-267) nor the
\* preprocessing of functions while edges wait (dfa.cpp:80-81) shows.
LeastFixpoint == Analysed =>
    LET solution == Reference(Whole(ir))
    IN  \A v \in Values(ir) : Get(types, v) = solution[v]

\* Whatever may hold an abstract value at run time has an abstract type, also
\* where it came through memory, calls or pointers (dfa.cpp:95-243).
FlowCovered == Analysed =>
    \A v \in MayHold(Whole(ir)) : v \in DOMAIN types /\ IsAbstract(types[v])

\* The queue drains and every loop of the driver ends (dfa.cpp:263-265,
\* 275-298, driver.cpp:52-120), unless the taint of a value leads around a cycle
\* of phis (shadow.cpp:110-150, 177-191).
Terminates == <>(Done \/ stage = "overflow")
=============================================================================
