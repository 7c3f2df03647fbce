------------------------------ MODULE Relational ------------------------------
(* A program that calls one lamp library, beside the concrete run it       *)
(* stands for. Every abstract value is a node that remembers the operation *)
(* it came from and its operands; assuming a condition propagates what it  *)
(* says back to the operands. Choices fork the process: forks    *)
(* keeps those that have branched as the concrete run did.                 *)
EXTENDS LampDomain

CONSTANTS
    DomainSet,      \* the libraries the program may be linked with
    Ops,            \* the operations programs use, for every library
    Ranges,         \* the pairs of __lamp_any_range
    Lifted,         \* the concrete numbers that meet abstract ones
    MaxNodes,       \* how many values a program makes
    MaxBranches,    \* how often it branches
    Strict          \* only calls the library answers soundly are made

\* Operations are those of lamp, and the numbers of a program fit its width.
ASSUME ProgramAssumption ==
    /\ DomainSet \subseteq Domains
    /\ Ops \in [Domains -> SUBSET (Arith \cup Compares \cup Casts)]
    /\ Lifted \subseteq 0 .. 2 ^ Width - 1
    /\ Ranges \subseteq (0 .. 2 ^ Width - 1) \X (0 .. 2 ^ Width - 1)

VARIABLES
    domain,     \* the library
    dag,        \* the nodes: operation, operands, width
    con,        \* the numbers of the concrete run
    forks,      \* stores: the values of the nodes, what the solver assumes, and how it ended
    pending,    \* the comparison that is branched on next, or 0
    branches    \* the conditions branched on so far

relVars == <<domain, dag, con, forks, pending, branches>>

Nodes == DOMAIN dag

\* A value is tagged with the operation that made it, and keeps its operands.
Tagged(op, kids, w) == [op |-> op, kids |-> kids, w |-> w]

Leaf(op) == Tagged(op, << >>, Width)
BinOnResult(op, a, b, w) == Tagged(op, <<a, Len(dag) + 1>>, w)

Bin(op, a, b, w) == Tagged(op, <<a, b>>, w)
CastOf(op, a, w) == Tagged(op, <<a>>, w)

Leaves == {"any", "lift"}

OnlyLeaves == \A n \in Nodes : dag[n].op \in Leaves

Unknowns == Cardinality({n \in Nodes : dag[n].op = "any"})

Going == {s \in forks : s.out = "ok"}

\* Fork s after a call that had the outcome o.
Answered(s, o) == IF o.how = "ok" THEN [s EXCEPT !.val = Append(@, o.val)] ELSE End(s, o.how)

\* One call of every fork: answer[ s ] is the set of outcomes for a new node. A
\* truth value is branched on before the next call, values from outside come
\* first: with the branches elsewhere the forks are the same.
Make(node, x, answer) ==
    /\ pending = 0 /\ Len(dag) < MaxNodes
    /\ node.op \in Leaves => OnlyLeaves
    /\ dag' = Append(dag, node)
    /\ con' = Append(con, x)
    /\ forks' = (forks \ Going) \cup UNION {{Answered(s, o) : o \in answer[s]} : s \in Going}
    /\ pending' = IF node.op \in Compares \/ node.w = 1 THEN Len(dag) + 1 ELSE 0
    /\ UNCHANGED <<domain, branches>>

\* The arguments of a lift or of a range are unsigned; intervals and signs are
\* of integers.
Fits(x) == domain \in {"interval", "sign"} => Signed(x, Width) = x

\* relational::any and history::any
AnyUnbounded ==
    /\ Unknowns < MaxAny
    /\ \E x \in 0 .. 2 ^ Width - 1 :
          Make(Leaf("any"), x, [s \in Going |-> DomAny(domain, Unknowns + 1)])

AnyRange ==
    /\ Unknowns < MaxAny
    /\ \E r \in Ranges : \E x \in r[1] .. r[2] :
          /\ Strict => Fits(r[2])
          /\ Make(Leaf("any"), x, [s \in Going |-> DomRange(domain, r[1], r[2])])

AnyOneOf ==
    /\ Unknowns < MaxAny
    /\ \E r \in Ranges : \E i \in {1, 2} :
          /\ Strict => Fits(r[1]) /\ Fits(r[2])
          /\ Make(Leaf("any"), r[i], [s \in Going |-> DomOneOf(domain, r)])

Lift ==
    \E x \in Lifted :
        /\ Strict => Fits(x)
        /\ Make(Leaf("lift"), x, [s \in Going |-> DomLift(domain, x, Width)])

-----------------------------------------------------------------------------
\* The calls whose answers are sound. The domains of integers do not know the
\* width of numbers, so nothing may overflow; see README for the others.
NoOverflow(op, x, y, w) ==
    LET s(z) == Signed(z, w)
    IN  CASE op = "add" -> Signed(x + y, w) = s(x) + s(y)
          [] op = "sub" -> Signed(x - y, w) = s(x) - s(y)
          [] op = "mul" -> Signed(x * y, w) = s(x) * s(y)
          [] op \in {"ult", "ule", "ugt", "uge", "udiv", "urem"} -> s(x) >= 0 /\ s(y) >= 0
          [] OTHER -> TRUE

Bounded(n) == \A s \in Going : ~Infinite(s.val[n])

IsLifted(n) == dag[n].op = "lift"

SoundInterval(op, a, b) ==
    /\ op \in {"add", "sub", "mul"} => a # b /\ Bounded(a) /\ Bounded(b)
    /\ op = "mul" => \A s \in Going : ~IvMeaning(s.val[a], 0) /\ ~IvMeaning(s.val[b], 0)
    /\ op \in {"eq", "ne"} => IsLifted(a) \/ IsLifted(b)
    /\ op \in Compares => Bounded(a) \/ Bounded(b)
    /\ op \notin Divisions \cup Bits \cup Shifts \cup {"zext", "trunc"}

\* A != or > that comes true deletes its left operand.
SoundSign(op, a, b) == op \in {"ne", "sgt"} => RawOp(op, con[a], con[b], dag[a].w) = 0

Sound(op, a, b) ==
    CASE domain = "interval" -> NoOverflow(op, con[a], con[b], dag[a].w) /\ SoundInterval(op, a, b)
      [] domain = "sign" -> NoOverflow(op, con[a], con[b], dag[a].w) /\ SoundSign(op, a, b)
      [] domain = "zero" -> op # "mul"
      [] domain \in {"constant", "trivial"} -> op \notin {"zext", "sext", "zfit"}
      [] OTHER -> TRUE

\* history::bin: the operands become the children of the result.
Operate ==
    \E op \in Ops[domain] \ Casts, a, b \in Nodes :
        LET w == dag[a].w
        IN  /\ dag[b].w = w /\ w # 1
            /\ {dag[a].op, dag[b].op} = {"lift"} => domain \in {"constant", "trivial"}
            /\ Defined(op, con[a], con[b], w)
            /\ Strict => Sound(op, a, b)
            /\ Make(Bin(op, a, b, IF op \in Compares THEN 1 ELSE w),
                    IF op \in Compares THEN RawOp(op, con[a], con[b], w) ELSE MachineOp(op, con[a], con[b], w),
                    [s \in Going |-> DomOp(domain, op, s.val[a], s.val[b], w)])

\* history::cast
Cast ==
    \E op \in Ops[domain] \cap Casts, a \in Nodes, v \in {1, Width, 2 * Width} :
        LET w == dag[a].w
        IN  /\ IF op = "trunc" THEN v < w ELSE w < v
            /\ w # 1 /\ (IsLifted(a) => domain \in {"constant", "trivial"})
            /\ Strict => Sound(op, a, a)
            /\ Make(CastOf(op, a, v), MachineCast(op, con[a], w, v),
                    [s \in Going |-> DomCast(domain, op, s.val[a], w, v)])

-----------------------------------------------------------------------------
\* backward_propagate visits a value before its children, left to right, and
\* a value once for every way that leads to it.
Preorder ==
    LET visit[n \in Nodes] ==
            LET child(i) == IF i \in DOMAIN dag[n].kids THEN visit[dag[n].kids[i]] ELSE << >>
            IN  <<n>> \o child(1) \o child(2)
    IN  visit

\* A backward operation a domain does not have is reported and does nothing.
Reported(s) == {s}

\* The operands are read before the left one is deleted.
DeleteLeft(s, k) ==
    IF Freed \in {s.val[k[1]], s.val[k[2]]} THEN End(s, "wild") ELSE Put(s, k[1], Freed)

DomainBack(op, s, r, k) ==
    CASE domain = "interval" -> IntervalBack(op, s, r, k[1], Last(k))
      [] domain = "sign" /\ SignDeletes(op, s.val[r]) -> {DeleteLeft(s, k)}
      [] OTHER -> Reported(s)

\* The tag's own backward operations do nothing.
TagBack(s) == {s}

\* product: the operation runs on the value, then on the tag.
ProductBack(op, s, r, k) == Then(DomainBack(op, s, r, k), TagBack)

BackwardStep(s, n) ==
    IF dag[n].op \in Leaves THEN {s} ELSE ProductBack(dag[n].op, s, n, dag[n].kids)

BackwardAll(S, n) == Then(S, LAMBDA s : BackwardStep(s, n))

\* The forks after the first k of these values were visited.
Walk(S, order) ==
    LET after[k \in 0 .. Len(order)] == IF k = 0 THEN S ELSE BackwardAll(after[k - 1], order[k])
    IN  after

BackwardPropagate(S, n) == Walk(S, Preorder[n])[Len(Preorder[n])]

Chosen(s, n, V) == {Put(s, n, v) : v \in V}

TermAssume(s, n, c) ==
    LET left == {m \in s.solver : s.val[n][m] = Truth(c)}
    IN  IF left = {} THEN {} ELSE {[s EXCEPT !.solver = left]}

\* What the value itself learns.
AssumeValue(s, n, c) ==
    CASE domain = "interval" -> Chosen(s, n, IntervalAssume(s.val[n], c))
      [] domain = "sign" -> {Put(s, n, SignAssume(s.val[n], c))}
      [] domain = "zero" -> Chosen(s, n, ZeroAssume(s.val[n], c))
      [] domain = "constant" \/ (domain = "trivial" /\ s.val[n].dom = "constant") ->
            Chosen(s, n, ConstantAssume(s.val[n], c))
      [] domain = "term" -> TermAssume(s, n, c)
      [] OTHER -> {s}

\* relational::assume
Assume(s, n, c) ==
    IF domain \in Relational THEN BackwardPropagate(AssumeValue(s, n, c), n) ELSE AssumeValue(s, n, c)

\* __lamp_to_bool, the program's branch, and __lamp_assume in the block it leads to.
Branch ==
    LET n == pending
        c == con[n] = 1
        goesOn(s) ==
            LET t == DomTristate(domain, s.val[n])
            IN  IF t = "fail" THEN {End(s, "trap")}
                ELSE IF c \in TriLower(t) THEN Assume(s, n, c) ELSE {}
    IN  /\ pending # 0 /\ Len(branches) < MaxBranches
        /\ forks' = (forks \ Going) \cup UNION {goesOn(s) : s \in Going}
        /\ branches' = Append(branches, n)
        /\ pending' = 0
        /\ UNCHANGED <<domain, dag, con>>

RelInit ==
    /\ domain \in DomainSet
    /\ dag = << >> /\ con = << >> /\ branches = << >> /\ pending = 0
    /\ forks = {[val |-> << >>, out |-> "ok",
                 solver |-> IF domain = "term" THEN Worlds ELSE {}]}

RelNext == AnyUnbounded \/ AnyRange \/ AnyOneOf \/ Lift \/ Operate \/ Cast \/ Branch

RelSpec == RelInit /\ [][RelNext]_relVars

-----------------------------------------------------------------------------
\* Operands come before their results, every fork has made every value, and a
\* comparison waits for its branch (history.hpp:31-98, wrapper.hpp:316-331).
RelTypeOK ==
    /\ domain \in Domains
    /\ \A n \in Nodes : /\ dag[n].w \in {1, Width, 2 * Width}
                        /\ \A i \in DOMAIN dag[n].kids : dag[n].kids[i] \in 1 .. n - 1
                        /\ con[n] \in 0 .. 2 ^ dag[n].w - 1
    /\ \A s \in Going : Len(s.val) = Len(dag)
    /\ \A s \in forks : s.out \in {"ok", "trap", "wild", "stuck"} /\ s.solver \subseteq Worlds
    /\ pending \in Nodes \cup {0} /\ Range(branches) \subseteq Nodes

\* A fork stands for the concrete run: every value means the number it stands
\* for, under one choice of the unknowns for terms.
StandsFor(s) ==
    IF domain = "term"
    THEN \E m \in s.solver : \A n \in Nodes : s.val[n][m] = con[n]
    ELSE \A n \in Nodes : DomMeaning(domain, s.val[n], con[n], dag[n].w)

\* The concrete run is not lost: some fork stands for it and has all its values,
\* or one failed in the open. Operations, the splits of backward operations and the paths they
\* cancel add up (relational.hpp:84-203, interval.hpp:196-404).
Covered == \E s \in forks : s.out = "trap" \/ (s.out = "ok" /\ StandsFor(s))

\* No choice is asked for without a value to choose: __lart_choose would not
\* return (interval.hpp:205-285, 330-374; choose.cpp:47).
ChoicesInRange == \A s \in forks : s.out # "stuck"

\* What a branch teaches removes possibilities, of every value, and adds none,
\* and deletes none (relational.hpp:84-203).
Narrower(v, old, w) ==
    /\ domain = "sign" /\ v = Freed => old = Freed
    /\ \A x \in 0 .. 2 ^ w - 1 : DomMeaning(domain, v, x, w) => DomMeaning(domain, old, x, w)

Narrows ==
    \A t \in Going' : \E s \in Going :
        /\ t.solver \subseteq s.solver
        /\ domain # "term" => \A n \in Nodes : Narrower(t.val[n], s.val[n], dag[n].w)

Narrowing == [][branches' # branches => Narrows]_relVars

\* Once intervals are compared, no pair of numbers a fork still allows would
\* have branched otherwise, unless the intervals overlap too much to be split;
\* no later branch undoes it (interval.hpp:330-386).
SplitsDecide == domain = "interval" =>
    \A s \in Going, c \in {n \in Range(branches) : Len(dag[n].kids) = 2} :
        LET a == s.val[dag[c].kids[1]]
            b == s.val[dag[c].kids[2]]
            near(i) == {x \in -(2 ^ Width) .. 2 ^ Width : IvMeaning(i, x)}
        IN  IvSize(IvMeet(a, b)) <= ChooseBound =>
                \A x \in near(a), y \in near(b) : RawOp(dag[c].op, x, y, 2 * Width) = con[c]
=============================================================================
