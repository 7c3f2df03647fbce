----------------------------- MODULE Instrument -----------------------------
(* The compiler after the data-flow analysis: pointer arithmetic becomes   *)
(* integer arithmetic, calls, parameters and divisions get an unstash,     *)
(* values a taint, and operations an intrinsic that decides at run time    *)
(* between the concrete operation and the domain's. The types are visited  *)
(* in the order of a hash table, so an operation may be lifted before the  *)
(* ones its operands come from: the operand is then a placeholder until    *)
(* they are.                                                               *)
EXTENDS Dataflow

VARIABLES
    stage,          \* the loop of the driver that runs
    todo,           \* what the loop has not visited
    abstract,       \* the abstract value of a concrete one: the intrinsic that makes it
    identity,       \* from a value to the last cast of it that changes nothing
    shadows,        \* the taint of a value: the sources it is the disjunction of
    intrs,          \* the intrinsics, with their operands
    redirected      \* uses of a value that were given the result of its intrinsic

insVars == <<stage, todo, abstract, identity, shadows, intrs, redirected>>
compileVars == <<ir, prepped, types, worklist, toAdd, failed, insVars>>

Null == << >>

With(f, v, x) == [w \in DOMAIN f \cup {v} |-> IF w = v THEN x ELSE f[w]]

Typed(v, test(_)) == v \in DOMAIN types /\ test(types[v])

\* The value used there is not the result of an intrinsic, which has no type.
Original(u, i) == <<u, "inst", 0, i>> \notin redirected

Operand(u, i, test(_)) == Original(u, i) /\ Typed(ir.ops[u][i], test)

AbstractContent(o) == IsAbstract(Peel(o))

Faultable(v) == ir.kind[v] = "div"

-----------------------------------------------------------------------------
\* What LLVM provides, too: instructions have the operands of their kind, those
\* of a gep are a base and an index, parameters are those of functions and calls
\* have a callee.
Arity == [bin |-> 2, div |-> 2, cmp |-> 2, gep |-> 2, store |-> 2, load |-> 1, cast |-> 1, noop |-> 1,
          branch |-> 1]

Operated(p) == \A v \in Values(p) :
    /\ p.kind[v] \in DOMAIN Arity => DOMAIN p.ops[v] = 1 .. Arity[p.kind[v]]
    /\ p.kind[v] = "arg" => \E f \in DOMAIN p.formals : v \in Range(p.formals[f])
    /\ p.kind[v] = "call" => v \in DOMAIN p.callee
    /\ p.kind[v] # "erased"

\* lower_pointer_arithmetic: a pointer is cast to an integer, a scaled index
\* added, and the sum cast back; newgep names the instructions, the scaling is
\* left out for bytes and the sum for a zero index. They are there from the
\* start, as "unborn".
Lowerable(p) == \A g \in Values(p) : p.kind[g] = "gep" =>
    /\ g \in DOMAIN p.newgep
    /\ {"int", "ptr"} \subseteq DOMAIN p.newgep[g] /\ DOMAIN p.newgep[g] \subseteq {"int", "scale", "sum", "ptr"}
    /\ \A v \in Range(p.newgep[g]) : /\ v \in Values(p) /\ p.kind[v] = "unborn"
                                     /\ \A b \in DOMAIN p.newbr : p.newbr[b] # v

ASSUME GepsAssumption == \A p \in Programs : Operated(p) /\ "newgep" \in DOMAIN p /\ Lowerable(p)

GepOps(p, g) ==
    LET n     == p.newgep[g]
        index == IF "scale" \in DOMAIN n THEN n.scale ELSE p.ops[g][2]
        last  == IF "sum" \in DOMAIN n THEN n.sum ELSE n.int
    IN  [role \in DOMAIN n |->
            CASE role = "int"   -> <<p.ops[g][1]>>
              [] role = "scale" -> <<p.ops[g][2], p.lowered>>
              [] role = "sum"   -> <<n.int, index>>
              [] role = "ptr"   -> <<last>>]

NewValues(p, G) == UNION {Range(p.newgep[g]) : g \in G}

\* The geps in G make way for their instructions.
LoweredGeps(p, G) ==
    LET new == NewValues(p, G)
        gep == [v \in new |-> CHOOSE g \in G : v \in Range(p.newgep[g])]
        role == [v \in new |-> CHOOSE r \in DOMAIN p.newgep[gep[v]] : p.newgep[gep[v]][r] = v]
        use(v) == IF v \in G THEN p.newgep[v].ptr ELSE v
        ops(v) == IF v \in new THEN GepOps(p, gep[v])[role[v]] ELSE p.ops[v]
    IN  [p EXCEPT
            !.kind = [v \in Values(p) |->
                         IF v \in G THEN "erased" ELSE IF v \notin new THEN @[v]
                         ELSE IF role[v] \in {"int", "ptr"} THEN "noop" ELSE "bin"],
            !.ops = [v \in Values(p) |->
                        IF v \in G THEN << >> ELSE [i \in DOMAIN ops(v) |-> use(ops(v)[i])]]]

\* The new instructions take the type of what they stand for, and a scaled index
\* that of the index, if it has one.
GepType(p, g, v) ==
    IF "scale" \in DOMAIN p.newgep[g] /\ v = p.newgep[g].scale THEN types[p.ops[g][2]] ELSE types[g]

GepTyped(p, g) ==
    {v \in Range(p.newgep[g]) :
        "scale" \in DOMAIN p.newgep[g] /\ v = p.newgep[g].scale => p.ops[g][2] \in DOMAIN types}

LowerGeps ==
    LET geps == {g \in DOMAIN types : ir.kind[g] = "gep"}
        gep(v) == CHOOSE g \in geps : v \in GepTyped(ir, g)
    IN  /\ stage = "dfa" /\ DfaDone
        /\ ir' = LoweredGeps(ir, geps)
        /\ types' = [v \in (DOMAIN types \ geps) \cup UNION {GepTyped(ir, g) : g \in geps} |->
                        IF v \in DOMAIN types THEN types[v] ELSE GepType(ir, gep(v), v)]
        /\ stage' = "unstash"
        /\ UNCHANGED <<prepped, worklist, toAdd, failed, todo, abstract, identity, shadows, intrs, redirected>>

-----------------------------------------------------------------------------
UnstashedCalls ==
    {c \in DOMAIN ir.callee : Typed(c, MaybeAbstract)} \cup {v \in DOMAIN types : Faultable(v)}

\* unstash_toprocess: every parameter of a function with an abstract one, calls
\* and divisions. What they unstash is their abstract value and their taint.
Unstashed ==
    (UNION {Range(ir.formals[f]) : f \in {g \in DOMAIN ir.formals :
              \E i \in DOMAIN ir.formals[g] : Typed(ir.formals[g][i], MaybeAbstract)}})
      \cup {c \in DOMAIN ir.callee : Typed(c, MaybeAbstract)}
      \cup {v \in DOMAIN types : Faultable(v)}

Unstash ==
    /\ stage = "unstash"
    /\ abstract' = [v \in Unstashed |-> <<v, "unstash", 0>>]
    /\ shadows' = [v \in Unstashed |-> {v}]
    /\ stage' = "shadows"
    /\ UNCHANGED <<dfaVars, todo, identity, intrs, redirected>>

\* A melting load tests the taint of its bytes; other values forward the taints
\* of their operands. Loads through abstract pointers have none yet.
Melting(v) == /\ ir.kind[v] = "load" /\ ~Typed(ir.ops[v][1], IsAbstractPointer)
              /\ Typed(v, IsAbstract)

ForwardKinds == {"bin", "div", "cmp", "cast", "noop", "phi", "gep", "call"}

ForwardedStraight(v) ==
    IF ir.kind[v] \in ForwardKinds \ {"phi"} /\ v \notin DOMAIN shadows THEN Range(ir.ops[v]) \cap Values(ir) ELSE {}

Forwarded(v) == IF ir.kind[v] \in ForwardKinds /\ v \notin DOMAIN shadows
                THEN Range(ir.ops[v]) \cap Values(ir) ELSE {}

Reached(S) == Closure(ir, S, [v \in Values(ir) |-> Forwarded(v)])

\* The taint of a value is remembered once it is made: on the way around a cycle
\* of phis it never is.
Diverges == \E v \in Reached({w \in DOMAIN types : Typed(w, IsAbstract)}) : v \in Reached(Forwarded(v))

Shadows ==
    /\ stage = "shadows"
    /\ IF Diverges THEN stage' = "overflow" /\ UNCHANGED <<shadows, todo>>
       ELSE /\ shadows' = [v \in DOMAIN shadows \cup Reached({w \in DOMAIN types : Typed(w, IsAbstract)}) |->
                              Reached({v}) \cap (DOMAIN shadows \cup {l \in Values(ir) : Melting(l)})]
            /\ todo' = DOMAIN types
            /\ stage' = "types"
    /\ UNCHANGED <<dfaVars, abstract, identity, intrs, redirected>>

Shadow(v) == IF v \in DOMAIN shadows THEN shadows[v] ELSE {}

-----------------------------------------------------------------------------
\* make_operation
Operation(v) ==
    CASE ir.kind[v] = "load"  -> IF Operand(v, 1, IsAbstractPointer) THEN "load"
                                 ELSE IF Typed(v, IsAbstract) THEN "melt" ELSE "none"
      [] ir.kind[v] = "store" -> IF Operand(v, 2, IsAbstractPointer) THEN "store"
                                 ELSE IF Operand(v, 1, IsAbstract) \/ Operand(v, 2, AbstractContent)
                                 THEN "freeze" ELSE "none"
      [] ir.kind[v] \in {"bin", "div"} -> "binary"
      [] ir.kind[v] \in {"cmp", "cast"} -> ir.kind[v]
      [] ir.kind[v] = "noop" -> "identity"
      [] ir.kind[v] = "alloca" /\ Typed(v, IsAbstractPointer) -> "alloca"
      [] OTHER -> "none"     \* a phi has no intrinsic

\* The operands an operation passes with their taint.
Arguments == [melt |-> << >>, alloca |-> << >>, freeze |-> <<1>>, binary |-> <<1, 2>>, cmp |-> <<1, 2>>,
              cast |-> <<1>>, load |-> <<1>>, store |-> <<2, 1>>, tobool |-> <<1>>, assume |-> <<1>>]

\* Operations that test taints and fall back to the concrete one.
TestsTaint == {"melt", "alloca", "binary", "cmp", "cast", "load", "store", "tobool", "assume"}

ReturnsValue == {"melt", "alloca", "binary", "cmp", "cast", "load"}

\* An operand is linked to its abstract value, or a placeholder until there is one.
Argument(c) ==
    [con |-> c, taint |-> Shadow(c), abs |-> IF c \in DOMAIN abstract THEN abstract[c] ELSE Null]

Intrinsic(v, op) ==
    [args |-> [k \in DOMAIN Arguments[op] |-> Argument(ir.ops[v][Arguments[op][k]])],
     test |-> IF op = "melt" THEN Shadow(v) ELSE {}]

\* Uses of results of intrinsics, by the intrinsic id of op on v.
Passed(v, op, id) ==
    {Append(id, k) : k \in {j \in DOMAIN Arguments[op] : ~Original(v, Arguments[op][j])}}

\* propagate_identity: a cast of an abstract value has the same abstract value,
\* and so on down the casts of the cast.
ChainOnce(idn, v) == {v} \cup IF v \in DOMAIN idn THEN {idn[v]} ELSE {}

Chain(idn, v) ==
    Closure(ir, {v}, [u \in Values(ir) |-> IF u \in DOMAIN idn THEN {idn[u]} ELSE {}])

\* update_places: what waited for one of S gets x.
Placed(is, S, x) ==
    [id \in DOMAIN is |-> [is[id] EXCEPT !.args = [k \in DOMAIN @ |->
        IF @[k].abs = Null /\ @[k].con \in S THEN [@[k] EXCEPT !.abs = x] ELSE @[k]]]]

BecomeUnplaced(is, idn, v, x) ==
    /\ abstract' = [w \in DOMAIN abstract \cup Chain(idn, v) |-> IF w \in Chain(idn, v) THEN x ELSE abstract[w]]
    /\ intrs' = Placed(is, {v}, x)

Become(is, idn, v, x) ==
    LET S == Chain(idn, v)
    IN  /\ abstract' = [w \in DOMAIN abstract \cup S |-> IF w \in S THEN x ELSE abstract[w]]
        /\ intrs' = Placed(is, S, x)

\* The uses of v, by instructions and by intrinsics.
At(v, ops) == {i \in DOMAIN ops : ops[i] = v}

Uses(v) ==
    (UNION {{<<u, "inst", 0, i>> : i \in At(v, ir.ops[u])} : u \in Values(ir)})
      \cup UNION {{Append(id, i) : i \in {j \in DOMAIN intrs[id].args : intrs[id].args[j].con = v}} :
                  id \in DOMAIN intrs}

\* The loop over the uses follows the list a use was just moved to: one use that
\* is not the intrinsic's own gets its result, the others keep the old value.
Replace(v, more) ==
    LET old == Uses(v) \ redirected
    IN  IF old = {} THEN redirected' = redirected \cup more
        ELSE \E u \in old : redirected' = redirected \cup more \cup {u}

RememberSource(src, c) == With(identity, c, src)

Remember(src, c) == With(identity, src, c)

\* process, for a value of the type map.
ProcessIdentity(v) ==
    LET src == ir.ops[v][1]
        idn == Remember(src, v)
    IN  /\ Operation(v) = "identity"
        /\ identity' = idn
        /\ IF src \in DOMAIN abstract THEN Become(intrs, idn, src, abstract[src])
           ELSE UNCHANGED <<abstract, intrs>>
        /\ UNCHANGED redirected

\* An operation that may fault keeps what it unstashes.
BecomesAlways(v) == TRUE

BecomesResult(v) == ~Faultable(v)

ProcessValue(v) ==
    LET op == Operation(v)
        id == <<v, op, 0>>
        is == With(intrs, id, Intrinsic(v, op))
    IN  /\ op \in ReturnsValue
        /\ IF BecomesResult(v) THEN Become(is, identity, v, id) ELSE intrs' = is /\ UNCHANGED abstract
        /\ IF Faultable(v) THEN Replace(v, Passed(v, op, id))
           ELSE redirected' = redirected \cup Passed(v, op, id)
        /\ UNCHANGED identity

ProcessType(v) ==
    /\ stage = "types" /\ v \in todo
    /\ todo' = todo \ {v}
    /\ \/ ProcessIdentity(v)
       \/ ProcessValue(v)
       \/ Operation(v) = "none" /\ UNCHANGED <<abstract, identity, intrs, redirected>>
    /\ UNCHANGED <<dfaVars, stage, shadows>>

\* The next loop starts when one has visited everything.
Enter(from, to, S) ==
    /\ stage = from /\ todo = {}
    /\ stage' = to /\ todo' = S
    /\ UNCHANGED <<dfaVars, abstract, identity, shadows, intrs, redirected>>

Stores == Enter("types", "stores", {s \in Values(ir) : ir.kind[s] = "store" /\ Operand(s, 2, MaybeAbstract)})

ProcessStore(s) ==
    LET op == Operation(s)
    IN  /\ stage = "stores" /\ s \in todo
        /\ todo' = todo \ {s}
        /\ IF op = "none" THEN UNCHANGED <<intrs, redirected>>
           ELSE /\ intrs' = With(intrs, <<s, op, 0>>, Intrinsic(s, op))
                /\ redirected' = redirected \cup Passed(s, op, <<s, op, 0>>)
        /\ UNCHANGED <<dfaVars, stage, abstract, identity, shadows>>

Branches == Enter("stores", "branches", {b \in Values(ir) : ir.kind[b] = "branch"})

\* The condition is assumed on either edge.
Assumed(is, b) ==
    With(With(is, <<b, "assume", 0>>, Intrinsic(b, "assume")), <<b, "assume", 1>>, Intrinsic(b, "assume"))

\* It is lowered before the branch; all three are of the condition that stood
\* there before it was replaced.
ProcessBranch(b) ==
    LET c == ir.ops[b][1]
        is == Assumed(With(intrs, <<b, "tobool", 0>>, Intrinsic(b, "tobool")), b)
    IN  /\ stage = "branches" /\ b \in todo
        /\ todo' = todo \ {b}
        /\ IF Operand(b, 1, MaybeAbstract)
           THEN intrs' = is /\ Replace(c, {})
           ELSE UNCHANGED <<intrs, redirected>>
        /\ UNCHANGED <<dfaVars, stage, abstract, identity, shadows>>

\* Calls with an abstract argument stash them all, returns an abstract value.
Stashing ==
    {c \in DOMAIN ir.callee : ~Lamp(ir, c) /\ \E i \in DOMAIN ir.ops[c] : Operand(c, i, MaybeAbstract)}
      \cup {r \in Values(ir) : ir.kind[r] = "ret" /\ Operand(r, 1, MaybeAbstract)}

Transfers ==
    LET stashes == UNION {{<<c, "stash", i>> : i \in DOMAIN ir.ops[c]} : c \in Stashing}
    IN  /\ stage = "branches" /\ todo = {}
        /\ intrs' = [id \in DOMAIN intrs \cup stashes |->
                        IF id \in DOMAIN intrs THEN intrs[id]
                        ELSE [args |-> <<Argument(ir.ops[id[1]][id[3]])>>, test |-> {}]]
        /\ redirected' = redirected \cup {Append(s, 1) : s \in {t \in stashes : ~Original(t[1], t[3])}}
        /\ stage' = "lower"
        /\ UNCHANGED <<dfaVars, todo, abstract, identity, shadows>>

\* Intrinsics become functions of the module or calls of the runtime; then the
\* divisions they replace are erased.
Lower ==
    /\ stage = "lower"
    /\ stage' = "done"
    /\ ir' = [ir EXCEPT !.kind = [v \in Values(ir) |-> IF <<v, "binary", 0>> \in DOMAIN intrs /\ Faultable(v)
                                                       THEN "erased" ELSE @[v]]]
    /\ UNCHANGED <<prepped, types, worklist, toAdd, failed, todo, abstract, identity, shadows, intrs, redirected>>

CompileInit ==
    /\ DfaInit
    /\ stage = "dfa" /\ todo = {} /\ redirected = {}
    /\ abstract = << >> /\ identity = << >> /\ shadows = << >> /\ intrs = << >>

CompileNext ==
    \/ DfaNext /\ UNCHANGED insVars
    \/ LowerGeps \/ Unstash \/ Shadows
    \/ \E v \in Values(ir) : ProcessType(v) \/ ProcessStore(v) \/ ProcessBranch(v)
    \/ Stores \/ Branches \/ Transfers \/ Lower

CompileSpec == CompileInit /\ [][CompileNext]_compileVars /\ WF_compileVars(CompileNext)

-----------------------------------------------------------------------------
\* At run time a set T of the sources of taint is tainted. The function an
\* intrinsic calls takes the abstract path when one of its taints is set.
Sources == UNION Range(shadows)

TakesAbstractPath(id, T) ==
    (intrs[id].test \cup UNION {a.taint : a \in Range(intrs[id].args)}) \cap T # {}

\* An intrinsic returns an abstract value on its abstract path, else null.
Present(abs, T) ==
    abs # Null /\ IF abs[2] = "unstash" THEN abs[1] \in T ELSE TakesAbstractPath(abs, T)

\* What the operation of the domain gets for an operand: lifters wrap those
\* that are not tainted, unless there is only one; freeze and stash have none.
Receives(id, k, T) ==
    LET a == intrs[id].args[k]
    IN  CASE a.taint \cap T = {} /\ Len(intrs[id].args) > 1 -> "wrapped"
          [] Present(a.abs, T) -> "abstract"
          [] OTHER -> "null"

-----------------------------------------------------------------------------
\* Abstract values, taints and intrinsics are of values of the program, and
\* what an operand was linked to exists.
CompileTypeOK ==
    /\ stage \in {"dfa", "unstash", "shadows", "overflow", "types", "stores", "branches", "lower", "done"}
    /\ todo \subseteq Values(ir)
    /\ \A v \in DOMAIN identity : ir.kind[identity[v]] = "noop"
    /\ DOMAIN abstract \cup DOMAIN shadows \cup Sources \subseteq Values(ir)
    /\ \A v \in DOMAIN abstract : abstract[v][2] = "unstash" \/ abstract[v] \in DOMAIN intrs
    /\ \A id \in DOMAIN intrs : \A a \in Range(intrs[id].args) :
          a.taint \subseteq Sources /\ (a.abs = Null \/ a.abs \in Range(abstract))

\* No operand keeps a placeholder while its value has an abstract value, in
\* whatever order the values were visited, and a cast of an abstract value that
\* changes nothing is the same abstract value (syntactic.cpp:251-313).
PlaceholdersFilled ==
    /\ \A id \in DOMAIN intrs : \A k \in DOMAIN intrs[id].args :
          LET a == intrs[id].args[k]
          IN  a.abs = IF a.con \in DOMAIN abstract THEN abstract[a.con] ELSE Null
    /\ \A v \in DOMAIN identity \cap DOMAIN abstract :
          identity[v] \in DOMAIN abstract /\ abstract[identity[v]] = abstract[v]

\* What was linked to an operand is not made again: a value keeps the abstract
\* value it got first, "assert( !abstract.count(dst) )" (syntactic.cpp:236, 322).
AbstractOnce ==
    [][\A v \in DOMAIN abstract : v \in DOMAIN abstract' /\ abstract'[v] = abstract[v]]_compileVars

Done == stage = "done"

\* Where v gets its value from: operands through instructions of kinds K.
Origins(v, K) ==
    Closure(ir, {v}, [w \in Values(ir) |-> IF ir.kind[w] \in K THEN Range(ir.ops[w]) ELSE {}])

\* The sources whose abstract value may be in v.
Carries(v) ==
    {w \in Origins(v, {"bin", "cmp", "cast", "noop", "phi"}) :
        /\ Typed(w, IsAbstract)
        /\ \/ ir.kind[w] \in {"arg", "call", "div", "erased"}
           \/ ir.kind[w] = "load" /\ ~Typed(ir.ops[w][1], IsAbstractPointer)}

\* A load through an abstract pointer has no taint in the code (a TODO at
\* shadow.cpp:198-201), and neither has what is computed from it.
FromAbstractLoad(v) ==
    \E l \in Origins(v, ForwardKinds) : ir.kind[l] = "load" /\ Typed(ir.ops[l][1], IsAbstractPointer)

\* Taints were made in time (driver.cpp:68, "generate unstash before shadow
\* pass"): the taint passed for an operand is set when any abstract value that
\* may be in it is there, through parameters, divisions, casts and phis.
TaintsFollow == Done =>
    \A id \in DOMAIN intrs : \A a \in Range(intrs[id].args) :
        Typed(a.con, IsAbstract) /\ ~FromAbstractLoad(a.con)
            => {w \in a.taint : Typed(w, IsAbstract)} = Carries(a.con)

\* The part of it that makes the result sound: no operation takes the concrete
\* path although an operand may be abstract (shadow.cpp:110-214). It is claimed
\* of operands that come from abstract loads, too.
TaintsComplete == Done =>
    \A id \in DOMAIN intrs : \A a \in Range(intrs[id].args) :
        Typed(a.con, IsAbstract) => Carries(a.con) \subseteq a.taint

\* Phis have no abstract value in the code (syntactic.cpp:288-313), and of two
\* casts of one value the identity map keeps one (syntactic.cpp:283).
Unlinked(v) ==
    \E w \in Origins(v, {"noop"}) :
        \/ ir.kind[w] = "phi"
        \/ ir.kind[w] = "noop" /\ identity[ir.ops[w][1]] # w

\* Values without an abstract type are never tainted; a division that has an
\* intrinsic is when its intrinsic took the abstract path.
Valuations ==
    {T \in SUBSET {w \in Sources : Typed(w, IsAbstract)} :
        \A d \in Sources : ir.kind[d] = "erased" => (d \in T <=> TakesAbstractPath(<<d, "binary", 0>>, T))}

\* In whatever order the values were visited, and whatever is tainted, an
\* operation of the domain gets an abstract value for each of its operands, and
\* freeze and stash get one exactly when there is one (syntactic.cpp:251-356).
OperandsLinked == Done =>
    \A T \in Valuations : \A id \in DOMAIN intrs : \A k \in DOMAIN intrs[id].args :
        LET v == intrs[id].args[k].con
        IN  Unlinked(v) \/ FromAbstractLoad(v) \/
            IF id[2] \in TestsTaint
            THEN TakesAbstractPath(id, T) => Receives(id, k, T) # "null"
            ELSE Receives(id, k, T) = "abstract" <=> Carries(v) \cap T # {}

\* A branch on an abstract condition takes the direction its tobool decided, and
\* no other user of the condition was given that decision in its place
\* (preprocess.cpp:83-119, operation.hpp:397-402, syntactic.cpp:361-367).
BranchesDecided == Done =>
    \A b \in {x \in Values(ir) : ir.kind[x] = "branch"} :
        Typed(ir.ops[b][1], IsAbstract) => <<b, "tobool", 0>> \in DOMAIN intrs /\ ~Original(b, 1)

\* An erased division has no use left: all of them got the result of its
\* intrinsic, "use result of intrinsic instead of concrete value"
\* (syntactic.cpp:358-367, driver.cpp:116-120).
NoDanglingUse == Done =>
    \A d \in {v \in DOMAIN types : ir.kind[v] = "erased"} : Uses(d) \subseteq redirected
=============================================================================
