------------------------------ MODULE Dataflow ------------------------------
(* The data-flow analysis of the compiler: from the calls that return      *)
(* abstract values, a queue of edges carries onions along uses, into       *)
(* functions and back, and through memory by the points-to sets. A         *)
(* function is preprocessed when the first of its values is pushed, while  *)
(* edges of others already wait in the queue.                              *)
(*                                                                         *)
(* A program is a record: kind, fn and ops give every value its kind, the  *)
(* function it is in and its operands, nest the pointers in its type;      *)
(* callee and formals describe calls, pts the points-to sets, gens the     *)
(* annotated functions with their kind.                                    *)
EXTENDS Onion, FiniteSets

CONSTANT Programs       \* the programs compiled

VARIABLES
    ir,         \* the program as it is now
    prepped,    \* functions tagged as preprocessed
    types,      \* the type map: values that were looked up, and their onions
    worklist,   \* the queue of edges
    toAdd,      \* roots not added yet, with their kinds
    failed      \* an edge of an unsupported kind was asked for

dfaVars == <<ir, prepped, types, worklist, toAdd, failed>>

Values(p) == DOMAIN p.kind

UniformKinds ==
    {"arg", "alloca", "cmp", "bin", "div", "gep", "phi", "cast", "noop", "call", "cexpr", "global"}

IgnoredKinds == {"branch", "const"}

\* What points-to sets have: allocations, also by calls, and globals.
Objects == {"alloca", "global", "function", "call"}

\* What the analysis relies on and LLVM and SVF provide: operands are of the
\* same function or global, calls have as many arguments as their callee has
\* parameters, and stores go where the points-to sets say. The values that the
\* preprocessing makes are there from the start, as "unborn".
WellFormed(p) ==
    /\ {"kind", "fn", "ops", "nest", "callee", "formals", "pts", "lamp", "lowered", "newbr"} \subseteq DOMAIN p
    /\ IsFiniteSet(Values(p))
    /\ DOMAIN p.fn = Values(p) /\ DOMAIN p.ops = Values(p) /\ DOMAIN p.nest = Values(p)
    /\ \A v \in Values(p) :
          /\ p.nest[v] \in Nat /\ p.ops[v] \in Seq(Values(p))
          /\ \A o \in Range(p.ops[v]) : p.fn[o] \in {p.fn[v], "none"}
          /\ p.kind[v] = "cmp" => p.nest[v] = 0
          /\ p.kind[v] = "select" => Len(p.ops[v]) = 3
          /\ p.kind[v] = "store" => /\ Len(p.ops[v]) = 2 /\ p.ops[v][2] \in DOMAIN p.pts
                                    /\ p.kind[p.ops[v][2]] # "cmp"
          /\ p.kind[v] = "ret" => p.fn[v] \in Values(p) /\ p.kind[p.fn[v]] = "function"
          /\ p.kind[v] \in {"cmp", "select"} => v \in DOMAIN p.newbr
    /\ \A c \in DOMAIN p.callee :
          /\ c \in Values(p) /\ p.kind[c] = "call"
          /\ p.callee[c] \notin p.lamp => /\ p.callee[c] \in DOMAIN p.formals
                                         /\ Len(p.ops[c]) <= Len(p.formals[p.callee[c]])
    /\ \A g \in DOMAIN p.formals : p.formals[g] \in Seq({v \in Values(p) : p.kind[v] = "arg"})
    /\ \A x \in DOMAIN p.pts : p.pts[x] \subseteq {v \in Values(p) : p.kind[v] \in Objects}
    /\ p.lowered \in Values(p) /\ p.kind[p.lowered] = "const" /\ p.fn[p.lowered] = "none"
    /\ \A b \in DOMAIN p.newbr \cap Values(p) : p.newbr[b] \in Values(p) =>
          p.kind[p.newbr[b]] \in {"unborn", "branch"} /\ p.fn[p.newbr[b]] = p.fn[b]

ASSUME ProgramsAssumption == \A p \in Programs : WellFormed(p)

\* No edge leads to a function's lamp counterpart or an intrinsic.
Lamp(p, c) == p.callee[c] \in p.lamp

Users(p, v) == {u \in Values(p) : \E i \in DOMAIN p.ops[u] : p.ops[u][i] = v}

\* What S reaches by next, a function from the values to sets of values.
Closure(p, S, next) ==
    LET up[n \in 0 .. Cardinality(Values(p))] ==
            IF n = 0 THEN S ELSE UNION {{v} \cup next[v] : v \in up[n - 1]}
    IN  up[Cardinality(Values(p))]

\* gather_roots: the calls that annotated functions reach through casts.
CastsOf(p, g) ==
    Closure(p, {g}, [v \in Values(p) |-> {c \in Users(p, v) : p.kind[c] \in {"cast", "noop", "cexpr"}}])

RootsOf(p, g) == {c \in Values(p) : /\ p.kind[c] = "call"
                                    /\ (Range(p.ops[c]) \cup {p.callee[c]}) \cap CastsOf(p, g) # {}}

Roots(p) == UNION {RootsOf(p, g) : g \in DOMAIN p.gens}

RootKind(p, c) == p.gens[CHOOSE g \in DOMAIN p.gens : c \in RootsOf(p, g)]

Edge(l, r, t) == [from |-> l, to |-> r, ty |-> t]

InducedEdges(p, l, r) ==
    CASE p.kind[r] \in UniformKinds -> {Edge(l, r, "uniform")}
      [] p.kind[r] = "load"  -> {Edge(l, r, "load")}
      [] p.kind[r] = "store" -> {Edge(l, o, "store") :
                                   o \in IF p.ops[r][1] = l THEN p.pts[p.ops[r][2]] ELSE {}}
      [] p.kind[r] = "ret"   -> {Edge(l, p.fn[r], "uniform")}
      [] OTHER               -> {}

EdgesWithoutReturns(p, v) == UNION {InducedEdges(p, v, u) : u \in Users(p, v)}

\* The edges of the uses of v: call arguments lead to formal parameters and a
\* function to its calls.
Edges(p, v) ==
    (UNION {InducedEdges(p, v, u) : u \in {w \in Users(p, v) : p.kind[w] # "call"}})
      \cup {Edge(v, c, "uniform") : c \in {d \in DOMAIN p.callee : p.callee[d] = v}}
      \cup UNION {{Edge(v, p.formals[p.callee[c]][i], "uniform") :
                      i \in {j \in DOMAIN p.ops[c] : p.ops[c][j] = v}} :
                  c \in {d \in DOMAIN p.callee : ~Lamp(p, d) /\ v \in Range(p.ops[d])}}

Unsupported(p, v) ==
    \E u \in Users(p, v) :
        p.kind[u] \notin UniformKinds \cup IgnoredKinds \cup {"load", "store", "ret", "intrinsic"}

\* The set S of values turns into kind k with the operands f gives; every one
\* of B branches on a condition of its own.
Rewrite(p, S, k, f(_), B, cond(_)) ==
    [p EXCEPT !.kind = [v \in Values(p) |->
                           IF v \in S THEN k ELSE IF \E b \in B : p.newbr[b] = v
                           THEN "branch" ELSE @[v]],
              !.ops  = [v \in Values(p) |->
                           IF \E b \in B : p.newbr[b] = v
                           THEN <<cond(CHOOSE b \in B : p.newbr[b] = v)>> ELSE f(v)]]

\* A select becomes a branch on its condition and a phi of its two values.
LowerSelects(p, f) ==
    LET S == {v \in Values(p) : p.fn[v] = f /\ p.kind[v] = "select"}
        rest(v) == IF v \in S THEN Tail(p.ops[v]) ELSE p.ops[v]
        cond(b) == p.ops[b][1]
    IN  Rewrite(p, S, "phi", rest, S, cond)

\* A comparison with a user other than a branch is branched on, and its users
\* take a phi of constants instead.
LowerCmps(p, f) ==
    LET C == {c \in Values(p) : /\ p.fn[c] = f /\ p.kind[c] = "cmp"
                                /\ \E u \in Users(p, c) : p.kind[u] # "branch"}
        cut(v) == [i \in DOMAIN p.ops[v] |->
                      IF p.ops[v][i] \in C THEN p.lowered ELSE p.ops[v][i]]
        self(b) == b
    IN  Rewrite(p, {}, "phi", cut, C, self)

PrepareSelects(p, f) == LowerSelects(p, f)

PrepareCmps(p, f) == LowerCmps(p, f)

Prepare(p, f) == LowerCmps(LowerSelects(p, f), f)

GetFlat(t, v) == IF v \in DOMAIN t THEN t[v] ELSE TypeOnion(0)

Get(t, v) == IF v \in DOMAIN t THEN t[v] ELSE TypeOnion(ir.nest[v])

Set(t, v, o) == [w \in DOMAIN t \cup {v} |-> IF w = v THEN o ELSE t[w]]

TypesAdd(v, k) ==
    Set(types, v, IF k = "scalar" THEN MakeAbstract(Get(types, v))
                                  ELSE MakeAbstractPointer(Get(types, v)))

\* The edges of v are those from before the preprocessing.
PushUnprepared(v, rest) ==
    LET f == ir.fn[v]
        p == IF f \in prepped \cup {"none"} THEN ir ELSE Prepare(ir, f)
    IN  /\ ir' = p
        /\ prepped' = prepped \cup ({f} \ {"none"})
        /\ failed' = (failed \/ Unsupported(p, v))
        /\ \E s \in SetToSeqs(Edges(ir, v)) : worklist' = rest \o s

\* Preprocess the function of v, then append the edges of its uses. Use lists
\* have no order to rely on.
Push(v, rest) ==
    LET f == ir.fn[v]
        p == IF f \in prepped \cup {"none"} THEN ir ELSE Prepare(ir, f)
    IN  /\ ir' = p
        /\ prepped' = prepped \cup ({f} \ {"none"})
        /\ failed' = (failed \/ Unsupported(p, v))
        /\ \E s \in SetToSeqs(Edges(p, v)) : worklist' = rest \o s

DfaInit ==
    /\ ir \in Programs
    /\ prepped = {}
    /\ types = << >>
    /\ worklist = << >>
    /\ toAdd = {[call |-> c, kind |-> RootKind(ir, c)] : c \in Roots(ir)}
    /\ failed = FALSE

\* run_from: every root gets its type and pushes its edges.
AddRoot(r) ==
    /\ types' = TypesAdd(r.call, r.kind)
    /\ toAdd' = toAdd \ {r}
    /\ Push(r.call, worklist)

Joined(p, e, to, from) ==
    CASE e.ty = "load"  -> OnionJoin(to, Peel(from))
      [] e.ty = "store" -> OnionJoin(to, Wrap(from))
      [] p.kind[e.to] = "cmp" -> <<LayerJoin(Last(to), Last(from))>>
      [] OTHER -> OnionJoin(to, from)

\* process: an edge whose target's type changes pushes the edges of the target.
Process ==
    /\ toAdd = {} /\ worklist # << >> /\ ~failed
    /\ LET e == Head(worklist)
           joined == Joined(ir, e, Get(types, e.to), Get(types, e.from))
       IN  /\ types' = Set(Set(types, e.from, Get(types, e.from)), e.to, joined)
           /\ IF joined # Get(types, e.to)
              THEN Push(e.to, Tail(worklist))
              ELSE /\ worklist' = Tail(worklist)
                   /\ UNCHANGED <<ir, prepped, failed>>
    /\ UNCHANGED toAdd

DfaDone == toAdd = {} /\ worklist = << >> /\ ~failed

DfaNext == (\E r \in toAdd : AddRoot(r)) \/ Process

DfaSpec == DfaInit /\ [][DfaNext]_dfaVars /\ WF_dfaVars(DfaNext)

-----------------------------------------------------------------------------
\* Below the value itself there are pointers (dfa.hpp:140, "assert(
\* back().pointer != tristate( false ) )").
Onions == {o \in Seq(Layers) : o # << >> /\ \A i \in 2 .. Len(o) : o[i].pointer # "no"}

\* Only values of the program are in the type map, with at most the pointers of
\* their LLVM types, and an edge in the queue leaves a value that is there
\* (dfa.cpp:69-93, dfa.hpp:71-213).
DfaTypeOK ==
    /\ DOMAIN types \subseteq Values(ir)
    /\ \A v \in DOMAIN types : types[v] \in Onions /\ Len(types[v]) <= ir.nest[v] + 1
    /\ \A i \in DOMAIN worklist : worklist[i].from \in DOMAIN types
    /\ \A r \in toAdd : r.call \in Values(ir)
    /\ failed \in BOOLEAN

\* The values the analysis has found something about.
Changed == {v \in DOMAIN types : types[v] # TypeOnion(ir.nest[v])}

\* Whatever a value with a type of its own leads to has heard of that type, or
\* will: the edge is still in the queue, or joining along it adds nothing. No
\* edge is forgotten when functions are preprocessed while others wait
\* (dfa.cpp:75-86, 270-300).
Saturated == ~failed =>
    \A v \in Changed : \A e \in Edges(ir, v) :
        e \in Range(worklist) \/ Joined(ir, e, Get(types, e.to), types[v]) = Get(types, e.to)

\* Every user of a value has a kind the analysis has a rule for, selects among
\* them once they are lowered with the rest of their function. What a select of
\* globals does is not known in time: a global may be pushed before its users'
\* functions are preprocessed.
Supportable(p) == \A u \in Values(p) : p.ops[u] # << >> =>
    /\ p.kind[u] \in UniformKinds \cup IgnoredKinds \cup {"load", "store", "ret", "intrinsic", "select"}
    /\ p.kind[u] = "select" => \A o \in Range(p.ops[u]) : p.fn[o] = "none" => p.kind[o] = "const"

\* No edge to a user the analysis has no rule for is asked for: selects are gone
\* before edges are made (dfa.cpp:195-243, preprocess.cpp:33-46).
EdgesSupported == ~failed
=============================================================================
