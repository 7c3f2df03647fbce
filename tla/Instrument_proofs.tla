-------------------------- MODULE Instrument_proofs --------------------------
(***************************************************************************)
(* Proofs about the compiler behind the data-flow analysis, for any        *)
(* program: types, and that the operands of intrinsics are linked to the   *)
(* abstract values of what they stand for, in whatever order the values    *)
(* are visited.                                                            *)
(***************************************************************************)
EXTENDS Instrument, Dataflow_proofs, WellFoundedInduction

(***************************************************************************)
(* What a set reaches.                                                     *)
(***************************************************************************)

\* A set of numbers that is not empty has a least element.
LEMMA LeastNumber ==
  ASSUME NEW S \in SUBSET Nat, S # {}
  PROVE  \E m \in S : \A n \in S : m <= n
<1>1. \E m \in S : \A n \in S : <<n, m>> \notin OpToRel(<, Nat)
  BY NatLessThanWellFounded, WFMin
<1>2. \A m, n \in Nat : <<n, m>> \notin OpToRel(<, Nat) => m <= n
  BY DEF OpToRel
<1> QED
  BY <1>1, <1>2

\* A set that has 0 and with every number below top the next one has them all.
LEMMA Climb ==
  ASSUME NEW top \in Nat, NEW S, 0 \in S,
         \A n \in 0 .. top - 1 : n \in S => n + 1 \in S
  PROVE  0 .. top \subseteq S
<1> DEFINE Missing == (0 .. top) \ S
<1> SUFFICES ASSUME Missing # {} PROVE FALSE
  OBVIOUS
<1>1. PICK m \in Missing : \A n \in Missing : m <= n
  <2>1. Missing \in SUBSET Nat
    OBVIOUS
  <2> HIDE DEF Missing
  <2> QED
    BY <2>1, LeastNumber
<1>2. m # 0 /\ m - 1 \in 0 .. top - 1 /\ m \notin S
  BY <1>1
<1>3. m - 1 \in S
  BY <1>1, <1>2
<1> QED
  BY <1>2, <1>3

\* What is reached in one step or none.
Further(next, T) == UNION {{v} \cup next[v] : v \in T}

\* The equations of the recursive function in Closure.
Rounds(f, N, S, next) ==
  f = [n \in 0 .. N |-> IF n = 0 THEN S ELSE Further(next, f[n - 1])]

\* They have a solution: every round looks at the one before.
LEMMA RoundsExist ==
  ASSUME NEW N \in Nat, NEW S, NEW next
  PROVE  \E f : Rounds(f, N, S, next)
<1> DEFINE T == {m \in 0 .. N : \E f : Rounds(f, m, S, next)}
<1>1. 0 \in T
  <2> DEFINE f == [n \in 0 .. 0 |-> S]
  <2>1. Rounds(f, 0, S, next)
    BY DEF Rounds
  <2> HIDE DEF f
  <2> QED
    BY <2>1
<1>2. ASSUME NEW m \in 0 .. N - 1, m \in T
      PROVE  m + 1 \in T
  <2>1. PICK f : Rounds(f, m, S, next)
    BY <1>2
  <2> DEFINE g == [n \in 0 .. m + 1 |-> IF n = m + 1 THEN Further(next, f[m]) ELSE f[n]]
  <2>2. \A n \in 0 .. m : f[n] = IF n = 0 THEN S ELSE Further(next, f[n - 1])
    BY <2>1 DEF Rounds
  <2>3. m \in Nat
    OBVIOUS
  <2>4. ASSUME NEW n \in 0 .. m + 1
        PROVE  g[n] = IF n = 0 THEN S ELSE Further(next, g[n - 1])
    <3>1. CASE n = m + 1
      <4>1. g[n] = Further(next, f[m]) /\ g[n - 1] = f[m] /\ n # 0
        BY <2>3, <3>1
      <4> QED
        BY <4>1
    <3>2. CASE n # m + 1
      <4>1. n \in 0 .. m /\ g[n] = f[n]
        BY <2>3, <3>2
      <4>2. n # 0 => g[n - 1] = f[n - 1]
        BY <2>3, <4>1
      <4> HIDE DEF g
      <4> QED
        BY <2>2, <4>1, <4>2
    <3> QED
      BY <3>1, <3>2
  <2>5. g = [n \in 0 .. m + 1 |-> g[n]]
    OBVIOUS
  <2> HIDE DEF g
  <2>6. Rounds(g, m + 1, S, next)
    BY <2>4, <2>5 DEF Rounds
  <2> QED
    BY <2>6
<1>3. N \in T
  <2>1. N \in 0 .. N
    OBVIOUS
  <2> HIDE DEF T
  <2> QED
    BY <1>1, <1>2, <2>1, Climb
<1> QED
  BY <1>3

\* Steps lead from values to values, of which there are finitely many.
Steps(p, S, next) ==
  IsFiniteSet(Values(p)) /\ S \in SUBSET Values(p) /\ next \in [Values(p) -> SUBSET Values(p)]

\* The rounds of Closure: it starts with S and adds in every round what is next.
LEMMA ClosureRounds ==
  ASSUME NEW p, NEW S, NEW next, Steps(p, S, next)
  PROVE  \E f : /\ Closure(p, S, next) = f[Cardinality(Values(p))]
                /\ Cardinality(Values(p)) \in Nat /\ f[0] = S
                /\ \A n \in 0 .. Cardinality(Values(p)) : f[n] \subseteq Values(p)
                /\ \A n \in 0 .. Cardinality(Values(p)) - 1 : f[n + 1] = Further(next, f[n])
<1> DEFINE N == Cardinality(Values(p))
           c == CHOOSE f : Rounds(f, N, S, next)
<1>0. IsFiniteSet(Values(p)) /\ S \in SUBSET Values(p) /\ next \in [Values(p) -> SUBSET Values(p)]
  BY DEF Steps
<1>1. N \in Nat
  BY <1>0, FS_CardinalityType
<1> HIDE DEF N
<1>2. Rounds(c, N, S, next)
  BY <1>1, RoundsExist
<1>3. Closure(p, S, next) = c[N]
  BY DEF Closure, Rounds, Further, N
<1> HIDE DEF c
<1>4. \A n \in 0 .. N : c[n] = IF n = 0 THEN S ELSE Further(next, c[n - 1])
  BY <1>2 DEF Rounds
<1>5. c[0] = S
  BY <1>1, <1>4
<1>6. \A n \in 0 .. N - 1 : c[n + 1] = Further(next, c[n])
  <2> SUFFICES ASSUME NEW n \in 0 .. N - 1
               PROVE  c[n + 1] = Further(next, c[n])
    OBVIOUS
  <2>1. n + 1 \in 0 .. N /\ n + 1 # 0 /\ (n + 1) - 1 = n
    BY <1>1
  <2> QED
    BY <1>4, <2>1
<1>7. \A n \in 0 .. N : c[n] \subseteq Values(p)
  <2> DEFINE T == {n \in 0 .. N : c[n] \subseteq Values(p)}
  <2>1. 0 \in T
    BY <1>0, <1>1, <1>5
  <2>2. ASSUME NEW n \in 0 .. N - 1, n \in T
        PROVE  n + 1 \in T
    <3>1. n + 1 \in 0 .. N
      BY <1>1
    <3>2. Further(next, c[n]) \subseteq Values(p)
      BY <1>0, <2>2 DEF Further
    <3> QED
      BY <1>6, <3>1, <3>2
  <2> HIDE DEF T
  <2>3. 0 .. N \subseteq T
    BY <1>1, <2>1, <2>2, Climb
  <2> QED
    BY <2>3 DEF T
<1> QED
  BY <1>1, <1>3, <1>5, <1>6, <1>7 DEF N

\* It stays in any set that has S and what is next.
LEMMA ClosureWithin ==
  ASSUME NEW p, NEW S, NEW next, Steps(p, S, next),
         NEW T, S \subseteq T, \A v \in T \cap Values(p) : next[v] \subseteq T
  PROVE  Closure(p, S, next) \subseteq T
<1>1. PICK f : /\ Closure(p, S, next) = f[Cardinality(Values(p))]
               /\ Cardinality(Values(p)) \in Nat /\ f[0] = S
               /\ \A n \in 0 .. Cardinality(Values(p)) : f[n] \subseteq Values(p)
               /\ \A n \in 0 .. Cardinality(Values(p)) - 1 : f[n + 1] = Further(next, f[n])
  BY ClosureRounds
<1> DEFINE N == Cardinality(Values(p))
           R == {n \in 0 .. N : f[n] \subseteq T}
<1>2. 0 \in R
  BY <1>1
<1>3. ASSUME NEW n \in 0 .. N - 1, n \in R
      PROVE  n + 1 \in R
  <2>1. n \in 0 .. N /\ n + 1 \in 0 .. N
    BY <1>1
  <2>2. Further(next, f[n]) \subseteq T
    BY <1>1, <1>3, <2>1 DEF Further
  <2> QED
    BY <1>1, <2>1, <2>2
<1>4. N \in R
  <2>1. N \in Nat /\ N \in 0 .. N
    BY <1>1
  <2> HIDE DEF N, R
  <2> QED
    BY <1>2, <1>3, <2>1, Climb
<1> QED
  BY <1>1, <1>4

\* It has S, is made of values, and has what is next to its members. All of them
\* but those of S are next to one.
LEMMA ClosureIs ==
  ASSUME NEW p, NEW S, NEW next, Steps(p, S, next)
  PROVE  /\ S \subseteq Closure(p, S, next) /\ Closure(p, S, next) \subseteq Values(p)
         /\ \A v \in Closure(p, S, next) : next[v] \subseteq Closure(p, S, next)
         /\ \A w \in Closure(p, S, next) \ S : \E v \in Closure(p, S, next) : w \in next[v]
<1>0. IsFiniteSet(Values(p)) /\ S \in SUBSET Values(p) /\ next \in [Values(p) -> SUBSET Values(p)]
  BY DEF Steps
<1>1. PICK f : /\ Closure(p, S, next) = f[Cardinality(Values(p))]
               /\ Cardinality(Values(p)) \in Nat /\ f[0] = S
               /\ \A n \in 0 .. Cardinality(Values(p)) : f[n] \subseteq Values(p)
               /\ \A n \in 0 .. Cardinality(Values(p)) - 1 : f[n + 1] = Further(next, f[n])
  BY ClosureRounds
<1> DEFINE N == Cardinality(Values(p))
           R == {n \in 0 .. N : S \subseteq f[n] /\ \A w \in f[n] \ S : \E v \in f[n] : w \in next[v]}
           Q == {n \in 0 .. N : Further(next, f[n]) = f[n] \/ Cardinality(f[n]) >= n + 1}
<1>2. N \in Nat /\ N \in 0 .. N
  BY <1>1
<1>3. 0 \in R /\ 0 \in Q
  <2>1. 0 \in R
    BY <1>1
  <2>2. CASE S = {}
    BY <1>1, <2>2 DEF Further
  <2>3. CASE S # {}
    <3>1. IsFiniteSet(S) /\ Cardinality(S) \in Nat
      BY <1>0, FS_Subset, FS_CardinalityType
    <3>2. Cardinality(S) # 0
      BY <2>3, <3>1, FS_EmptySet
    <3>3. Cardinality(f[0]) >= 0 + 1
      BY <1>1, <3>1, <3>2
    <3> QED
      BY <2>1, <1>2, <3>3
  <2> QED
    BY <2>1, <2>2, <2>3
<1>4. ASSUME NEW n \in 0 .. N - 1
      PROVE  (n \in R => n + 1 \in R) /\ (n \in Q => n + 1 \in Q)
  <2>1. n \in 0 .. N /\ n + 1 \in 0 .. N /\ n \in Nat
    BY <1>2
  <2>2. f[n + 1] = Further(next, f[n]) /\ f[n] \subseteq f[n + 1]
    BY <1>1 DEF Further
  <2>3. n \in R => n + 1 \in R
    <3> SUFFICES ASSUME n \in R
                 PROVE  S \subseteq f[n + 1] /\ \A w \in f[n + 1] \ S : \E v \in f[n + 1] : w \in next[v]
      BY <2>1
    <3> QED
      BY <2>2 DEF Further
  <2>4. n \in Q => n + 1 \in Q
    <3>1. CASE Further(next, f[n]) = f[n]
      BY <2>1, <2>2, <3>1
    <3>2. CASE Further(next, f[n]) # f[n] /\ n \in Q
      <4>1. f[n] \subseteq f[n + 1] /\ f[n] # f[n + 1] /\ f[n + 1] \subseteq Values(p)
        BY <1>1, <2>1, <2>2, <3>2
      <4>2. IsFiniteSet(f[n + 1]) /\ IsFiniteSet(f[n])
        BY <1>0, <4>1, FS_Subset
      <4>3. Cardinality(f[n + 1]) \in Nat /\ Cardinality(f[n]) \in Nat /\ Cardinality(f[n]) < Cardinality(f[n + 1])
        BY <4>1, <4>2, FS_Subset, FS_CardinalityType
      <4>4. Cardinality(f[n]) >= n + 1
        BY <3>2
      <4>5. Cardinality(f[n + 1]) >= (n + 1) + 1
        BY <2>1, <4>3, <4>4
      <4> QED
        BY <2>1, <4>5
    <3> QED
      BY <3>1, <3>2
  <2> QED
    BY <2>3, <2>4
<1>5. N \in R /\ N \in Q
  <2> HIDE DEF N, R, Q
  <2>1. 0 .. N \subseteq R
    BY <1>2, <1>3, <1>4, Climb
  <2>2. 0 .. N \subseteq Q
    BY <1>2, <1>3, <1>4, Climb
  <2> QED
    BY <1>2, <2>1, <2>2
<1>6. Further(next, f[N]) = f[N]
  <2>1. f[N] \subseteq Values(p)
    BY <1>1, <1>2
  <2>2. Cardinality(f[N]) \in Nat /\ Cardinality(f[N]) <= N
    BY <1>0, <2>1, FS_Subset, FS_CardinalityType
  <2> QED
    BY <1>2, <1>5, <2>2
<1>7. \A v \in f[N] : next[v] \subseteq f[N]
  BY <1>6 DEF Further
<1> QED
  BY <1>1, <1>2, <1>5, <1>7

(***************************************************************************)
(* The program.                                                            *)
(***************************************************************************)

\* Values keep their kinds and the number of their operands, but for selects and
\* for the branches that are made.
Prepared(p, q) ==
  /\ SameBut(p, q) /\ "newgep" \in DOMAIN q /\ q.newgep = p.newgep
  /\ \A u \in Values(p) :
       \/ q.kind[u] = p.kind[u] /\ DOMAIN q.ops[u] = DOMAIN p.ops[u]
       \/ p.kind[u] = "select" /\ q.kind[u] = "phi"
       \/ /\ p.kind[u] \in {"unborn", "branch"} /\ q.kind[u] = "branch" /\ DOMAIN q.ops[u] = 1 .. 1
          /\ \E b \in DOMAIN p.newbr : p.newbr[b] = u

\* Then instructions for pointer arithmetic stay there to be used.
LEMMA LowerableKept ==
  ASSUME NEW p, Operated(p), Lowerable(p), NEW q, Prepared(p, q)
  PROVE  Operated(q) /\ Lowerable(q) /\ "newgep" \in DOMAIN q
<1>1. /\ Values(q) = Values(p) /\ q.newbr = p.newbr /\ "newgep" \in DOMAIN q /\ q.newgep = p.newgep
      /\ q.callee = p.callee /\ q.formals = p.formals
  BY DEF Prepared, SameBut
<1>2. ASSUME NEW v \in Values(p)
      PROVE  \/ q.kind[v] = p.kind[v] /\ DOMAIN q.ops[v] = DOMAIN p.ops[v]
             \/ p.kind[v] = "select" /\ q.kind[v] = "phi"
             \/ /\ p.kind[v] \in {"unborn", "branch"} /\ q.kind[v] = "branch" /\ DOMAIN q.ops[v] = 1 .. 1
                /\ \E b \in DOMAIN p.newbr : p.newbr[b] = v
  BY DEF Prepared
<1>3. Operated(q)
  <2> SUFFICES ASSUME NEW v \in Values(p)
               PROVE  /\ q.kind[v] \in DOMAIN Arity => DOMAIN q.ops[v] = 1 .. Arity[q.kind[v]]
                      /\ q.kind[v] = "arg" => \E f \in DOMAIN q.formals : v \in Range(q.formals[f])
                      /\ q.kind[v] = "call" => v \in DOMAIN q.callee
                      /\ q.kind[v] # "erased"
    BY <1>1 DEF Operated
  <2>1. CASE q.kind[v] = p.kind[v] /\ DOMAIN q.ops[v] = DOMAIN p.ops[v]
    BY <1>1, <2>1 DEF Operated
  <2>2. CASE q.kind[v] = "phi"
    BY <2>2 DEF Arity
  <2>3. CASE q.kind[v] = "branch" /\ DOMAIN q.ops[v] = 1 .. 1
    <3>1. Arity["branch"] = 1
      BY DEF Arity
    <3> QED
      BY <2>3, <3>1
  <2> QED
    BY <1>2, <2>1, <2>2, <2>3
<1>4. \A v \in Values(q) : q.kind[v] = "gep" => p.kind[v] = "gep"
  BY <1>1, <1>2
<1>5. \A v \in Values(p) :
        p.kind[v] = "unborn" /\ (\A b \in DOMAIN p.newbr : p.newbr[b] # v) => q.kind[v] = "unborn"
  BY <1>2
<1>6. ASSUME NEW g \in Values(q), q.kind[g] = "gep"
      PROVE  /\ g \in DOMAIN q.newgep
             /\ {"int", "ptr"} \subseteq DOMAIN q.newgep[g]
             /\ DOMAIN q.newgep[g] \subseteq {"int", "scale", "sum", "ptr"}
             /\ \A v \in Range(q.newgep[g]) : /\ v \in Values(q) /\ q.kind[v] = "unborn"
                                              /\ \A b \in DOMAIN q.newbr : q.newbr[b] # v
  <2>1. g \in Values(p) /\ p.kind[g] = "gep"
    BY <1>1, <1>4, <1>6
  <2>2. /\ g \in DOMAIN p.newgep
        /\ {"int", "ptr"} \subseteq DOMAIN p.newgep[g]
        /\ DOMAIN p.newgep[g] \subseteq {"int", "scale", "sum", "ptr"}
        /\ \A v \in Range(p.newgep[g]) : /\ v \in Values(p) /\ p.kind[v] = "unborn"
                                         /\ \A b \in DOMAIN p.newbr : p.newbr[b] # v
    BY <2>1 DEF Lowerable
  <2> QED
    BY <1>1, <1>5, <2>2
<1>7. Lowerable(q)
  BY <1>6 DEF Lowerable
<1> QED
  BY <1>1, <1>3, <1>7

\* The preprocessing keeps them.
LEMMA PrepareLowerable ==
  ASSUME NEW p, WellFormed(p), Operated(p), Lowerable(p), "newgep" \in DOMAIN p, NEW f
  PROVE  LET q == Prepare(p, f) IN Operated(q) /\ Lowerable(q) /\ "newgep" \in DOMAIN q
<1> DEFINE m == LowerSelects(p, f)
           q == LowerCmps(m, f)
           S == {v \in Values(p) : p.fn[v] = f /\ p.kind[v] = "select"}
           C == {c \in Values(m) : /\ m.fn[c] = f /\ m.kind[c] = "cmp"
                                   /\ \E u \in Users(m, c) : m.kind[u] # "branch"}
           cut(u) == [i \in DOMAIN m.ops[u] |->
                        IF m.ops[u][i] \in C THEN m.lowered ELSE m.ops[u][i]]
<1>1. WellFormed(m) /\ SameBut(p, m)
  BY SelectsKeep
<1>2. m.newgep = p.newgep /\ \A u \in S : m.kind[u] = "phi"
  BY SelectsLowered
<1>3. \A u \in Values(p) \ S :
        \/ m.kind[u] = p.kind[u] /\ m.ops[u] = p.ops[u]
        \/ /\ p.kind[u] \in {"unborn", "branch"} /\ m.kind[u] = "branch"
           /\ \E b \in S : p.newbr[b] = u /\ m.ops[u] = <<p.ops[b][1]>>
  BY SelectsLowered
<1>4. \A b \in S : b \in DOMAIN p.newbr /\ p.kind[b] = "select"
  BY DEF WellFormed
<1>5. DOMAIN m = DOMAIN p /\ Values(m) = Values(p)
  BY <1>1 DEF SameBut
<1> HIDE DEF m, S
<1>6. ASSUME NEW u \in Values(p)
      PROVE  \/ m.kind[u] = p.kind[u] /\ DOMAIN m.ops[u] = DOMAIN p.ops[u]
             \/ p.kind[u] = "select" /\ m.kind[u] = "phi"
             \/ /\ p.kind[u] \in {"unborn", "branch"} /\ m.kind[u] = "branch" /\ DOMAIN m.ops[u] = 1 .. 1
                /\ \E b \in DOMAIN p.newbr : p.newbr[b] = u
  BY <1>2, <1>3, <1>4
<1>7. Prepared(p, m)
  BY <1>1, <1>2, <1>5, <1>6 DEF Prepared
<1>8. Operated(m) /\ Lowerable(m) /\ "newgep" \in DOMAIN m
  BY <1>7, LowerableKept
<1>9. SameBut(m, q)
  BY <1>1, CmpsKeep
<1>10. q.newgep = m.newgep
  BY <1>1, <1>8, CmpsLowered
<1>11. \A u \in Values(m) :
        \/ q.kind[u] = m.kind[u] /\ q.ops[u] = cut(u)
        \/ /\ m.kind[u] \in {"unborn", "branch"} /\ q.kind[u] = "branch"
           /\ \E b \in C : m.newbr[b] = u /\ q.ops[u] = <<b>>
  BY <1>1, CmpsLowered
<1>12. \A u \in Values(m) : DOMAIN cut(u) = DOMAIN m.ops[u]
  OBVIOUS
<1>13. \A b \in C : b \in DOMAIN m.newbr
  BY <1>1 DEF WellFormed
<1>14. DOMAIN q = DOMAIN m
  BY <1>9 DEF SameBut
<1> HIDE DEF q, C, cut
<1>15. ASSUME NEW u \in Values(m)
       PROVE  \/ q.kind[u] = m.kind[u] /\ DOMAIN q.ops[u] = DOMAIN m.ops[u]
              \/ /\ m.kind[u] \in {"unborn", "branch"} /\ q.kind[u] = "branch" /\ DOMAIN q.ops[u] = 1 .. 1
                 /\ \E b \in DOMAIN m.newbr : m.newbr[b] = u
  BY <1>11, <1>12, <1>13
<1>16. Prepared(m, q)
  BY <1>8, <1>9, <1>10, <1>14, <1>15 DEF Prepared
<1>17. Operated(q) /\ Lowerable(q) /\ "newgep" \in DOMAIN q
  BY <1>8, <1>16, LowerableKept
<1> QED
  BY <1>17 DEF q, m, Prepare

\* What the loops behind the analysis need of the program.
Laid(p) ==
  /\ IsFiniteSet(Values(p)) /\ {"kind", "ops"} \subseteq DOMAIN p
  /\ \A v \in Values(p) : Range(p.ops[v]) \subseteq Values(p)
  /\ \A v \in Values(p) : p.kind[v] \in DOMAIN Arity => DOMAIN p.ops[v] = 1 .. Arity[p.kind[v]]
  /\ \A c : c \in DOMAIN p.callee <=> c \in Values(p) /\ p.kind[c] = "call"
  /\ \A v : (\E f \in DOMAIN p.formals : v \in Range(p.formals[f])) <=> v \in Values(p) /\ p.kind[v] = "arg"

\* A cast that changes nothing is of a value.
LEMMA NoopIs ==
  ASSUME NEW p, Laid(p), NEW v \in Values(p), p.kind[v] = "noop"
  PROVE  p.ops[v][1] \in Values(p)
<1>1. DOMAIN p.ops[v] = 1 .. 1
  BY DEF Laid, Arity
<1>2. p.ops[v][1] \in Range(p.ops[v])
  BY <1>1 DEF Range
<1> QED
  BY <1>2 DEF Laid

\* The operands of a program are values, and the first is there when there is a
\* number of them.
LEMMA OperandsIn ==
  ASSUME NEW p, WellFormed(p), NEW v \in Values(p)
  PROVE  Range(p.ops[v]) \subseteq Values(p) /\ \A i \in DOMAIN p.ops[v] : p.ops[v][i] \in Values(p)
<1>1. p.ops[v] \in Seq(Values(p))
  BY DEF WellFormed
<1> QED
  BY <1>1 DEF Range

\* The instructions for pointer arithmetic: two casts of one operand, and sums
\* and products of two.
LEMMA GepOpsAre ==
  ASSUME NEW p, WellFormed(p), Operated(p), Lowerable(p),
         NEW g \in Values(p), p.kind[g] = "gep", NEW r \in DOMAIN p.newgep[g]
  PROVE  \E a, b \in Values(p) : GepOps(p, g)[r] = IF r \in {"int", "ptr"} THEN <<a>> ELSE <<a, b>>
<1> DEFINE n == p.newgep[g]
           index == IF "scale" \in DOMAIN n THEN n.scale ELSE p.ops[g][2]
           last == IF "sum" \in DOMAIN n THEN n.sum ELSE n.int
<1>1. /\ {"int", "ptr"} \subseteq DOMAIN n /\ r \in {"int", "scale", "sum", "ptr"}
      /\ \A x \in Range(n) : x \in Values(p)
  BY DEF Lowerable
<1>2. \A x \in DOMAIN n : n[x] \in Values(p)
  BY <1>1 DEF Range
<1>3. p.ops[g][1] \in Values(p) /\ p.ops[g][2] \in Values(p)
  <2>1. DOMAIN p.ops[g] = 1 .. 2
    BY DEF Operated, Arity
  <2> QED
    BY <2>1, OperandsIn
<1>4. p.lowered \in Values(p)
  BY DEF WellFormed
<1>5. n.int \in Values(p) /\ index \in Values(p) /\ last \in Values(p)
  BY <1>1, <1>2, <1>3
<1>6. /\ r = "int" => GepOps(p, g)[r] = <<p.ops[g][1]>>
      /\ r = "scale" => GepOps(p, g)[r] = <<p.ops[g][2], p.lowered>>
      /\ r = "sum" => GepOps(p, g)[r] = <<n.int, index>>
      /\ r = "ptr" => GepOps(p, g)[r] = <<last>>
  BY DEF GepOps
<1> HIDE DEF n, index, last
<1> QED
  BY <1>1, <1>3, <1>4, <1>5, <1>6

\* Lowering pointer arithmetic leaves it so.
LEMMA GepsLaid ==
  ASSUME NEW p, WellFormed(p), Operated(p), Lowerable(p),
         NEW G, \A g \in G : g \in Values(p) /\ p.kind[g] = "gep"
  PROVE  LET q == LoweredGeps(p, G)
         IN  /\ Values(q) = Values(p) /\ Laid(q)
             /\ \A v \in Values(p) : q.kind[v] = "erased" => v \in G
<1> DEFINE new == NewValues(p, G)
           gep == [v \in new |-> CHOOSE g \in G : v \in Range(p.newgep[g])]
           role == [v \in new |-> CHOOSE r \in DOMAIN p.newgep[gep[v]] : p.newgep[gep[v]][r] = v]
           use(v) == IF v \in G THEN p.newgep[v].ptr ELSE v
           ops(v) == IF v \in new THEN GepOps(p, gep[v])[role[v]] ELSE p.ops[v]
           K == [v \in Values(p) |->
                    IF v \in G THEN "erased" ELSE IF v \notin new THEN p.kind[v]
                    ELSE IF role[v] \in {"int", "ptr"} THEN "noop" ELSE "bin"]
           O == [v \in Values(p) |->
                    IF v \in G THEN << >> ELSE [i \in DOMAIN ops(v) |-> use(ops(v)[i])]]
           q == LoweredGeps(p, G)
<1>1. q = [p EXCEPT !.kind = K, !.ops = O]
  BY DEF LoweredGeps
<1>2. {"kind", "ops", "callee", "formals"} \subseteq DOMAIN p /\ IsFiniteSet(Values(p))
  BY DEF WellFormed
<1>3. \A v \in new : gep[v] \in G /\ role[v] \in DOMAIN p.newgep[gep[v]] /\ p.newgep[gep[v]][role[v]] = v
  BY DEF NewValues, Range
<1>4. \A g \in G : /\ {"int", "ptr"} \subseteq DOMAIN p.newgep[g]
                   /\ \A v \in Range(p.newgep[g]) : v \in Values(p) /\ p.kind[v] = "unborn"
  BY DEF Lowerable
<1>5. \A v \in Values(p) : use(v) \in Values(p)
  <2> SUFFICES ASSUME NEW v \in Values(p), v \in G PROVE p.newgep[v].ptr \in Values(p)
    OBVIOUS
  <2>1. p.newgep[v].ptr \in Range(p.newgep[v])
    BY <1>4 DEF Range
  <2> QED
    BY <1>4, <2>1
<1>6. \A v \in new : v \in Values(p) /\ p.kind[v] = "unborn"
  <2> SUFFICES ASSUME NEW v \in new PROVE v \in Values(p) /\ p.kind[v] = "unborn"
    OBVIOUS
  <2>1. gep[v] \in G /\ role[v] \in DOMAIN p.newgep[gep[v]] /\ p.newgep[gep[v]][role[v]] = v
    BY <1>3
  <2> HIDE DEF gep, role, new, use, ops, K, O, q
  <2>2. v \in Range(p.newgep[gep[v]])
    BY <2>1 DEF Range
  <2> QED
    BY <1>4, <2>1, <2>2
<1>7. ASSUME NEW v \in new
      PROVE  \E a, b \in Values(p) : ops(v) = IF role[v] \in {"int", "ptr"} THEN <<a>> ELSE <<a, b>>
  <2>1. gep[v] \in Values(p) /\ p.kind[gep[v]] = "gep" /\ role[v] \in DOMAIN p.newgep[gep[v]]
    BY <1>3
  <2>2. ops(v) = GepOps(p, gep[v])[role[v]]
    OBVIOUS
  <2> HIDE DEF ops, gep, role
  <2> QED
    <3>1. PICK g \in Values(p) : \E r :
            r \in DOMAIN p.newgep[g] /\ g = gep[v] /\ r = role[v] /\ p.kind[g] = "gep" /\ ops(v) = GepOps(p, g)[r]
      BY <2>1, <2>2
    <3>2. PICK r : r \in DOMAIN p.newgep[g] /\ r = role[v] /\ p.kind[g] = "gep" /\ ops(v) = GepOps(p, g)[r]
      BY <3>1
    <3>3. \E a, b \in Values(p) : GepOps(p, g)[r] = IF r \in {"int", "ptr"} THEN <<a>> ELSE <<a, b>>
      BY <3>2, GepOpsAre
    <3> QED
      BY <3>2, <3>3
<1>8. \A v \in Values(p) \ new : ops(v) = p.ops[v]
  OBVIOUS
<1> HIDE DEF new, use, ops, gep, role
<1>9. /\ q.kind = K /\ q.ops = O /\ DOMAIN q = DOMAIN p
      /\ q.callee = p.callee /\ q.formals = p.formals /\ Values(q) = Values(p)
  BY <1>1, <1>2 DEF Values
<1> HIDE DEF q
<1>10. ASSUME NEW v \in Values(p), v \notin G
       PROVE  /\ \A i \in DOMAIN ops(v) : ops(v)[i] \in Values(p)
              /\ K[v] \in DOMAIN Arity => DOMAIN ops(v) = 1 .. Arity[K[v]]
  <2>1. CASE v \in new
    <3>1. PICK a, b \in Values(p) : ops(v) = IF role[v] \in {"int", "ptr"} THEN <<a>> ELSE <<a, b>>
      BY <1>7, <2>1
    <3>2. CASE role[v] \in {"int", "ptr"}
      <4>1. ops(v) = <<a>> /\ K[v] = "noop"
        BY <1>10, <2>1, <3>1, <3>2
      <4> QED
        BY <4>1 DEF Arity
    <3>3. CASE role[v] \notin {"int", "ptr"}
      <4>1. ops(v) = <<a, b>> /\ K[v] = "bin"
        BY <1>10, <2>1, <3>1, <3>3
      <4> QED
        BY <4>1 DEF Arity
    <3> QED
      BY <3>2, <3>3
  <2>2. CASE v \notin new
    <3>1. K[v] = p.kind[v] /\ ops(v) = p.ops[v]
      BY <1>8, <1>10, <2>2
    <3> QED
      BY <3>1, OperandsIn DEF Operated
  <2> QED
    BY <2>1, <2>2
<1>11. ASSUME NEW v \in Values(p)
       PROVE  /\ Range(O[v]) \subseteq Values(p)
              /\ K[v] \in DOMAIN Arity => DOMAIN O[v] = 1 .. Arity[K[v]]
  <2>1. CASE v \in G
    <3>1. O[v] = << >> /\ K[v] = "erased"
      BY <2>1
    <3>2. Range(O[v]) = {}
      <4>1. DOMAIN O[v] = {}
        BY <3>1
      <4> HIDE DEF O
      <4> QED
        BY <4>1 DEF Range
    <3>3. "erased" \notin DOMAIN Arity
      BY DEF Arity
    <3> HIDE DEF O, K
    <3> QED
      BY <3>1, <3>2, <3>3
  <2>2. CASE v \notin G
    <3>1. O[v] = [i \in DOMAIN ops(v) |-> use(ops(v)[i])]
      BY <2>2
    <3>2. \A i \in DOMAIN ops(v) : use(ops(v)[i]) \in Values(p)
      BY <1>5, <1>10, <2>2
    <3>3. DOMAIN O[v] = DOMAIN ops(v) /\ Range(O[v]) \subseteq Values(p)
      BY <3>1, <3>2 DEF Range
    <3> QED
      BY <1>10, <2>2, <3>3
  <2> QED
    BY <2>1, <2>2
<1>12. \A v \in Values(p) : /\ K[v] \in {"call", "arg"} <=> p.kind[v] \in {"call", "arg"}
                            /\ p.kind[v] \in {"call", "arg"} => K[v] = p.kind[v]
                            /\ K[v] = "erased" => v \in G
  BY <1>6 DEF Operated
<1> HIDE DEF K, O
<1>13. \A c : c \in DOMAIN p.callee <=> c \in Values(p) /\ p.kind[c] = "call"
  BY DEF WellFormed, Operated
<1>14. \A v : (\E f \in DOMAIN p.formals : v \in Range(p.formals[f])) <=> v \in Values(p) /\ p.kind[v] = "arg"
  <2>1. ASSUME NEW f \in DOMAIN p.formals, NEW v \in Range(p.formals[f])
        PROVE  v \in Values(p) /\ p.kind[v] = "arg"
    <3>1. p.formals[f] \in Seq({x \in Values(p) : p.kind[x] = "arg"})
      BY DEF WellFormed
    <3>2. PICK i \in DOMAIN p.formals[f] : v = p.formals[f][i]
      BY DEF Range
    <3> QED
      BY <3>1, <3>2
  <2> QED
    BY <2>1 DEF Operated
<1>15. Laid(q)
  BY <1>2, <1>9, <1>11, <1>12, <1>13, <1>14 DEF Laid
<1> QED
  BY <1>9, <1>12, <1>15 DEF q

(***************************************************************************)
(* Casts that change nothing, and what is linked to them.                  *)
(***************************************************************************)

\* The identity map leads from a value to a cast of it.
CastsIn(p, idn) ==
  \A u \in DOMAIN idn : idn[u] \in Values(p) /\ p.kind[idn[u]] = "noop" /\ p.ops[idn[u]][1] = u

\* Such a cast has the abstract value of what it casts, if it has one.
Rooted(p, abs) ==
  \A w \in DOMAIN abs : p.kind[w] = "noop" =>
    p.ops[w][1] \in DOMAIN abs /\ abs[p.ops[w][1]] = abs[w]

\* A cast in the identity map has one when what it casts has.
Followed(idn, abs) ==
  \A v \in DOMAIN idn \cap DOMAIN abs : idn[v] \in DOMAIN abs /\ abs[idn[v]] = abs[v]

\* Intrinsics are linked to the abstract values of their operands that there are.
Linked(is, abs) ==
  \A id \in DOMAIN is :
    /\ is[id] = [args |-> is[id].args, test |-> is[id].test]
    /\ \A k \in DOMAIN is[id].args :
         LET a == is[id].args[k]
         IN  a = [con |-> a.con, taint |-> a.taint,
                  abs |-> IF a.con \in DOMAIN abs THEN abs[a.con] ELSE Null]

\* They pass the taints of their operands.
TaintedBy(is, sh) ==
  \A id \in DOMAIN is : \A k \in DOMAIN is[id].args :
    LET a == is[id].args[k] IN a.taint = IF a.con \in DOMAIN sh THEN sh[a.con] ELSE {}

\* What Become does.
Becomes(abs, is, idn, v, x, abs2, is2) ==
  /\ abs2 = [w \in DOMAIN abs \cup Chain(idn, v) |-> IF w \in Chain(idn, v) THEN x ELSE abs[w]]
  /\ is2 = Placed(is, Chain(idn, v), x)

\* The chain of v is v and casts of its members, as far as the map goes; those
\* that have an abstract value have that of v.
LEMMA ChainIs ==
  ASSUME Laid(ir), NEW idn, CastsIn(ir, idn), NEW v \in Values(ir), NEW abs, Rooted(ir, abs)
  PROVE  /\ v \in Chain(idn, v) /\ Chain(idn, v) \subseteq Values(ir)
         /\ \A u \in Chain(idn, v) \cap DOMAIN idn : idn[u] \in Chain(idn, v)
         /\ \A w \in Chain(idn, v) \ {v} : \E u \in Chain(idn, v) \cap DOMAIN idn : w = idn[u]
         /\ \A u \in Chain(idn, v) \cap DOMAIN abs : v \in DOMAIN abs /\ abs[u] = abs[v]
<1> DEFINE next == [u \in Values(ir) |-> IF u \in DOMAIN idn THEN {idn[u]} ELSE {}]
           T == {u \in Values(ir) : u \in DOMAIN abs => v \in DOMAIN abs /\ abs[u] = abs[v]}
<1>1. Chain(idn, v) = Closure(ir, {v}, next)
  BY DEF Chain
<1>2. Steps(ir, {v}, next)
  BY DEF Steps, Laid, CastsIn
<1>3. {v} \subseteq T /\ \A u \in T \cap Values(ir) : next[u] \subseteq T
  BY DEF CastsIn, Rooted
<1>4. \A u \in Values(ir) : next[u] = IF u \in DOMAIN idn THEN {idn[u]} ELSE {}
  OBVIOUS
<1> HIDE DEF next
<1>5. /\ v \in Chain(idn, v) /\ Chain(idn, v) \subseteq Values(ir)
      /\ \A u \in Chain(idn, v) : next[u] \subseteq Chain(idn, v)
      /\ \A w \in Chain(idn, v) \ {v} : \E u \in Chain(idn, v) : w \in next[u]
  BY <1>1, <1>2, ClosureIs
<1>6. Chain(idn, v) \subseteq T
  <2> HIDE DEF T
  <2> QED
    BY <1>1, <1>2, <1>3, ClosureWithin
<1> QED
  BY <1>4, <1>5, <1>6

\* What holds when v gets the abstract value x: it has x already, or it is not
\* a cast, and only its own cast may lag behind.
Placing(abs, is, idn, v, x, abs2, is2) ==
  /\ v \in Values(ir) /\ Becomes(abs, is, idn, v, x, abs2, is2)
  /\ CastsIn(ir, idn) /\ Rooted(ir, abs) /\ Linked(is, abs)
  /\ \A u \in DOMAIN idn \cap DOMAIN abs :
       u # v => idn[u] \in DOMAIN abs /\ abs[idn[u]] = abs[u]
  /\ IF v \in DOMAIN abs THEN abs[v] = x ELSE ir.kind[v] # "noop"

\* When v gets the abstract value x, and its casts with it, no operand keeps a
\* placeholder or another value, and no cast is left out.
LEMMA BecomeKeeps ==
  ASSUME Laid(ir), NEW abs, NEW is, NEW idn, NEW v, NEW x, NEW abs2, NEW is2,
         Placing(abs, is, idn, v, x, abs2, is2)
  PROVE  /\ Rooted(ir, abs2) /\ Linked(is2, abs2) /\ Followed(idn, abs2)
         /\ DOMAIN is2 = DOMAIN is /\ \A S : TaintedBy(is, S) => TaintedBy(is2, S)
         /\ \A w \in DOMAIN abs : w \in DOMAIN abs2 /\ abs2[w] = abs[w]
         /\ \A w \in DOMAIN abs2 \ DOMAIN abs :
              /\ w \in Values(ir) /\ abs2[w] = x
              /\ w = v \/ \E u \in DOMAIN idn : w = idn[u]
<1>0. /\ v \in Values(ir) /\ Becomes(abs, is, idn, v, x, abs2, is2)
      /\ CastsIn(ir, idn) /\ Rooted(ir, abs) /\ Linked(is, abs)
      /\ \A u \in DOMAIN idn \cap DOMAIN abs :
           u # v => idn[u] \in DOMAIN abs /\ abs[idn[u]] = abs[u]
      /\ IF v \in DOMAIN abs THEN abs[v] = x ELSE ir.kind[v] # "noop"
  BY DEF Placing
<1> DEFINE S == Chain(idn, v)
<1>1. /\ v \in S /\ S \subseteq Values(ir)
      /\ \A u \in S \cap DOMAIN idn : idn[u] \in S
      /\ \A w \in S \ {v} : \E u \in S \cap DOMAIN idn : w = idn[u]
      /\ \A u \in S \cap DOMAIN abs : v \in DOMAIN abs /\ abs[u] = abs[v]
  BY <1>0, ChainIs
<1>2. /\ DOMAIN abs2 = DOMAIN abs \cup S
      /\ \A w \in S : abs2[w] = x
      /\ \A w \in DOMAIN abs \ S : abs2[w] = abs[w]
      /\ is2 = Placed(is, S, x)
  BY <1>0 DEF Becomes
<1> HIDE DEF S
<1>3. \A w \in DOMAIN abs : w \in DOMAIN abs2 /\ abs2[w] = abs[w]
  BY <1>0, <1>1, <1>2
<1>4. \A w \in DOMAIN abs2 \ DOMAIN abs :
        w \in Values(ir) /\ abs2[w] = x /\ (w = v \/ \E u \in DOMAIN idn : w = idn[u])
  BY <1>1, <1>2
<1>5. Rooted(ir, abs2)
  <2> SUFFICES ASSUME NEW w \in DOMAIN abs2, ir.kind[w] = "noop"
               PROVE  ir.ops[w][1] \in DOMAIN abs2 /\ abs2[ir.ops[w][1]] = abs2[w]
    BY DEF Rooted
  <2>1. CASE w \in DOMAIN abs
    <3>1. ir.ops[w][1] \in DOMAIN abs /\ abs[ir.ops[w][1]] = abs[w]
      BY <1>0, <2>1 DEF Rooted
    <3> QED
      BY <1>3, <2>1, <3>1
  <2>2. CASE w \notin DOMAIN abs
    <3>1. w \in S
      BY <1>2, <2>2
    <3>2. w # v
      BY <1>0, <1>1, <2>2, <3>1
    <3>3. PICK u \in S \cap DOMAIN idn : w = idn[u]
      BY <1>1, <3>1, <3>2
    <3>4. ir.ops[w][1] = u
      BY <1>0, <3>3 DEF CastsIn
    <3> QED
      BY <1>2, <3>1, <3>3, <3>4
  <2> QED
    BY <2>1, <2>2
<1>6. Followed(idn, abs2)
  <2> SUFFICES ASSUME NEW u \in DOMAIN idn \cap DOMAIN abs2
               PROVE  idn[u] \in DOMAIN abs2 /\ abs2[idn[u]] = abs2[u]
    BY DEF Followed
  <2>1. CASE u \in S
    BY <1>0, <1>1, <1>2, <2>1
  <2>2. CASE u \notin S
    <3>1. u \in DOMAIN abs /\ u # v
      BY <1>1, <1>2, <2>2
    <3> QED
      BY <1>0, <1>3, <3>1
  <2> QED
    BY <2>1, <2>2
<1>7. /\ DOMAIN is2 = DOMAIN is
      /\ \A id \in DOMAIN is :
           /\ is2[id] = [args |-> is2[id].args, test |-> is2[id].test]
           /\ DOMAIN is2[id].args = DOMAIN is[id].args
           /\ \A k \in DOMAIN is[id].args : is2[id].args[k] =
                IF is[id].args[k].abs = Null /\ is[id].args[k].con \in S
                THEN [is[id].args[k] EXCEPT !.abs = x] ELSE is[id].args[k]
  <2>1. DOMAIN is2 = DOMAIN is
    BY <1>2 DEF Placed
  <2>2. ASSUME NEW id \in DOMAIN is
        PROVE  /\ is2[id] = [args |-> is2[id].args, test |-> is2[id].test]
               /\ DOMAIN is2[id].args = DOMAIN is[id].args
               /\ \A k \in DOMAIN is[id].args : is2[id].args[k] =
                    IF is[id].args[k].abs = Null /\ is[id].args[k].con \in S
                    THEN [is[id].args[k] EXCEPT !.abs = x] ELSE is[id].args[k]
    <3> DEFINE as == [k \in DOMAIN is[id].args |->
                        IF is[id].args[k].abs = Null /\ is[id].args[k].con \in S
                        THEN [is[id].args[k] EXCEPT !.abs = x] ELSE is[id].args[k]]
    <3>1. is2[id] = [is[id] EXCEPT !.args = as]
      BY <1>2 DEF Placed
    <3>2. is[id] = [args |-> is[id].args, test |-> is[id].test]
      BY <1>0 DEF Linked
    <3>3. /\ DOMAIN as = DOMAIN is[id].args
          /\ \A k \in DOMAIN is[id].args : as[k] =
               IF is[id].args[k].abs = Null /\ is[id].args[k].con \in S
               THEN [is[id].args[k] EXCEPT !.abs = x] ELSE is[id].args[k]
      OBVIOUS
    <3> HIDE DEF as
    <3>4. is2[id] = [args |-> as, test |-> is[id].test]
      BY <3>1, <3>2
    <3>5. is2[id].args = as /\ is2[id].test = is[id].test
      BY <3>4
    <3>6. is2[id] = [args |-> is2[id].args, test |-> is2[id].test]
      BY <3>4, <3>5
    <3> QED
      BY <3>3, <3>5, <3>6
  <2> QED
    BY <2>1, <2>2
<1>8. ASSUME NEW id \in DOMAIN is2, NEW k \in DOMAIN is2[id].args
      PROVE  /\ is2[id].args[k] = [con |-> is2[id].args[k].con, taint |-> is2[id].args[k].taint,
                                   abs |-> IF is2[id].args[k].con \in DOMAIN abs2
                                           THEN abs2[is2[id].args[k].con] ELSE Null]
             /\ k \in DOMAIN is[id].args
             /\ is2[id].args[k].taint = is[id].args[k].taint /\ is2[id].args[k].con = is[id].args[k].con
  <2> DEFINE a == is[id].args[k]
             b == is2[id].args[k]
  <2>1. id \in DOMAIN is /\ k \in DOMAIN is[id].args
    BY <1>7
  <2>2. a = [con |-> a.con, taint |-> a.taint,
             abs |-> IF a.con \in DOMAIN abs THEN abs[a.con] ELSE Null]
    BY <1>0, <2>1 DEF Linked
  <2>3. b = IF a.abs = Null /\ a.con \in S THEN [a EXCEPT !.abs = x] ELSE a
    BY <1>7, <2>1
  <2> HIDE DEF a, b
  <2>4. /\ b.con = a.con /\ b.taint = a.taint
        /\ b = [con |-> b.con, taint |-> b.taint, abs |-> b.abs]
        /\ b.abs = IF a.abs = Null /\ a.con \in S THEN x ELSE a.abs
    BY <2>2, <2>3
  <2>5. a.abs = IF a.con \in DOMAIN abs THEN abs[a.con] ELSE Null
    BY <2>2
  <2>6. b.abs = IF b.con \in DOMAIN abs2 THEN abs2[b.con] ELSE Null
    <3>1. CASE a.con \in S
      BY <1>0, <1>1, <1>2, <2>4, <2>5, <3>1
    <3>2. CASE a.con \notin S
      BY <1>2, <2>4, <2>5, <3>2
    <3> QED
      BY <3>1, <3>2
  <2> QED
    BY <2>1, <2>4, <2>6 DEF a, b
<1>9. Linked(is2, abs2)
  BY <1>7, <1>8 DEF Linked
<1>10. ASSUME NEW R, TaintedBy(is, R) PROVE TaintedBy(is2, R)
  <2> SUFFICES ASSUME NEW id \in DOMAIN is2, NEW k \in DOMAIN is2[id].args
               PROVE  is2[id].args[k].taint = IF is2[id].args[k].con \in DOMAIN R
                                              THEN R[is2[id].args[k].con] ELSE {}
    BY DEF TaintedBy
  <2>1. /\ id \in DOMAIN is /\ k \in DOMAIN is[id].args
        /\ is2[id].args[k].taint = is[id].args[k].taint /\ is2[id].args[k].con = is[id].args[k].con
    BY <1>7, <1>8
  <2>2. is[id].args[k].taint = IF is[id].args[k].con \in DOMAIN R THEN R[is[id].args[k].con] ELSE {}
    BY <1>10, <2>1 DEF TaintedBy
  <2> QED
    BY <2>1, <2>2
<1> QED
  BY <1>3, <1>4, <1>5, <1>6, <1>7, <1>9, <1>10

(***************************************************************************)
(* The inductive invariant.                                                *)
(***************************************************************************)

\* Abstract values come from an unstash or from an intrinsic that is there.
Made(abs, is) == \A v \in DOMAIN abs : abs[v][2] = "unstash" \/ abs[v] \in DOMAIN is

\* What the loops over types, stores and branches keep: the links.
Links(abs, idn, is) ==
  /\ CastsIn(ir, idn) /\ Rooted(ir, abs) /\ Followed(idn, abs)
  /\ Linked(is, abs) /\ Made(abs, is) /\ TaintedBy(is, shadows)

\* Of the values that wait to be visited, only those that unstash have an
\* abstract value, and none is in the identity map.
Unvisited ==
  /\ \A v \in DOMAIN abstract :
        (stage = "types" => v \in todo) => ir.kind[v] \in {"arg", "call", "div"}
  /\ \A u \in DOMAIN identity : identity[u] \notin todo

BeforeTypes == {"dfa", "unstash", "shadows", "overflow"}

CompileInv ==
  /\ stage \in BeforeTypes \cup {"types", "stores", "branches", "lower", "done"}
  /\ todo \subseteq Values(ir)
  /\ IF stage = "dfa" THEN DfaInv /\ Operated(ir) /\ Lowerable(ir) /\ "newgep" \in DOMAIN ir
     ELSE Laid(ir) /\ DOMAIN types \subseteq Values(ir) /\ toAdd = {} /\ worklist = << >>
  /\ stage \in {"dfa", "unstash"} => abstract = << >> /\ shadows = << >>
  /\ stage \in BeforeTypes => identity = << >> /\ intrs = << >> /\ todo = {}
  /\ DOMAIN abstract \cup DOMAIN shadows \cup Sources \subseteq Values(ir)
  /\ stage \in BeforeTypes \cup {"types"} => Unvisited
  /\ Links(abstract, identity, intrs)

\* Before there are abstract values and intrinsics, nothing is to be linked.
LEMMA NothingLinked ==
  ASSUME abstract = << >>, identity = << >>, intrs = << >>, shadows = << >>, todo = {}
  PROVE  /\ Links(abstract, identity, intrs) /\ Unvisited
         /\ DOMAIN abstract = {} /\ DOMAIN shadows = {} /\ Sources = {}
<1>1. DOMAIN abstract = {} /\ DOMAIN identity = {} /\ DOMAIN intrs = {} /\ DOMAIN shadows = {}
  OBVIOUS
<1>2. Sources = {}
  BY <1>1 DEF Sources, Range
<1> QED
  BY <1>1, <1>2 DEF Links, Unvisited, CastsIn, Rooted, Followed, Linked, Made, TaintedBy

\* It holds at the start.
LEMMA CompileInitInv == CompileInit => CompileInv
<1> SUFFICES ASSUME CompileInit PROVE CompileInv
  OBVIOUS
<1>1. /\ DfaInit /\ stage = "dfa" /\ todo = {}
      /\ abstract = << >> /\ identity = << >> /\ shadows = << >> /\ intrs = << >>
  BY DEF CompileInit
<1>2. DfaInv
  BY <1>1, DfaInitInv
<1>3. Operated(ir) /\ Lowerable(ir) /\ "newgep" \in DOMAIN ir
  BY <1>1, GepsAssumption DEF DfaInit
<1> QED
  BY <1>1, <1>2, <1>3, NothingLinked DEF CompileInv, BeforeTypes

\* The analysis has the program it starts with or a preprocessed one.
LEMMA DfaLowerable ==
  ASSUME DfaInv, DfaNext, Operated(ir), Lowerable(ir), "newgep" \in DOMAIN ir
  PROVE  Operated(ir') /\ Lowerable(ir') /\ "newgep" \in DOMAIN ir'
<1>1. WellFormed(ir)
  BY DEF DfaInv
<1>2. ir' = ir \/ \E f : ir' = Prepare(ir, f)
  BY DEF DfaNext, AddRoot, Process, Push
<1> QED
  BY <1>1, <1>2, PrepareLowerable

\* A step of the analysis.
LEMMA DfaNextKeeps ==
  ASSUME CompileInv, DfaNext, UNCHANGED insVars
  PROVE  CompileInv'
<1>1. /\ stage' = stage /\ todo' = todo /\ abstract' = abstract /\ identity' = identity
      /\ shadows' = shadows /\ intrs' = intrs
  BY DEF insVars
<1>2. stage = "dfa"
  <2>1. toAdd # {} \/ worklist # << >>
    BY DEF DfaNext, AddRoot, Process
  <2> QED
    BY <2>1 DEF CompileInv
<1>3. DfaInv /\ Operated(ir) /\ Lowerable(ir) /\ "newgep" \in DOMAIN ir
  BY <1>2 DEF CompileInv
<1>4. DfaInv' /\ Operated(ir)' /\ Lowerable(ir)' /\ ("newgep" \in DOMAIN ir)'
  BY <1>3, DfaStepInv, DfaLowerable
<1>5. /\ abstract' = << >> /\ identity' = << >> /\ shadows' = << >> /\ intrs' = << >> /\ todo' = {}
  BY <1>1, <1>2 DEF CompileInv, BeforeTypes
<1>6. DOMAIN abstract' = {} /\ DOMAIN identity' = {} /\ DOMAIN intrs' = {} /\ DOMAIN shadows' = {}
  BY <1>5
<1>7. Sources' = {}
  BY <1>6 DEF Sources, Range
<1>8. Links(abstract, identity, intrs)' /\ Unvisited'
  BY <1>5, <1>6 DEF Links, Unvisited, CastsIn, Rooted, Followed, Linked, Made, TaintedBy
<1> QED
  BY <1>1, <1>2, <1>4, <1>5, <1>6, <1>7, <1>8 DEF CompileInv, BeforeTypes

\* Pointer arithmetic is lowered when the analysis is done.
LEMMA LowerGepsKeeps ==
  ASSUME CompileInv, LowerGeps
  PROVE  CompileInv'
<1> DEFINE geps == {g \in DOMAIN types : ir.kind[g] = "gep"}
<1>1. /\ stage = "dfa" /\ DfaDone /\ stage' = "unstash"
      /\ toAdd' = toAdd /\ worklist' = worklist /\ todo' = todo /\ abstract' = abstract
      /\ identity' = identity /\ shadows' = shadows /\ intrs' = intrs
      /\ ir' = LoweredGeps(ir, geps)
      /\ DOMAIN types' = (DOMAIN types \ geps) \cup UNION {GepTyped(ir, g) : g \in geps}
  BY DEF LowerGeps
<1>2. WellFormed(ir) /\ Operated(ir) /\ Lowerable(ir) /\ "newgep" \in DOMAIN ir /\ DOMAIN types \subseteq Values(ir)
  BY <1>1 DEF CompileInv, DfaInv, TypesFit
<1>3. \A g \in geps : g \in Values(ir) /\ ir.kind[g] = "gep"
  BY <1>2
<1> HIDE DEF geps
<1>4. Values(ir') = Values(ir) /\ Laid(ir')
  BY <1>1, <1>2, <1>3, GepsLaid
<1>5. \A g \in geps : GepTyped(ir, g) \subseteq Values(ir)
  BY <1>2, <1>3 DEF GepTyped, Lowerable
<1>6. DOMAIN types' \subseteq Values(ir')
  BY <1>1, <1>2, <1>4, <1>5
<1>7. /\ abstract' = << >> /\ identity' = << >> /\ shadows' = << >> /\ intrs' = << >> /\ todo' = {}
      /\ toAdd' = {} /\ worklist' = << >>
  BY <1>1 DEF CompileInv, BeforeTypes, DfaDone
<1>8. DOMAIN abstract' = {} /\ DOMAIN identity' = {} /\ DOMAIN intrs' = {} /\ DOMAIN shadows' = {}
  BY <1>7
<1>9. Sources' = {}
  BY <1>8 DEF Sources, Range
<1>10. Links(abstract, identity, intrs)' /\ Unvisited'
  BY <1>7, <1>8 DEF Links, Unvisited, CastsIn, Rooted, Followed, Linked, Made, TaintedBy
<1> QED
  BY <1>1, <1>4, <1>6, <1>7, <1>8, <1>9, <1>10 DEF CompileInv, BeforeTypes

\* What is unstashed are parameters, calls and divisions.
LEMMA UnstashKeeps ==
  ASSUME CompileInv, Unstash
  PROVE  CompileInv'
<1>1. /\ stage = "unstash" /\ stage' = "shadows" /\ todo' = todo /\ identity' = identity /\ intrs' = intrs
      /\ abstract' = [v \in Unstashed |-> <<v, "unstash", 0>>]
      /\ shadows' = [v \in Unstashed |-> {v}]
      /\ ir' = ir /\ types' = types /\ toAdd' = toAdd /\ worklist' = worklist
  BY DEF Unstash, dfaVars
<1>2. Laid(ir) /\ DOMAIN types \subseteq Values(ir) /\ identity' = << >> /\ intrs' = << >> /\ todo' = {}
  BY <1>1 DEF CompileInv, BeforeTypes
<1>3. \A v \in Unstashed : v \in Values(ir) /\ ir.kind[v] \in {"arg", "call", "div"}
  BY <1>2 DEF Unstashed, Laid, Faultable
<1> HIDE DEF Unstashed
<1>4. Sources' \subseteq Values(ir)
  BY <1>1, <1>3 DEF Sources, Range
<1>5. DOMAIN identity' = {} /\ DOMAIN intrs' = {}
  BY <1>2
<1>6. \A v \in DOMAIN abstract' : ir.kind[v] \in {"arg", "call", "div"} /\ abstract'[v][2] = "unstash"
  BY <1>1, <1>3
<1>7. Links(abstract, identity, intrs)' /\ Unvisited'
  BY <1>1, <1>5, <1>6 DEF Links, Unvisited, CastsIn, Rooted, Followed, Linked, Made, TaintedBy
<1> QED
  BY <1>1, <1>2, <1>3, <1>4, <1>7 DEF CompileInv, BeforeTypes

\* Taints are forwarded from values to values.
LEMMA ReachedIs ==
  ASSUME Laid(ir), NEW S \in SUBSET Values(ir)
  PROVE  Reached(S) \subseteq Values(ir)
<1> DEFINE next == [v \in Values(ir) |-> Forwarded(v)]
<1>1. Steps(ir, S, next)
  <2>1. \A v \in Values(ir) : Forwarded(v) \in SUBSET Values(ir)
    BY DEF Forwarded
  <2> QED
    BY <2>1 DEF Steps, Laid
<1>2. Reached(S) = Closure(ir, S, next)
  BY DEF Reached
<1> HIDE DEF next
<1> QED
  BY <1>1, <1>2, ClosureIs

\* Nothing has an intrinsic when the taints are made.
LEMMA ShadowsKeeps ==
  ASSUME CompileInv, Shadows
  PROVE  CompileInv'
<1>1. /\ stage = "shadows" /\ abstract' = abstract /\ identity' = identity /\ intrs' = intrs
      /\ ir' = ir /\ types' = types /\ toAdd' = toAdd /\ worklist' = worklist
  BY DEF Shadows, dfaVars
<1>2. /\ Laid(ir) /\ DOMAIN types \subseteq Values(ir) /\ toAdd = {} /\ worklist = << >>
      /\ identity = << >> /\ intrs = << >> /\ todo = {} /\ Unvisited
      /\ DOMAIN abstract \cup DOMAIN shadows \cup Sources \subseteq Values(ir)
      /\ Links(abstract, identity, intrs)
  BY <1>1 DEF CompileInv, BeforeTypes
<1>3. DOMAIN identity = {} /\ DOMAIN intrs = {}
  BY <1>2
<1>4. Links(abstract, identity, intrs)'
  BY <1>1, <1>2, <1>3 DEF Links, CastsIn, Rooted, Followed, Linked, Made, TaintedBy
<1>5. CASE stage' = "overflow" /\ shadows' = shadows /\ todo' = todo
  <2>1. Unvisited' /\ Sources' = Sources
    BY <1>1, <1>2, <1>5 DEF Unvisited, Sources
  <2> QED
    BY <1>1, <1>2, <1>4, <1>5, <2>1 DEF CompileInv, BeforeTypes
<1>6. CASE /\ stage' = "types" /\ todo' = DOMAIN types
           /\ shadows' = [v \in DOMAIN shadows \cup Reached({w \in DOMAIN types : Typed(w, IsAbstract)}) |->
                             Reached({v}) \cap (DOMAIN shadows \cup {l \in Values(ir) : Melting(l)})]
  <2> DEFINE R == Reached({w \in DOMAIN types : Typed(w, IsAbstract)})
             made == DOMAIN shadows \cup {l \in Values(ir) : Melting(l)}
  <2>1. R \subseteq Values(ir)
    BY <1>2, ReachedIs
  <2>2. made \subseteq Values(ir)
    BY <1>2
  <2>3. DOMAIN shadows' = DOMAIN shadows \cup R /\ \A v \in DOMAIN shadows' : shadows'[v] \subseteq made
    BY <1>6
  <2> HIDE DEF R, made
  <2>4. DOMAIN shadows' \cup Sources' \subseteq Values(ir)
    BY <1>2, <2>1, <2>2, <2>3 DEF Sources, Range
  <2>5. Unvisited'
    BY <1>1, <1>2, <1>3, <1>6 DEF Unvisited
  <2> QED
    BY <1>1, <1>2, <1>4, <1>6, <2>4, <2>5 DEF CompileInv, BeforeTypes
<1> QED
  BY <1>5, <1>6 DEF Shadows

\* Every argument is linked to its abstract value and its taint.
WellLinked(is) == Linked(is, abstract) /\ TaintedBy(is, shadows)

\* One more intrinsic, built by the constructor.
LEMMA IntrinsicAdded ==
  ASSUME NEW is, NEW id, NEW v, NEW op
  PROVE  LET is2 == With(is, id, Intrinsic(v, op))
         IN  /\ WellLinked(is) => WellLinked(is2)
             /\ DOMAIN is2 = DOMAIN is \cup {id}
<1> DEFINE new == Intrinsic(v, op)
           is2 == With(is, id, new)
<1>1. /\ DOMAIN is2 = DOMAIN is \cup {id}
      /\ is2[id] = new /\ \A j \in DOMAIN is \ {id} : is2[j] = is[j]
  BY DEF With
<1>2. /\ new = [args |-> new.args, test |-> new.test]
      /\ \A k \in DOMAIN new.args : \E c : new.args[k] = Argument(c)
  BY DEF Intrinsic
<1>3. \A c : /\ Argument(c) = [con |-> Argument(c).con, taint |-> Argument(c).taint,
                               abs |-> IF Argument(c).con \in DOMAIN abstract
                                       THEN abstract[Argument(c).con] ELSE Null]
             /\ Argument(c).taint = IF Argument(c).con \in DOMAIN shadows
                                    THEN shadows[Argument(c).con] ELSE {}
  BY DEF Argument, Shadow
<1> HIDE DEF new, is2
<1>4. ASSUME WellLinked(is)
      PROVE  WellLinked(is2)
  <2>1. Linked(is2, abstract)
    BY <1>1, <1>2, <1>3, <1>4 DEF Linked, WellLinked
  <2>2. TaintedBy(is2, shadows)
    BY <1>1, <1>2, <1>3, <1>4 DEF TaintedBy, WellLinked
  <2> QED
    BY <2>1, <2>2 DEF WellLinked
<1> QED
  BY <1>1, <1>4 DEF is2, new

\* The next loop visits values of the program.
LEMMA EnterKeeps ==
  ASSUME CompileInv, NEW from \in {"types", "stores"}, NEW to \in {"stores", "branches"},
         NEW S \in SUBSET Values(ir), Enter(from, to, S)
  PROVE  CompileInv'
<1>1. /\ stage = from /\ stage' = to /\ todo' = S
      /\ abstract' = abstract /\ identity' = identity /\ shadows' = shadows /\ intrs' = intrs
      /\ ir' = ir /\ types' = types /\ toAdd' = toAdd /\ worklist' = worklist
  BY DEF Enter, dfaVars
<1>2. Sources' = Sources
  BY <1>1 DEF Sources
<1>3. Links(abstract, identity, intrs)'
  BY <1>1, <1>2 DEF CompileInv, Links, CastsIn, Rooted, Followed, Linked, Made, TaintedBy
<1> QED
  BY <1>1, <1>2, <1>3 DEF CompileInv, BeforeTypes

\* What has an abstract value keeps it.
Kept(abs, abs2) == \A w \in DOMAIN abs : w \in DOMAIN abs2 /\ abs2[w] = abs[w]

\* The visit of a value that is not a cast, an intrinsic id of its own.
LEMMA ProcessValueKeeps ==
  ASSUME CompileInv, stage = "types", NEW v \in todo, ProcessValue(v),
         UNCHANGED <<ir, shadows>>
  PROVE  /\ Links(abstract, identity, intrs)' /\ Kept(abstract, abstract')
         /\ \A w \in DOMAIN abstract' \ DOMAIN abstract :
              w \in Values(ir) /\ (w = v \/ \E u \in DOMAIN identity : w = identity[u])
<1> DEFINE id == <<v, Operation(v), 0>>
           is == With(intrs, id, Intrinsic(v, Operation(v)))
<1>1. /\ Laid(ir) /\ v \in Values(ir) /\ Unvisited
      /\ CastsIn(ir, identity) /\ Rooted(ir, abstract) /\ Followed(identity, abstract)
      /\ Linked(intrs, abstract) /\ Made(abstract, intrs) /\ TaintedBy(intrs, shadows)
  BY DEF CompileInv, BeforeTypes, Links
<1>2. Sources' = Sources /\ ir' = ir /\ identity' = identity
  BY DEF Sources, ProcessValue
<1>3. /\ Linked(is, abstract) /\ TaintedBy(is, shadows) /\ DOMAIN is = DOMAIN intrs \cup {id}
  <2>1. WellLinked(intrs)
    BY <1>1 DEF WellLinked
  <2>2. WellLinked(is) /\ DOMAIN is = DOMAIN intrs \cup {id}
    BY <2>1, IntrinsicAdded
  <2> QED
    BY <2>2 DEF WellLinked
<1>4. Made(abstract, is)
  BY <1>1, <1>3 DEF Made
<1>5. ir.kind[v] \in {"load", "bin", "div", "cmp", "cast", "alloca"}
  BY DEF ProcessValue, Operation, ReturnsValue
<1>6. CASE Faultable(v)
  <2>1. intrs' = is /\ abstract' = abstract
    BY <1>6 DEF ProcessValue, BecomesResult
  <2> HIDE DEF is
  <2> QED
    BY <1>1, <1>2, <1>3, <1>4, <2>1 DEF Links, Kept
<1>7. CASE ~Faultable(v)
  <2>1. Becomes(abstract, is, identity, v, id, abstract', intrs')
    BY <1>7 DEF ProcessValue, BecomesResult, Become, Becomes
  <2>2. v \notin DOMAIN abstract /\ ir.kind[v] # "noop"
    BY <1>1, <1>5, <1>7 DEF Unvisited, Faultable
  <2>3. \A u \in DOMAIN identity \cap DOMAIN abstract :
           u # v => identity[u] \in DOMAIN abstract /\ abstract[identity[u]] = abstract[u]
    BY <1>1 DEF Followed
  <2> HIDE DEF id, is
  <2>4. /\ Rooted(ir, abstract') /\ Linked(intrs', abstract') /\ Followed(identity, abstract')
        /\ DOMAIN intrs' = DOMAIN is /\ TaintedBy(intrs', shadows)
        /\ \A w \in DOMAIN abstract : w \in DOMAIN abstract' /\ abstract'[w] = abstract[w]
        /\ \A w \in DOMAIN abstract' \ DOMAIN abstract :
             /\ w \in Values(ir) /\ abstract'[w] = id
             /\ w = v \/ \E u \in DOMAIN identity : w = identity[u]
    <3>1. Placing(abstract, is, identity, v, id, abstract', intrs')
      BY <1>1, <1>3, <2>1, <2>2, <2>3 DEF Placing
    <3> QED
      BY <1>1, <1>3, <3>1, BecomeKeeps
  <2>5. Made(abstract', intrs')
    BY <1>3, <1>4, <2>4 DEF Made
  <2> QED
    BY <1>1, <1>2, <2>4, <2>5 DEF Links, Kept
<1> QED
  BY <1>6, <1>7

\* The visit of a cast that changes nothing: it goes into the identity map, and
\* gets the abstract value of what it casts.
LEMMA ProcessIdentityKeeps ==
  ASSUME CompileInv, stage = "types", NEW v \in todo, ProcessIdentity(v),
         UNCHANGED <<ir, shadows>>
  PROVE  /\ Links(abstract, identity, intrs)' /\ Kept(abstract, abstract')
         /\ \A w \in DOMAIN abstract' \ DOMAIN abstract :
              w \in Values(ir) /\ (w = v \/ \E u \in DOMAIN identity : w = identity[u])
         /\ \A u \in DOMAIN identity' : identity'[u] = v \/ (u \in DOMAIN identity /\ identity'[u] = identity[u])
<1> DEFINE src == ir.ops[v][1]
<1>1. /\ Laid(ir) /\ v \in Values(ir)
      /\ CastsIn(ir, identity) /\ Rooted(ir, abstract) /\ Followed(identity, abstract)
      /\ Linked(intrs, abstract) /\ Made(abstract, intrs) /\ TaintedBy(intrs, shadows)
  BY DEF CompileInv, BeforeTypes, Links
<1>2. Sources' = Sources /\ ir' = ir
  BY DEF Sources
<1>3. ir.kind[v] = "noop"
  BY DEF ProcessIdentity, Operation
<1>4. src \in Values(ir)
  BY <1>1, <1>3, NoopIs
<1>5. /\ DOMAIN identity' = DOMAIN identity \cup {src} /\ identity'[src] = v
      /\ \A u \in DOMAIN identity \ {src} : identity'[u] = identity[u]
  BY DEF ProcessIdentity, Remember, With
<1>6. CastsIn(ir, identity')
  BY <1>1, <1>3, <1>5 DEF CastsIn
<1>7. \A u \in DOMAIN identity' \cap DOMAIN abstract :
         u # src => identity'[u] \in DOMAIN abstract /\ abstract[identity'[u]] = abstract[u]
  BY <1>1, <1>5 DEF Followed
<1>8. CASE src \in DOMAIN abstract
  <2>1. Becomes(abstract, intrs, identity', src, abstract[src], abstract', intrs')
    BY <1>8 DEF ProcessIdentity, Become, Becomes
  <2> HIDE DEF src
  <2>2. /\ Rooted(ir, abstract') /\ Linked(intrs', abstract') /\ Followed(identity', abstract')
        /\ DOMAIN intrs' = DOMAIN intrs /\ TaintedBy(intrs', shadows)
        /\ \A w \in DOMAIN abstract : w \in DOMAIN abstract' /\ abstract'[w] = abstract[w]
        /\ \A w \in DOMAIN abstract' \ DOMAIN abstract :
             /\ w \in Values(ir) /\ abstract'[w] = abstract[src]
             /\ w = src \/ \E u \in DOMAIN identity' : w = identity'[u]
    <3>1. Placing(abstract, intrs, identity', src, abstract[src], abstract', intrs')
      BY <1>1, <1>4, <1>6, <1>7, <1>8, <2>1 DEF Placing
    <3> QED
      BY <1>1, <3>1, BecomeKeeps
  <2>3. Made(abstract', intrs')
    BY <1>1, <1>8, <2>2 DEF Made
  <2>4. Links(abstract, identity, intrs)'
    BY <1>2, <1>6, <2>2, <2>3 DEF Links
  <2> QED
    BY <1>5, <1>8, <2>2, <2>4 DEF Kept
<1>9. CASE src \notin DOMAIN abstract
  <2>1. abstract' = abstract /\ intrs' = intrs
    BY <1>9 DEF ProcessIdentity
  <2> HIDE DEF src
  <2>2. Followed(identity', abstract)
    BY <1>7, <1>9 DEF Followed
  <2>3. Links(abstract, identity, intrs)'
    BY <1>1, <1>2, <1>6, <2>1, <2>2 DEF Links
  <2> QED
    BY <1>5, <2>1, <2>3 DEF Kept
<1> QED
  BY <1>8, <1>9

\* A visit of a value.
LEMMA ProcessTypeKeeps ==
  ASSUME CompileInv, NEW v \in Values(ir), ProcessType(v)
  PROVE  CompileInv' /\ Kept(abstract, abstract')
<1>1. /\ stage = "types" /\ v \in todo /\ todo' = todo \ {v}
      /\ ir' = ir /\ types' = types /\ toAdd' = toAdd /\ worklist' = worklist
      /\ stage' = stage /\ shadows' = shadows
  BY DEF ProcessType, dfaVars
<1>2. /\ Laid(ir) /\ DOMAIN types \subseteq Values(ir) /\ toAdd = {} /\ worklist = << >>
      /\ todo \subseteq Values(ir) /\ Unvisited /\ Links(abstract, identity, intrs)
      /\ DOMAIN abstract \cup DOMAIN shadows \cup Sources \subseteq Values(ir)
      /\ CastsIn(ir, identity)
  BY <1>1 DEF CompileInv, BeforeTypes, Links
<1>3. Sources' = Sources
  BY <1>1 DEF Sources
<1>4. /\ Links(abstract, identity, intrs)' /\ Kept(abstract, abstract')
      /\ \A w \in DOMAIN abstract' \ DOMAIN abstract :
           w \in Values(ir) /\ (w = v \/ \E u \in DOMAIN identity : w = identity[u])
      /\ \A u \in DOMAIN identity' : identity'[u] = v \/ (u \in DOMAIN identity /\ identity'[u] = identity[u])
  <2>1. CASE ProcessIdentity(v)
    BY <1>1, <2>1, ProcessIdentityKeeps
  <2>2. CASE ProcessValue(v)
    <3>1. identity' = identity
      BY <2>2 DEF ProcessValue
    <3> QED
      BY <1>1, <2>2, <3>1, ProcessValueKeeps
  <2>3. CASE UNCHANGED <<abstract, identity, intrs, redirected>>
    BY <1>1, <1>2, <1>3, <2>3 DEF Links, Kept
  <2> QED
    BY <2>1, <2>2, <2>3 DEF ProcessType
<1>5. Unvisited'
  <2>1. ASSUME NEW w \in DOMAIN abstract', w \in todo'
        PROVE  ir.kind[w] \in {"arg", "call", "div"}
    <3>1. w # v /\ w \in todo
      BY <1>1, <2>1
    <3>2. w \in DOMAIN abstract
      BY <1>2, <1>4, <3>1 DEF Unvisited
    <3> QED
      BY <1>1, <1>2, <3>1, <3>2 DEF Unvisited
  <2>2. \A u \in DOMAIN identity' : identity'[u] \notin todo'
    BY <1>1, <1>2, <1>4 DEF Unvisited
  <2> QED
    BY <1>1, <2>1, <2>2 DEF Unvisited
<1>6. DOMAIN abstract' \subseteq Values(ir)
  BY <1>2, <1>4
<1>7. CompileInv'
  BY <1>1, <1>2, <1>3, <1>4, <1>5, <1>6 DEF CompileInv, BeforeTypes
<1> QED
  BY <1>4, <1>7

\* A visit of a store.
LEMMA ProcessStoreKeeps ==
  ASSUME CompileInv, NEW s \in Values(ir), ProcessStore(s)
  PROVE  CompileInv'
<1> DEFINE op == Operation(s)
           is == With(intrs, <<s, op, 0>>, Intrinsic(s, op))
<1>1. /\ stage = "stores" /\ stage' = stage /\ todo' = todo \ {s}
      /\ abstract' = abstract /\ identity' = identity /\ shadows' = shadows
      /\ ir' = ir /\ types' = types /\ toAdd' = toAdd /\ worklist' = worklist
  BY DEF ProcessStore, dfaVars
<1>2. intrs' = intrs \/ intrs' = is
  BY DEF ProcessStore
<1>3. Links(abstract, identity, intrs) /\ Sources' = Sources
  BY <1>1 DEF CompileInv, Sources
<1>4. WellLinked(intrs)
  BY <1>3 DEF Links, WellLinked
<1>5. WellLinked(is) /\ DOMAIN is = DOMAIN intrs \cup {<<s, op, 0>>}
  BY <1>4, IntrinsicAdded
<1> HIDE DEF is
<1>6. Links(abstract, identity, intrs)'
  BY <1>1, <1>2, <1>3, <1>5 DEF Links, Made, WellLinked
<1> QED
  BY <1>1, <1>3, <1>6 DEF CompileInv, BeforeTypes

\* A visit of a branch.
LEMMA ProcessBranchKeeps ==
  ASSUME CompileInv, NEW b \in Values(ir), ProcessBranch(b)
  PROVE  CompileInv'
<1> DEFINE is1 == With(intrs, <<b, "tobool", 0>>, Intrinsic(b, "tobool"))
           is2 == With(is1, <<b, "assume", 0>>, Intrinsic(b, "assume"))
           is3 == With(is2, <<b, "assume", 1>>, Intrinsic(b, "assume"))
<1>1. /\ stage = "branches" /\ stage' = stage /\ todo' = todo \ {b}
      /\ abstract' = abstract /\ identity' = identity /\ shadows' = shadows
      /\ ir' = ir /\ types' = types /\ toAdd' = toAdd /\ worklist' = worklist
  BY DEF ProcessBranch, dfaVars
<1>2. intrs' = intrs \/ intrs' = is3
  BY DEF ProcessBranch, Assumed
<1>3. Links(abstract, identity, intrs) /\ Sources' = Sources
  BY <1>1 DEF CompileInv, Sources
<1>4. WellLinked(intrs)
  BY <1>3 DEF Links, WellLinked
<1>a. \A is, id, op : /\ WellLinked(is) => WellLinked(With(is, id, Intrinsic(b, op)))
                      /\ DOMAIN With(is, id, Intrinsic(b, op)) = DOMAIN is \cup {id}
  BY IntrinsicAdded
<1>5. WellLinked(is1) /\ DOMAIN is1 = DOMAIN intrs \cup {<<b, "tobool", 0>>}
  BY <1>4, <1>a
<1> HIDE DEF is1
<1>6. WellLinked(is2) /\ DOMAIN is2 = DOMAIN is1 \cup {<<b, "assume", 0>>}
  BY <1>5, <1>a
<1> HIDE DEF is2
<1>7. WellLinked(is3) /\ DOMAIN is3 = DOMAIN is2 \cup {<<b, "assume", 1>>}
  BY <1>6, <1>a
<1> HIDE DEF is3
<1>8. Links(abstract, identity, intrs)'
  BY <1>1, <1>2, <1>3, <1>5, <1>6, <1>7 DEF Links, Made, WellLinked
<1> QED
  BY <1>1, <1>3, <1>8 DEF CompileInv, BeforeTypes

\* The stashes of calls and returns.
LEMMA TransfersKeeps ==
  ASSUME CompileInv, Transfers
  PROVE  CompileInv'
<1>1. /\ stage = "branches" /\ stage' = "lower" /\ todo' = todo
      /\ abstract' = abstract /\ identity' = identity /\ shadows' = shadows
      /\ ir' = ir /\ types' = types /\ toAdd' = toAdd /\ worklist' = worklist
  BY DEF Transfers, dfaVars
<1>2. /\ DOMAIN intrs \subseteq DOMAIN intrs'
      /\ \A id \in DOMAIN intrs : intrs'[id] = intrs[id]
      /\ \A id \in DOMAIN intrs' \ DOMAIN intrs :
           \E c : intrs'[id] = [args |-> <<Argument(c)>>, test |-> {}]
  BY DEF Transfers
<1>3. Links(abstract, identity, intrs) /\ Sources' = Sources
  BY <1>1 DEF CompileInv, Sources
<1>4. \A c : /\ Argument(c) = [con |-> Argument(c).con, taint |-> Argument(c).taint,
                               abs |-> IF Argument(c).con \in DOMAIN abstract
                                       THEN abstract[Argument(c).con] ELSE Null]
             /\ Argument(c).taint = IF Argument(c).con \in DOMAIN shadows
                                    THEN shadows[Argument(c).con] ELSE {}
  BY DEF Argument, Shadow
<1>5. \A id \in DOMAIN intrs' \ DOMAIN intrs :
        /\ intrs'[id] = [args |-> intrs'[id].args, test |-> intrs'[id].test]
        /\ \A k \in DOMAIN intrs'[id].args : \E c : intrs'[id].args[k] = Argument(c)
  <2> SUFFICES ASSUME NEW id \in DOMAIN intrs' \ DOMAIN intrs
               PROVE  /\ intrs'[id] = [args |-> intrs'[id].args, test |-> intrs'[id].test]
                      /\ \A k \in DOMAIN intrs'[id].args : \E c : intrs'[id].args[k] = Argument(c)
    OBVIOUS
  <2>1. PICK c : intrs'[id] = [args |-> <<Argument(c)>>, test |-> {}]
    BY <1>2
  <2>2. \A k \in DOMAIN intrs'[id].args : intrs'[id].args[k] = Argument(c)
    BY <2>1
  <2> QED
    BY <2>1, <2>2
<1>6. Linked(intrs', abstract)
  BY <1>2, <1>3, <1>4, <1>5 DEF Links, Linked
<1>7. TaintedBy(intrs', shadows)
  BY <1>2, <1>3, <1>4, <1>5 DEF Links, TaintedBy
<1>8. Links(abstract, identity, intrs)'
  BY <1>1, <1>2, <1>3, <1>6, <1>7 DEF Links, Made
<1> QED
  BY <1>1, <1>3, <1>8 DEF CompileInv, BeforeTypes

\* Only divisions are erased.
LEMMA LowerKeeps ==
  ASSUME CompileInv, Lower
  PROVE  CompileInv'
<1> DEFINE K == [v \in Values(ir) |-> IF <<v, "binary", 0>> \in DOMAIN intrs /\ Faultable(v)
                                      THEN "erased" ELSE ir.kind[v]]
<1>1. /\ stage = "lower" /\ stage' = "done" /\ todo' = todo
      /\ abstract' = abstract /\ identity' = identity /\ shadows' = shadows /\ intrs' = intrs
      /\ types' = types /\ toAdd' = toAdd /\ worklist' = worklist
      /\ ir' = [ir EXCEPT !.kind = K]
  BY DEF Lower
<1>2. Laid(ir) /\ Links(abstract, identity, intrs) /\ Sources' = Sources
  BY <1>1 DEF CompileInv, Sources
<1>3. \A v \in Values(ir) : K[v] = ir.kind[v] \/ (ir.kind[v] = "div" /\ K[v] = "erased")
  BY DEF Faultable
<1>4. /\ ir'.kind = K /\ ir'.ops = ir.ops /\ ir'.callee = ir.callee /\ ir'.formals = ir.formals
      /\ DOMAIN ir' = DOMAIN ir /\ Values(ir') = Values(ir)
  BY <1>1, <1>2 DEF Laid, Values
<1> HIDE DEF K
<1>5. Laid(ir')
  <2>1. \A v \in Values(ir) : K[v] \in {"arg", "call"} \cup DOMAIN Arity => ir.kind[v] = K[v]
    BY <1>3 DEF Arity
  <2>2. \A v \in Values(ir) : ir.kind[v] \in {"arg", "call"} => ir.kind[v] = K[v]
    BY <1>3
  <2>3. /\ IsFiniteSet(Values(ir')) /\ {"kind", "ops"} \subseteq DOMAIN ir'
        /\ \A v \in Values(ir') : Range(ir'.ops[v]) \subseteq Values(ir')
    BY <1>2, <1>4 DEF Laid
  <2>4. \A v \in Values(ir') : ir'.kind[v] \in DOMAIN Arity => DOMAIN ir'.ops[v] = 1 .. Arity[ir'.kind[v]]
    BY <1>2, <1>4, <2>1 DEF Laid
  <2>5. \A c : c \in DOMAIN ir'.callee <=> c \in Values(ir') /\ ir'.kind[c] = "call"
    BY <1>2, <1>4, <2>1, <2>2 DEF Laid
  <2>6. \A v : (\E f \in DOMAIN ir'.formals : v \in Range(ir'.formals[f]))
                 <=> v \in Values(ir') /\ ir'.kind[v] = "arg"
    BY <1>2, <1>4, <2>1, <2>2 DEF Laid
  <2> QED
    BY <2>3, <2>4, <2>5, <2>6 DEF Laid
<1>6. CastsIn(ir', identity)
  BY <1>2, <1>3, <1>4 DEF Links, CastsIn
<1>7. Rooted(ir', abstract)
  <2> SUFFICES ASSUME NEW w \in DOMAIN abstract, ir'.kind[w] = "noop"
               PROVE  ir'.ops[w][1] \in DOMAIN abstract /\ abstract[ir'.ops[w][1]] = abstract[w]
    BY DEF Rooted
  <2>1. w \in Values(ir)
    BY DEF CompileInv
  <2>2. ir.kind[w] = "noop"
    BY <1>3, <1>4, <2>1
  <2> QED
    BY <1>2, <1>4, <2>2 DEF Links, Rooted
<1>8. Links(abstract, identity, intrs)'
  BY <1>1, <1>2, <1>6, <1>7 DEF Links
<1> QED
  BY <1>1, <1>2, <1>4, <1>5, <1>8 DEF CompileInv, BeforeTypes

\* Every step keeps the invariant, and the abstract values there are.
LEMMA CompileStepInv ==
  CompileInv /\ [CompileNext]_compileVars => CompileInv' /\ Kept(abstract, abstract')
<1> SUFFICES ASSUME CompileInv, [CompileNext]_compileVars
             PROVE  CompileInv' /\ Kept(abstract, abstract')
  OBVIOUS
<1>1. CASE DfaNext /\ UNCHANGED insVars
  <2>1. Kept(abstract, abstract')
    BY <1>1 DEF insVars, Kept
  <2> QED
    BY <1>1, <2>1, DfaNextKeeps
<1>2. CASE LowerGeps
  <2>1. Kept(abstract, abstract')
    BY <1>2 DEF LowerGeps, Kept
  <2> QED
    BY <1>2, <2>1, LowerGepsKeeps
<1>3. CASE Unstash
  <2>1. stage = "unstash"
    BY <1>3 DEF Unstash
  <2>2. abstract = << >>
    BY <2>1 DEF CompileInv
  <2>3. Kept(abstract, abstract')
    BY <2>2 DEF Kept
  <2> QED
    BY <1>3, <2>3, UnstashKeeps
<1>4. CASE Shadows
  <2>1. Kept(abstract, abstract')
    BY <1>4 DEF Shadows, Kept
  <2> QED
    BY <1>4, <2>1, ShadowsKeeps
<1>5. ASSUME NEW v \in Values(ir), ProcessType(v)
      PROVE  CompileInv' /\ Kept(abstract, abstract')
  BY <1>5, ProcessTypeKeeps
<1>6. ASSUME NEW v \in Values(ir), ProcessStore(v)
      PROVE  CompileInv' /\ Kept(abstract, abstract')
  <2>1. Kept(abstract, abstract')
    BY <1>6 DEF ProcessStore, Kept
  <2> QED
    BY <1>6, <2>1, ProcessStoreKeeps
<1>7. ASSUME NEW v \in Values(ir), ProcessBranch(v)
      PROVE  CompileInv' /\ Kept(abstract, abstract')
  <2>1. Kept(abstract, abstract')
    BY <1>7 DEF ProcessBranch, Kept
  <2> QED
    BY <1>7, <2>1, ProcessBranchKeeps
<1>8. CASE Stores \/ Branches
  <2>1. PICK from \in {"types", "stores"}, to \in {"stores", "branches"}, S \in SUBSET Values(ir) :
          Enter(from, to, S)
    BY <1>8 DEF Stores, Branches
  <2>2. Kept(abstract, abstract')
    BY <2>1 DEF Enter, Kept
  <2> QED
    BY <2>1, <2>2, EnterKeeps
<1>9. CASE Transfers
  <2>1. Kept(abstract, abstract')
    BY <1>9 DEF Transfers, Kept
  <2> QED
    BY <1>9, <2>1, TransfersKeeps
<1>10. CASE Lower
  <2>1. Kept(abstract, abstract')
    BY <1>10 DEF Lower, Kept
  <2> QED
    BY <1>10, <2>1, LowerKeeps
<1>11. CASE UNCHANGED compileVars
  <2>1. /\ stage' = stage /\ todo' = todo /\ abstract' = abstract /\ identity' = identity
        /\ shadows' = shadows /\ intrs' = intrs
        /\ ir' = ir /\ types' = types /\ toAdd' = toAdd /\ worklist' = worklist
        /\ UNCHANGED dfaVars
    BY <1>11 DEF compileVars, insVars, dfaVars
  <2>2. stage = "dfa" => DfaInv'
    BY <2>1, DfaStepInv DEF CompileInv
  <2>3. Sources' = Sources /\ Unvisited' = Unvisited /\ Kept(abstract, abstract')
    BY <2>1 DEF Sources, Unvisited, Kept
  <2>4. Links(abstract, identity, intrs)' = Links(abstract, identity, intrs)
    BY <2>1, <2>3 DEF Links
  <2> QED
    BY <2>1, <2>2, <2>3, <2>4 DEF CompileInv
<1> QED
  BY <1>1, <1>2, <1>3, <1>4, <1>5, <1>6, <1>7, <1>8, <1>9, <1>10, <1>11 DEF CompileNext

(***************************************************************************)
(* The theorems.                                                           *)
(***************************************************************************)

\* The invariant of every behaviour.
THEOREM CompileInvariant == CompileSpec => []CompileInv
<1>1. CompileInit => CompileInv
  BY CompileInitInv
<1>2. CompileInv /\ [CompileNext]_compileVars => CompileInv'
  BY CompileStepInv
<1> QED
  BY <1>1, <1>2, PTL DEF CompileSpec

\* Abstract values, taints and intrinsics are of values of the program, and what
\* an operand was linked to exists (syntactic.cpp:251-369, shadow.cpp:110-150).
THEOREM CompileTypeCorrect == CompileSpec => []CompileTypeOK
<1>1. CompileInv => CompileTypeOK
  <2> SUFFICES ASSUME CompileInv PROVE CompileTypeOK
    OBVIOUS
  <2>1. stage \in BeforeTypes \cup {"types", "stores", "branches", "lower", "done"} /\ todo \subseteq Values(ir)
    BY DEF CompileInv
  <2>2. /\ DOMAIN abstract \cup DOMAIN shadows \cup Sources \subseteq Values(ir)
        /\ Links(abstract, identity, intrs)
    BY DEF CompileInv
  <2>3. \A v \in DOMAIN identity : ir.kind[identity[v]] = "noop"
    BY <2>2 DEF Links, CastsIn
  <2>4. \A v \in DOMAIN abstract : abstract[v][2] = "unstash" \/ abstract[v] \in DOMAIN intrs
    BY <2>2 DEF Links, Made
  <2>5. ASSUME NEW id \in DOMAIN intrs, NEW a \in Range(intrs[id].args)
        PROVE  a.taint \subseteq Sources /\ (a.abs = Null \/ a.abs \in Range(abstract))
    <3>1. PICK k \in DOMAIN intrs[id].args : a = intrs[id].args[k]
      BY DEF Range
    <3>2. a = [con |-> a.con, taint |-> a.taint,
               abs |-> IF a.con \in DOMAIN abstract THEN abstract[a.con] ELSE Null]
      BY <2>2, <3>1 DEF Links, Linked
    <3>3. a.taint \subseteq Sources
      <4>1. a.taint = IF a.con \in DOMAIN shadows THEN shadows[a.con] ELSE {}
        BY <2>2, <3>1 DEF Links, TaintedBy
      <4> QED
        BY <4>1 DEF Sources, Range
    <3>4. a.abs = IF a.con \in DOMAIN abstract THEN abstract[a.con] ELSE Null
      BY <3>2
    <3> QED
      BY <3>3, <3>4 DEF Range
  <2> QED
    BY <2>1, <2>2, <2>3, <2>4, <2>5 DEF CompileTypeOK, BeforeTypes
<1> QED
  BY <1>1, CompileInvariant, PTL

\* In whatever order the values are visited, no operand keeps a placeholder while
\* its value has an abstract value, and casts that change nothing have the
\* abstract value of what they cast (syntactic.cpp:231-313).
THEOREM PlaceholdersFilledAlways == CompileSpec => []PlaceholdersFilled
<1>1. CompileInv => PlaceholdersFilled
  <2> SUFFICES ASSUME CompileInv PROVE PlaceholdersFilled
    OBVIOUS
  <2>1. Linked(intrs, abstract) /\ Followed(identity, abstract)
    BY DEF CompileInv, Links
  <2>2. ASSUME NEW id \in DOMAIN intrs, NEW k \in DOMAIN intrs[id].args
        PROVE  LET a == intrs[id].args[k]
               IN  a.abs = IF a.con \in DOMAIN abstract THEN abstract[a.con] ELSE Null
    <3> DEFINE a == intrs[id].args[k]
    <3>1. a = [con |-> a.con, taint |-> a.taint,
               abs |-> IF a.con \in DOMAIN abstract THEN abstract[a.con] ELSE Null]
      BY <2>1 DEF Linked
    <3> HIDE DEF a
    <3>2. a.abs = IF a.con \in DOMAIN abstract THEN abstract[a.con] ELSE Null
      BY <3>1
    <3> QED
      BY <3>2 DEF a
  <2> QED
    BY <2>1, <2>2 DEF PlaceholdersFilled, Followed
<1> QED
  BY <1>1, CompileInvariant, PTL

\* What was linked to an operand is not made again (syntactic.cpp:236, 322).
THEOREM AbstractOnceAlways == CompileSpec => AbstractOnce
<1>1. CompileInv /\ [CompileNext]_compileVars =>
        [\A v \in DOMAIN abstract : v \in DOMAIN abstract' /\ abstract'[v] = abstract[v]]_compileVars
  BY CompileStepInv DEF Kept
<1> QED
  BY <1>1, CompileInvariant, PTL DEF CompileSpec, AbstractOnce

\* The same program asks for edges with rules only, in the whole compiler.
THEOREM CompileEdgesSupported == CompileSpec /\ Supportable(ir) => []EdgesSupported
<1> DEFINE Inv == ~failed /\ (stage = "dfa" => SupportInv)
<1>1. CompileInit /\ Supportable(ir) => Inv
  BY DEF CompileInit, DfaInit, SupportInv
<1>2. CompileInv /\ Inv /\ [CompileNext]_compileVars => Inv'
  <2> SUFFICES ASSUME CompileInv, Inv, [CompileNext]_compileVars
               PROVE  Inv'
    OBVIOUS
  <2>1. CASE DfaNext /\ UNCHANGED insVars
    <3>1. stage' = stage /\ stage = "dfa"
      <4>1. toAdd # {} \/ worklist # << >>
        BY <2>1 DEF DfaNext, AddRoot, Process
      <4> QED
        BY <2>1, <4>1 DEF insVars, CompileInv
    <3>2. DfaInv /\ SupportInv
      BY <3>1 DEF CompileInv
    <3>3. SupportInv'
      BY <2>1, <3>2, SupportStep
    <3> QED
      BY <3>3 DEF SupportInv
  <2>2. CASE LowerGeps
    BY <2>2 DEF LowerGeps
  <2>3. CASE Unstash \/ Shadows
    BY <2>3 DEF Unstash, Shadows, dfaVars
  <2>4. ASSUME NEW v \in Values(ir), ProcessType(v) \/ ProcessStore(v) \/ ProcessBranch(v)
        PROVE  Inv'
    BY <2>4 DEF ProcessType, ProcessStore, ProcessBranch, dfaVars
  <2>5. CASE Stores \/ Branches \/ Transfers \/ Lower
    BY <2>5 DEF Stores, Branches, Enter, Transfers, Lower, dfaVars
  <2>6. CASE UNCHANGED compileVars
    BY <2>6 DEF compileVars, insVars, SupportInv, Supportable
  <2> QED
    BY <2>1, <2>2, <2>3, <2>4, <2>5, <2>6 DEF CompileNext
<1>3. Inv => EdgesSupported
  BY DEF EdgesSupported
<1> QED
  BY <1>1, <1>2, <1>3, CompileInvariant, PTL DEF CompileSpec

(***************************************************************************)
(* Taints.                                                                 *)
(***************************************************************************)

\* A set reaches itself and what it forwards the taints of.
LEMMA ReachedHas ==
  ASSUME Laid(ir), NEW S \in SUBSET Values(ir)
  PROVE  S \subseteq Reached(S) /\ \A v \in Reached(S) : Forwarded(v) \subseteq Reached(S)
<1> DEFINE next == [v \in Values(ir) |-> Forwarded(v)]
<1>1. Steps(ir, S, next)
  <2>1. \A v \in Values(ir) : Forwarded(v) \in SUBSET Values(ir)
    BY DEF Forwarded
  <2> QED
    BY <2>1 DEF Steps, Laid
<1>2. Reached(S) = Closure(ir, S, next)
  BY DEF Reached
<1>3. \A v \in Values(ir) : next[v] = Forwarded(v)
  OBVIOUS
<1> HIDE DEF next
<1>4. /\ S \subseteq Reached(S) /\ Reached(S) \subseteq Values(ir)
      /\ \A v \in Reached(S) : next[v] \subseteq Reached(S)
  BY <1>1, <1>2, ClosureIs
<1> QED
  BY <1>3, <1>4

\* Where a value gets its value from is among what its taint comes from.
LEMMA OriginsReached ==
  ASSUME Laid(ir), NEW v \in Values(ir), NEW K,
         \A w \in Values(ir) : ir.kind[w] \in K => Range(ir.ops[w]) \subseteq Forwarded(w)
  PROVE  Origins(v, K) \subseteq Reached({v}) /\ Origins(v, K) \subseteq Values(ir)
<1> DEFINE next == [w \in Values(ir) |-> IF ir.kind[w] \in K THEN Range(ir.ops[w]) ELSE {}]
<1>1. Steps(ir, {v}, next)
  BY DEF Steps, Laid
<1>2. Origins(v, K) = Closure(ir, {v}, next)
  BY DEF Origins
<1>3. {v} \subseteq Reached({v}) /\ \A w \in Reached({v}) : Forwarded(w) \subseteq Reached({v})
  BY ReachedHas
<1>4. \A w \in Reached({v}) \cap Values(ir) : next[w] \subseteq Reached({v})
  BY <1>3
<1> HIDE DEF next
<1>5. Origins(v, K) \subseteq Values(ir)
  BY <1>1, <1>2, ClosureIs
<1>6. Closure(ir, {v}, next) \subseteq Reached({v})
  BY <1>1, <1>3, <1>4, ClosureWithin
<1> QED
  BY <1>2, <1>5, <1>6

\* The types stay those of the analysis.
TypesAreOnions == \A v \in DOMAIN types : types[v] \in Onions

\* Every value of an abstract type has a taint, that is set by all the abstract
\* values that may be in it.
Tainted == \A v : Typed(v, IsAbstract) => v \in DOMAIN shadows /\ Carries(v) \subseteq shadows[v]

\* What the taints are made from: nothing with a type is erased yet, and there is
\* a taint of what is unstashed.
TaintInv ==
  /\ stage \in {"unstash", "shadows"} => \A v \in DOMAIN types : ir.kind[v] # "erased"
  /\ stage = "shadows" => DOMAIN shadows = Unstashed
  /\ stage \notin BeforeTypes => Tainted

\* What is abstract may be.
LEMMA AbstractMaybe ==
  ASSUME NEW o \in Onions, IsAbstract(o)
  PROVE  MaybeAbstract(o)
<1>1. Len(o) \in DOMAIN o
  BY DEF Onions
<1>2. o[Len(o)].abstract # "no"
  BY DEF IsAbstract, Last
<1> QED
  BY <1>1, <1>2 DEF MaybeAbstract

\* Lowering pointer arithmetic adds no types of its own.
LEMMA GepTypes ==
  ASSUME TypesAreOnions, LowerGeps
  PROVE  TypesAreOnions'
<1> DEFINE geps == {g \in DOMAIN types : ir.kind[g] = "gep"}
           gep(v) == CHOOSE g \in geps : v \in GepTyped(ir, g)
<1>1. types' = [v \in (DOMAIN types \ geps) \cup UNION {GepTyped(ir, g) : g \in geps} |->
                   IF v \in DOMAIN types THEN types[v] ELSE GepType(ir, gep(v), v)]
  BY DEF LowerGeps
<1>2. \A g \in geps : g \in DOMAIN types
  OBVIOUS
<1>3. \A v \in UNION {GepTyped(ir, g) : g \in geps} : gep(v) \in geps /\ v \in GepTyped(ir, gep(v))
  OBVIOUS
<1> HIDE DEF geps, gep
<1>4. ASSUME NEW g \in geps, NEW v \in GepTyped(ir, g)
      PROVE  GepType(ir, g, v) \in Onions
  <2>1. CASE "scale" \in DOMAIN ir.newgep[g] /\ v = ir.newgep[g].scale
    <3>1. ir.ops[g][2] \in DOMAIN types
      BY <2>1 DEF GepTyped
    <3> QED
      BY <2>1, <3>1 DEF GepType, TypesAreOnions
  <2>2. CASE ~("scale" \in DOMAIN ir.newgep[g] /\ v = ir.newgep[g].scale)
    BY <1>2, <2>2 DEF GepType, TypesAreOnions
  <2> QED
    BY <2>1, <2>2
<1>5. ASSUME NEW v \in DOMAIN types'
      PROVE  types'[v] \in Onions
  <2>1. CASE v \in DOMAIN types
    BY <1>1, <2>1 DEF TypesAreOnions
  <2>2. CASE v \notin DOMAIN types
    <3>1. v \in UNION {GepTyped(ir, g) : g \in geps} /\ types'[v] = GepType(ir, gep(v), v)
      BY <1>1, <2>2
    <3> QED
      BY <1>3, <1>4, <3>1
  <2> QED
    BY <2>1, <2>2
<1> QED
  BY <1>5 DEF TypesAreOnions

\* Nor does any other loop change them.
LEMMA TypesStep == CompileInv /\ TypesAreOnions /\ [CompileNext]_compileVars => TypesAreOnions'
<1> SUFFICES ASSUME CompileInv, TypesAreOnions, [CompileNext]_compileVars
             PROVE  TypesAreOnions'
  OBVIOUS
<1>1. CASE DfaNext /\ UNCHANGED insVars
  <2>1. toAdd # {} \/ worklist # << >>
    BY <1>1 DEF DfaNext, AddRoot, Process
  <2>2. stage = "dfa" /\ stage' = stage
    BY <1>1, <2>1 DEF CompileInv, insVars
  <2>3. DfaInv'
    BY <1>1, <2>2, DfaStepInv DEF CompileInv
  <2> QED
    BY <2>3 DEF DfaInv, TypesFit, TypesAreOnions
<1>2. CASE types' = types
  BY <1>2 DEF TypesAreOnions
<1>3. CASE LowerGeps
  BY <1>3, GepTypes
<1>4. CASE \E v \in Values(ir) : ProcessType(v) \/ ProcessStore(v) \/ ProcessBranch(v)
  BY <1>2, <1>4 DEF ProcessType, ProcessStore, ProcessBranch, dfaVars
<1>5. CASE Unstash \/ Shadows \/ Stores \/ Branches \/ Transfers \/ Lower
  BY <1>2, <1>5 DEF Unstash, Shadows, Stores, Branches, Enter, Transfers, Lower, dfaVars
<1>6. CASE UNCHANGED compileVars
  BY <1>2, <1>6 DEF compileVars
<1> QED
  BY <1>1, <1>3, <1>4, <1>5, <1>6 DEF CompileNext

\* Sources of abstract values are unstashed or melted.
LEMMA CarriedIs ==
  ASSUME Laid(ir), TypesAreOnions, \A x \in DOMAIN types : ir.kind[x] # "erased", DOMAIN types \subseteq Values(ir),
         NEW v, NEW w \in Carries(v)
  PROVE  w \in Unstashed \cup {l \in Values(ir) : Melting(l)}
<1>1. /\ w \in DOMAIN types /\ IsAbstract(types[w]) /\ w \in Values(ir)
      /\ \/ ir.kind[w] \in {"arg", "call", "div", "erased"}
         \/ ir.kind[w] = "load" /\ ~Typed(ir.ops[w][1], IsAbstractPointer)
  BY DEF Carries, Typed
<1>2. Typed(w, IsAbstract) /\ Typed(w, MaybeAbstract)
  BY <1>1, AbstractMaybe DEF Typed, TypesAreOnions
<1>3. CASE ir.kind[w] = "arg"
  <2>1. PICK f \in DOMAIN ir.formals : w \in Range(ir.formals[f])
    BY <1>1, <1>3 DEF Laid
  <2>2. PICK i \in DOMAIN ir.formals[f] : w = ir.formals[f][i]
    BY <2>1 DEF Range
  <2>3. Typed(ir.formals[f][i], MaybeAbstract)
    BY <1>2, <2>2
  <2> QED
    BY <2>1, <2>3 DEF Unstashed
<1>4. CASE ir.kind[w] = "call"
  BY <1>1, <1>2, <1>4 DEF Laid, Unstashed
<1>5. CASE ir.kind[w] = "div"
  BY <1>1, <1>5 DEF Unstashed, Faultable
<1>6. CASE ir.kind[w] = "load" /\ ~Typed(ir.ops[w][1], IsAbstractPointer)
  BY <1>1, <1>2, <1>6 DEF Melting
<1> QED
  BY <1>1, <1>3, <1>4, <1>5, <1>6

\* The taints that are made have them all.
LEMMA ShadowsTainted ==
  ASSUME CompileInv, TypesAreOnions, TaintInv, Shadows, stage' # "overflow"
  PROVE  Tainted'
<1> DEFINE K == {"bin", "cmp", "cast", "noop", "phi"}
           A == {w \in DOMAIN types : Typed(w, IsAbstract)}
           made == DOMAIN shadows \cup {l \in Values(ir) : Melting(l)}
<1>1. /\ stage = "shadows" /\ ir' = ir /\ types' = types
      /\ shadows' = [v \in DOMAIN shadows \cup Reached(A) |-> Reached({v}) \cap made]
  BY DEF Shadows, dfaVars
<1>2. /\ Laid(ir) /\ DOMAIN types \subseteq Values(ir) /\ DOMAIN shadows = Unstashed
      /\ \A v \in DOMAIN types : ir.kind[v] # "erased"
  BY <1>1 DEF CompileInv, TaintInv
<1>3. A \in SUBSET Values(ir) /\ \A v : Typed(v, IsAbstract) => v \in A
  BY <1>2 DEF Typed
<1>4. \A w \in Unstashed : ir.kind[w] \in {"arg", "call", "div"}
  BY <1>2 DEF Unstashed, Laid, Faultable
<1>5. \A w \in Values(ir) : ir.kind[w] \in K => Range(ir.ops[w]) \subseteq Forwarded(w)
  BY <1>2, <1>4 DEF Forwarded, ForwardKinds, Laid
<1> HIDE DEF A, K
<1>6. A \subseteq Reached(A)
  BY <1>2, <1>3, ReachedHas
<1>7. ASSUME NEW v, Typed(v, IsAbstract)
      PROVE  v \in DOMAIN shadows' /\ Carries(v) \subseteq shadows'[v]
  <2>1. v \in A /\ v \in Values(ir) /\ v \in DOMAIN shadows' /\ shadows'[v] = Reached({v}) \cap made
    BY <1>1, <1>3, <1>6, <1>7
  <2>2. Origins(v, K) \subseteq Reached({v})
    BY <1>2, <1>5, <2>1, OriginsReached
  <2>3. Carries(v) \subseteq Origins(v, K)
    BY DEF Carries, K
  <2>4. Carries(v) \subseteq made
    BY <1>2, CarriedIs
  <2> QED
    BY <2>1, <2>2, <2>3, <2>4
<1>8. \A v : Typed(v, IsAbstract)' <=> Typed(v, IsAbstract)
  BY <1>1 DEF Typed
<1>9. \A v : Carries(v)' = Carries(v)
  BY <1>1 DEF Carries, Origins, Typed
<1> QED
  BY <1>7, <1>8, <1>9 DEF Tainted

\* Erasing divisions changes nothing about where values come from.
LEMMA LowerTainted ==
  ASSUME CompileInv, TaintInv, Lower
  PROVE  Tainted'
<1>1. /\ stage = "lower" /\ types' = types /\ shadows' = shadows
      /\ ir' = [ir EXCEPT !.kind = [v \in Values(ir) |->
                   IF <<v, "binary", 0>> \in DOMAIN intrs /\ Faultable(v) THEN "erased" ELSE ir.kind[v]]]
  BY DEF Lower
<1>2. {"kind", "ops"} \subseteq DOMAIN ir /\ DOMAIN types \subseteq Values(ir)
  BY <1>1 DEF CompileInv, Laid
<1>3. /\ Values(ir') = Values(ir) /\ ir'.ops = ir.ops
      /\ \A v \in Values(ir) : ir'.kind[v] = ir.kind[v] \/ (ir.kind[v] = "div" /\ ir'.kind[v] = "erased")
  BY <1>1, <1>2 DEF Values, Faultable
<1>4. \A v : Typed(v, IsAbstract)' <=> Typed(v, IsAbstract)
  BY <1>1 DEF Typed
<1> DEFINE K == {"bin", "cmp", "cast", "noop", "phi"}
<1>5. \A v : Origins(v, K)' = Origins(v, K)
  <2>1. [w \in Values(ir') |-> IF ir'.kind[w] \in K THEN Range(ir'.ops[w]) ELSE {}]
          = [w \in Values(ir) |-> IF ir.kind[w] \in K THEN Range(ir.ops[w]) ELSE {}]
    BY <1>3
  <2>2. \A S, next : Closure(ir', S, next) = Closure(ir, S, next)
    BY <1>3 DEF Closure
  <2> QED
    BY <2>1, <2>2 DEF Origins
<1>6. ASSUME NEW v, NEW w, w \in Carries(v)'
      PROVE  w \in Carries(v)
  <2>1. w \in Origins(v, K) /\ w \in DOMAIN types /\ IsAbstract(types[w])
    BY <1>1, <1>5, <1>6 DEF Carries, Typed
  <2>2. \/ ir'.kind[w] \in {"arg", "call", "div", "erased"}
        \/ ir'.kind[w] = "load" /\ ~Typed(ir.ops[w][1], IsAbstractPointer)'
    BY <1>6 DEF Carries, Typed
  <2>3. \/ ir.kind[w] \in {"arg", "call", "div", "erased"}
        \/ ir.kind[w] = "load" /\ ~Typed(ir.ops[w][1], IsAbstractPointer)
    BY <1>1, <1>2, <1>3, <2>1, <2>2 DEF Typed
  <2> QED
    BY <2>1, <2>3 DEF Carries, Typed
<1>7. Tainted
  BY <1>1 DEF TaintInv, BeforeTypes
<1> QED
  BY <1>1, <1>4, <1>6, <1>7 DEF Tainted

\* Every step keeps it.
LEMMA TaintStep ==
  CompileInv /\ TypesAreOnions /\ TaintInv /\ [CompileNext]_compileVars => TaintInv'
<1> SUFFICES ASSUME CompileInv, TypesAreOnions, TaintInv, [CompileNext]_compileVars
             PROVE  TaintInv'
  OBVIOUS
<1>1. CASE DfaNext /\ UNCHANGED insVars
  <2>1. toAdd # {} \/ worklist # << >>
    BY <1>1 DEF DfaNext, AddRoot, Process
  <2>2. stage = "dfa" /\ stage' = stage
    BY <1>1, <2>1 DEF CompileInv, insVars
  <2> QED
    BY <2>2 DEF TaintInv, BeforeTypes
<1>2. CASE LowerGeps
  <2> DEFINE geps == {g \in DOMAIN types : ir.kind[g] = "gep"}
  <2>1. /\ stage = "dfa" /\ stage' = "unstash" /\ ir' = LoweredGeps(ir, geps)
        /\ DOMAIN types' = (DOMAIN types \ geps) \cup UNION {GepTyped(ir, g) : g \in geps}
    BY <1>2 DEF LowerGeps
  <2>2. WellFormed(ir) /\ Operated(ir) /\ Lowerable(ir) /\ DOMAIN types \subseteq Values(ir)
    BY <2>1 DEF CompileInv, DfaInv, TypesFit
  <2>3. \A g \in geps : g \in Values(ir) /\ ir.kind[g] = "gep"
    BY <2>2
  <2>4. \A v \in DOMAIN types \ geps : v \in Values(ir) /\ v \notin geps
    BY <2>2
  <2>5. \A g \in geps : \A v \in GepTyped(ir, g) : v \in Values(ir) /\ v \notin geps
    BY <2>3, <2>2 DEF GepTyped, Lowerable
  <2> HIDE DEF geps
  <2>6. \A v \in Values(ir) : ir'.kind[v] = "erased" => v \in geps
    BY <2>1, <2>2, <2>3, GepsLaid
  <2> QED
    BY <2>1, <2>4, <2>5, <2>6 DEF TaintInv, BeforeTypes
<1>3. CASE Unstash
  <2>1. /\ stage = "unstash" /\ stage' = "shadows" /\ ir' = ir /\ types' = types
        /\ DOMAIN shadows' = Unstashed
    BY <1>3 DEF Unstash, dfaVars
  <2>2. Unstashed' = Unstashed
    BY <2>1 DEF Unstashed, Typed, Faultable
  <2> QED
    BY <2>1, <2>2 DEF TaintInv, BeforeTypes
<1>4. CASE Shadows
  <2>1. stage' \in {"overflow", "types"}
    BY <1>4 DEF Shadows
  <2> QED
    BY <1>4, <2>1, ShadowsTainted DEF TaintInv, BeforeTypes
<1>5. CASE stage \notin BeforeTypes /\ stage' \notin BeforeTypes /\ ir' = ir /\ types' = types /\ shadows' = shadows
  <2>1. \A v : Typed(v, IsAbstract)' <=> Typed(v, IsAbstract)
    BY <1>5 DEF Typed
  <2>2. \A v : Carries(v)' = Carries(v)
    BY <1>5 DEF Carries, Origins, Typed
  <2>3. Tainted'
    BY <1>5, <2>1, <2>2 DEF Tainted, TaintInv
  <2> QED
    BY <1>5, <2>3 DEF TaintInv, BeforeTypes
<1>6. ASSUME NEW v \in Values(ir), ProcessType(v) \/ ProcessStore(v) \/ ProcessBranch(v)
      PROVE  TaintInv'
  <2>1. stage \in {"types", "stores", "branches"} /\ stage' = stage /\ ir' = ir /\ types' = types /\ shadows' = shadows
    BY <1>6 DEF ProcessType, ProcessStore, ProcessBranch, dfaVars
  <2> QED
    BY <1>5, <2>1 DEF BeforeTypes
<1>7. CASE Stores \/ Branches \/ Transfers
  <2>1. /\ stage \in {"types", "stores", "branches"} /\ stage' \in {"stores", "branches", "lower"}
        /\ ir' = ir /\ types' = types /\ shadows' = shadows
    BY <1>7 DEF Stores, Branches, Enter, Transfers, dfaVars
  <2> QED
    BY <1>5, <2>1 DEF BeforeTypes
<1>8. CASE Lower
  <2>1. stage' = "done"
    BY <1>8 DEF Lower
  <2> QED
    BY <1>8, <2>1, LowerTainted DEF TaintInv
<1>9. CASE UNCHANGED compileVars
  <2>1. stage' = stage /\ ir' = ir /\ types' = types /\ shadows' = shadows
    BY <1>9 DEF compileVars, insVars
  <2>2. stage = "shadows" => DOMAIN shadows' = Unstashed'
    BY <2>1 DEF TaintInv, Unstashed, Typed, Faultable
  <2> QED
    BY <1>5, <2>1, <2>2 DEF TaintInv
<1> QED
  BY <1>1, <1>2, <1>3, <1>4, <1>6, <1>7, <1>8, <1>9 DEF CompileNext

\* Both hold in every behaviour.
LEMMA TaintInvariant == CompileSpec => [](TypesAreOnions /\ TaintInv)
<1>1. CompileInit => TypesAreOnions /\ TaintInv
  BY DEF CompileInit, DfaInit, TypesAreOnions, TaintInv, BeforeTypes
<1> QED
  BY <1>1, TypesStep, TaintStep, CompileInvariant, PTL DEF CompileSpec

\* No operation takes the concrete path although one of its operands may hold an
\* abstract value: the taints passed to an intrinsic have all the sources whose
\* abstract values may be in its operands (shadow.cpp:110-214, driver.cpp:68).
THEOREM TaintsCompleteAlways == CompileSpec => []TaintsComplete
<1>1. CompileInv /\ TaintInv => TaintsComplete
  <2> SUFFICES ASSUME CompileInv, TaintInv, Done,
                      NEW id \in DOMAIN intrs, NEW k \in DOMAIN intrs[id].args,
                      Typed(intrs[id].args[k].con, IsAbstract)
               PROVE  Carries(intrs[id].args[k].con) \subseteq intrs[id].args[k].taint
    BY DEF TaintsComplete, Typed, Range
  <2> DEFINE a == intrs[id].args[k]
  <2>1. a.taint = IF a.con \in DOMAIN shadows THEN shadows[a.con] ELSE {}
    BY DEF CompileInv, Links, TaintedBy
  <2>2. Tainted
    BY DEF TaintInv, Done, BeforeTypes
  <2> QED
    BY <2>1, <2>2 DEF Tainted
<1> QED
  BY <1>1, TaintInvariant, CompileInvariant, PTL

(***************************************************************************)
(* Branches.                                                               *)
(***************************************************************************)

\* Intrinsics are named by a value, an operation and a number, and their operands
\* are operands of that value.
Consumes(is) ==
  \A id \in DOMAIN is :
    /\ id = <<id[1], id[2], id[3]>> /\ id[2] # "inst" /\ id[1] \in Values(ir)
    /\ \A k \in DOMAIN is[id].args : is[id].args[k].con \in Range(ir.ops[id[1]])

\* An intrinsic's use is none of an instruction's.
LEMMA AppendTo ==
  ASSUME NEW x, NEW y, NEW z, NEW k
  PROVE  Append(<<x, y, z>>, k)[2] = y
<1> DEFINE S == {x, y, z}
           s == <<x, y, z>>
<1>1. s \in Seq(S) /\ Len(s) = 3 /\ s[2] = y
  OBVIOUS
<1> HIDE DEF s, S
<1>2. Append(s, k)[2] = s[2]
  BY <1>1
<1> QED
  BY <1>1, <1>2 DEF s

LEMMA NotInst ==
  ASSUME NEW id, id = <<id[1], id[2], id[3]>>, id[2] # "inst", NEW k, NEW b, NEW i
  PROVE  Append(id, k) # <<b, "inst", 0, i>>
<1>1. Append(<<id[1], id[2], id[3]>>, k)[2] = id[2]
  BY AppendTo
<1>2. <<b, "inst", 0, i>>[2] = "inst"
  OBVIOUS
<1> QED
  BY <1>1, <1>2

\* What is used where.
LEMMA UsesAre ==
  ASSUME NEW v, NEW u \in Uses(v)
  PROVE  \/ \E w \in Values(ir) : \E i \in DOMAIN ir.ops[w] : ir.ops[w][i] = v /\ u = <<w, "inst", 0, i>>
         \/ \E id \in DOMAIN intrs : \E i \in DOMAIN intrs[id].args :
               intrs[id].args[i].con = v /\ u = Append(id, i)
<1>1. CASE u \in UNION {{<<w, "inst", 0, i>> : i \in At(v, ir.ops[w])} : w \in Values(ir)}
  BY <1>1 DEF At
<1>2. CASE u \in UNION {{Append(id, i) : i \in {j \in DOMAIN intrs[id].args : intrs[id].args[j].con = v}} :
                        id \in DOMAIN intrs}
  BY <1>2
<1> QED
  BY <1>1, <1>2 DEF Uses

\* A use by an instruction is one of its operands.
LEMMA InstUse ==
  ASSUME Consumes(intrs), NEW v, NEW b, NEW i, <<b, "inst", 0, i>> \in Uses(v)
  PROVE  ir.ops[b][i] = v
<1> DEFINE u == <<b, "inst", 0, i>>
<1>1. ASSUME NEW id \in DOMAIN intrs, NEW k
      PROVE  u # Append(id, k)
  BY NotInst DEF Consumes
<1>2. ASSUME NEW w, NEW j, u = <<w, "inst", 0, j>>
      PROVE  w = b /\ j = i
  BY <1>2
<1> HIDE DEF u
<1>3. u \in Uses(v)
  BY DEF u
<1>4. \/ \E w \in Values(ir) : \E j \in DOMAIN ir.ops[w] : ir.ops[w][j] = v /\ u = <<w, "inst", 0, j>>
      \/ \E id \in DOMAIN intrs : \E j \in DOMAIN intrs[id].args :
            intrs[id].args[j].con = v /\ u = Append(id, j)
  BY <1>3, UsesAre
<1>5. PICK w \in Values(ir) : \E j \in DOMAIN ir.ops[w] : ir.ops[w][j] = v /\ u = <<w, "inst", 0, j>>
  BY <1>1, <1>4
<1> QED
  BY <1>2, <1>5

\* Redirecting a use gives it up for good, and only one that is there.
LEMMA ReplaceIs ==
  ASSUME NEW v, NEW more, Replace(v, more)
  PROVE  /\ redirected \subseteq redirected'
         /\ \A x \in redirected' : x \in redirected \/ x \in more \/ x \in Uses(v)
         /\ Uses(v) \subseteq redirected \/ \E x \in Uses(v) \ redirected : x \in redirected'
<1> DEFINE old == Uses(v) \ redirected
<1>1. CASE old = {}
  <2>1. redirected' = redirected \cup more
    BY <1>1 DEF Replace
  <2> QED
    BY <1>1, <2>1
<1>2. CASE old # {}
  <2>1. PICK u \in old : redirected' = redirected \cup more \cup {u}
    BY <1>2 DEF Replace
  <2> QED
    BY <2>1
<1> QED
  BY <1>1, <1>2

\* The operands that an operation passes are there.
Fits(v, op) ==
  op \in DOMAIN Arguments /\ \A k \in DOMAIN Arguments[op] : Arguments[op][k] \in DOMAIN ir.ops[v]

\* Operations fit the values they are chosen for.
LEMMA OperationFits ==
  ASSUME Laid(ir), NEW v \in Values(ir), Operation(v) \notin {"none", "identity"}
  PROVE  Fits(v, Operation(v)) /\ Operation(v) # "inst" /\ ir.kind[v] # "branch"
<1>1. ir.kind[v] \in DOMAIN Arity => DOMAIN ir.ops[v] = 1 .. Arity[ir.kind[v]]
  BY DEF Laid
<1>2. CASE ir.kind[v] = "load"
  <2>1. DOMAIN ir.ops[v] = 1 .. 1 /\ Operation(v) \in {"load", "melt"}
    BY <1>1, <1>2 DEF Arity, Operation
  <2> QED
    BY <1>2, <2>1 DEF Fits, Arguments
<1>3. CASE ir.kind[v] = "store"
  <2>1. DOMAIN ir.ops[v] = 1 .. 2 /\ Operation(v) \in {"store", "freeze"}
    BY <1>1, <1>3 DEF Arity, Operation
  <2> QED
    BY <1>3, <2>1 DEF Fits, Arguments
<1>4. CASE ir.kind[v] \in {"bin", "div", "cmp"}
  <2>1. DOMAIN ir.ops[v] = 1 .. 2 /\ Operation(v) \in {"binary", "cmp"}
    BY <1>1, <1>4 DEF Arity, Operation
  <2> QED
    BY <1>4, <2>1 DEF Fits, Arguments
<1>5. CASE ir.kind[v] = "cast"
  <2>1. DOMAIN ir.ops[v] = 1 .. 1 /\ Operation(v) = "cast"
    BY <1>1, <1>5 DEF Arity, Operation
  <2> QED
    BY <1>5, <2>1 DEF Fits, Arguments
<1>6. CASE ir.kind[v] = "alloca"
  <2>1. Operation(v) = "alloca"
    BY <1>6 DEF Operation
  <2> QED
    BY <1>6, <2>1 DEF Fits, Arguments
<1>7. ir.kind[v] \in {"load", "store", "bin", "div", "cmp", "cast", "alloca"}
  BY DEF Operation
<1> QED
  BY <1>2, <1>3, <1>4, <1>5, <1>6, <1>7

\* One more intrinsic.
LEMMA ConsumesAdded ==
  ASSUME NEW is, Consumes(is), NEW v \in Values(ir), NEW op, Fits(v, op), op # "inst", NEW n
  PROVE  Consumes(With(is, <<v, op, n>>, Intrinsic(v, op)))
<1> DEFINE id == <<v, op, n>>
           new == Intrinsic(v, op)
           is2 == With(is, id, new)
<1>1. /\ DOMAIN is2 = DOMAIN is \cup {id}
      /\ is2[id] = new /\ \A j \in DOMAIN is \ {id} : is2[j] = is[j]
  BY DEF With
<1>2. ASSUME NEW k \in DOMAIN new.args
      PROVE  new.args[k].con \in Range(ir.ops[v])
  <2>1. k \in DOMAIN Arguments[op] /\ new.args[k] = Argument(ir.ops[v][Arguments[op][k]])
    BY <1>2 DEF Intrinsic
  <2>2. Arguments[op][k] \in DOMAIN ir.ops[v]
    BY <2>1 DEF Fits
  <2>3. new.args[k].con = ir.ops[v][Arguments[op][k]]
    BY <2>1 DEF Argument
  <2> QED
    BY <2>2, <2>3 DEF Range
<1>3. id = <<id[1], id[2], id[3]>> /\ id[1] = v /\ id[2] = op
  OBVIOUS
<1> HIDE DEF id, new, is2
<1>4. Consumes(is2)
  BY <1>1, <1>2, <1>3 DEF Consumes
<1> QED
  BY <1>4 DEF is2, id, new

\* Linking operands changes nothing else about them.
LEMMA ConsumesPlaced ==
  ASSUME NEW is, Consumes(is), NEW abs, Linked(is, abs), NEW S, NEW x
  PROVE  Consumes(Placed(is, S, x)) /\ DOMAIN Placed(is, S, x) = DOMAIN is
<1> DEFINE is2 == Placed(is, S, x)
<1>1. DOMAIN is2 = DOMAIN is
  BY DEF Placed
<1>2. ASSUME NEW id \in DOMAIN is, NEW k, k \in DOMAIN is2[id].args
      PROVE  is2[id].args[k].con \in Range(ir.ops[id[1]])
  <2> DEFINE as == [j \in DOMAIN is[id].args |->
                      IF is[id].args[j].abs = Null /\ is[id].args[j].con \in S
                      THEN [is[id].args[j] EXCEPT !.abs = x] ELSE is[id].args[j]]
             a == is[id].args[k]
  <2>1. is2[id] = [is[id] EXCEPT !.args = as]
    BY DEF Placed
  <2>2. is[id] = [args |-> is[id].args, test |-> is[id].test]
    BY DEF Linked
  <2>3. DOMAIN as = DOMAIN is[id].args
    OBVIOUS
  <2>4. k \in DOMAIN is[id].args => as[k] = IF a.abs = Null /\ a.con \in S THEN [a EXCEPT !.abs = x] ELSE a
    OBVIOUS
  <2>5. k \in DOMAIN is[id].args => a.con \in Range(ir.ops[id[1]])
    BY DEF Consumes
  <2>6. k \in DOMAIN is[id].args =>
          a = [con |-> a.con, taint |-> a.taint,
               abs |-> IF a.con \in DOMAIN abs THEN abs[a.con] ELSE Null]
    BY DEF Linked
  <2> HIDE DEF is2, as, a
  <2>7. is2[id].args = as
    BY <2>1, <2>2
  <2>8. k \in DOMAIN is[id].args
    BY <1>2, <2>3, <2>7
  <2>9. [a EXCEPT !.abs = x].con = a.con
    BY <2>6, <2>8
  <2> QED
    BY <2>4, <2>5, <2>7, <2>8, <2>9
<1> HIDE DEF is2
<1>3. Consumes(is2)
  BY <1>1, <1>2 DEF Consumes
<1> QED
  BY <1>1, <1>3 DEF is2

\* The operands passed to an intrinsic are no instruction's.
LEMMA PassedNotInst ==
  ASSUME NEW v, NEW op, op # "inst", NEW n, NEW x \in Passed(v, op, <<v, op, n>>), NEW b, NEW i
  PROVE  x # <<b, "inst", 0, i>>
<1> DEFINE id == <<v, op, n>>
<1>1. PICK k : x = Append(id, k)
  BY DEF Passed
<1>2. id = <<id[1], id[2], id[3]>> /\ id[2] # "inst"
  OBVIOUS
<1> HIDE DEF id
<1> QED
  BY <1>1, <1>2, NotInst

\* The loops from that over the branches on.
Late == {"branches", "lower", "done"}

Condition(b) == ir.ops[b][1]

\* A branch whose condition is of no other use, and not a division.
Lone(b) == /\ ir.kind[b] = "branch" /\ ir.kind[Condition(b)] \notin {"div", "erased"}
           /\ Users(ir, Condition(b)) = {b}

\* It takes the direction its tobool decides.
Decided(b) == Typed(Condition(b), MaybeAbstract) => <<b, "tobool", 0>> \in DOMAIN intrs /\ ~Original(b, 1)

\* Until the loop over the branches visits it, such a branch has no intrinsics
\* and takes its condition; then it is decided.
BranchInv ==
  /\ stage \in BeforeTypes => redirected = {}
  /\ Consumes(intrs)
  /\ \A id \in DOMAIN intrs : ir.kind[id[1]] = "branch" => stage \in Late /\ id[1] \notin todo
  /\ stage = "stores" => \A s \in todo : ir.kind[s] = "store"
  /\ stage = "branches" => \A b \in todo : ir.kind[b] = "branch"
  /\ stage \in {"lower", "done"} => todo = {}
  /\ \A b \in Values(ir) : Lone(b) => IF stage \in Late /\ b \notin todo THEN Decided(b) ELSE Original(b, 1)

\* The visit of a value of the type map.
LEMMA TypeBranches ==
  ASSUME CompileInv, BranchInv, NEW v \in Values(ir), ProcessType(v)
  PROVE  BranchInv'
<1> DEFINE op == Operation(v)
           id == <<v, op, 0>>
           is == With(intrs, id, Intrinsic(v, op))
<1>1. /\ stage = "types" /\ stage' = stage /\ todo' = todo \ {v}
      /\ ir' = ir /\ types' = types
  BY DEF ProcessType, dfaVars
<1>2. /\ Laid(ir) /\ Linked(intrs, abstract) /\ WellLinked(intrs) /\ Consumes(intrs)
      /\ \A j \in DOMAIN intrs : ir.kind[j[1]] # "branch"
      /\ \A b \in Values(ir) : Lone(b) => <<b, "inst", 0, 1>> \notin redirected
  BY <1>1 DEF CompileInv, BeforeTypes, Links, WellLinked, BranchInv, Late, Original
<1>3. /\ Consumes(intrs') /\ \A j \in DOMAIN intrs' : ir.kind[j[1]] # "branch"
      /\ \A b \in Values(ir) : Lone(b) => <<b, "inst", 0, 1>> \notin redirected'
  <2>1. CASE ProcessIdentity(v)
    <3>1. redirected' = redirected /\ (intrs' = intrs \/ \E S, x : intrs' = Placed(intrs, S, x))
      BY <2>1 DEF ProcessIdentity, Become
    <3>2. Consumes(intrs') /\ DOMAIN intrs' = DOMAIN intrs
      BY <1>2, <3>1, ConsumesPlaced
    <3> QED
      BY <1>2, <3>1, <3>2
  <2>2. CASE ProcessValue(v)
    <3>1. op \notin {"none", "identity"}
      BY <2>2 DEF ProcessValue, ReturnsValue
    <3>2. Fits(v, op) /\ op # "inst" /\ ir.kind[v] # "branch"
      BY <1>2, <3>1, OperationFits
    <3>3. Consumes(is)
      BY <1>2, <3>2, ConsumesAdded
    <3>4. Linked(is, abstract) /\ DOMAIN is = DOMAIN intrs \cup {id}
      BY <1>2, IntrinsicAdded DEF WellLinked
    <3>5. intrs' = is \/ \E S, x : intrs' = Placed(is, S, x)
      BY <2>2 DEF ProcessValue, Become
    <3>6. \A x \in redirected' : x \in redirected \/ x \in Passed(v, op, id) \/ (Faultable(v) /\ x \in Uses(v))
      <4>1. CASE Faultable(v)
        <5>1. Replace(v, Passed(v, op, id))
          BY <2>2, <4>1 DEF ProcessValue
        <5> QED
          BY <4>1, <5>1, ReplaceIs
      <4>2. CASE ~Faultable(v)
        BY <2>2, <4>2 DEF ProcessValue
      <4> QED
        BY <4>1, <4>2
    <3>7. \A x \in Passed(v, op, id) : \A b : x # <<b, "inst", 0, 1>>
      BY <3>2, PassedNotInst
    <3>8. id[1] = v
      OBVIOUS
    <3> HIDE DEF op, id, is
    <3>9. Consumes(intrs') /\ DOMAIN intrs' = DOMAIN is
      BY <3>3, <3>4, <3>5, ConsumesPlaced
    <3>10. ASSUME NEW b \in Values(ir), Lone(b)
           PROVE  <<b, "inst", 0, 1>> \notin redirected'
      <4>1. <<b, "inst", 0, 1>> \in Uses(v) => ir.kind[v] # "div"
        BY <1>2, <3>10, InstUse DEF Lone, Condition
      <4> QED
        BY <1>2, <3>6, <3>7, <3>10, <4>1 DEF Faultable
    <3> QED
      BY <1>2, <3>2, <3>4, <3>8, <3>9, <3>10
  <2>3. CASE UNCHANGED <<abstract, identity, intrs, redirected>>
    BY <1>2, <2>3
  <2> QED
    BY <2>1, <2>2, <2>3 DEF ProcessType
<1>4. Consumes(intrs)' /\ \A b : Lone(b)' <=> Lone(b)
  BY <1>1, <1>3 DEF Consumes, Lone, Condition
<1> QED
  BY <1>1, <1>3, <1>4 DEF BranchInv, BeforeTypes, Late, Original

\* The visit of a store.
LEMMA StoreBranches ==
  ASSUME CompileInv, BranchInv, NEW s \in Values(ir), ProcessStore(s)
  PROVE  BranchInv'
<1> DEFINE op == Operation(s)
           id == <<s, op, 0>>
           is == With(intrs, id, Intrinsic(s, op))
<1>1. /\ stage = "stores" /\ stage' = stage /\ todo' = todo \ {s} /\ s \in todo
      /\ ir' = ir /\ types' = types
  BY DEF ProcessStore, dfaVars
<1>2. /\ Laid(ir) /\ Consumes(intrs) /\ ir.kind[s] = "store"
      /\ \A j \in DOMAIN intrs : ir.kind[j[1]] # "branch"
      /\ \A b \in Values(ir) : Lone(b) => <<b, "inst", 0, 1>> \notin redirected
  BY <1>1 DEF CompileInv, BeforeTypes, BranchInv, Late, Original
<1>3. /\ Consumes(intrs') /\ \A j \in DOMAIN intrs' : ir.kind[j[1]] # "branch"
      /\ \A b \in Values(ir) : Lone(b) => <<b, "inst", 0, 1>> \notin redirected'
  <2>1. CASE op = "none"
    BY <1>2, <2>1 DEF ProcessStore
  <2>2. CASE op # "none"
    <3>1. intrs' = is /\ redirected' = redirected \cup Passed(s, op, id)
      BY <2>2 DEF ProcessStore
    <3>2. op \notin {"none", "identity"}
      BY <1>2, <2>2 DEF Operation
    <3>3. Fits(s, op) /\ op # "inst" /\ ir.kind[s] # "branch"
      BY <1>2, <3>2, OperationFits
    <3>4. Consumes(is)
      BY <1>2, <3>3, ConsumesAdded
    <3>5. DOMAIN is = DOMAIN intrs \cup {id} /\ id[1] = s
      BY IntrinsicAdded
    <3>6. \A x \in Passed(s, op, id) : \A b : x # <<b, "inst", 0, 1>>
      BY <3>3, PassedNotInst
    <3> HIDE DEF op, id, is
    <3> QED
      BY <1>2, <3>1, <3>3, <3>4, <3>5, <3>6
  <2> QED
    BY <2>1, <2>2
<1>4. Consumes(intrs)' /\ \A b : Lone(b)' <=> Lone(b)
  BY <1>1, <1>3 DEF Consumes, Lone, Condition
<1> QED
  BY <1>1, <1>2, <1>3, <1>4 DEF BranchInv, BeforeTypes, Late, Original

\* The visit of a branch: its condition has no use that could be redirected but
\* the branch's own.
LEMMA BranchBranches ==
  ASSUME CompileInv, BranchInv, NEW b \in Values(ir), ProcessBranch(b)
  PROVE  BranchInv'
<1> DEFINE c == Condition(b)
           id == <<b, "tobool", 0>>
           is1 == With(intrs, id, Intrinsic(b, "tobool"))
           is2 == With(is1, <<b, "assume", 0>>, Intrinsic(b, "assume"))
           is3 == With(is2, <<b, "assume", 1>>, Intrinsic(b, "assume"))
<1>1. /\ stage = "branches" /\ stage' = stage /\ todo' = todo \ {b} /\ b \in todo
      /\ ir' = ir /\ types' = types
  BY DEF ProcessBranch, dfaVars
<1>2. /\ Laid(ir) /\ Consumes(intrs) /\ ir.kind[b] = "branch"
      /\ \A j \in DOMAIN intrs : ir.kind[j[1]] = "branch" => j[1] \notin todo
      /\ \A x \in todo : ir.kind[x] = "branch"
      /\ \A x \in Values(ir) : Lone(x) => IF x \notin todo THEN Decided(x) ELSE Original(x, 1)
  BY <1>1 DEF CompileInv, BeforeTypes, BranchInv, Late
<1>3. DOMAIN ir.ops[b] = 1 .. 1
  BY <1>2 DEF Laid, Arity
<1>4. Fits(b, "tobool") /\ Fits(b, "assume")
  BY <1>3 DEF Fits, Arguments
<1>5. c = ir.ops[b][1] /\ b \in Users(ir, c)
  BY <1>3 DEF Condition, Users
<1>6. CASE ~Operand(b, 1, MaybeAbstract)
  <2>1. intrs' = intrs /\ redirected' = redirected
    BY <1>6 DEF ProcessBranch
  <2>2. Lone(b) => Decided(b)
    BY <1>1, <1>2, <1>6 DEF Operand, Decided, Typed, Condition
  <2>3. Consumes(intrs)' /\ \A x : Lone(x)' = Lone(x) /\ Decided(x)' = Decided(x) /\ Original(x, 1)' = Original(x, 1)
    BY <1>1, <1>2, <2>1 DEF Consumes, Lone, Condition, Decided, Original, Typed
  <2> QED
    BY <1>1, <1>2, <2>1, <2>2, <2>3 DEF BranchInv, BeforeTypes, Late
<1>7. CASE Operand(b, 1, MaybeAbstract)
  <2>1. intrs' = is3 /\ Replace(c, {})
    BY <1>7 DEF ProcessBranch, Assumed, Condition
  <2>a. \A is, i, op : DOMAIN With(is, i, Intrinsic(b, op)) = DOMAIN is \cup {i}
    BY IntrinsicAdded
  <2>2. Consumes(is1) /\ DOMAIN is1 = DOMAIN intrs \cup {id}
    BY <1>2, <1>4, <2>a, ConsumesAdded
  <2> HIDE DEF is1
  <2>3. Consumes(is2) /\ DOMAIN is2 = DOMAIN is1 \cup {<<b, "assume", 0>>}
    BY <1>4, <2>2, <2>a, ConsumesAdded
  <2> HIDE DEF is2
  <2>4. Consumes(is3) /\ DOMAIN is3 = DOMAIN is2 \cup {<<b, "assume", 1>>}
    BY <1>4, <2>3, <2>a, ConsumesAdded
  <2> HIDE DEF is3
  <2>5. Consumes(intrs') /\ DOMAIN intrs' = DOMAIN intrs \cup {id, <<b, "assume", 0>>, <<b, "assume", 1>>}
    BY <2>1, <2>2, <2>3, <2>4
  <2>6. \A j \in DOMAIN intrs' \ DOMAIN intrs : j[1] = b
    BY <2>5
  <2>7. /\ redirected \subseteq redirected'
        /\ \A x \in redirected' : x \in redirected \/ x \in Uses(c)
        /\ Uses(c) \subseteq redirected \/ \E x \in Uses(c) \ redirected : x \in redirected'
    BY <2>1, ReplaceIs
  <2>8. ASSUME NEW x \in Values(ir), Lone(x), x # b
        PROVE  <<x, "inst", 0, 1>> \in redirected' => <<x, "inst", 0, 1>> \in redirected
    <3>1. <<x, "inst", 0, 1>> \in Uses(c) => Condition(x) = c
      BY <1>2, InstUse DEF Condition
    <3>2. Condition(x) # c
      BY <1>5, <2>8 DEF Lone
    <3> QED
      BY <2>7, <3>1, <3>2
  <2>9. ASSUME Lone(b)
        PROVE  <<b, "inst", 0, 1>> \in redirected'
    <3>1. <<b, "inst", 0, 1>> \in Uses(c)
      BY <1>3, <1>5 DEF Uses, At
    <3>2. <<b, "inst", 0, 1>> \notin redirected
      BY <1>1, <1>2, <2>9 DEF Original
    <3>3. PICK x \in Uses(c) \ redirected : x \in redirected'
      BY <2>7, <3>1, <3>2
    <3>4. ASSUME NEW j \in DOMAIN intrs, NEW i \in DOMAIN intrs[j].args, intrs[j].args[i].con = c
          PROVE  FALSE
      <4>1. j[1] \in Values(ir) /\ c \in Range(ir.ops[j[1]])
        BY <1>2, <3>4 DEF Consumes
      <4>2. j[1] \in Users(ir, c)
        BY <4>1 DEF Users, Range
      <4> QED
        BY <1>1, <1>2, <2>9, <4>2 DEF Lone
    <3>5. PICK w \in Values(ir) : \E i \in DOMAIN ir.ops[w] : ir.ops[w][i] = c /\ x = <<w, "inst", 0, i>>
      BY <3>3, <3>4, UsesAre
    <3>6. w \in Users(ir, c)
      BY <3>5 DEF Users
    <3>7. w = b
      BY <2>9, <3>6 DEF Lone
    <3> QED
      BY <1>3, <3>3, <3>5, <3>7
  <2>10. Consumes(intrs)' /\ \A x : Lone(x)' = Lone(x)
    BY <1>1, <2>5 DEF Consumes, Lone, Condition
  <2>11. \A x \in Values(ir) \ {b} : Lone(x) /\ x \in todo => Original(x, 1)'
    BY <1>2, <2>8 DEF Original
  <2>12. \A x \in Values(ir) \ {b} : Lone(x) /\ x \notin todo => Decided(x)'
    BY <1>1, <1>2, <2>5, <2>7 DEF Decided, Original, Typed, Condition
  <2>13. Lone(b) => Decided(b)'
    BY <1>1, <2>5, <2>9 DEF Decided, Original
  <2> HIDE DEF id, c
  <2> QED
    BY <1>1, <1>2, <2>6, <2>10, <2>11, <2>12, <2>13 DEF BranchInv, BeforeTypes, Late
<1> QED
  BY <1>6, <1>7

\* The loop over the branches has all of them to visit.
LEMMA EnterBranches ==
  ASSUME CompileInv, BranchInv, Stores \/ Branches
  PROVE  BranchInv'
<1>1. /\ stage \in {"types", "stores"} /\ stage' \in {"stores", "branches"}
      /\ ir' = ir /\ types' = types /\ intrs' = intrs /\ redirected' = redirected
      /\ stage' = "stores" => \A s \in todo' : ir.kind[s] = "store"
      /\ stage' = "branches" => todo' = {b \in Values(ir) : ir.kind[b] = "branch"}
  BY DEF Stores, Branches, Enter, dfaVars
<1>2. /\ Consumes(intrs) /\ \A j \in DOMAIN intrs : ir.kind[j[1]] # "branch"
      /\ \A b \in Values(ir) : Lone(b) => Original(b, 1)
  BY <1>1 DEF BranchInv, Late
<1>3. Consumes(intrs)' /\ \A b : Lone(b)' = Lone(b) /\ Original(b, 1)' = Original(b, 1)
  BY <1>1, <1>2 DEF Consumes, Lone, Condition, Original
<1>4. \A b \in Values(ir) : Lone(b) => ir.kind[b] = "branch"
  BY DEF Lone
<1> QED
  BY <1>1, <1>2, <1>3, <1>4 DEF BranchInv, BeforeTypes, Late

\* Stashes are of calls and returns.
LEMMA TransferBranches ==
  ASSUME CompileInv, BranchInv, Transfers
  PROVE  BranchInv'
<1> DEFINE stashes == UNION {{<<c, "stash", i>> : i \in DOMAIN ir.ops[c]} : c \in Stashing}
<1>1. /\ stage = "branches" /\ stage' = "lower" /\ todo = {} /\ todo' = {}
      /\ ir' = ir /\ types' = types
  BY DEF Transfers, dfaVars
<1>2. Laid(ir) /\ Consumes(intrs) /\ \A b \in Values(ir) : Lone(b) => Decided(b)
  BY <1>1 DEF CompileInv, BeforeTypes, BranchInv, Late
<1>3. \A c \in Stashing : c \in Values(ir) /\ ir.kind[c] \in {"call", "ret"}
  BY <1>2 DEF Stashing, Laid
<1>4. ASSUME NEW s \in stashes
      PROVE  /\ s = <<s[1], s[2], s[3]>> /\ s[2] = "stash" /\ s[1] \in Stashing /\ s[3] \in DOMAIN ir.ops[s[1]]
  <2>1. PICK c \in Stashing : s \in {<<c, "stash", i>> : i \in DOMAIN ir.ops[c]}
    BY <1>4
  <2>2. PICK i \in DOMAIN ir.ops[c] : s = <<c, "stash", i>>
    BY <2>1
  <2> QED
    BY <2>2
<1>5. /\ DOMAIN intrs' = DOMAIN intrs \cup stashes
      /\ \A id \in DOMAIN intrs : intrs'[id] = intrs[id]
      /\ \A id \in stashes \ DOMAIN intrs :
           intrs'[id] = [args |-> <<Argument(ir.ops[id[1]][id[3]])>>, test |-> {}]
      /\ redirected \subseteq redirected'
      /\ \A x \in redirected' : x \in redirected \/ \E s \in stashes : x = Append(s, 1)
  BY DEF Transfers
<1> HIDE DEF stashes
<1>6. \A b : <<b, "inst", 0, 1>> \in redirected' => <<b, "inst", 0, 1>> \in redirected
  <2>1. \A s \in stashes : \A b : Append(s, 1) # <<b, "inst", 0, 1>>
    BY <1>4, NotInst
  <2> QED
    BY <1>5, <2>1
<1>7. ASSUME NEW id \in stashes \ DOMAIN intrs, NEW k \in DOMAIN intrs'[id].args
      PROVE  intrs'[id].args[k].con \in Range(ir.ops[id[1]])
  <2>1. intrs'[id].args[k] = Argument(ir.ops[id[1]][id[3]])
    BY <1>5, <1>7
  <2>2. intrs'[id].args[k].con = ir.ops[id[1]][id[3]]
    BY <2>1 DEF Argument
  <2> QED
    BY <1>4, <2>2 DEF Range
<1>8. Consumes(intrs')
  BY <1>2, <1>3, <1>4, <1>5, <1>7 DEF Consumes
<1>9. Consumes(intrs)' /\ \A b : Lone(b)' = Lone(b)
  BY <1>1, <1>8 DEF Consumes, Lone, Condition
<1>10. \A b : Decided(b) => Decided(b)'
  BY <1>1, <1>5 DEF Decided, Original, Typed, Condition
<1> QED
  BY <1>1, <1>2, <1>9, <1>10 DEF BranchInv, BeforeTypes, Late

\* Lowering erases divisions only.
LEMMA LowerBranches ==
  ASSUME CompileInv, BranchInv, Lower
  PROVE  BranchInv'
<1> DEFINE K == [v \in Values(ir) |-> IF <<v, "binary", 0>> \in DOMAIN intrs /\ Faultable(v)
                                      THEN "erased" ELSE ir.kind[v]]
<1>1. /\ stage = "lower" /\ stage' = "done" /\ todo' = todo
      /\ intrs' = intrs /\ redirected' = redirected /\ types' = types
      /\ ir' = [ir EXCEPT !.kind = K]
  BY DEF Lower
<1>2. Laid(ir) /\ Consumes(intrs) /\ todo = {} /\ \A b \in Values(ir) : Lone(b) => Decided(b)
  BY <1>1 DEF CompileInv, BeforeTypes, BranchInv, Late
<1>3. \A v \in Values(ir) : K[v] = ir.kind[v] \/ (ir.kind[v] = "div" /\ K[v] = "erased")
  BY DEF Faultable
<1>4. ir'.kind = K /\ ir'.ops = ir.ops /\ Values(ir') = Values(ir)
  BY <1>1, <1>2 DEF Laid, Values
<1> HIDE DEF K
<1>5. Consumes(intrs)'
  BY <1>1, <1>2, <1>4 DEF Consumes
<1>6. ASSUME NEW b \in Values(ir), Lone(b)'
      PROVE  Decided(b)'
  <2>1. ir'.kind[b] = "branch" /\ ir'.kind[ir.ops[b][1]] \notin {"div", "erased"} /\ Users(ir', ir.ops[b][1]) = {b}
    BY <1>4, <1>6 DEF Lone, Condition
  <2>2. ir.kind[b] = "branch"
    BY <1>3, <1>4, <2>1
  <2>3. DOMAIN ir.ops[b] = 1 .. 1
    BY <1>2, <2>2 DEF Laid, Arity
  <2>4. ir.ops[b][1] \in Values(ir)
    BY <1>2, <2>3 DEF Laid, Range
  <2>5. ir.kind[ir.ops[b][1]] \notin {"div", "erased"}
    BY <1>3, <1>4, <2>1, <2>4
  <2>6. Users(ir', ir.ops[b][1]) = Users(ir, ir.ops[b][1])
    BY <1>4 DEF Users
  <2>7. Decided(b)
    BY <1>2, <2>1, <2>2, <2>5, <2>6 DEF Lone, Condition
  <2> QED
    BY <1>1, <1>4, <2>7 DEF Decided, Original, Typed, Condition
<1>7. \A j \in DOMAIN intrs : ir'.kind[j[1]] = "branch" => j[1] \notin todo
  BY <1>2
<1> QED
  BY <1>1, <1>2, <1>4, <1>5, <1>6, <1>7 DEF BranchInv, BeforeTypes, Late

\* Before the loop over the types nothing is redirected.
LEMMA EarlyBranches ==
  ASSUME CompileInv, BranchInv, CompileInv', stage \in BeforeTypes,
         \/ DfaNext /\ UNCHANGED insVars
         \/ LowerGeps \/ Unstash \/ Shadows
  PROVE  BranchInv'
<1>1. redirected' = {} /\ intrs' = intrs /\ intrs = << >>
  BY DEF CompileInv, BranchInv, LowerGeps, Unstash, Shadows, insVars
<1>2. stage' \in BeforeTypes \cup {"types"}
  BY DEF LowerGeps, Unstash, Shadows, insVars, BeforeTypes
<1>3. DOMAIN intrs' = {}
  BY <1>1
<1> QED
  BY <1>1, <1>2, <1>3 DEF BranchInv, BeforeTypes, Late, Consumes, Original

LEMMA BranchStep ==
  CompileInv /\ CompileInv' /\ BranchInv /\ [CompileNext]_compileVars => BranchInv'
<1> SUFFICES ASSUME CompileInv, CompileInv', BranchInv, [CompileNext]_compileVars
             PROVE  BranchInv'
  OBVIOUS
<1>1. CASE DfaNext /\ UNCHANGED insVars
  <2>1. CASE stage \in BeforeTypes
    BY <1>1, <2>1, EarlyBranches
  <2>2. CASE stage \notin BeforeTypes
    <3>1. toAdd = {} /\ worklist = << >>
      BY <2>2 DEF CompileInv, BeforeTypes
    <3> QED
      BY <1>1, <3>1 DEF DfaNext, AddRoot, Process
  <2> QED
    BY <2>1, <2>2
<1>2. CASE LowerGeps \/ Unstash \/ Shadows
  <2>1. stage \in BeforeTypes
    BY <1>2 DEF LowerGeps, Unstash, Shadows, BeforeTypes
  <2> QED
    BY <1>2, <2>1, EarlyBranches
<1>3. ASSUME NEW v \in Values(ir), ProcessType(v) \/ ProcessStore(v) \/ ProcessBranch(v)
      PROVE  BranchInv'
  BY <1>3, TypeBranches, StoreBranches, BranchBranches
<1>4. CASE Stores \/ Branches
  BY <1>4, EnterBranches
<1>5. CASE Transfers
  BY <1>5, TransferBranches
<1>6. CASE Lower
  BY <1>6, LowerBranches
<1>7. CASE UNCHANGED compileVars
  <2>1. /\ stage' = stage /\ todo' = todo /\ intrs' = intrs /\ redirected' = redirected
        /\ ir' = ir /\ types' = types
    BY <1>7 DEF compileVars, insVars
  <2>2. /\ Consumes(intrs)' = Consumes(intrs)
        /\ \A b : Lone(b)' = Lone(b) /\ Decided(b)' = Decided(b) /\ Original(b, 1)' = Original(b, 1)
    BY <2>1 DEF Consumes, Lone, Condition, Decided, Original, Typed
  <2> QED
    BY <2>1, <2>2 DEF BranchInv
<1> QED
  BY <1>1, <1>2, <1>3, <1>4, <1>5, <1>6, <1>7 DEF CompileNext

\* No other user of a branch's abstract condition, which is not a division.
ConditionsUsedOnce ==
  \A b \in {x \in Values(ir) : ir.kind[x] = "branch"} :
    Typed(ir.ops[b][1], IsAbstract) => Lone(b)

\* When every abstract condition is used once, every branch on one takes the
\* direction its tobool decided, in whatever order the loops visit their values
\* (preprocess.cpp:83-119, operation.hpp:397-402, syntactic.cpp:361-367).
THEOREM BranchesDecidedAlways == CompileSpec => [](ConditionsUsedOnce => BranchesDecided)
<1>1. CompileInit => BranchInv
  BY DEF CompileInit, BranchInv, BeforeTypes, Late, Consumes, Original
<1>2. CompileInv /\ TypesAreOnions /\ BranchInv => (ConditionsUsedOnce => BranchesDecided)
  <2> SUFFICES ASSUME TypesAreOnions, BranchInv, ConditionsUsedOnce, Done,
                      NEW b \in Values(ir), ir.kind[b] = "branch", Typed(ir.ops[b][1], IsAbstract)
               PROVE  <<b, "tobool", 0>> \in DOMAIN intrs /\ ~Original(b, 1)
    BY DEF BranchesDecided
  <2>1. Typed(ir.ops[b][1], MaybeAbstract)
    BY AbstractMaybe DEF TypesAreOnions, Typed
  <2>2. Lone(b)
    BY DEF ConditionsUsedOnce
  <2>3. Decided(b)
    BY <2>2 DEF BranchInv, Done, Late
  <2> QED
    BY <2>1, <2>3 DEF Decided, Condition, Typed
<1> QED
  BY <1>1, <1>2, BranchStep, TaintInvariant, CompileInvariant, PTL DEF CompileSpec
=============================================================================
