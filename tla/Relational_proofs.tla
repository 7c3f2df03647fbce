-------------------------- MODULE Relational_proofs --------------------------
(***************************************************************************)
(* Proofs about Relational, for every width of numbers and of bounds, any  *)
(* libraries and any programs that use them: the values of all forks are   *)
(* values of the domain, what a branch teaches only removes possibilities, *)
(* and for all libraries but intervals the concrete run is never lost.     *)
(***************************************************************************)
EXTENDS Relational, TLAPS, WellFoundedInduction, FiniteSetTheorems

(***************************************************************************)
(* Numbers.                                                                *)
(***************************************************************************)

\* A set of numbers that is not empty has a least element.
LEMMA LeastNumber ==
  ASSUME NEW S \in SUBSET Nat, S # {}
  PROVE  \E m \in S : \A n \in S : m <= n
<1>1. \E m \in S : \A n \in S : <<n, m>> \notin OpToRel(<, Nat)
  BY NatLessThanWellFounded, WFMin
<1>2. \A m, n \in Nat : <<n, m>> \notin OpToRel(<, Nat) => m <= n
  BY DEF OpToRel
<1> QED
  BY <1>1, <1>2

\* A set that has 0 and with every number below top the next one has them all.
LEMMA Climb ==
  ASSUME NEW top \in Nat, NEW S, 0 \in S,
         \A n \in 0 .. top - 1 : n \in S => n + 1 \in S
  PROVE  0 .. top \subseteq S
<1> DEFINE Missing == (0 .. top) \ S
<1> SUFFICES ASSUME Missing # {} PROVE FALSE
  OBVIOUS
<1>1. PICK m \in Missing : \A n \in Missing : m <= n
  <2>1. Missing \in SUBSET Nat
    OBVIOUS
  <2> HIDE DEF Missing
  <2> QED
    BY <2>1, LeastNumber
<1>2. m # 0 /\ m - 1 \in 0 .. top - 1 /\ m \notin S
  BY <1>1
<1>3. m - 1 \in S
  BY <1>1, <1>2
<1> QED
  BY <1>2, <1>3

\* A power counts the subsets of a set of that size.
LEMMA PowerPositive == ASSUME NEW n \in Nat PROVE 2 ^ n \in Nat \ {0}
<1> DEFINE S == SUBSET (1 .. n)
<1>1. IsFiniteSet(1 .. n) /\ Cardinality(1 .. n) = n
  BY FS_Interval
<1>2. IsFiniteSet(S) /\ Cardinality(S) = 2 ^ n
  BY <1>1, FS_SUBSET
<1>3. S # {}
  OBVIOUS
<1> HIDE DEF S
<1>4. Cardinality(S) \in Nat /\ Cardinality(S) # 0
  BY <1>2, <1>3, FS_CardinalityType, FS_EmptySet
<1> QED
  BY <1>2, <1>4

LEMMA PowerOfOne == 2 ^ 1 = 2
<1>1. IsFiniteSet({1}) /\ Cardinality({1}) = 1
  BY FS_Singleton
<1>2. Cardinality(SUBSET {1}) = 2 ^ 1
  BY <1>1, FS_SUBSET
<1>3. SUBSET {1} = {{}, {1}}
  OBVIOUS
<1>4. Cardinality({{}, {1}}) = 2
  <2>1. IsFiniteSet({{}}) /\ Cardinality({{}}) = 1
    BY FS_Singleton
  <2>2. {1} \notin {{}} /\ {{}} \cup {{1}} = {{}, {1}}
    OBVIOUS
  <2> QED
    <3>1. Cardinality({{}} \cup {{1}}) = 1 + 1
      BY <2>1, <2>2, FS_AddElement
    <3> QED
      BY <2>2, <3>1
<1> QED
  BY <1>2, <1>3, <1>4

\* The widths of a program's numbers.
Widths == {1, Width, 2 * Width}

LEMMA WidthIn ==
  /\ Width \in Nat \ {0} /\ \A w \in Widths : w \in Nat \ {0} /\ w - 1 \in Nat
  /\ Width \in Widths /\ 1 \in Widths /\ 2 * Width \in Widths
  BY WidthAssumption DEF Widths

LEMMA PowerOfWidth ==
  ASSUME NEW w \in Widths
  PROVE  2 ^ w \in Nat \ {0} /\ 2 ^ (w - 1) \in Nat \ {0}
  BY WidthIn, PowerPositive

\* What is left of a number, and how often another goes into it.
LEMMA RemainderRange ==
  \A x, m \in Int : m > 0 => (x % m) \in Int /\ 0 <= (x % m) /\ (x % m) < m
  OBVIOUS

LEMMA QuotientInt == \A x, m \in Int : m > 0 => (x \div m) \in Int
  OBVIOUS

LEMMA UnsignedRange ==
  ASSUME NEW w \in Widths, NEW x \in Int
  PROVE  Unsigned(x, w) \in 0 .. 2 ^ w - 1 /\ Unsigned(x, w) \in Nat
  BY PowerOfWidth, RemainderRange DEF Unsigned

LEMMA SignedInt ==
  ASSUME NEW w \in Widths, NEW x \in Int
  PROVE  Signed(x, w) \in Int
<1>1. (x % 2 ^ w) \in Int /\ 2 ^ w \in Int
  BY PowerOfWidth, RemainderRange
<1> QED
  BY <1>1 DEF Signed

LEMMA QuotientBetween ==
  \A x, m \in Int : x >= 0 /\ m > 0 =>
     /\ 0 <= (x \div m) /\ (x \div m) <= x
     /\ 0 <= m * (x \div m) /\ m * (x \div m) <= x
  OBVIOUS

\* A division towards zero takes a number no further from zero.
LEMMA TruncatedBetween ==
  ASSUME NEW x \in Int, NEW y \in Int, y # 0
  PROVE  /\ Truncated(x, y) \in Int
         /\ x >= 0 => -x <= Truncated(x, y) /\ Truncated(x, y) <= x
         /\ x < 0 => x <= Truncated(x, y) /\ Truncated(x, y) <= -x
         /\ x - y * Truncated(x, y) \in Int
         /\ x >= 0 => 0 <= x - y * Truncated(x, y) /\ x - y * Truncated(x, y) <= x
         /\ x < 0 => x <= x - y * Truncated(x, y) /\ x - y * Truncated(x, y) <= 0
<1> DEFINE X == IF x < 0 THEN -x ELSE x
           Y == IF y < 0 THEN -y ELSE y
           q == X \div Y
           t == Truncated(x, y)
<1>1. X \in Int /\ X >= 0 /\ Y \in Int /\ Y > 0
  OBVIOUS
<1>2. q \in Int /\ 0 <= q /\ q <= X /\ 0 <= Y * q /\ Y * q <= X
  <2> HIDE DEF X, Y
  <2> QED
    BY <1>1, QuotientInt, QuotientBetween
<1>3. t = IF (x < 0) = (y < 0) THEN q ELSE -q
  BY DEF Truncated
<1> HIDE DEF q, t
<1>4. t \in Int /\ y * t = (IF x < 0 THEN -(Y * q) ELSE Y * q)
  <2>1. \A a, b \in Int : a * (-b) = -(a * b) /\ (-a) * b = -(a * b) /\ (-a) * (-b) = a * b
    OBVIOUS
  <2> QED
    BY <1>2, <1>3, <2>1
<1>5. Y * q \in Int
  BY <1>1, <1>2
<1> DEFINE p == Y * q
           r == y * t
<1>6. r = (IF x < 0 THEN -p ELSE p) /\ p \in Int /\ 0 <= p /\ p <= X
  BY <1>2, <1>4, <1>5
<1> HIDE DEF p, r
<1>7. /\ t \in Int
      /\ x >= 0 => -x <= t /\ t <= x
      /\ x < 0 => x <= t /\ t <= -x
  BY <1>2, <1>3
<1>8. /\ x - r \in Int
      /\ x >= 0 => 0 <= x - r /\ x - r <= x
      /\ x < 0 => x <= x - r /\ x - r <= 0
  BY <1>6
<1> QED
  BY <1>7, <1>8 DEF t, r

\* A bit is 0 or 1.
LEMMA BitAtInt ==
  ASSUME NEW op \in Bits, NEW a \in Int, NEW b \in Int, NEW i \in Nat
  PROVE  BitAt(op, a, b, i) \in Int
<1> DEFINE s == Bit(a, i) + Bit(b, i)
<1>1. 2 ^ i \in Int /\ 2 ^ i > 0
  BY PowerPositive
<1>2. (a \div 2 ^ i) \in Int /\ (b \div 2 ^ i) \in Int
  BY <1>1, QuotientInt
<1>3. Bit(a, i) \in Int /\ Bit(b, i) \in Int
  BY <1>2, RemainderRange DEF Bit
<1>4. s \in Int
  BY <1>3
<1> HIDE DEF s
<1>5. (s \div 2) \in Int /\ (s % 2) \in Int /\ Lesser(s, 1) \in Int
  BY <1>4 DEF Lesser
<1> QED
  BY <1>5 DEF BitAt, Bits, s

\* The bits of an operation are added up one by one.
LEMMA BitSumEquation ==
  ASSUME NEW op \in Bits, NEW a \in Int, NEW b \in Int, NEW w \in Nat
  PROVE  /\ BitSum(op, a, b, w)[0] = 0
         /\ \A k \in 0 .. w - 1 :
               BitSum(op, a, b, w)[k + 1] = BitSum(op, a, b, w)[k] + BitAt(op, a, b, k) * 2 ^ k
<1> DEFINE at(k) == BitAt(op, a, b, k) * 2 ^ k
           Sums(f, m) == \A k \in 0 .. m : f[k] = IF k = 0 THEN 0 ELSE f[k - 1] + at(k - 1)
           Good == {m \in 0 .. w : \E f \in [0 .. m -> Int] : Sums(f, m)}
           Solves(f) == f = [k \in 0 .. w |-> IF k = 0 THEN 0 ELSE f[k - 1] + at(k - 1)]
<1>1. ASSUME NEW k \in Nat PROVE at(k) \in Int
  <2>1. \A x, y \in Int : x * y \in Int
    OBVIOUS
  <2> QED
    BY <2>1, BitAtInt, PowerPositive
<1>2. BitSum(op, a, b, w) = CHOOSE f : Solves(f)
  BY DEF BitSum
<1> HIDE DEF at
<1>3. 0 \in Good
  <2>1. [k \in 0 .. 0 |-> 0] \in [0 .. 0 -> Int] /\ Sums([k \in 0 .. 0 |-> 0], 0)
    OBVIOUS
  <2>2. 0 \in 0 .. w
    OBVIOUS
  <2> HIDE DEF Sums
  <2> QED
    BY <2>1, <2>2
<1>4. ASSUME NEW m \in 0 .. w - 1, m \in Good PROVE m + 1 \in Good
  <2>1. PICK f \in [0 .. m -> Int] : Sums(f, m)
    BY <1>4
  <2> DEFINE g == [k \in 0 .. m + 1 |-> IF k = m + 1 THEN f[m] + at(m) ELSE f[k]]
  <2>2. g \in [0 .. m + 1 -> Int]
    BY <1>1
  <2>3. ASSUME NEW k \in 0 .. m + 1 PROVE g[k] = IF k = 0 THEN 0 ELSE g[k - 1] + at(k - 1)
    <3>1. CASE k = m + 1
      BY <3>1
    <3>2. CASE k # m + 1
      <4>1. k \in 0 .. m /\ (k # 0 => k - 1 \in 0 .. m)
        BY <3>2
      <4>2. f[k] = IF k = 0 THEN 0 ELSE f[k - 1] + at(k - 1)
        BY <2>1, <4>1
      <4>3. g[k] = f[k] /\ (k # 0 => g[k - 1] = f[k - 1])
        BY <4>1
      <4> QED
        BY <4>2, <4>3
    <3> QED
      BY <3>1, <3>2
  <2>4. Sums(g, m + 1)
    BY <2>3
  <2>5. m + 1 \in 0 .. w
    OBVIOUS
  <2> HIDE DEF g, Sums
  <2> QED
    BY <2>2, <2>4, <2>5
<1>5. w \in Good
  <2> HIDE DEF Good
  <2> QED
    BY <1>3, <1>4, Climb
<1>6. PICK f \in [0 .. w -> Int] : Sums(f, w)
  BY <1>5
<1>7. Solves(f)
  BY <1>6
<1> DEFINE h == CHOOSE g : Solves(g)
<1>8. Solves(h)
  <2> HIDE DEF Solves
  <2> QED
    BY <1>7
<1> HIDE DEF h
<1>9. h = [k \in 0 .. w |-> h[k]] /\ \A k \in 0 .. w : h[k] = IF k = 0 THEN 0 ELSE h[k - 1] + at(k - 1)
  BY <1>8
<1>10. h[0] = 0
  <2>1. 0 \in 0 .. w
    OBVIOUS
  <2> QED
    BY <1>9, <2>1
<1>11. ASSUME NEW k \in 0 .. w - 1 PROVE h[k + 1] = h[k] + at(k)
  <2>1. k + 1 \in 0 .. w /\ k + 1 # 0 /\ k + 1 - 1 = k
    OBVIOUS
  <2>2. \A j \in 0 .. w : j # 0 => h[j] = h[j - 1] + at(j - 1)
    BY <1>9
  <2>3. h[k + 1] = h[k + 1 - 1] + at(k + 1 - 1)
    BY <2>1, <2>2
  <2> QED
    BY <2>1, <2>3
<1> QED
  BY <1>2, <1>10, <1>11 DEF h, at

LEMMA BitOpInt ==
  ASSUME NEW op \in Bits, NEW a \in Int, NEW b \in Int, NEW w \in Nat
  PROVE  BitOp(op, a, b, w) \in Int
<1> DEFINE sum == BitSum(op, a, b, w)
           Ints == {k \in 0 .. w : sum[k] \in Int}
<1>1. sum[0] = 0 /\ \A k \in 0 .. w - 1 : sum[k + 1] = sum[k] + BitAt(op, a, b, k) * 2 ^ k
  BY BitSumEquation
<1> HIDE DEF sum
<1>2. ASSUME NEW k \in 0 .. w - 1, k \in Ints PROVE k + 1 \in Ints
  <2>1. \A x, y, z \in Int : x + y * z \in Int
    OBVIOUS
  <2>2. BitAt(op, a, b, k) \in Int /\ 2 ^ k \in Int
    BY BitAtInt, PowerPositive
  <2>3. sum[k] + BitAt(op, a, b, k) * 2 ^ k \in Int
    BY <1>2, <2>1, <2>2
  <2>4. k + 1 \in 0 .. w
    OBVIOUS
  <2> QED
    BY <1>1, <2>3, <2>4
<1>3. 0 \in Ints
  BY <1>1
<1>4. 0 .. w \subseteq Ints
  <2> HIDE DEF Ints
  <2> QED
    BY <1>2, <1>3, Climb
<1>5. sum[w] \in Int
  BY <1>4
<1> QED
  BY <1>5 DEF BitOp, sum

LEMMA SignedZero ==
  ASSUME NEW w \in Widths, NEW x \in Int, Unsigned(x, w) # 0
  PROVE  Signed(x, w) # 0
<1>1. Unsigned(x, w) \in 0 .. 2 ^ w - 1 /\ 2 ^ w \in Int
  BY UnsignedRange, PowerOfWidth
<1> QED
  BY <1>1 DEF Signed, Unsigned

\* A comparison is a truth value.
LEMMA CompareTruth ==
  ASSUME NEW op \in Compares, NEW x, NEW y, NEW w
  PROVE  RawOp(op, x, y, w) \in {0, 1}
<1>1. \A p \in BOOLEAN : Truth(p) \in {0, 1}
  BY DEF Truth
<1> QED
  BY <1>1 DEF RawOp, Compares, Bits, Truth

LEMMA RawOpInt ==
  ASSUME NEW op \in Arith, NEW w \in Widths, NEW x \in Int, NEW y \in Int, Defined(op, x, y, w)
  PROVE  RawOp(op, x, y, w) \in Int
<1> DEFINE ux == Unsigned(x, w)
           uy == Unsigned(y, w)
           sx == Signed(x, w)
           sy == Signed(y, w)
           p == 2 ^ uy
<1>1. ux \in Nat /\ uy \in Nat /\ ux \in Int /\ uy \in Int /\ sx \in Int /\ sy \in Int /\ w \in Nat
  BY UnsignedRange, SignedInt, WidthIn
<1>2. p \in Int /\ p > 0
  BY <1>1, PowerPositive
<1>3. op \in Divisions => uy # 0 /\ sy # 0
  BY SignedZero DEF Defined
<1>4. (op \in {"add", "sub", "mul"} \/ op \in Divisions \/ op \in Shifts \/ op \in Bits)
  BY DEF Arith
<1> HIDE DEF ux, uy, sx, sy, p
<1>5. CASE op \in {"add", "sub", "mul"}
  <2>1. ux + uy \in Int /\ ux - uy \in Int /\ ux * uy \in Int
    BY <1>1
  <2> QED
    BY <1>5, <2>1 DEF RawOp, Bits, ux, uy
<1>6. CASE op \in Divisions
  <2>1. Truncated(sx, sy) \in Int /\ sx - sy * Truncated(sx, sy) \in Int
    BY <1>1, <1>3, <1>6, TruncatedBetween
  <2>2. (ux \div uy) \in Int /\ (ux % uy) \in Int
    BY <1>1, <1>3, <1>6, QuotientInt, RemainderRange
  <2> QED
    BY <1>6, <2>1, <2>2 DEF RawOp, Divisions, Bits, ux, uy, sx, sy
<1>7. CASE op \in Shifts
  <2>1. ux * p \in Int /\ (ux \div p) \in Int /\ (sx \div p) \in Int
    <3>1. \A a, b \in Int : a * b \in Int
      OBVIOUS
    <3> QED
      BY <1>1, <1>2, <3>1, QuotientInt
  <2> QED
    BY <1>7, <2>1 DEF RawOp, Shifts, Bits, ux, uy, sx, sy, p
<1>8. CASE op \in Bits
  <2>1. BitOp(op, ux, uy, w) \in Int
    BY <1>1, <1>8, BitOpInt
  <2>2. op \notin {"add", "sub", "mul", "sdiv", "udiv", "srem", "urem", "shl", "lshr", "ashr"} \cup Compares
    BY <1>8 DEF Bits, Compares
  <2> QED
    BY <1>8, <2>1, <2>2 DEF RawOp, Compares, ux, uy
<1> QED
  BY <1>4, <1>5, <1>6, <1>7, <1>8

\* A machine operation and a cast make numbers of their width.
LEMMA MachineOpRange ==
  ASSUME NEW op \in Arith, NEW w \in Widths, NEW x \in Int, NEW y \in Int, Defined(op, x, y, w)
  PROVE  MachineOp(op, x, y, w) \in 0 .. 2 ^ w - 1
  BY RawOpInt, UnsignedRange DEF MachineOp

LEMMA MachineCastRange ==
  ASSUME NEW op, NEW w \in Widths, NEW v \in Widths, NEW x \in Int
  PROVE  MachineCast(op, x, w, v) \in 0 .. 2 ^ v - 1
<1>1. Signed(x, w) \in Int /\ Unsigned(x, w) \in Int
  BY SignedInt, UnsignedRange
<1> QED
  BY <1>1, UnsignedRange DEF MachineCast

-----------------------------------------------------------------------------
(***************************************************************************)
(* The nodes of a program: operands come before their results, and the     *)
(* order in which backward propagation visits them is a sequence of nodes. *)
(***************************************************************************)

NodeSet == [op : Leaves \cup Arith \cup Compares \cup Casts, kids : Seq(Nat), w : Widths]

KidsBefore(node, n) == \A i \in DOMAIN node.kids : node.kids[i] \in 1 .. n - 1

DagShape == dag \in Seq(NodeSet) /\ \A n \in Nodes : KidsBefore(dag[n], n)

LEMMA NodesAre ==
  ASSUME DagShape
  PROVE  Len(dag) \in Nat /\ Nodes = 1 .. Len(dag) /\ \A n \in Nodes : dag[n] \in NodeSet
  BY DEF DagShape, Nodes

LEMMA PreorderNodes ==
  ASSUME DagShape, NEW n \in Nodes
  PROVE  Preorder[n] \in Seq(Nodes)
<1> DEFINE N == Len(dag)
           kids(m) == dag[m].kids
           child(f, m, i) == IF i \in DOMAIN kids(m) THEN f[kids(m)[i]] ELSE << >>
           order(f, m) == <<m>> \o child(f, m, 1) \o child(f, m, 2)
           S == Seq(Nodes)
           Visits(f, k) == \A m \in 1 .. k : f[m] = order(f, m)
           Good == {k \in 0 .. N : \E f \in [1 .. k -> S] : Visits(f, k)}
           Solves(f) == f = [m \in Nodes |-> order(f, m)]
<1>1. N \in Nat /\ Nodes = 1 .. N
  BY NodesAre
<1>2. \A m \in Nodes : \A i \in DOMAIN kids(m) : kids(m)[i] \in 1 .. m - 1
  BY DEF DagShape, KidsBefore
<1>3. Preorder = CHOOSE f : Solves(f)
  BY DEF Preorder
<1>4. \A f, m : f \in [1 .. m - 1 -> S] /\ m \in Nodes => order(f, m) \in S
  <2> SUFFICES ASSUME NEW f, NEW m \in Nodes, f \in [1 .. m - 1 -> S] PROVE order(f, m) \in S
    OBVIOUS
  <2>1. << >> \in S /\ <<m>> \in S
    OBVIOUS
  <2> HIDE DEF S
  <2>2. child(f, m, 1) \in S /\ child(f, m, 2) \in S
    BY <1>2, <2>1
  <2> HIDE DEF child
  <2>3. \A p, q, r \in S : p \o q \o r \in S
    BY DEF S
  <2> QED
    BY <2>1, <2>2, <2>3
<1>5. \A f, g, m : m \in Nodes /\ (\A j \in 1 .. m - 1 : f[j] = g[j]) => order(f, m) = order(g, m)
  BY <1>2
<1> HIDE DEF order, S
<1>6. 0 \in Good
  <2>1. [m \in 1 .. 0 |-> << >>] \in [1 .. 0 -> S] /\ Visits([m \in 1 .. 0 |-> << >>], 0) /\ 0 \in 0 .. N
    BY <1>1
  <2> HIDE DEF Visits
  <2> QED
    BY <2>1
<1>7. ASSUME NEW k \in 0 .. N - 1, k \in Good PROVE k + 1 \in Good
  <2>1. PICK f \in [1 .. k -> S] : Visits(f, k)
    BY <1>7
  <2> DEFINE g == [m \in 1 .. k + 1 |-> IF m = k + 1 THEN order(f, m) ELSE f[m]]
  <2>2. k + 1 \in Nodes /\ k + 1 - 1 = k /\ k + 1 \in 0 .. N /\ \A m \in 1 .. k : m \in Nodes /\ m # k + 1
    BY <1>1
  <2>3. order(f, k + 1) \in S
    BY <1>4, <2>2
  <2>4. g \in [1 .. k + 1 -> S]
    BY <2>3
  <2>5. \A m \in 1 .. k : g[m] = f[m]
    BY <2>2
  <2>6. g[k + 1] = order(f, k + 1)
    OBVIOUS
  <2> HIDE DEF g
  <2>7. ASSUME NEW m \in 1 .. k + 1 PROVE g[m] = order(g, m)
    <3>1. \A j \in 1 .. m - 1 : g[j] = f[j]
      BY <2>5
    <3>2. m \in Nodes /\ (m \in 1 .. k \/ m = k + 1)
      BY <2>2
    <3>3. order(f, m) = order(g, m)
      BY <1>5, <3>1, <3>2
    <3>4. g[m] = order(f, m)
      BY <2>1, <2>5, <2>6, <3>2
    <3> QED
      BY <3>3, <3>4
  <2>8. Visits(g, k + 1)
    BY <2>7
  <2> HIDE DEF Visits
  <2> QED
    BY <2>2, <2>4, <2>8
<1>8. N \in Good
  <2> HIDE DEF Good
  <2>1. \A k \in 0 .. N - 1 : k \in Good => k + 1 \in Good
    BY <1>7
  <2> QED
    <3>1. N \in 0 .. N
      BY <1>1
    <3>2. 0 .. N \subseteq Good
      <4>1. N \in Nat
        BY <1>1
      <4> HIDE DEF N
      <4> QED
        BY <1>6, <2>1, <4>1, Climb
    <3> QED
      BY <3>1, <3>2
<1>9. PICK f \in [1 .. N -> S] : Visits(f, N)
  BY <1>8
<1>10. Solves(f)
  BY <1>1, <1>9
<1> DEFINE h == CHOOSE g : Solves(g)
<1>11. Solves(h)
  <2> HIDE DEF Solves
  <2> QED
    BY <1>10
<1> HIDE DEF h
<1>12. h = [m \in Nodes |-> order(h, m)]
  BY <1>11
<1>13. \A m \in Nodes : h[m] = order(h, m)
  BY <1>12
\* The first node whose order is not one of nodes would have operands of that kind.
<1> DEFINE Bad == {m \in Nodes : h[m] \notin S}
<1>14. ASSUME Bad # {} PROVE FALSE
  <2>1. Bad \in SUBSET Nat
    BY <1>1
  <2>2. PICK m \in Bad : \A j \in Bad : m <= j
    <3> HIDE DEF Bad
    <3> QED
      BY <1>14, <2>1, LeastNumber
  <2>3. m \in Nodes /\ h[m] \notin S
    BY <2>2
  <2>4. \A j \in 1 .. m - 1 : h[j] \in S
    BY <1>1, <2>2
  <2> DEFINE g == [j \in 1 .. m - 1 |-> h[j]]
  <2>5. g \in [1 .. m - 1 -> S] /\ \A j \in 1 .. m - 1 : g[j] = h[j]
    BY <2>4
  <2> HIDE DEF g
  <2>6. order(g, m) \in S /\ order(g, m) = order(h, m)
    BY <1>4, <1>5, <2>3, <2>5
  <2> QED
    BY <1>13, <2>3, <2>6
<1>15. h[n] \in S
  BY <1>14
<1> QED
  BY <1>3, <1>15 DEF S, h

\* A walk visits one value after the other.
LEMMA WalkEquation ==
  ASSUME NEW S, NEW order \in Seq(Nodes)
  PROVE  /\ Len(order) \in Nat /\ Walk(S, order)[0] = S
         /\ \A k \in 1 .. Len(order) :
               Walk(S, order)[k] = BackwardAll(Walk(S, order)[k - 1], order[k])
<1> DEFINE N == Len(order)
           next(T, k) == BackwardAll(T, order[k])
           Visits(f, m) == f[0] = S /\ \A k \in 1 .. m : f[k] = next(f[k - 1], k)
           Good == {m \in 0 .. N : \E f : Visits(f, m)}
           Solves(f) == f = [k \in 0 .. N |-> IF k = 0 THEN S ELSE next(f[k - 1], k)]
<1>1. N \in Nat
  OBVIOUS
<1>2. Walk(S, order) = CHOOSE f : Solves(f)
  BY DEF Walk
<1> HIDE DEF next
<1>3. 0 \in Good
  <2>1. Visits([k \in 0 .. 0 |-> S], 0) /\ 0 \in 0 .. N
    BY <1>1
  <2> HIDE DEF Visits
  <2> QED
    BY <2>1
<1>4. ASSUME NEW m \in 0 .. N - 1, m \in Good PROVE m + 1 \in Good
  <2>1. PICK f : Visits(f, m)
    BY <1>4
  <2> DEFINE g == [k \in 0 .. m + 1 |-> IF k = m + 1 THEN next(f[m], m + 1) ELSE f[k]]
  <2>2. m \in Nat /\ m + 1 \in 0 .. N /\ m + 1 # 0 /\ m + 1 - 1 = m
    BY <1>1
  <2>3. \A k \in 0 .. m : g[k] = f[k]
    BY <2>2
  <2>4. g[m + 1] = next(f[m], m + 1)
    BY <2>2
  <2> HIDE DEF g
  <2>5. ASSUME NEW k \in 1 .. m + 1 PROVE g[k] = next(g[k - 1], k)
    <3>1. CASE k = m + 1
      BY <2>2, <2>3, <2>4, <3>1
    <3>2. CASE k # m + 1
      <4>1. k \in 1 .. m /\ k \in 0 .. m /\ k - 1 \in 0 .. m
        BY <2>2, <3>2
      <4> QED
        BY <2>1, <2>3, <4>1
    <3> QED
      BY <3>1, <3>2
  <2>6. g[0] = S
    BY <2>1, <2>2, <2>3
  <2>7. Visits(g, m + 1)
    BY <2>5, <2>6
  <2> HIDE DEF Visits
  <2> QED
    BY <2>2, <2>7
<1>5. N \in Good
  <2>1. \A k \in 0 .. N - 1 : k \in Good => k + 1 \in Good
    BY <1>4
  <2>2. N \in 0 .. N
    BY <1>1
  <2> HIDE DEF N, Good
  <2>3. 0 .. N \subseteq Good
    BY <1>1, <1>3, <2>1, Climb
  <2> QED
    BY <2>2, <2>3
<1>6. PICK f : Visits(f, N)
  BY <1>5
<1> DEFINE g == [k \in 0 .. N |-> f[k]]
<1>7. Solves(g)
  <2>1. \A k \in 0 .. N : g[k] = f[k] /\ (k # 0 => k - 1 \in 0 .. N /\ k \in 1 .. N)
    BY <1>1
  <2> DEFINE rhs == [k \in 0 .. N |-> IF k = 0 THEN S ELSE next(g[k - 1], k)]
  <2>2. \A k \in 0 .. N : f[k] = rhs[k]
    BY <1>6, <2>1
  <2> QED
    BY <2>2
<1> DEFINE h == CHOOSE e : Solves(e)
<1>8. Solves(h)
  <2> HIDE DEF Solves
  <2> QED
    BY <1>7
<1> HIDE DEF h
<1>9. h[0] = S /\ \A k \in 1 .. N : h[k] = next(h[k - 1], k)
  <2>1. 0 \in 0 .. N /\ \A k \in 1 .. N : k \in 0 .. N /\ k # 0
    BY <1>1
  <2>2. \A k \in 0 .. N : h[k] = IF k = 0 THEN S ELSE next(h[k - 1], k)
    BY <1>8
  <2> QED
    BY <2>1, <2>2
<1> QED
  BY <1>1, <1>2, <1>9 DEF h, next

-----------------------------------------------------------------------------
(***************************************************************************)
(* Bounds and intervals. Operations on bounds saturate, and those on       *)
(* intervals make intervals.                                               *)
(***************************************************************************)

Bounds == MinusInf .. PlusInf

Intervals == Bounds \X Bounds

LEMMA BoundFacts ==
  /\ MaxBound \in Nat /\ MaxBound > 1
  /\ ChooseBound \in Nat \ {0} /\ ChooseBound < MaxBound
  /\ PlusInf = MaxBound /\ MinusInf = -MaxBound - 1
  BY BoundsAssumption DEF PlusInf, MinusInf

LEMMA BoundsInt ==
  ASSUME NEW x
  PROVE  x \in Bounds <=> x \in Int /\ MinusInf <= x /\ x <= PlusInf
  BY BoundFacts DEF Bounds

LEMMA SomeBounds == {0, 1, -1, PlusInf, MinusInf} \subseteq Bounds
  BY BoundFacts, BoundsInt

LEMMA SaturateIn == ASSUME NEW x \in Int PROVE Saturate(x) \in Bounds
  BY BoundFacts, BoundsInt DEF Saturate

LEMMA WrappedIn == ASSUME NEW x \in Int PROVE Wrapped(x) \in Bounds
<1> DEFINE m == PlusInf - MinusInf + 1
<1>1. m \in Int /\ m > 0 /\ m = 2 * MaxBound + 2
  BY BoundFacts
<1>2. (x % m) \in Int /\ 0 <= (x % m) /\ (x % m) < m
  BY <1>1, RemainderRange
<1> DEFINE k == (x % m)
<1>3. Wrapped(x) = IF k > PlusInf THEN k - m ELSE k
  BY DEF Wrapped
<1> HIDE DEF k, m
<1>4. k \in Int /\ 0 <= k /\ k < m
  BY <1>2 DEF k
<1> QED
  BY <1>1, <1>3, <1>4, BoundFacts, BoundsInt

LEMMA GreaterIn ==
  ASSUME NEW x \in Bounds, NEW y \in Bounds
  PROVE  /\ Greater(x, y) \in Bounds /\ Lesser(x, y) \in Bounds
         /\ x <= Greater(x, y) /\ y <= Greater(x, y) /\ Lesser(x, y) <= x /\ Lesser(x, y) <= y
  BY BoundsInt, BoundFacts DEF Greater, Lesser

LEMMA BoundNegIn == ASSUME NEW x \in Bounds PROVE BoundNeg(x) \in Bounds
  BY BoundFacts, BoundsInt DEF BoundNeg

LEMMA BoundAddIn ==
  ASSUME NEW x \in Bounds, NEW y \in Bounds
  PROVE  BoundAdd(x, y) \subseteq Bounds
<1>1. x \in Int /\ y \in Int
  BY BoundsInt
<1>2. Saturate(x + y) \in Bounds
  BY <1>1, SaturateIn
<1> QED
  BY <1>2 DEF BoundAdd

LEMMA BoundSubIn ==
  ASSUME NEW x \in Bounds, NEW y \in Bounds
  PROVE  BoundSub(x, y) \subseteq Bounds
  BY BoundNegIn, BoundAddIn DEF BoundSub

LEMMA BoundMulIn ==
  ASSUME NEW x \in Bounds, NEW y \in Bounds
  PROVE  BoundMul(x, y) \in Bounds
<1>1. x * y \in Int
  <2>1. \A a, b \in Int : a * b \in Int
    OBVIOUS
  <2> QED
    BY <2>1, BoundsInt
<1>2. Saturate(x * y) \in Bounds
  BY <1>1, SaturateIn
<1> QED
  BY <1>2, SomeBounds DEF BoundMul

\* Numbers that are not infinite divide to bounds.
LEMMA FiniteBound ==
  ASSUME NEW x \in Bounds, ~IsInf(x)
  PROVE  x \in Int /\ -MaxBound <= x /\ x < MaxBound
  BY BoundsInt, BoundFacts DEF IsInf

LEMMA TruncatedIn ==
  ASSUME NEW x \in Bounds, ~IsInf(x), NEW y \in Int, y # 0
  PROVE  Truncated(x, y) \in Bounds /\ x - y * Truncated(x, y) \in Bounds
<1> DEFINE t == Truncated(x, y)
           r == x - y * Truncated(x, y)
<1>1. x \in Int /\ -MaxBound <= x /\ x < MaxBound
  BY FiniteBound
<1>2. /\ t \in Int
      /\ x >= 0 => -x <= t /\ t <= x
      /\ x < 0 => x <= t /\ t <= -x
      /\ r \in Int
      /\ x >= 0 => 0 <= r /\ r <= x
      /\ x < 0 => x <= r /\ r <= 0
  BY <1>1, TruncatedBetween
<1> HIDE DEF t, r
<1>3. t \in Bounds
  BY <1>1, <1>2, BoundFacts, BoundsInt
<1>4. r \in Bounds
  BY <1>1, <1>2, BoundFacts, BoundsInt
<1> QED
  BY <1>3, <1>4 DEF t, r

LEMMA BoundDivIn ==
  ASSUME NEW x \in Bounds, NEW y \in Bounds
  PROVE  BoundDiv(x, y) \subseteq Bounds
<1>1. ~IsInf(x) /\ y # 0 => Truncated(x, y) \in Bounds
  BY TruncatedIn, BoundsInt
<1> QED
  BY <1>1, BoundNegIn, SomeBounds DEF BoundDiv

LEMMA RemainderIn ==
  ASSUME NEW x \in Bounds, NEW y \in Bounds
  PROVE  Remainder(x, y) \subseteq Bounds
<1>1. ~IsInf(x) /\ y # 0 => x - y * Truncated(x, y) \in Bounds
  BY TruncatedIn, BoundsInt
<1> QED
  BY <1>1 DEF Remainder

LEMMA BoundShiftIn ==
  ASSUME NEW x \in Bounds, NEW y \in Bounds, NEW left \in BOOLEAN
  PROVE  BoundShift(x, y, left) \subseteq Bounds
<1>1. x \in Int /\ y \in Int
  BY BoundsInt
<1> DEFINE p == 2 ^ y
<1>2. ASSUME ~(y < 0) PROVE Wrapped(x * p) \in Bounds /\ (x \div p) \in Bounds
  <2>1. y \in Nat
    BY <1>1, <1>2
  <2>2. p \in Int /\ p > 0
    BY <2>1, PowerPositive
  <2> HIDE DEF p
  <2>3. \A a, b \in Int : a * b \in Int
    OBVIOUS
  <2>4. Wrapped(x * p) \in Bounds
    BY <1>1, <2>2, <2>3, WrappedIn
  <2>5. \A a, b \in Int : b > 0 => /\ (a \div b) \in Int
                                   /\ a >= 0 => 0 <= (a \div b) /\ (a \div b) <= a
                                   /\ a < 0 => a <= (a \div b) /\ (a \div b) < 0
    OBVIOUS
  <2>6. /\ (x \div p) \in Int
        /\ x >= 0 => 0 <= (x \div p) /\ (x \div p) <= x
        /\ x < 0 => x <= (x \div p) /\ (x \div p) < 0
    BY <1>1, <2>2, <2>5
  <2> DEFINE q == (x \div p)
  <2>7. q \in Int /\ (x >= 0 => 0 <= q /\ q <= x) /\ (x < 0 => x <= q /\ q < 0)
    BY <2>6
  <2> HIDE DEF q
  <2>8. q \in Bounds
    BY <2>7, BoundFacts, BoundsInt
  <2> QED
    BY <2>4, <2>8 DEF q
<1> HIDE DEF p
<1>3. ASSUME ~(y < 0) PROVE Wrapped(x * 2 ^ y) \in Bounds /\ (x \div 2 ^ y) \in Bounds
  BY <1>2, <1>3 DEF p
<1> QED
  BY <1>3, SomeBounds DEF BoundShift

LEMMA IvParts ==
  /\ \A l, h : Low(Iv(l, h)) = l /\ High(Iv(l, h)) = h
  /\ \A l, h \in Bounds : Iv(l, h) \in Intervals
  /\ \A i \in Intervals : Low(i) \in Bounds /\ High(i) \in Bounds /\ i = Iv(Low(i), High(i))
  BY DEF Iv, Low, High, Intervals

\* A set of bounds has a least and a greatest one.
LEMMA MinMaxIn ==
  ASSUME NEW S \in SUBSET Bounds, S # {}
  PROVE  Min(S) \in Bounds /\ Max(S) \in Bounds
<1>1. \A x \in S : x \in Int /\ x - MinusInf \in Nat /\ PlusInf - x \in Nat
  BY BoundsInt, BoundFacts
<1>2. \E m \in S : \A n \in S : m <= n
  <2> DEFINE T == {x - MinusInf : x \in S}
  <2>1. T \in SUBSET Nat /\ T # {}
    BY <1>1
  <2>2. PICK k \in T : \A n \in T : k <= n
    <3> HIDE DEF T
    <3> QED
      BY <2>1, LeastNumber
  <2>3. PICK m \in S : k = m - MinusInf
    BY <2>2
  <2>4. \A n \in S : m - MinusInf <= n - MinusInf
    BY <2>2, <2>3
  <2>5. \A n \in S : m <= n
    BY <1>1, <2>4, BoundFacts
  <2> QED
    BY <2>5
<1>3. \E m \in S : \A n \in S : n <= m
  <2> DEFINE T == {PlusInf - x : x \in S}
  <2>1. T \in SUBSET Nat /\ T # {}
    BY <1>1
  <2>2. PICK k \in T : \A n \in T : k <= n
    <3> HIDE DEF T
    <3> QED
      BY <2>1, LeastNumber
  <2>3. PICK m \in S : k = PlusInf - m
    BY <2>2
  <2>4. \A n \in S : PlusInf - m <= PlusInf - n
    BY <2>2, <2>3
  <2>5. \A n \in S : n <= m
    BY <1>1, <2>4, BoundFacts
  <2> QED
    BY <2>5
<1>4. Min(S) \in S
  BY <1>2 DEF Min
<1>5. Max(S) \in S
  <2>1. Max(S) = CHOOSE x \in S : \A y \in S : x >= y
    BY DEF Max
  <2>2. \E m \in S : \A n \in S : m >= n
    BY <1>1, <1>3
  <2> QED
    BY <2>1, <2>2
<1> QED
  BY <1>4, <1>5

\* What the corners of an operation span.
Hull(cs) == IF {} \in cs THEN {} ELSE {Iv(Min(UNION cs), Max(UNION cs))}

LEMMA HullIn ==
  ASSUME NEW cs, cs # {}, \A c \in cs : c \subseteq Bounds
  PROVE  Hull(cs) \subseteq Intervals
<1> SUFFICES ASSUME {} \notin cs PROVE Iv(Min(UNION cs), Max(UNION cs)) \in Intervals
  BY DEF Hull
<1>1. UNION cs \in SUBSET Bounds /\ UNION cs # {}
  OBVIOUS
<1> QED
  BY <1>1, MinMaxIn, IvParts

LEMMA IvMulIn == ASSUME NEW i \in Intervals, NEW j \in Intervals PROVE IvMul(i, j) \subseteq Intervals
<1> DEFINE cs == {{BoundMul(x, y)} : x \in {Low(i), High(i)}, y \in {Low(j), High(j)}}
<1>1. IvMul(i, j) \subseteq Hull(cs)
  BY DEF IvMul, Corners, Hull
<1>2. cs # {}
  <2>1. {BoundMul(Low(i), Low(j))} \in cs
    OBVIOUS
  <2> HIDE DEF cs
  <2> QED
    BY <2>1
<1>3. \A x \in {Low(i), High(i)}, y \in {Low(j), High(j)} : BoundMul(x, y) \in Bounds
  BY IvParts, BoundMulIn
<1>4. \A c \in cs : c \subseteq Bounds
  BY <1>3
<1> HIDE DEF cs
<1> QED
  BY <1>1, <1>2, <1>4, HullIn

LEMMA IvDivIn == ASSUME NEW i \in Intervals, NEW j \in Intervals PROVE IvDiv(i, j) \subseteq Intervals
<1> DEFINE cs == {BoundDiv(x, y) : x \in {Low(i), High(i)}, y \in {Low(j), High(j)}}
<1>1. IvDiv(i, j) \subseteq Hull(cs)
  BY DEF IvDiv, Corners, Hull
<1>2. cs # {} /\ \A c \in cs : c \subseteq Bounds
  BY IvParts, BoundDivIn
<1> HIDE DEF cs
<1> QED
  BY <1>1, <1>2, HullIn

LEMMA IvRemIn == ASSUME NEW i \in Intervals, NEW j \in Intervals PROVE IvRem(i, j) \subseteq Intervals
<1> DEFINE cs == {Remainder(x, y) : x \in {Low(i), High(i)}, y \in {Low(j), High(j)}}
<1>1. IvRem(i, j) \subseteq Hull(cs)
  BY DEF IvRem, Corners, Hull
<1>2. cs # {} /\ \A c \in cs : c \subseteq Bounds
  BY IvParts, RemainderIn
<1> HIDE DEF cs
<1> QED
  BY <1>1, <1>2, HullIn

LEMMA IvShiftIn ==
  ASSUME NEW i \in Intervals, NEW j \in Intervals, NEW left \in BOOLEAN
  PROVE  IvShift(i, j, left) \subseteq Intervals
<1> DEFINE cs == {BoundShift(x, y, left) : x \in {Low(i), High(i)}, y \in {Low(j), High(j)}}
<1>1. IvShift(i, j, left) = Hull(cs)
  BY DEF IvShift, Corners, Hull
<1>2. cs # {} /\ \A c \in cs : c \subseteq Bounds
  BY IvParts, BoundShiftIn
<1> HIDE DEF cs
<1> QED
  BY <1>1, <1>2, HullIn

LEMMA IvAddIn ==
  ASSUME NEW i \in Intervals, NEW j \in Intervals
  PROVE  IvAdd(i, j) \subseteq Intervals /\ IvSub(i, j) \subseteq Intervals
<1>1. Low(i) \in Bounds /\ High(i) \in Bounds /\ Low(j) \in Bounds /\ High(j) \in Bounds
  BY IvParts
<1>2. \A x, y \in Bounds : BoundAdd(x, y) \subseteq Bounds /\ BoundSub(x, y) \subseteq Bounds
  BY BoundAddIn, BoundSubIn
<1> QED
  BY <1>1, <1>2, IvParts DEF IvAdd, IvSub

LEMMA IvMeetIn ==
  ASSUME NEW i \in Intervals, NEW j \in Intervals
  PROVE  IvMeet(i, j) \in Intervals /\ IvJoin(i, j) \in Intervals
<1>1. Low(i) \in Bounds /\ High(i) \in Bounds /\ Low(j) \in Bounds /\ High(j) \in Bounds
  BY IvParts
<1>2. \A x, y \in Bounds : Greater(x, y) \in Bounds /\ Lesser(x, y) \in Bounds
  BY GreaterIn
<1> QED
  BY <1>1, <1>2, IvParts DEF IvMeet, IvJoin

LEMMA IvTriIn == \A t \in {"true", "false", "maybe"} : IvOfTri(t) \in Intervals
  BY SomeBounds, IvParts DEF IvOfTri

LEMMA TristatesAre ==
  ASSUME NEW i, NEW j
  PROVE  /\ IvEq(i, j) \in {"true", "false", "maybe"} /\ IvLess(i, j) \in {"true", "false", "maybe"}
         /\ TriNot(IvEq(i, j)) \in {"true", "false", "maybe"}
         /\ TriNot(IvLess(i, j)) \in {"true", "false", "maybe"}
<1>2. IvEq(i, j) \in {"true", "false", "maybe"} /\ IvLess(i, j) \in {"true", "false", "maybe"}
  <2>1. TriOf(Low(i) < Low(j)) \in {"true", "false", "maybe"}
    BY DEF TriOf
  <2>2. IvEq(i, j) \in {"true", "false", "maybe"}
    BY DEF IvEq
  <2>3. IvLess(i, j) \in {"true", "false", "maybe"}
    BY <2>1 DEF IvLess
  <2> QED
    BY <2>2, <2>3
<1>3. \A t \in {"true", "false", "maybe"} : TriNot(t) \in {"true", "false", "maybe"}
  BY DEF TriNot
<1> QED
  BY <1>2, <1>3

LEMMA IntervalOpIn ==
  ASSUME NEW op, NEW i \in Intervals, NEW j \in Intervals
  PROVE  IntervalOp(op, i, j) \subseteq Intervals
<1>1. /\ IvAdd(i, j) \subseteq Intervals /\ IvSub(i, j) \subseteq Intervals /\ IvMul(i, j) \subseteq Intervals
      /\ IvDiv(i, j) \subseteq Intervals /\ IvRem(i, j) \subseteq Intervals
      /\ IvShift(i, j, TRUE) \subseteq Intervals /\ IvShift(i, j, FALSE) \subseteq Intervals
  BY IvAddIn, IvMulIn, IvDivIn, IvRemIn, IvShiftIn
<1>2. /\ IvOfTri(IvEq(i, j)) \in Intervals /\ IvOfTri(TriNot(IvEq(i, j))) \in Intervals
      /\ IvOfTri(IvLess(i, j)) \in Intervals /\ IvOfTri(IvLess(j, i)) \in Intervals
      /\ IvOfTri(TriNot(IvLess(i, j))) \in Intervals /\ IvOfTri(TriNot(IvLess(j, i))) \in Intervals
  BY TristatesAre, IvTriIn
<1> QED
  BY <1>1, <1>2 DEF IntervalOp
-----------------------------------------------------------------------------
(***************************************************************************)
(* Forks. Backward operations of intervals leave the solver's choices as   *)
(* they are and narrow the intervals of a fork, or end it.                 *)
(***************************************************************************)

Outs == {"ok", "trap", "wild", "stuck"}

Shaped(s) == s \in [val : {s.val}, out : Outs, solver : SUBSET Worlds]

IvStore(s, k) == Shaped(s) /\ s.out = "ok" /\ s.val \in [1 .. k -> Intervals]

IvBelow(i, j) == Low(j) <= Low(i) /\ High(i) <= High(j)

Inside(t, s, k) ==
    /\ Shaped(t) /\ t.solver = s.solver
    /\ t.out = "ok" => /\ t.val \in [1 .. k -> Intervals]
                       /\ \A n \in 1 .. k : IvBelow(t.val[n], s.val[n])

AllInside(T, s, k) == \A t \in T : Inside(t, s, k)

LEMMA PutFork ==
  ASSUME NEW s, Shaped(s), NEW n, NEW v
  PROVE  /\ Shaped(Put(s, n, v)) /\ Put(s, n, v).val = [s.val EXCEPT ![n] = v]
         /\ Put(s, n, v).out = s.out /\ Put(s, n, v).solver = s.solver
  BY DEF Shaped, Put

LEMMA EndFork ==
  ASSUME NEW s, Shaped(s), NEW how \in Outs
  PROVE  /\ Shaped(End(s, how)) /\ End(s, how).val = s.val
         /\ End(s, how).out = how /\ End(s, how).solver = s.solver
  BY DEF Shaped, End

LEMMA IvBelowOrder ==
  /\ \A i \in Intervals : IvBelow(i, i)
  /\ \A i, j, l \in Intervals : IvBelow(i, j) /\ IvBelow(j, l) => IvBelow(i, l)
<1>1. \A i \in Intervals : Low(i) \in Int /\ High(i) \in Int
  BY IvParts, BoundsInt
<1> QED
  BY <1>1 DEF IvBelow

LEMMA InsideSelf ==
  ASSUME NEW k \in Nat, NEW s, IvStore(s, k)
  PROVE  Inside(s, s, k)
  BY IvBelowOrder DEF Inside, IvStore

LEMMA InsideStore ==
  ASSUME NEW k \in Nat, NEW s, NEW t, Inside(t, s, k), t.out = "ok"
  PROVE  IvStore(t, k)
  BY DEF Inside, IvStore

LEMMA InsideTrans ==
  ASSUME NEW k \in Nat, NEW s, IvStore(s, k), NEW t, Inside(t, s, k), t.out = "ok",
         NEW u, Inside(u, t, k)
  PROVE  Inside(u, s, k)
<1>1. Shaped(u) /\ u.solver = s.solver
  BY DEF Inside
<1>2. ASSUME u.out = "ok"
      PROVE  u.val \in [1 .. k -> Intervals] /\ \A n \in 1 .. k : IvBelow(u.val[n], s.val[n])
  <2>1. /\ u.val \in [1 .. k -> Intervals] /\ \A n \in 1 .. k : IvBelow(u.val[n], t.val[n])
        /\ t.val \in [1 .. k -> Intervals] /\ \A n \in 1 .. k : IvBelow(t.val[n], s.val[n])
        /\ s.val \in [1 .. k -> Intervals]
    BY <1>2 DEF Inside, IvStore
  <2> QED
    BY <2>1, IvBelowOrder
<1> QED
  BY <1>1, <1>2 DEF Inside

LEMMA AllInsideTrans ==
  ASSUME NEW k \in Nat, NEW s, IvStore(s, k), NEW t, Inside(t, s, k), t.out = "ok",
         NEW U, AllInside(U, t, k)
  PROVE  AllInside(U, s, k)
  BY InsideTrans DEF AllInside

LEMMA EndInside ==
  ASSUME NEW k \in Nat, NEW s, IvStore(s, k), NEW how \in Outs \ {"ok"}
  PROVE  Inside(End(s, how), s, k) /\ AllInside({End(s, how)}, s, k)
  BY EndFork DEF Inside, AllInside, IvStore

LEMMA PutInside ==
  ASSUME NEW k \in Nat, NEW s, IvStore(s, k), NEW n \in 1 .. k, NEW i \in Intervals, IvBelow(i, s.val[n])
  PROVE  /\ Inside(Put(s, n, i), s, k) /\ Put(s, n, i).out = "ok" /\ IvStore(Put(s, n, i), k)
         /\ \A m \in 1 .. k \ {n} : Put(s, n, i).val[m] = s.val[m]
<1> DEFINE t == Put(s, n, i)
<1>1. Shaped(t) /\ t.val = [s.val EXCEPT ![n] = i] /\ t.out = "ok" /\ t.solver = s.solver
  BY PutFork DEF IvStore
<1> HIDE DEF t
<1>2. s.val \in [1 .. k -> Intervals]
  BY DEF IvStore
<1>3. t.val \in [1 .. k -> Intervals] /\ \A m \in 1 .. k : t.val[m] = IF m = n THEN i ELSE s.val[m]
  BY <1>1, <1>2
<1>4. Inside(t, s, k)
  BY <1>1, <1>2, <1>3, IvBelowOrder DEF Inside
<1> QED
  BY <1>1, <1>3, <1>4, InsideStore DEF t

\* An interval that is met is inside, and an empty one cancels.
LEMMA MeetBelow ==
  ASSUME NEW i \in Intervals, NEW j \in Intervals, ~IvEmpty(IvMeet(i, j))
  PROVE  IvMeet(i, j) \in Intervals /\ IvBelow(IvMeet(i, j), i)
<1>1. ~IvEmpty(i) /\ ~IvEmpty(j)
  BY DEF IvMeet
<1>2. IvMeet(i, j) = Iv(Greater(Low(i), Low(j)), Lesser(High(i), High(j)))
  BY <1>1 DEF IvMeet
<1> QED
  BY <1>2, IvMeetIn, IvParts, GreaterIn DEF IvBelow

LEMMA CutInside ==
  ASSUME NEW k \in Nat, NEW s, IvStore(s, k), NEW n \in 1 .. k, NEW I \in SUBSET Intervals
  PROVE  AllInside(Cut(s, n, I), s, k)
<1> SUFFICES ASSUME NEW i \in I, ~IvEmpty(IvMeet(s.val[n], i))
             PROVE  Inside(Put(s, n, IvMeet(s.val[n], i)), s, k)
  BY DEF AllInside, Cut
<1>1. s.val[n] \in Intervals
  BY DEF IvStore
<1> QED
  BY <1>1, MeetBelow, PutInside

LEMMA CutQuotientInside ==
  ASSUME NEW k \in Nat, NEW s, IvStore(s, k), NEW n \in 1 .. k, NEW i \in Intervals, NEW j \in Intervals
  PROVE  AllInside(CutQuotient(s, n, i, j), s, k)
<1>1. IvDiv(i, j) \in SUBSET Intervals
  BY IvDivIn
<1> QED
  BY <1>1, CutInside, EndInside DEF CutQuotient, Outs

LEMMA MeetLowInside ==
  ASSUME NEW k \in Nat, NEW s, IvStore(s, k), NEW n \in 1 .. k, NEW b \in Int, b <= PlusInf
  PROVE  /\ Inside(MeetLow(s, n, b), s, k) /\ MeetLow(s, n, b).out = "ok" /\ IvStore(MeetLow(s, n, b), k)
         /\ \A m \in 1 .. k \ {n} : MeetLow(s, n, b).val[m] = s.val[m]
<1> DEFINE i == s.val[n]
           j == Iv(Greater(Low(i), b), High(i))
<1>1. i \in Intervals /\ Low(i) \in Bounds /\ High(i) \in Bounds
  BY IvParts DEF IvStore
<1>2. Greater(Low(i), b) \in Bounds /\ Low(i) <= Greater(Low(i), b) /\ High(i) <= High(i)
  BY <1>1, BoundsInt, BoundFacts DEF Greater
<1>3. j \in Intervals /\ IvBelow(j, i)
  BY <1>1, <1>2, IvParts DEF IvBelow
<1> HIDE DEF j
<1>4. MeetLow(s, n, b) = Put(s, n, j)
  BY DEF MeetLow, j
<1> QED
  BY <1>3, <1>4, PutInside

LEMMA MeetHighInside ==
  ASSUME NEW k \in Nat, NEW s, IvStore(s, k), NEW n \in 1 .. k, NEW b \in Int, MinusInf <= b
  PROVE  /\ Inside(MeetHigh(s, n, b), s, k) /\ MeetHigh(s, n, b).out = "ok" /\ IvStore(MeetHigh(s, n, b), k)
         /\ \A m \in 1 .. k \ {n} : MeetHigh(s, n, b).val[m] = s.val[m]
<1> DEFINE i == s.val[n]
           j == Iv(Low(i), Lesser(High(i), b))
<1>1. i \in Intervals /\ Low(i) \in Bounds /\ High(i) \in Bounds
  BY IvParts DEF IvStore
<1>2. Lesser(High(i), b) \in Bounds /\ Lesser(High(i), b) <= High(i) /\ Low(i) <= Low(i)
  BY <1>1, BoundsInt, BoundFacts DEF Lesser
<1>3. j \in Intervals /\ IvBelow(j, i)
  BY <1>1, <1>2, IvParts DEF IvBelow
<1> HIDE DEF j
<1>4. MeetHigh(s, n, b) = Put(s, n, j)
  BY DEF MeetHigh, j
<1> QED
  BY <1>3, <1>4, PutInside

LEMMA ExcludeInside ==
  ASSUME NEW k \in Nat, NEW s, IvStore(s, k), NEW n \in 1 .. k, NEW b
  PROVE  AllInside(Exclude(s, n, b), s, k) /\ \A t \in Exclude(s, n, b) : t.out = "ok"
<1> DEFINE i == s.val[n]
           l == IF Low(i) = b THEN Low(i) + 1 ELSE Low(i)
           h == IF High(i) = b THEN High(i) - 1 ELSE High(i)
<1>1. i \in Intervals /\ Low(i) \in Bounds /\ High(i) \in Bounds
  BY IvParts DEF IvStore
<1>2. l \in Int /\ h \in Int /\ Low(i) <= l /\ h <= High(i)
  BY <1>1, BoundsInt
<1> HIDE DEF l, h
<1>3. Exclude(s, n, b) = IF IvEmpty(Iv(l, h)) THEN {} ELSE {Put(s, n, Iv(l, h))}
  BY DEF Exclude, l, h
<1>4. ASSUME ~IvEmpty(Iv(l, h)) PROVE Iv(l, h) \in Intervals /\ IvBelow(Iv(l, h), i)
  <2>1. l <= h
    BY <1>2, <1>4, IvParts DEF IvEmpty
  <2>2. l \in Bounds /\ h \in Bounds
    BY <1>1, <1>2, <2>1, BoundsInt, BoundFacts
  <2> QED
    BY <1>2, <2>2, IvParts DEF IvBelow
<1> QED
  BY <1>3, <1>4, PutInside DEF AllInside

LEMMA ShiftedIn == ASSUME NEW x \in Bounds, NEW d \in Int PROVE Shifted(x, d) \in Bounds
<1>1. x + d \in Int
  BY BoundsInt
<1> QED
  BY <1>1, SaturateIn DEF Shifted
\* Sharing out what the result says moves bounds of the operands inwards.
LEMMA ShareLowInside ==
  ASSUME NEW k \in Nat, NEW s, IvStore(s, k), NEW a \in 1 .. k, NEW b \in 1 .. k,
         NEW d \in Bounds, NEW sub \in BOOLEAN
  PROVE  AllInside(ShareLow(s, d, a, b, sub), s, k)
<1> DEFINE t(i) == MeetLow(s, a, Shifted(Low(s.val[a]), i))
           u(i) == IF sub THEN MeetHigh(t(i), b, Shifted(High(t(i).val[b]), i - d))
                   ELSE MeetLow(t(i), b, Shifted(Low(t(i).val[b]), d - i))
<1>1. d \in Int
  BY BoundsInt
<1>2. ASSUME NEW i \in Int PROVE Inside(u(i), s, k)
  <2>1. Inside(t(i), s, k) /\ t(i).out = "ok" /\ IvStore(t(i), k)
    <3>1. s.val[a] \in Intervals
      BY DEF IvStore
    <3>2. Low(s.val[a]) \in Bounds
      BY <3>1, IvParts
    <3>3. Shifted(Low(s.val[a]), i) \in Bounds
      BY <3>2, ShiftedIn
    <3> QED
      BY <3>3, MeetLowInside, BoundsInt
  <2> HIDE DEF t
  <2>2. Low(t(i).val[b]) \in Bounds /\ High(t(i).val[b]) \in Bounds
    BY <2>1, IvParts DEF IvStore
  <2>3. Shifted(High(t(i).val[b]), i - d) \in Bounds /\ Shifted(Low(t(i).val[b]), d - i) \in Bounds
    <3>1. i - d \in Int /\ d - i \in Int
      BY <1>1
    <3> QED
      BY <2>2, <3>1, ShiftedIn
  <2>4. Inside(u(i), t(i), k)
    BY <2>1, <2>3, MeetLowInside, MeetHighInside, BoundsInt
  <2> QED
    BY <2>1, <2>4, InsideTrans
<1>3. ShareLow(s, d, a, b, sub) =
         IF Splittable(d)
         THEN IF Wrapped(d + 1) < 1 THEN {End(s, "stuck")} ELSE UNION {{u(i)} : i \in 0 .. Wrapped(d + 1) - 1}
         ELSE {s}
  BY DEF ShareLow, Split
<1> HIDE DEF u
<1>4. Wrapped(d + 1) \in Int
  BY <1>1, WrappedIn, BoundsInt
<1>5. \A i \in 0 .. Wrapped(d + 1) - 1 : Inside(u(i), s, k)
  BY <1>2, <1>4
<1>6. Inside(s, s, k) /\ Inside(End(s, "stuck"), s, k)
  BY InsideSelf, EndInside DEF Outs
<1> QED
  BY <1>3, <1>5, <1>6 DEF AllInside

LEMMA ShareHighInside ==
  ASSUME NEW k \in Nat, NEW s, IvStore(s, k), NEW a \in 1 .. k, NEW b \in 1 .. k,
         NEW d \in Bounds, NEW sub \in BOOLEAN
  PROVE  AllInside(ShareHigh(s, d, a, b, sub), s, k)
<1> DEFINE t(i) == MeetHigh(s, a, Shifted(High(s.val[a]), -i))
           u(i) == IF sub THEN MeetLow(t(i), b, Shifted(Low(t(i).val[b]), d - i))
                   ELSE MeetHigh(t(i), b, Shifted(High(t(i).val[b]), i - d))
<1>1. d \in Int
  BY BoundsInt
<1>2. ASSUME NEW i \in Int PROVE Inside(u(i), s, k)
  <2>1. Inside(t(i), s, k) /\ t(i).out = "ok" /\ IvStore(t(i), k)
    <3>1. s.val[a] \in Intervals
      BY DEF IvStore
    <3>2. High(s.val[a]) \in Bounds /\ -i \in Int
      BY <3>1, IvParts
    <3>3. Shifted(High(s.val[a]), -i) \in Bounds
      BY <3>2, ShiftedIn
    <3> QED
      BY <3>3, MeetHighInside, BoundsInt
  <2> HIDE DEF t
  <2>2. Low(t(i).val[b]) \in Bounds /\ High(t(i).val[b]) \in Bounds
    BY <2>1, IvParts DEF IvStore
  <2>3. Shifted(High(t(i).val[b]), i - d) \in Bounds /\ Shifted(Low(t(i).val[b]), d - i) \in Bounds
    <3>1. i - d \in Int /\ d - i \in Int
      BY <1>1
    <3> QED
      BY <2>2, <3>1, ShiftedIn
  <2>4. Inside(u(i), t(i), k)
    BY <2>1, <2>3, MeetLowInside, MeetHighInside, BoundsInt
  <2> QED
    BY <2>1, <2>4, InsideTrans
<1>3. ShareHigh(s, d, a, b, sub) =
         IF Splittable(d)
         THEN IF Wrapped(d + 1) < 1 THEN {End(s, "stuck")} ELSE UNION {{u(i)} : i \in 0 .. Wrapped(d + 1) - 1}
         ELSE {s}
  BY DEF ShareHigh, Split
<1> HIDE DEF u
<1>4. Wrapped(d + 1) \in Int
  BY <1>1, WrappedIn, BoundsInt
<1>5. \A i \in 0 .. Wrapped(d + 1) - 1 : Inside(u(i), s, k)
  BY <1>2, <1>4
<1>6. Inside(s, s, k) /\ Inside(End(s, "stuck"), s, k)
  BY InsideSelf, EndInside DEF Outs
<1> QED
  BY <1>3, <1>5, <1>6 DEF AllInside

LEMMA ShareInside ==
  ASSUME NEW k \in Nat, NEW s, IvStore(s, k), NEW r \in 1 .. k, NEW a \in 1 .. k, NEW b \in 1 .. k,
         NEW sub \in BOOLEAN
  PROVE  AllInside(Share(s, r, a, b, sub), s, k)
<1> DEFINE both(dl, dh) == Then(ShareLow(s, dl, a, b, sub), LAMBDA t : ShareHigh(t, dh, a, b, sub))
<1>1. ASSUME NEW dl \in Bounds, NEW dh \in Bounds PROVE AllInside(both(dl, dh), s, k)
  <2>1. \A t \in ShareLow(s, dl, a, b, sub) : Inside(t, s, k)
    BY ShareLowInside DEF AllInside
  <2>2. \A t \in ShareLow(s, dl, a, b, sub) : t.out = "ok" => AllInside(ShareHigh(t, dh, a, b, sub), s, k)
    BY <2>1, InsideStore, ShareHighInside, AllInsideTrans
  <2> QED
    BY <2>1, <2>2 DEF Then, AllInside
<1> DEFINE old == s.val[r]
           news == IF sub THEN IvSub(s.val[a], s.val[b]) ELSE IvAdd(s.val[a], s.val[b])
<1>2. old \in Intervals /\ s.val[a] \in Intervals /\ s.val[b] \in Intervals
  BY DEF IvStore
<1>3. news \subseteq Intervals
  BY <1>2, IvAddIn
<1>4. Share(s, r, a, b, sub) =
         UNION {IF IvEq(new, old) = "true" THEN {s}
                ELSE UNION {both(dl, dh) : dl \in BoundSub(Low(old), Low(new)), dh \in BoundSub(High(new), High(old))} :
                new \in news}
  BY DEF Share
<1> HIDE DEF both, old, news
<1>5. ASSUME NEW new \in news
      PROVE  /\ BoundSub(Low(old), Low(new)) \subseteq Bounds
             /\ BoundSub(High(new), High(old)) \subseteq Bounds
  BY <1>2, <1>3, IvParts, BoundSubIn
<1>6. Inside(s, s, k)
  BY InsideSelf
<1> QED
  BY <1>1, <1>4, <1>5, <1>6 DEF AllInside

LEMMA BackAddInside ==
  ASSUME NEW k \in Nat, NEW s, IvStore(s, k), NEW r \in 1 .. k, NEW a \in 1 .. k, NEW b \in 1 .. k
  PROVE  AllInside(BackAdd(s, r, a, b), s, k)
<1> DEFINE S == Cut(s, a, IvSub(s.val[r], s.val[b]))
           T == Then(S, LAMBDA t : Cut(t, b, IvSub(t.val[r], t.val[a])))
<1>1. \A t : \A n \in 1 .. k : IvStore(t, k) => t.val[n] \in Intervals
  BY DEF IvStore
<1>2. AllInside(S, s, k)
  <2>1. IvSub(s.val[r], s.val[b]) \in SUBSET Intervals
    BY <1>1, IvAddIn
  <2> QED
    BY <2>1, CutInside
<1> HIDE DEF S
<1>3. AllInside(T, s, k)
  <2>1. ASSUME NEW t \in S, t.out = "ok" PROVE AllInside(Cut(t, b, IvSub(t.val[r], t.val[a])), s, k)
    <3>1. Inside(t, s, k) /\ IvStore(t, k)
      BY <1>2, <2>1, InsideStore DEF AllInside
    <3>2. IvSub(t.val[r], t.val[a]) \in SUBSET Intervals
      BY <1>1, <3>1, IvAddIn
    <3> QED
      BY <2>1, <3>1, <3>2, CutInside, AllInsideTrans
  <2> QED
    BY <1>2, <2>1 DEF Then, AllInside
<1> HIDE DEF T
<1>4. ASSUME NEW t \in T, t.out = "ok" PROVE AllInside(Share(t, r, a, b, FALSE), s, k)
  <2>1. Inside(t, s, k) /\ IvStore(t, k)
    BY <1>3, <1>4, InsideStore DEF AllInside
  <2> QED
    BY <1>4, <2>1, ShareInside, AllInsideTrans
<1>5. BackAdd(s, r, a, b) = Then(T, LAMBDA t : Share(t, r, a, b, FALSE))
  BY DEF BackAdd, S, T
<1> QED
  BY <1>3, <1>4, <1>5 DEF Then, AllInside

LEMMA BackSubInside ==
  ASSUME NEW k \in Nat, NEW s, IvStore(s, k), NEW r \in 1 .. k, NEW a \in 1 .. k, NEW b \in 1 .. k
  PROVE  AllInside(BackSub(s, r, a, b), s, k)
<1> DEFINE S == Cut(s, a, IvAdd(s.val[r], s.val[b]))
           T == Then(S, LAMBDA t : Cut(t, b, IvSub(t.val[a], t.val[r])))
<1>1. \A t : \A n \in 1 .. k : IvStore(t, k) => t.val[n] \in Intervals
  BY DEF IvStore
<1>2. AllInside(S, s, k)
  <2>1. IvAdd(s.val[r], s.val[b]) \in SUBSET Intervals
    BY <1>1, IvAddIn
  <2> QED
    BY <2>1, CutInside
<1> HIDE DEF S
<1>3. AllInside(T, s, k)
  <2>1. ASSUME NEW t \in S, t.out = "ok" PROVE AllInside(Cut(t, b, IvSub(t.val[a], t.val[r])), s, k)
    <3>1. Inside(t, s, k) /\ IvStore(t, k)
      BY <1>2, <2>1, InsideStore DEF AllInside
    <3>2. IvSub(t.val[a], t.val[r]) \in SUBSET Intervals
      BY <1>1, <3>1, IvAddIn
    <3> QED
      BY <2>1, <3>1, <3>2, CutInside, AllInsideTrans
  <2> QED
    BY <1>2, <2>1 DEF Then, AllInside
<1> HIDE DEF T
<1>4. ASSUME NEW t \in T, t.out = "ok" PROVE AllInside(Share(t, r, a, b, TRUE), s, k)
  <2>1. Inside(t, s, k) /\ IvStore(t, k)
    BY <1>3, <1>4, InsideStore DEF AllInside
  <2> QED
    BY <1>4, <2>1, ShareInside, AllInsideTrans
<1>5. BackSub(s, r, a, b) = Then(T, LAMBDA t : Share(t, r, a, b, TRUE))
  BY DEF BackSub, S, T
<1> QED
  BY <1>3, <1>4, <1>5 DEF Then, AllInside
\* A number that is not infinite divides upwards to a bound: only what leaves
\* something over is raised.
LEMMA DivUpIn ==
  ASSUME NEW x \in Bounds, ~IsInf(x), NEW y \in Int, y # 0
  PROVE  DivUp(x, y) \in Bounds
<1> DEFINE t == Truncated(x, y)
           p == y * t
<1>1. x \in Int /\ -MaxBound <= x /\ x < MaxBound
  BY FiniteBound
<1>2. /\ t \in Int
      /\ x >= 0 => -x <= t /\ t <= x
      /\ x < 0 => x <= t /\ t <= -x
      /\ x >= 0 => 0 <= x - p /\ x - p <= x
      /\ x < 0 => x <= x - p /\ x - p <= 0
  BY <1>1, TruncatedBetween
<1>3. p \in Int
  <2>1. \A m, n \in Int : m * n \in Int
    OBVIOUS
  <2> QED
    BY <1>2, <2>1
<1>4. ASSUME x < 0, t = -x PROVE x = p
  <2>1. \A m, n \in Int : m > 0 /\ n >= 1 => n * m >= m
    OBVIOUS
  <2>2. \A m, n \in Int : m > 0 /\ n <= -2 => n * m <= -2 * m
    OBVIOUS
  <2>3. t > 0 /\ 0 <= -p /\ -p <= t
    BY <1>1, <1>2, <1>3, <1>4
  <2>4. CASE y >= 1
    <3>1. y * t >= t
      BY <1>2, <2>1, <2>3, <2>4
    <3> QED
      BY <1>2, <1>3, <2>3, <3>1
  <2>5. CASE y <= -2
    <3>1. y * t <= -2 * t
      BY <1>2, <2>2, <2>3, <2>5
    <3> QED
      BY <1>2, <1>3, <2>3, <3>1
  <2>6. CASE y = -1
    <3>1. \A m \in Int : (-1) * m = -m
      OBVIOUS
    <3> QED
      BY <1>1, <1>2, <1>4, <2>6, <3>1
  <2> QED
    BY <2>4, <2>5, <2>6
<1>5. DivUp(x, y) = t + IF x # p THEN 1 ELSE 0
  BY DEF DivUp
<1> HIDE DEF t, p
<1>6. t + (IF x # p THEN 1 ELSE 0) \in Bounds
  BY <1>1, <1>2, <1>3, <1>4, BoundFacts, BoundsInt
<1> QED
  BY <1>5, <1>6

\* Only a difference of two bounds that are not infinite is split.
LEMMA SplittableFinite ==
  ASSUME NEW x \in Bounds, NEW y \in Bounds, NEW d \in BoundSub(x, y), Splittable(d)
  PROVE  ~IsInf(x) /\ ~IsInf(y)
<1>1. ~IsInf(d)
  BY BoundFacts DEF Splittable, IsInf
<1>2. ~IsInf(x) /\ ~IsInf(BoundNeg(y))
  BY <1>1 DEF BoundSub, BoundAdd
<1>3. ~IsInf(y)
  BY <1>2 DEF BoundNeg, IsInf
<1> QED
  BY <1>2, <1>3

LEMMA RaiseFactorsInside ==
  ASSUME NEW k \in Nat, NEW s, IvStore(s, k), NEW r \in 1 .. k, NEW a \in 1 .. k \ {r}, NEW b \in 1 .. k \ {r},
         ~IsInf(Low(s.val[r]))
  PROVE  AllInside(RaiseFactors(s, r, a, b), s, k) /\ \A t \in RaiseFactors(s, r, a, b) : t.val[r] = s.val[r]
<1> DEFINE l == Low(s.val[r])
           nl == DivUp(l, High(s.val[b]))
           nh == DivUp(l, Low(s.val[b]))
           t == MeetLow(s, a, nl)
           v(i) == MeetLow(t, a, nh - i)
           u(i) == MeetLow(v(i), b, DivUp(l, nh - i))
           share(i) == IF nh - i = 0 THEN {End(s, "trap")}
                       ELSE IF IvEmpty(u(i).val[a]) \/ IvEmpty(u(i).val[b]) THEN {} ELSE {u(i)}
           Good(w) == Inside(w, s, k) /\ w.val[r] = s.val[r]
<1>1. s.val[r] \in Intervals /\ s.val[b] \in Intervals /\ Shaped(s)
  BY DEF IvStore
<1>2. l \in Bounds /\ Low(s.val[b]) \in Bounds /\ High(s.val[b]) \in Bounds
  BY <1>1, IvParts
<1>3. Good(End(s, "trap"))
  BY <1>1, EndFork, EndInside DEF Outs
<1>4. ASSUME 0 \notin {Low(s.val[b]), High(s.val[b])}
      PROVE  \A w \in Split(t, nh - nl + 1, share) : Good(w)
  <2>1. nl \in Bounds /\ nh \in Bounds
    BY <1>2, <1>4, DivUpIn, BoundsInt
  <2> HIDE DEF nl, nh
  <2>2. nl \in Int /\ nl <= PlusInf /\ nh \in Int /\ nh <= PlusInf
    BY <2>1, BoundsInt
  <2>3. Inside(t, s, k) /\ IvStore(t, k) /\ t.out = "ok" /\ t.val[r] = s.val[r]
    BY <2>2, MeetLowInside
  <2> HIDE DEF t
  <2>4. Good(End(t, "stuck"))
    <3>1. Shaped(t)
      BY <2>3 DEF IvStore
    <3>2. End(t, "stuck").val = t.val
      BY <3>1, EndFork DEF Outs
    <3>3. Inside(End(t, "stuck"), t, k)
      BY <2>3, EndInside DEF Outs
    <3> QED
      BY <2>3, <3>2, <3>3, InsideTrans
  <2>5. ASSUME NEW i \in Nat, nh - i # 0 PROVE Good(u(i))
    <3>1. nh - i \in Int /\ nh - i <= PlusInf
      BY <2>2, BoundFacts
    <3>2. Inside(v(i), t, k) /\ IvStore(v(i), k) /\ v(i).out = "ok" /\ v(i).val[r] = t.val[r]
      BY <2>3, <3>1, MeetLowInside
    <3>3. DivUp(l, nh - i) \in Int /\ DivUp(l, nh - i) <= PlusInf
      BY <1>2, <2>5, <3>1, DivUpIn, BoundsInt
    <3> HIDE DEF v
    <3>4. Inside(u(i), v(i), k) /\ u(i).out = "ok" /\ u(i).val[r] = v(i).val[r]
      BY <3>2, <3>3, MeetLowInside
    <3> HIDE DEF u
    <3>5. Inside(u(i), t, k)
      BY <2>3, <3>2, <3>4, InsideTrans
    <3>6. Inside(u(i), s, k)
      BY <2>3, <3>5, InsideTrans
    <3> QED
      BY <2>3, <3>2, <3>4, <3>6
  <2> HIDE DEF u, Good
  <2>6. \A i \in Nat : \A w \in share(i) : Good(w)
    BY <1>3, <2>5
  <2> DEFINE n == nh - nl + 1
  <2>7. Wrapped(n) \in Int
    BY <2>2, WrappedIn, BoundsInt
  <2>8. Split(t, n, share) = IF Wrapped(n) < 1 THEN {End(t, "stuck")} ELSE UNION {share(i) : i \in 0 .. Wrapped(n) - 1}
    BY DEF Split
  <2> HIDE DEF n, share
  <2>9. \A i \in 0 .. Wrapped(n) - 1 : \A w \in share(i) : Good(w)
    BY <2>6, <2>7
  <2>10. \A w \in Split(t, n, share) : Good(w)
    BY <2>4, <2>8, <2>9
  <2> QED
    BY <2>10 DEF n
<1>5. RaiseFactors(s, r, a, b) =
         IF 0 \in {Low(s.val[b]), High(s.val[b])} THEN {End(s, "trap")} ELSE Split(t, nh - nl + 1, share)
  BY DEF RaiseFactors
<1>6. \A w \in RaiseFactors(s, r, a, b) : Good(w)
  <2> HIDE DEF Good, t, nh, nl, share
  <2> QED
    BY <1>3, <1>4, <1>5
<1> QED
  BY <1>6 DEF AllInside
LEMMA LowerFactorsInside ==
  ASSUME NEW k \in Nat, NEW s, IvStore(s, k), NEW r \in 1 .. k, NEW a \in 1 .. k, NEW b \in 1 .. k,
         ~IsInf(High(s.val[r]))
  PROVE  AllInside(LowerFactors(s, r, a, b), s, k)
<1> DEFINE h == High(s.val[r])
           nl == Greater(Truncated(h, High(s.val[b])), Low(s.val[a]))
           v(i) == MeetHigh(s, a, nl + i)
           u(i) == MeetHigh(v(i), b, Truncated(h, nl + i))
           share(i) == IF nl + i = 0 THEN {End(s, "trap")}
                       ELSE IF IvEmpty(u(i).val[a]) \/ IvEmpty(u(i).val[b]) THEN {} ELSE {u(i)}
           n == High(s.val[a]) - nl + 1
<1>1. s.val[r] \in Intervals /\ s.val[a] \in Intervals /\ s.val[b] \in Intervals
  BY DEF IvStore
<1>2. /\ h \in Bounds /\ Low(s.val[a]) \in Bounds /\ High(s.val[a]) \in Bounds
      /\ High(s.val[b]) \in Bounds
  BY <1>1, IvParts
<1>3. Inside(End(s, "trap"), s, k) /\ Inside(End(s, "stuck"), s, k)
  BY EndInside DEF Outs
<1>4. ASSUME High(s.val[b]) # 0
      PROVE  \A w \in Split(s, n, share) : Inside(w, s, k)
  <2>1. nl \in Bounds
    <3>1. Truncated(h, High(s.val[b])) \in Bounds
      BY <1>2, <1>4, TruncatedIn, BoundsInt
    <3> QED
      BY <1>2, <3>1, GreaterIn
  <2> HIDE DEF nl
  <2>2. nl \in Int /\ MinusInf <= nl
    BY <2>1, BoundsInt
  <2>3. ASSUME NEW i \in Nat, nl + i # 0 PROVE Inside(u(i), s, k)
    <3>1. nl + i \in Int /\ MinusInf <= nl + i
      BY <2>2, BoundFacts
    <3>2. Inside(v(i), s, k) /\ IvStore(v(i), k) /\ v(i).out = "ok"
      BY <3>1, MeetHighInside
    <3>3. Truncated(h, nl + i) \in Int /\ MinusInf <= Truncated(h, nl + i)
      BY <1>2, <2>3, <3>1, TruncatedIn, BoundsInt
    <3> HIDE DEF v
    <3>4. Inside(u(i), v(i), k)
      BY <3>2, <3>3, MeetHighInside
    <3> HIDE DEF u
    <3> QED
      BY <3>2, <3>4, InsideTrans
  <2> HIDE DEF u
  <2>4. \A i \in Nat : \A w \in share(i) : Inside(w, s, k)
    BY <1>3, <2>3
  <2>5. n \in Int
    BY <1>2, <2>2, BoundsInt
  <2>6. Wrapped(n) \in Int
    BY <2>5, WrappedIn, BoundsInt
  <2>7. Split(s, n, share) = IF Wrapped(n) < 1 THEN {End(s, "stuck")} ELSE UNION {share(i) : i \in 0 .. Wrapped(n) - 1}
    BY DEF Split
  <2> HIDE DEF n, share
  <2>8. \A i \in 0 .. Wrapped(n) - 1 : \A w \in share(i) : Inside(w, s, k)
    BY <2>4, <2>6
  <2> QED
    BY <1>3, <2>7, <2>8
<1>5. LowerFactors(s, r, a, b) = IF High(s.val[b]) = 0 THEN {End(s, "trap")} ELSE Split(s, n, share)
  BY DEF LowerFactors
<1> HIDE DEF share, n
<1> QED
  BY <1>3, <1>4, <1>5 DEF AllInside

LEMMA ShareFactorsInside ==
  ASSUME NEW k \in Nat, NEW s, IvStore(s, k), NEW r \in 1 .. k, NEW a \in 1 .. k \ {r}, NEW b \in 1 .. k \ {r}
  PROVE  AllInside(ShareFactors(s, r, a, b), s, k)
<1> DEFINE old == s.val[r]
           news == IvMul(s.val[a], s.val[b])
           raised(dl) == IF Splittable(dl) THEN RaiseFactors(s, r, a, b) ELSE {s}
           both(dl, dh) == Then(raised(dl), LAMBDA t : IF Splittable(dh) THEN LowerFactors(t, r, a, b) ELSE {t})
<1>1. old \in Intervals /\ s.val[a] \in Intervals /\ s.val[b] \in Intervals
  BY DEF IvStore
<1>2. news \subseteq Intervals
  BY <1>1, IvMulIn
<1>3. Low(old) \in Bounds /\ High(old) \in Bounds /\ \A new \in news : Low(new) \in Bounds /\ High(new) \in Bounds
  <2> HIDE DEF news, old
  <2> QED
    BY <1>1, <1>2, IvParts
<1>4. Inside(s, s, k)
  BY InsideSelf
<1>5. ASSUME NEW new \in news, NEW dl \in BoundSub(Low(old), Low(new)), NEW dh \in BoundSub(High(new), High(old))
      PROVE  AllInside(both(dl, dh), s, k)
  <2>1. (Splittable(dl) => ~IsInf(Low(old))) /\ (Splittable(dh) => ~IsInf(High(old)))
    BY <1>3, SplittableFinite
  <2>2. \A t \in raised(dl) : Inside(t, s, k) /\ t.val[r] = s.val[r]
    BY <1>4, <2>1, RaiseFactorsInside DEF AllInside
  <2> HIDE DEF raised
  <2>3. ASSUME NEW t \in raised(dl), t.out = "ok"
        PROVE  AllInside(IF Splittable(dh) THEN LowerFactors(t, r, a, b) ELSE {t}, s, k)
    <3>1. Inside(t, s, k) /\ IvStore(t, k) /\ (Splittable(dh) => ~IsInf(High(t.val[r])))
      BY <2>1, <2>2, <2>3, InsideStore
    <3>2. Splittable(dh) => AllInside(LowerFactors(t, r, a, b), t, k)
      BY <3>1, LowerFactorsInside
    <3>3. Splittable(dh) => AllInside(LowerFactors(t, r, a, b), s, k)
      BY <2>3, <3>1, <3>2, AllInsideTrans
    <3> QED
      BY <3>1, <3>3 DEF AllInside
  <2> QED
    BY <2>2, <2>3 DEF Then, AllInside
<1>6. ShareFactors(s, r, a, b) =
         UNION {IF Low(old) <= Low(new) /\ High(new) <= High(old) THEN {s}
                ELSE UNION {both(dl, dh) : dl \in BoundSub(Low(old), Low(new)), dh \in BoundSub(High(new), High(old))} :
                new \in news}
  BY DEF ShareFactors, Then
<1> HIDE DEF both, old, news
<1> QED
  BY <1>4, <1>5, <1>6 DEF AllInside

LEMMA BackMulInside ==
  ASSUME NEW k \in Nat, NEW s, IvStore(s, k), NEW r \in 1 .. k, NEW a \in 1 .. k \ {r}, NEW b \in 1 .. k \ {r}
  PROVE  AllInside(BackMul(s, r, a, b), s, k)
<1> DEFINE S == CutQuotient(s, b, s.val[r], s.val[a])
<1>1. s.val[r] \in Intervals /\ s.val[a] \in Intervals /\ s.val[b] \in Intervals
  BY DEF IvStore
<1>2. AllInside(S, s, k) /\ AllInside(CutQuotient(s, a, s.val[r], s.val[b]), s, k)
  BY <1>1, CutQuotientInside
<1> HIDE DEF S
<1>3. ASSUME NEW t \in S, t.out = "ok" PROVE AllInside(ShareFactors(t, r, a, b), s, k)
  <2>1. Inside(t, s, k) /\ IvStore(t, k)
    BY <1>2, <1>3, InsideStore DEF AllInside
  <2> QED
    BY <1>3, <2>1, ShareFactorsInside, AllInsideTrans
<1>4. AllInside(Then(S, LAMBDA t : ShareFactors(t, r, a, b)), s, k)
  BY <1>2, <1>3 DEF Then, AllInside
<1>5. BackMul(s, r, a, b) = IF Infinite(s.val[a]) \/ Infinite(s.val[b]) THEN CutQuotient(s, a, s.val[r], s.val[b])
                            ELSE Then(S, LAMBDA t : ShareFactors(t, r, a, b))
  BY DEF BackMul, S
<1> QED
  BY <1>2, <1>4, <1>5

LEMMA BackDivInside ==
  ASSUME NEW k \in Nat, NEW s, IvStore(s, k), NEW r \in 1 .. k, NEW a \in 1 .. k, NEW b \in 1 .. k
  PROVE  AllInside(BackDiv(s, r, a, b), s, k)
<1> DEFINE S == Cut(s, a, IvMul(s.val[b], s.val[r]))
           next(t) == IF Infinite(t.val[a]) \/ Infinite(t.val[r]) THEN {t} ELSE CutQuotient(t, b, t.val[a], t.val[r])
<1>1. \A t : \A n \in 1 .. k : IvStore(t, k) => t.val[n] \in Intervals
  BY DEF IvStore
<1>2. AllInside(S, s, k)
  <2>1. IvMul(s.val[b], s.val[r]) \in SUBSET Intervals
    BY <1>1, IvMulIn
  <2> QED
    BY <2>1, CutInside
<1> HIDE DEF S
<1>3. ASSUME NEW t \in S, t.out = "ok" PROVE AllInside(next(t), s, k)
  <2>1. Inside(t, s, k) /\ IvStore(t, k)
    BY <1>2, <1>3, InsideStore DEF AllInside
  <2>2. AllInside(CutQuotient(t, b, t.val[a], t.val[r]), t, k)
    BY <1>1, <2>1, CutQuotientInside
  <2>3. AllInside(CutQuotient(t, b, t.val[a], t.val[r]), s, k)
    BY <1>3, <2>1, <2>2, AllInsideTrans
  <2> QED
    BY <2>1, <2>3 DEF AllInside
<1>4. BackDiv(s, r, a, b) = UNION {IF t.out = "ok" THEN next(t) ELSE {t} : t \in S}
  BY DEF BackDiv, Then, S
<1> HIDE DEF next
<1> QED
  BY <1>2, <1>3, <1>4 DEF AllInside
LEMMA IvSizeInt == ASSUME NEW i \in Intervals PROVE IvSize(i) \in Int
<1>1. Low(i) \in Int /\ High(i) \in Int
  BY IvParts, BoundsInt
<1> DEFINE n == High(i) - Low(i) + 1
           m == PlusInf - MinusInf + 1
<1>2. n \in Int /\ m \in Int /\ m > 0
  BY <1>1, BoundFacts
<1>3. IvSize(i) = (n % m)
  BY DEF IvSize
<1> HIDE DEF n, m
<1> QED
  BY <1>2, <1>3, RemainderRange

\* A border between two intervals that overlap.
LEMMA BorderInside ==
  ASSUME NEW k \in Nat, NEW s, IvStore(s, k), NEW a \in 1 .. k, NEW b \in 1 .. k, NEW strict \in BOOLEAN,
         NEW d \in Bounds
  PROVE  AllInside(Then(Cut(s, a, {Iv(d, High(s.val[a]))}),
                        LAMBDA u : Cut(u, b, {Iv(Low(u.val[b]), IF strict THEN Shifted(d, -1) ELSE d)})), s, k)
<1> DEFINE S == Cut(s, a, {Iv(d, High(s.val[a]))})
           e == IF strict THEN Shifted(d, -1) ELSE d
<1>1. \A t : \A n \in 1 .. k : IvStore(t, k) => Low(t.val[n]) \in Bounds /\ High(t.val[n]) \in Bounds
  BY IvParts DEF IvStore
<1>2. e \in Bounds
  <2>1. -1 \in Int
    OBVIOUS
  <2> QED
    BY <2>1, ShiftedIn
<1> HIDE DEF e
<1>3. AllInside(S, s, k)
  <2>1. {Iv(d, High(s.val[a]))} \in SUBSET Intervals
    BY <1>1, IvParts
  <2> QED
    BY <2>1, CutInside
<1> HIDE DEF S
<1>4. ASSUME NEW u \in S, u.out = "ok" PROVE AllInside(Cut(u, b, {Iv(Low(u.val[b]), e)}), s, k)
  <2>1. Inside(u, s, k) /\ IvStore(u, k)
    BY <1>3, <1>4, InsideStore DEF AllInside
  <2>2. {Iv(Low(u.val[b]), e)} \in SUBSET Intervals
    BY <1>1, <1>2, <2>1, IvParts
  <2> QED
    BY <1>4, <2>1, <2>2, CutInside, AllInsideTrans
<1>5. AllInside(Then(S, LAMBDA u : Cut(u, b, {Iv(Low(u.val[b]), e)})), s, k)
  BY <1>3, <1>4 DEF Then, AllInside
<1> QED
  BY <1>5 DEF S, e

LEMMA AboveInside ==
  ASSUME NEW k \in Nat, NEW s, IvStore(s, k), NEW a \in 1 .. k, NEW b \in 1 .. k, NEW strict \in BOOLEAN
  PROVE  AllInside(Above(s, a, b, strict), s, k)
<1> DEFINE m == MeetLow(s, a, Low(s.val[b]))
           first == IF strict THEN UNION {IF t.out = "ok" THEN Exclude(t, a, Low(t.val[b])) ELSE {t} : t \in {m}}
                    ELSE {m}
           met == {MeetHigh(t, b, High(t.val[a])) : t \in first}
           second == IF strict THEN UNION {IF t.out = "ok" THEN Exclude(t, b, High(t.val[a])) ELSE {t} : t \in met}
                     ELSE met
           common(t) == IvMeet(t.val[a], t.val[b])
           size(t) == IF strict THEN IvSize(common(t)) + 1 ELSE IvSize(common(t))
           border(t, d) == Then(Cut(t, a, {Iv(d, High(t.val[a]))}),
                                LAMBDA u : Cut(u, b, {Iv(Low(u.val[b]), IF strict THEN Shifted(d, -1) ELSE d)}))
           split(t) == IF IvEmpty(common(t)) \/ ChooseBound < Wrapped(IvSize(common(t))) THEN {t}
                       ELSE IF Wrapped(size(t)) < 1 THEN {End(t, "stuck")}
                       ELSE UNION {border(t, Shifted(Low(common(t)), i)) : i \in 0 .. Wrapped(size(t)) - 1}
           Fine(t) == Inside(t, s, k) /\ t.out = "ok" /\ IvStore(t, k)
<1>1. \A t : \A n \in 1 .. k : IvStore(t, k) => /\ t.val[n] \in Intervals
                                               /\ Low(t.val[n]) \in Bounds /\ High(t.val[n]) \in Bounds
  BY IvParts DEF IvStore
<1>2. Fine(m)
  BY <1>1, MeetLowInside, BoundsInt
<1> HIDE DEF m
<1>3. ASSUME NEW t, Fine(t), NEW n \in 1 .. k, NEW x, NEW u \in Exclude(t, n, x) PROVE Fine(u)
  <2>1. Inside(u, t, k) /\ u.out = "ok"
    BY <1>3, ExcludeInside DEF AllInside
  <2> QED
    BY <1>3, <2>1, InsideTrans, InsideStore
<1>4. \A t \in first : Fine(t)
  <2> HIDE DEF Fine
  <2> QED
    BY <1>2, <1>3
<1> HIDE DEF first
<1>5. \A t \in met : Fine(t)
  <2>1. ASSUME NEW t, Fine(t) PROVE Fine(MeetHigh(t, b, High(t.val[a])))
    <3>1. High(t.val[a]) \in Int /\ MinusInf <= High(t.val[a])
      BY <1>1, <2>1, BoundsInt
    <3>2. Inside(MeetHigh(t, b, High(t.val[a])), t, k) /\ MeetHigh(t, b, High(t.val[a])).out = "ok"
      BY <2>1, <3>1, MeetHighInside
    <3> QED
      BY <2>1, <3>2, InsideTrans, InsideStore
  <2> HIDE DEF Fine
  <2> QED
    BY <1>4, <2>1
<1> HIDE DEF met
<1>6. \A t \in second : Fine(t)
  <2> HIDE DEF Fine
  <2> QED
    BY <1>3, <1>5
<1> HIDE DEF second
<1>7. ASSUME NEW t, Fine(t) PROVE AllInside(split(t), s, k)
  <2>1. common(t) \in Intervals
    BY <1>1, <1>7, IvMeetIn
  <2> HIDE DEF common
  <2>2. Low(common(t)) \in Bounds /\ IvSize(common(t)) \in Int
    BY <2>1, IvParts, IvSizeInt
  <2>3. Wrapped(size(t)) \in Int
    BY <2>2, WrappedIn, BoundsInt
  <2> HIDE DEF size
  <2>4. ASSUME NEW i \in Int PROVE AllInside(border(t, Shifted(Low(common(t)), i)), t, k)
    <3>1. Shifted(Low(common(t)), i) \in Bounds
      BY <2>2, ShiftedIn
    <3> QED
      BY <1>7, <3>1, BorderInside
  <2> HIDE DEF border
  <2>5. Inside(End(t, "stuck"), t, k) /\ Inside(t, t, k)
    BY <1>7, EndInside, InsideSelf DEF Outs
  <2>6. AllInside(split(t), t, k)
    BY <2>3, <2>4, <2>5 DEF AllInside
  <2> QED
    BY <1>7, <2>6, AllInsideTrans
<1>8. Above(s, a, b, strict) = UNION {IF t.out = "ok" THEN split(t) ELSE {t} : t \in second}
  BY DEF Above, Then, Split, first, met, second, m
<1> HIDE DEF split
<1> QED
  BY <1>6, <1>7, <1>8 DEF AllInside

LEMMA SameInside ==
  ASSUME NEW k \in Nat, NEW s, IvStore(s, k), NEW a \in 1 .. k, NEW b \in 1 .. k
  PROVE  AllInside(Same(s, a, b), s, k)
<1> DEFINE x(t, n, i) == {Iv(Shifted(Low(t.val[n]), i), Shifted(Low(t.val[n]), i))}
           S == Cut(s, a, {s.val[b]})
           T == UNION {IF t.out = "ok" THEN Cut(t, b, {t.val[a]}) ELSE {t} : t \in S}
           both(t, i) == UNION {IF u.out = "ok" THEN Cut(u, b, x(u, b, i)) ELSE {u} : u \in Cut(t, a, x(t, a, i))}
           pick(t, size) == IF Wrapped(size) < 1 THEN {End(t, "stuck")}
                            ELSE UNION {both(t, i) : i \in 0 .. Wrapped(size) - 1}
           picks(t) == UNION {IF Splittable(size) THEN pick(t, size) ELSE {t} :
                              size \in BoundSub(High(t.val[a]), Low(t.val[a]))}
<1>1. \A t : \A n \in 1 .. k : IvStore(t, k) => /\ t.val[n] \in Intervals
                                               /\ Low(t.val[n]) \in Bounds /\ High(t.val[n]) \in Bounds
  BY IvParts DEF IvStore
<1>2. AllInside(S, s, k)
  <2>1. {s.val[b]} \in SUBSET Intervals
    BY <1>1
  <2> QED
    BY <2>1, CutInside
<1> HIDE DEF S
<1>3. AllInside(T, s, k)
  <2>1. ASSUME NEW t \in S, t.out = "ok" PROVE AllInside(Cut(t, b, {t.val[a]}), s, k)
    <3>1. Inside(t, s, k) /\ IvStore(t, k)
      BY <1>2, <2>1, InsideStore DEF AllInside
    <3>2. {t.val[a]} \in SUBSET Intervals
      BY <1>1, <3>1
    <3> QED
      BY <2>1, <3>1, <3>2, CutInside, AllInsideTrans
  <2> QED
    BY <1>2, <2>1 DEF AllInside
<1> HIDE DEF T
<1>4. ASSUME NEW t, IvStore(t, k), NEW n \in 1 .. k, NEW i \in Int PROVE AllInside(Cut(t, n, x(t, n, i)), t, k)
  <2>1. Shifted(Low(t.val[n]), i) \in Bounds
    BY <1>1, <1>4, ShiftedIn
  <2>2. x(t, n, i) \in SUBSET Intervals
    BY <2>1, IvParts
  <2> QED
    BY <1>4, <2>2, CutInside
<1> HIDE DEF x
<1>5. ASSUME NEW t, IvStore(t, k), NEW i \in Int PROVE AllInside(both(t, i), t, k)
  <2>1. AllInside(Cut(t, a, x(t, a, i)), t, k)
    BY <1>4, <1>5
  <2>2. \A u \in Cut(t, a, x(t, a, i)) : u.out = "ok" => AllInside(Cut(u, b, x(u, b, i)), t, k)
    <3> SUFFICES ASSUME NEW u \in Cut(t, a, x(t, a, i)), u.out = "ok" PROVE AllInside(Cut(u, b, x(u, b, i)), t, k)
      OBVIOUS
    <3>1. Inside(u, t, k) /\ IvStore(u, k)
      BY <2>1, InsideStore DEF AllInside
    <3> QED
      BY <1>4, <1>5, <3>1, AllInsideTrans
  <2> QED
    BY <2>1, <2>2 DEF AllInside
<1> HIDE DEF both
<1>6. ASSUME NEW t, IvStore(t, k), Inside(t, s, k) PROVE AllInside(picks(t), s, k)
  <2>1. BoundSub(High(t.val[a]), Low(t.val[a])) \subseteq Bounds
    BY <1>1, <1>6, BoundSubIn
  <2>2. ASSUME NEW size \in Bounds PROVE AllInside(pick(t, size), t, k)
    <3>1. Wrapped(size) \in Int
      BY <2>2, WrappedIn, BoundsInt
    <3>2. Inside(End(t, "stuck"), t, k)
      BY <1>6, EndInside DEF Outs
    <3> QED
      BY <1>5, <1>6, <3>1, <3>2 DEF AllInside
  <2> HIDE DEF pick
  <2>3. Inside(t, t, k) /\ t.out = "ok"
    BY <1>6, InsideSelf DEF IvStore
  <2>4. AllInside(picks(t), t, k)
    BY <2>1, <2>2, <2>3 DEF AllInside
  <2> QED
    BY <1>6, <2>3, <2>4, AllInsideTrans
<1>7. Same(s, a, b) = UNION {IF t.out = "ok" THEN picks(t) ELSE {t} : t \in T}
  BY DEF Same, Then, Split, S, T, both, x
<1> HIDE DEF picks
<1>8. \A t \in T : Inside(t, s, k) /\ (t.out = "ok" => IvStore(t, k))
  BY <1>3, InsideStore DEF AllInside
<1> QED
  BY <1>6, <1>7, <1>8 DEF AllInside
LEMMA DifferentInside ==
  ASSUME NEW k \in Nat, NEW s, IvStore(s, k), NEW a \in 1 .. k, NEW b \in 1 .. k
  PROVE  AllInside(Different(s, a, b), s, k)
<1>1. /\ AllInside(Exclude(s, b, Low(s.val[a])), s, k) /\ AllInside(Exclude(s, a, Low(s.val[b])), s, k)
      /\ AllInside(Above(s, a, b, TRUE), s, k) /\ AllInside(Above(s, b, a, TRUE), s, k)
      /\ AllInside({s}, s, k)
  BY ExcludeInside, AboveInside, InsideSelf DEF AllInside
<1>2. AllInside(Above(s, a, b, TRUE) \cup Above(s, b, a, TRUE), s, k)
  BY <1>1 DEF AllInside
<1> QED
  BY <1>1, <1>2 DEF Different

LEMMA BackEqInside ==
  ASSUME NEW k \in Nat, NEW s, IvStore(s, k), NEW r, NEW a \in 1 .. k, NEW b \in 1 .. k, NEW negated
  PROVE  AllInside(BackEq(s, r, a, b, negated), s, k)
<1>1. AllInside({s}, s, k)
  BY InsideSelf DEF AllInside
<1> QED
  BY <1>1, SameInside, DifferentInside DEF BackEq

LEMMA BackGtInside ==
  ASSUME NEW k \in Nat, NEW s, IvStore(s, k), NEW r, NEW a \in 1 .. k, NEW b \in 1 .. k, NEW negated
  PROVE  AllInside(BackGt(s, r, a, b, negated), s, k)
<1>1. AllInside({s}, s, k)
  BY InsideSelf DEF AllInside
<1> QED
  BY <1>1, AboveInside DEF BackGt

\* Every backward operation of intervals but the one that fits a number narrows.
LEMMA IntervalBackInside ==
  ASSUME NEW k \in Nat, NEW s, IvStore(s, k), NEW r \in 1 .. k, NEW a \in 1 .. k \ {r}, NEW b \in 1 .. k \ {r},
         NEW op, op # "zfit"
  PROVE  AllInside(IntervalBack(op, s, r, a, b), s, k)
<1>1. /\ AllInside(BackAdd(s, r, a, b), s, k) /\ AllInside(BackSub(s, r, a, b), s, k)
      /\ AllInside(BackMul(s, r, a, b), s, k) /\ AllInside(BackDiv(s, r, a, b), s, k)
  BY BackAddInside, BackSubInside, BackMulInside, BackDivInside
<1>2. \A n \in BOOLEAN : /\ AllInside(BackEq(s, r, a, b, n), s, k)
                         /\ AllInside(BackGt(s, r, a, b, n), s, k) /\ AllInside(BackGt(s, r, b, a, n), s, k)
  BY BackEqInside, BackGtInside
<1>3. AllInside({s}, s, k)
  BY InsideSelf DEF AllInside
<1> QED
  BY <1>1, <1>2, <1>3 DEF IntervalBack

\* That one leaves intervals behind too.
LEMMA IntervalBackStore ==
  ASSUME NEW k \in Nat, NEW s, IvStore(s, k), NEW r \in 1 .. k, NEW a \in 1 .. k \ {r}, NEW b \in 1 .. k \ {r},
         NEW op, NEW t \in IntervalBack(op, s, r, a, b)
  PROVE  Shaped(t) /\ t.solver = s.solver /\ (t.out = "ok" => IvStore(t, k))
<1>1. CASE op # "zfit"
  <2>1. Inside(t, s, k)
    BY <1>1, IntervalBackInside DEF AllInside
  <2> QED
    BY <2>1, InsideStore DEF Inside
<1>2. CASE op = "zfit"
  <2>1. t = Put(s, a, s.val[r])
    BY <1>2 DEF IntervalBack
  <2> DEFINE v == s.val[r]
  <2>2. Shaped(s) /\ s.out = "ok" /\ s.val \in [1 .. k -> Intervals] /\ v \in Intervals
    BY DEF IvStore
  <2> HIDE DEF v
  <2>3. Shaped(t) /\ t.val = [s.val EXCEPT ![a] = v] /\ t.solver = s.solver /\ t.out = "ok"
    BY <2>1, <2>2, PutFork DEF v
  <2> QED
    BY <2>2, <2>3 DEF IvStore
<1> QED
  BY <1>1, <1>2

-----------------------------------------------------------------------------
(***************************************************************************)
(* Signs and zeros are numbered; their tables stay within the numbers, and *)
(* meeting adds nothing. No sign is ever other than 0: only the difference *)
(* is, and no value gets it.                                               *)
(***************************************************************************)

Signs == {Bot, Ltz, Gtz, Eqz, Gez, Lez, Top}

Zeros == {Zero, NonZero, Unknown}

SignBelow(v, old) ==
    /\ v = Freed => old = Freed
    /\ \A x \in Int : SignMeaning(v, x) => SignMeaning(old, x)

ZeroBelow(v, old) == \A x \in Int : ZeroMeaning(v, x) => ZeroMeaning(old, x)

LEMMA SignCases == \A a : a \in Signs <=> a \in {0, 1, 2, 3, 5, 6, 7}
  BY DEF Signs, Bot, Ltz, Gtz, Eqz, Gez, Lez, Top

LEMMA SignOpIn ==
  ASSUME NEW op, NEW a \in Signs \cup {Freed}, NEW b \in Signs \cup {Freed},
         ~(op \in SignReads /\ Freed \in {a, b})
  PROVE  SignOp(op, a, b) \in Signs
<1>0. CASE op \notin SignReads
  BY <1>0 DEF SignOp, SignReads, Signs
<1> SUFFICES ASSUME op \in SignReads, a \in Signs, b \in Signs PROVE SignOp(op, a, b) \in Signs
  BY <1>0
<1>1. /\ Look(AddLut, a, b) \in Signs /\ Look(MulLut, a, b) \in Signs /\ Look(EqLut, a, b) \in Signs
      /\ Look(NeLut, a, b) \in Signs
  <2>1. Look(AddLut, a, b) \in Signs
    BY SignCases DEF Look, AddLut
  <2>2. Look(MulLut, a, b) \in Signs
    BY SignCases DEF Look, MulLut
  <2>3. Look(EqLut, a, b) \in Signs
    BY SignCases DEF Look, EqLut
  <2>4. Look(NeLut, a, b) \in Signs
    BY SignCases DEF Look, NeLut
  <2> QED
    BY <2>1, <2>2, <2>3, <2>4
<1>2. Look(SltLut, a, b) \in Signs /\ Look(SltLut, b, a) \in Signs
  BY SignCases DEF Look, SltLut
<1>3. Eqz \in Signs /\ Top \in Signs
  BY DEF Signs, Eqz, Top
<1> QED
  BY <1>1, <1>2, <1>3 DEF SignOp

LEMMA SignNumbers ==
  \A x : /\ ~SignMeaning(0, x) /\ (SignMeaning(1, x) <=> x < 0) /\ (SignMeaning(2, x) <=> x > 0)
         /\ (SignMeaning(3, x) <=> x = 0)
         /\ (SignMeaning(5, x) <=> x >= 0) /\ (SignMeaning(6, x) <=> x <= 0) /\ SignMeaning(7, x)
  BY DEF SignMeaning, Bot, Ltz, Gtz, Eqz, Nez, Gez, Lez, Top, Freed

\* Row by row: what is left by meeting.
LEMMA SignRows ==
  \A b \in Signs :
     /\ Look(MeetLut, 0, b) = 0 /\ Look(MeetLut, 1, b) \in {0, 1} /\ Look(MeetLut, 2, b) \in {0, 2}
     /\ Look(MeetLut, 3, b) \in {0, 3} /\ Look(MeetLut, 5, b) \in {0, 2, 3, 5}
     /\ Look(MeetLut, 6, b) \in {0, 1, 3, 6} /\ Look(MeetLut, 7, b) \in Signs
  BY SignCases DEF Look, MeetLut

LEMMA SignOrder ==
  /\ \A a \in Signs : SignBelow(0, a) /\ SignBelow(a, a) /\ SignBelow(a, 7)
  /\ SignBelow(2, 5) /\ SignBelow(3, 5) /\ SignBelow(1, 6) /\ SignBelow(3, 6)
<1>1. \A a \in Signs : a # Freed
  BY SignCases DEF Freed
<1>2. \A a \in Signs : SignBelow(0, a) /\ SignBelow(a, a) /\ SignBelow(a, 7)
  BY <1>1, SignNumbers, SignCases DEF SignBelow, Freed
<1>3. SignBelow(2, 5) /\ SignBelow(3, 5) /\ SignBelow(1, 6) /\ SignBelow(3, 6)
  BY SignNumbers DEF SignBelow, Freed
<1> QED
  BY <1>2, <1>3

LEMMA SignCut ==
  ASSUME NEW a \in Signs, NEW b \in Signs
  PROVE  Look(MeetLut, a, b) \in Signs /\ SignBelow(Look(MeetLut, a, b), a)
  BY SignCases, SignRows, SignOrder

LEMMA SignAssumeIn ==
  ASSUME NEW a \in Signs, NEW c \in BOOLEAN
  PROVE  /\ SignAssume(a, c) \in Signs /\ SignBelow(SignAssume(a, c), a)
         /\ ~c => SignAssume(a, c) # Gtz
<1>1. SignAssume(a, c) \in Signs /\ SignBelow(SignAssume(a, c), a)
  BY SignCut, SignCases DEF SignAssume, Gtz, Eqz
<1>2. ~c => SignAssume(a, c) # Gtz
  BY SignCases DEF SignAssume, Look, MeetLut, Gtz, Eqz
<1> QED
  BY <1>1, <1>2

\* A value with no meaning, or with no storage, is not lowered.
LEMMA SignLowered ==
  ASSUME NEW a \in Signs \cup {Freed}, SignTristate(a) # "fail"
  PROVE  a \in Signs /\ (FALSE \in TriLower(SignTristate(a)) => a # Gtz)
<1>1. SignTristate(8) = "fail" /\ SignTristate(2) = "true"
  BY DEF SignTristate, Bot, Ltz, Gtz, Eqz, Nez, Gez, Lez, Top
<1>2. a \in Signs
  BY <1>1 DEF Freed
<1>3. FALSE \notin TriLower("true")
  BY DEF TriLower
<1> QED
  BY <1>1, <1>2, <1>3 DEF Gtz

LEMMA SignNumbersIn == \A x, y \in Int : SignLift(x) \in Signs /\ SignAny(x, y) \in Signs
  BY SignCases DEF SignLift, SignAny, Bot, Ltz, Gtz, Eqz, Gez, Lez, Top

LEMMA ZeroCases == \A a : a \in Zeros <=> a \in {0, 1, 2}
  BY DEF Zeros, Zero, NonZero, Unknown

LEMMA ZeroOpIn ==
  ASSUME NEW op \in Arith \cup Compares, NEW a \in Zeros, NEW b \in Zeros
  PROVE  ZeroOp(op, a, b) \in Zeros
<1> DEFINE look(lut, x, y) == lut[x + 1][y + 1]
<1>1. /\ look(ZAdd, a, b) \in Zeros /\ look(ZShift, a, b) \in Zeros /\ look(ZShift, b, a) \in Zeros
      /\ look(ZAnd, a, b) \in Zeros /\ look(ZOr, a, b) \in Zeros
  BY ZeroCases DEF ZAdd, ZShift, ZAnd, ZOr
<1>2. /\ look(ZEq, a, b) \in Zeros /\ look(ZUge, a, b) \in Zeros /\ look(ZUge, b, a) \in Zeros
      /\ look(ZSgt, a, b) \in Zeros /\ look(ZSgt, b, a) \in Zeros
      /\ look(ZSge, a, b) \in Zeros /\ look(ZSge, b, a) \in Zeros
  BY ZeroCases DEF ZEq, ZUge, ZSgt, ZSge
<1>3. (IF a # Zero THEN Unknown ELSE Zero) \in Zeros
  BY DEF Zeros
<1> HIDE DEF look
<1> DEFINE o == ZeroOp(op, a, b)
<1>4. \/ op \in {"add", "sub", "mul"} \/ op \in ZeroDivisions \/ op \in {"shl", "ashr", "lshr", "ugt"}
      \/ op \in {"and", "or", "xor", "ne", "eq", "uge", "ult", "ule", "sgt", "sge", "slt", "sle"}
  BY DEF Arith, Compares, Divisions, Shifts, Bits, ZeroDivisions
<1>5. o \in {look(ZAdd, a, b), look(ZShift, a, b), look(ZShift, b, a), look(ZAnd, a, b), look(ZOr, a, b),
             look(ZEq, a, b), look(ZUge, a, b), look(ZUge, b, a), look(ZSgt, a, b), look(ZSgt, b, a),
             look(ZSge, a, b), look(ZSge, b, a), IF a # Zero THEN Unknown ELSE Zero}
  <2>1. CASE op \in {"add", "sub", "mul"} \cup ZeroDivisions
    BY <2>1 DEF ZeroOp, ZeroDivisions, look
  <2>2. CASE op \in {"shl", "ashr", "lshr", "ugt"}
    BY <2>2 DEF ZeroOp, ZeroDivisions, look
  <2>3. CASE op \in {"and", "or", "xor", "ne", "eq"}
    BY <2>3 DEF ZeroOp, ZeroDivisions, look
  <2>4. CASE op \in {"uge", "ult", "ule", "sgt"}
    BY <2>4 DEF ZeroOp, ZeroDivisions, look
  <2>5. CASE op \in {"sge", "slt", "sle"}
    BY <2>5 DEF ZeroOp, ZeroDivisions, look
  <2> QED
    BY <1>4, <2>1, <2>2, <2>3, <2>4, <2>5
<1> HIDE DEF o
<1> QED
  BY <1>1, <1>2, <1>3, <1>5 DEF o

LEMMA ZeroCut ==
  ASSUME NEW a \in Zeros, NEW c \in BOOLEAN, NEW v \in ZeroAssume(a, c)
  PROVE  v \in Zeros /\ ZeroBelow(v, a)
  BY DEF ZeroAssume, Zeros, ZeroBelow, ZeroMeaning, Zero, NonZero, Unknown

LEMMA ZeroNumbersIn ==
  /\ \A x : ZeroLift(x) \in Zeros
  /\ \A op : \A a \in Zeros : ZeroCast(op, a) \in Zeros
  BY DEF ZeroLift, ZeroCast, Zeros
-----------------------------------------------------------------------------
(***************************************************************************)
(* What a branch does to a fork: its values stay values of the domain and  *)
(* are at most narrowed, and the solver's choices at most get fewer. Only  *)
(* the fit of an interval may widen one, and only a sign's != or > that    *)
(* came true deletes one: comparisons that are settled did not.            *)
(***************************************************************************)

ValueOK(v) ==
    CASE domain = "interval" -> v \in Intervals
      [] domain = "sign" -> v \in Signs \cup {Freed}
      [] domain = "zero" -> v \in Zeros
      [] OTHER -> TRUE

ValueBelow(v, old) ==
    CASE domain = "interval" -> IvBelow(v, old)
      [] domain = "sign" -> SignBelow(v, old)
      [] domain = "zero" -> ZeroBelow(v, old)
      [] OTHER -> v = old

ValuesOK(f, k) == f = [n \in 1 .. k |-> f[n]] /\ \A n \in 1 .. k : ValueOK(f[n])

ForkOK(s, k) == Shaped(s) /\ (s.out = "ok" => ValuesOK(s.val, k))

LiveFork(s, k) == ForkOK(s, k) /\ s.out = "ok"

NoFit == domain = "interval" => \A n \in Nodes : dag[n].op # "zfit"

Deletes(n) == domain = "sign" /\ dag[n].op \in {"ne", "sgt"}

NoDelete == \A n \in Nodes : Deletes(n) => con[n] = 0

Settled(s, S) == \A n \in S : Deletes(n) => s.val[n] # Gtz

Gentle == NoFit /\ NoDelete

Kept(t, s, k) ==
    /\ ForkOK(t, k) /\ t.solver \subseteq s.solver
    /\ Gentle /\ Settled(s, 1 .. k) /\ t.out = "ok" =>
          Settled(t, 1 .. k) /\ \A n \in 1 .. k : ValueBelow(t.val[n], s.val[n])

AllKept(T, s, k) == \A t \in T : Kept(t, s, k)

LEMMA LiveParts ==
  ASSUME NEW k \in Nat, NEW s, LiveFork(s, k)
  PROVE  /\ Shaped(s) /\ s.out = "ok" /\ s.val = [n \in 1 .. k |-> s.val[n]]
         /\ \A n \in 1 .. k : ValueOK(s.val[n])
  BY DEF LiveFork, ForkOK, ValuesOK

LEMMA BelowSelf == ASSUME NEW v, ValueOK(v) PROVE ValueBelow(v, v)
  BY IvBelowOrder DEF ValueOK, ValueBelow, SignBelow, ZeroBelow

LEMMA BelowTrans ==
  ASSUME NEW u, NEW v, NEW w, ValueOK(u), ValueOK(v), ValueOK(w), ValueBelow(u, v), ValueBelow(v, w)
  PROVE  ValueBelow(u, w)
<1>1. CASE domain = "interval"
  BY <1>1, IvBelowOrder DEF ValueOK, ValueBelow
<1>2. CASE domain = "sign"
  BY <1>2 DEF ValueBelow, SignBelow
<1>3. CASE domain = "zero"
  BY <1>3 DEF ValueBelow, ZeroBelow
<1>4. CASE domain \notin {"interval", "sign", "zero"}
  BY <1>4 DEF ValueBelow
<1> QED
  BY <1>1, <1>2, <1>3, <1>4

LEMMA KeptSelf ==
  ASSUME NEW k \in Nat, NEW s, LiveFork(s, k)
  PROVE  Kept(s, s, k)
  BY LiveParts, BelowSelf DEF Kept, LiveFork

LEMMA KeptLive ==
  ASSUME NEW k \in Nat, NEW s, NEW t, Kept(t, s, k), t.out = "ok"
  PROVE  LiveFork(t, k)
  BY DEF Kept, LiveFork

LEMMA KeptTrans ==
  ASSUME NEW k \in Nat, NEW s, LiveFork(s, k), NEW t, Kept(t, s, k), t.out = "ok", NEW u, Kept(u, t, k)
  PROVE  Kept(u, s, k)
<1>1. ForkOK(u, k) /\ u.solver \subseteq s.solver
  BY DEF Kept
<1>2. ASSUME Gentle, Settled(s, 1 .. k), u.out = "ok", NEW n \in 1 .. k
      PROVE  Settled(u, 1 .. k) /\ ValueBelow(u.val[n], s.val[n])
  <2>1. LiveFork(t, k) /\ LiveFork(u, k)
    BY <1>1, <1>2, KeptLive DEF LiveFork
  <2>2. ValueOK(s.val[n]) /\ ValueOK(t.val[n]) /\ ValueOK(u.val[n])
    BY <2>1, LiveParts
  <2>3. Settled(t, 1 .. k) /\ ValueBelow(t.val[n], s.val[n])
    BY <1>2 DEF Kept
  <2>4. Settled(u, 1 .. k) /\ ValueBelow(u.val[n], t.val[n])
    BY <1>2, <2>3 DEF Kept
  <2> QED
    BY <2>2, <2>3, <2>4, BelowTrans
<1>3. ASSUME Gentle, Settled(s, 1 .. k), u.out = "ok" PROVE Settled(u, 1 .. k)
  BY <1>3 DEF Kept
<1> QED
  BY <1>1, <1>2, <1>3 DEF Kept

LEMMA EndKept ==
  ASSUME NEW k \in Nat, NEW s, LiveFork(s, k), NEW how \in Outs \ {"ok"}
  PROVE  Kept(End(s, how), s, k) /\ End(s, how).out # "ok" /\ \A m : ForkOK(End(s, how), m)
<1>1. Shaped(s)
  BY LiveParts
<1> QED
  BY <1>1, EndFork DEF Kept, ForkOK

LEMMA PutIs ==
  ASSUME NEW k \in Nat, NEW s, LiveFork(s, k), NEW n \in 1 .. k, NEW v, ValueOK(v)
  PROVE  /\ ForkOK(Put(s, n, v), k) /\ Put(s, n, v).solver = s.solver
         /\ \A m \in 1 .. k : Put(s, n, v).val[m] = IF m = n THEN v ELSE s.val[m]
<1> DEFINE t == Put(s, n, v)
<1>1. Shaped(s) /\ s.out = "ok" /\ s.val = [m \in 1 .. k |-> s.val[m]] /\ \A m \in 1 .. k : ValueOK(s.val[m])
  BY LiveParts
<1>2. Shaped(t) /\ t.val = [s.val EXCEPT ![n] = v] /\ t.out = "ok" /\ t.solver = s.solver
  BY <1>1, PutFork
<1> HIDE DEF t
<1>3. t.val = [m \in 1 .. k |-> IF m = n THEN v ELSE s.val[m]]
  BY <1>1, <1>2
<1>4. \A m \in 1 .. k : t.val[m] = IF m = n THEN v ELSE s.val[m]
  BY <1>3
<1>5. t.val = [m \in 1 .. k |-> t.val[m]]
  BY <1>3
<1>6. \A m \in 1 .. k : ValueOK(t.val[m])
  BY <1>1, <1>4
<1>7. ForkOK(t, k) /\ t.solver = s.solver
  BY <1>2, <1>5, <1>6 DEF ForkOK, ValuesOK
<1> QED
  BY <1>4, <1>7 DEF t

LEMMA PutKept ==
  ASSUME NEW k \in Nat, NEW s, LiveFork(s, k), NEW n \in 1 .. k, NEW v, ValueOK(v),
         Gentle /\ Settled(s, 1 .. k) => ValueBelow(v, s.val[n]) /\ (Deletes(n) => v # Gtz)
  PROVE  Kept(Put(s, n, v), s, k)
<1> DEFINE t == Put(s, n, v)
<1>1. ForkOK(t, k) /\ t.solver = s.solver /\ \A m \in 1 .. k : t.val[m] = IF m = n THEN v ELSE s.val[m]
  BY PutIs
<1> HIDE DEF t
<1>2. ASSUME Gentle, Settled(s, 1 .. k)
      PROVE  Settled(t, 1 .. k) /\ \A m \in 1 .. k : ValueBelow(t.val[m], s.val[m])
  <2>1. \A m \in 1 .. k : ValueBelow(s.val[m], s.val[m])
    BY LiveParts, BelowSelf
  <2> QED
    BY <1>1, <1>2, <2>1 DEF Settled
<1> QED
  BY <1>1, <1>2 DEF Kept, t

-----------------------------------------------------------------------------
\* A value that is not a leaf has one or two operands, made before it.
NodesOK == \A n \in Nodes : dag[n].op \notin Leaves => Len(dag[n].kids) \in {1, 2}

LEMMA KidsAre ==
  ASSUME DagShape, NodesOK, NEW n \in Nodes, dag[n].op \notin Leaves
  PROVE  /\ dag[n].kids[1] \in Nodes \ {n} /\ Last(dag[n].kids) \in Nodes \ {n}
         /\ Len(dag[n].kids) = 2 => dag[n].kids[2] \in Nodes \ {n}
<1> DEFINE kids == dag[n].kids
<1>1. Len(dag) \in Nat /\ Nodes = 1 .. Len(dag) /\ kids \in Seq(Nat)
  BY NodesAre DEF NodeSet
<1>2. Len(kids) \in {1, 2} /\ \A i \in DOMAIN kids : kids[i] \in 1 .. n - 1
  BY DEF NodesOK, DagShape, KidsBefore
<1>3. DOMAIN kids = 1 .. Len(kids) /\ Last(kids) = kids[Len(kids)]
  BY <1>1 DEF Last
<1> HIDE DEF kids
<1>4. \A m \in 1 .. n - 1 : m \in Nodes \ {n}
  BY <1>1
<1>5. kids[1] \in Nodes \ {n} /\ kids[Len(kids)] \in Nodes \ {n} /\ (Len(kids) = 2 => kids[2] \in Nodes \ {n})
  BY <1>2, <1>3, <1>4
<1> QED
  BY <1>3, <1>5 DEF kids

LEMMA DomainBackKept ==
  ASSUME DagShape, NodesOK, NEW s, LiveFork(s, Len(dag)), NEW n \in Nodes, dag[n].op \notin Leaves
  PROVE  AllKept(DomainBack(dag[n].op, s, n, dag[n].kids), s, Len(dag))
<1> DEFINE k == Len(dag)
           op == dag[n].op
           kids == dag[n].kids
           T == DomainBack(op, s, n, kids)
<1>1. k \in Nat /\ Nodes = 1 .. k
  BY NodesAre
<1>2. /\ kids[1] \in 1 .. k \ {n} /\ Last(kids) \in 1 .. k \ {n}
      /\ Len(kids) = 2 => kids[2] \in 1 .. k \ {n}
  BY <1>1, KidsAre
<1>3. Kept(s, s, k)
  BY <1>1, KeptSelf
<1>4. CASE domain = "interval"
  <2>1. T = IntervalBack(op, s, n, kids[1], Last(kids))
    BY <1>4 DEF DomainBack
  <2>2. IvStore(s, k)
    <3>1. Shaped(s) /\ s.out = "ok" /\ s.val = [m \in 1 .. k |-> s.val[m]] /\ \A m \in 1 .. k : s.val[m] \in Intervals
      BY <1>1, <1>4, LiveParts DEF ValueOK
    <3> HIDE DEF k
    <3> QED
      BY <3>1 DEF IvStore
  <2> SUFFICES ASSUME NEW t \in T PROVE Kept(t, s, k)
    BY DEF AllKept
  <2>3. Shaped(t) /\ t.solver = s.solver /\ (t.out = "ok" => IvStore(t, k))
    BY <1>1, <1>2, <2>1, <2>2, IntervalBackStore
  <2>4. ForkOK(t, k)
    <3> HIDE DEF k
    <3> QED
      BY <1>4, <2>3 DEF ForkOK, ValuesOK, ValueOK, IvStore
  <2>5. ASSUME Gentle, t.out = "ok" PROVE \A m \in 1 .. k : ValueBelow(t.val[m], s.val[m])
    <3>1. op # "zfit"
      BY <1>4, <2>5 DEF Gentle, NoFit
    <3>2. Inside(t, s, k)
      BY <1>1, <1>2, <2>1, <2>2, <3>1, IntervalBackInside DEF AllInside
    <3> HIDE DEF k
    <3> QED
      BY <1>4, <2>5, <3>2 DEF Inside, ValueBelow
  <2>6. Settled(t, 1 .. k)
    BY <1>4 DEF Settled, Deletes
  <2> QED
    BY <2>3, <2>4, <2>5, <2>6 DEF Kept
<1>5. CASE domain = "sign" /\ SignDeletes(op, s.val[n])
  <2>1. T = {DeleteLeft(s, kids)}
    BY <1>5 DEF DomainBack
  <2>2. ~Settled(s, 1 .. k)
    BY <1>1, <1>5 DEF Settled, Deletes, SignDeletes
  <2>3. Kept(End(s, "wild"), s, k)
    BY <1>1, EndKept DEF Outs
  <2>4. ValueOK(Freed)
    BY <1>5 DEF ValueOK
  <2> HIDE DEF k, kids
  <2>5. Kept(Put(s, kids[1], Freed), s, k)
    <3>1. LiveFork(s, k)
      BY DEF k
    <3> QED
      BY <1>1, <1>2, <2>2, <2>4, <3>1, PutKept
  <2>6. Kept(DeleteLeft(s, kids), s, k)
    BY <2>3, <2>5 DEF DeleteLeft
  <2> QED
    BY <2>1, <2>6 DEF AllKept, k, kids
<1>6. CASE domain # "interval" /\ ~(domain = "sign" /\ SignDeletes(op, s.val[n]))
  BY <1>3, <1>6 DEF DomainBack, Reported, AllKept
<1> QED
  BY <1>4, <1>5, <1>6

LEMMA BackwardStepKept ==
  ASSUME DagShape, NodesOK, NEW s, LiveFork(s, Len(dag)), NEW n \in Nodes
  PROVE  AllKept(BackwardStep(s, n), s, Len(dag))
<1>1. Kept(s, s, Len(dag))
  BY NodesAre, KeptSelf
<1>2. ASSUME dag[n].op \notin Leaves PROVE AllKept(ProductBack(dag[n].op, s, n, dag[n].kids), s, Len(dag))
  BY <1>2, DomainBackKept DEF ProductBack, Then, TagBack, AllKept
<1> QED
  BY <1>1, <1>2 DEF BackwardStep, AllKept

\* No visit of a walk adds anything to what a fork knew before it.
LEMMA WalkKept ==
  ASSUME DagShape, NodesOK, NEW s, LiveFork(s, Len(dag)), NEW S, AllKept(S, s, Len(dag)), NEW order \in Seq(Nodes)
  PROVE  AllKept(Walk(S, order)[Len(order)], s, Len(dag))
<1> DEFINE k == Len(dag)
           N == Len(order)
           w == Walk(S, order)
           Good == {j \in 0 .. N : AllKept(w[j], s, k)}
<1>1. N \in Nat /\ w[0] = S /\ \A j \in 1 .. N : w[j] = BackwardAll(w[j - 1], order[j])
  BY WalkEquation
<1> HIDE DEF w
<1>2. 0 \in Good
  BY <1>1
<1>3. ASSUME NEW j \in 0 .. N - 1, j \in Good PROVE j + 1 \in Good
  <2>1. j + 1 \in 1 .. N /\ j + 1 - 1 = j /\ j + 1 \in 0 .. N
    BY <1>1
  <2>2. w[j + 1] = BackwardAll(w[j], order[j + 1]) /\ order[j + 1] \in Nodes /\ AllKept(w[j], s, k)
    BY <1>1, <1>3, <2>1
  <2>3. ASSUME NEW t \in w[j], t.out = "ok" PROVE AllKept(BackwardStep(t, order[j + 1]), s, k)
    <3>1. Kept(t, s, k) /\ LiveFork(t, k) /\ k \in Nat
      BY <2>2, <2>3, NodesAre, KeptLive DEF AllKept
    <3>2. AllKept(BackwardStep(t, order[j + 1]), t, k)
      BY <2>2, <3>1, BackwardStepKept
    <3> QED
      BY <2>3, <3>1, <3>2, KeptTrans DEF AllKept
  <2>4. AllKept(w[j + 1], s, k)
    <3> HIDE DEF k
    <3> QED
      BY <2>2, <2>3 DEF BackwardAll, Then, AllKept
  <2> QED
    BY <2>1, <2>4
<1>4. N \in Good
  <2>1. \A j \in 0 .. N - 1 : j \in Good => j + 1 \in Good
    BY <1>3
  <2>2. N \in 0 .. N
    BY <1>1
  <2> HIDE DEF N, Good
  <2> QED
    BY <1>1, <1>2, <2>1, <2>2, Climb
<1> QED
  BY <1>4 DEF w

LEMMA AssumeValueKept ==
  ASSUME DagShape, NEW s, LiveFork(s, Len(dag)), NEW n \in Nodes, NEW c \in BOOLEAN,
         con[n] = 0 => ~c, DomTristate(domain, s.val[n]) # "fail"
  PROVE  AllKept(AssumeValue(s, n, c), s, Len(dag))
<1> DEFINE k == Len(dag)
           T == AssumeValue(s, n, c)
           old == s.val[n]
<1>1. k \in Nat /\ n \in 1 .. k /\ LiveFork(s, k)
  BY NodesAre
<1>2. ValueOK(old) /\ Shaped(s) /\ s.out = "ok"
  BY <1>1, LiveParts
<1> HIDE DEF k
<1>3. \A v : ValueOK(v) /\ ValueBelow(v, old) /\ domain # "sign" => Kept(Put(s, n, v), s, k)
  BY <1>1, PutKept DEF Deletes
<1>4. Kept(s, s, k)
  BY <1>1, KeptSelf
<1>5. CASE domain = "interval"
  <2>1. T = Chosen(s, n, IntervalAssume(old, c))
    BY <1>5 DEF AssumeValue
  <2> HIDE DEF old
  <2>2. old \in Intervals /\ TriOf(c) \in {"true", "false", "maybe"}
    BY <1>2, <1>5 DEF ValueOK, TriOf
  <2>3. IvOfTri(TriOf(c)) \in Intervals
    BY <2>2, IvTriIn
  <2>4. \A v \in IntervalAssume(old, c) : v \in Intervals /\ IvBelow(v, old)
    BY <2>2, <2>3, MeetBelow DEF IntervalAssume, IvMake
  <2>5. \A v \in IntervalAssume(old, c) : ValueOK(v) /\ ValueBelow(v, old)
    BY <1>5, <2>4 DEF ValueOK, ValueBelow
  <2> QED
    BY <1>3, <1>5, <2>1, <2>5 DEF AllKept, Chosen, k
<1>6. CASE domain = "sign"
  <2>1. T = {Put(s, n, SignAssume(old, c))}
    BY <1>6 DEF AssumeValue
  <2>2. old \in Signs
    BY <1>2, <1>6, SignLowered DEF ValueOK, DomTristate
  <2> HIDE DEF old
  <2>3. SignAssume(old, c) \in Signs /\ SignBelow(SignAssume(old, c), old) /\ (~c => SignAssume(old, c) # Gtz)
    BY <2>2, SignAssumeIn
  <2>4. ValueOK(SignAssume(old, c)) /\ ValueBelow(SignAssume(old, c), old)
    BY <1>6, <2>3 DEF ValueOK, ValueBelow
  <2>5. Gentle /\ Deletes(n) => ~c
    BY DEF Gentle, NoDelete
  <2>6. Kept(Put(s, n, SignAssume(old, c)), s, k)
    BY <1>1, <2>3, <2>4, <2>5, PutKept DEF old
  <2> QED
    BY <2>1, <2>6 DEF AllKept, k
<1>7. CASE domain = "zero"
  <2>1. T = Chosen(s, n, ZeroAssume(old, c))
    BY <1>7 DEF AssumeValue
  <2> HIDE DEF old
  <2>2. \A v \in ZeroAssume(old, c) : v \in Zeros /\ ZeroBelow(v, old)
    BY <1>2, <1>7, ZeroCut DEF ValueOK
  <2>3. \A v \in ZeroAssume(old, c) : ValueOK(v) /\ ValueBelow(v, old)
    BY <1>7, <2>2 DEF ValueOK, ValueBelow
  <2> QED
    BY <1>3, <1>7, <2>1, <2>3 DEF AllKept, Chosen, k
<1>8. CASE domain = "constant" \/ (domain = "trivial" /\ old.dom = "constant")
  <2>1. T = Chosen(s, n, ConstantAssume(old, c))
    BY <1>8 DEF AssumeValue
  <2> HIDE DEF old
  <2>2. \A v \in ConstantAssume(old, c) : v = old
    BY DEF ConstantAssume
  <2>3. ValueBelow(old, old)
    BY <1>2, BelowSelf
  <2> QED
    BY <1>2, <1>3, <1>8, <2>1, <2>2, <2>3 DEF AllKept, Chosen, k
<1>9. CASE domain = "term"
  <2>1. T = TermAssume(s, n, c)
    BY <1>9 DEF AssumeValue
  <2> DEFINE left == {m \in s.solver : s.val[n][m] = Truth(c)}
             t == [s EXCEPT !.solver = left]
  <2>2. T \subseteq {t}
    BY <2>1 DEF TermAssume
  <2>3. left \subseteq s.solver
    OBVIOUS
  <2> HIDE DEF left
  <2>4. Shaped(t) /\ t.val = s.val /\ t.out = "ok" /\ t.solver = left
    BY <1>2, <2>3 DEF Shaped
  <2> HIDE DEF t, T
  <2>5. Kept(t, s, k)
    BY <1>1, <1>4, <2>3, <2>4 DEF Kept, ForkOK, LiveFork, Settled
  <2> QED
    BY <2>2, <2>5 DEF AllKept, k, T
<1>10. CASE /\ domain \notin {"interval", "sign", "zero", "constant", "term"}
            /\ ~(domain = "trivial" /\ old.dom = "constant")
  <2>1. T = {s}
    BY <1>10 DEF AssumeValue
  <2> QED
    BY <1>4, <2>1 DEF AllKept, k
<1> QED
  BY <1>5, <1>6, <1>7, <1>8, <1>9, <1>10

LEMMA AssumeKept ==
  ASSUME DagShape, NodesOK, NEW s, LiveFork(s, Len(dag)), NEW n \in Nodes, NEW c \in BOOLEAN,
         con[n] = 0 => ~c, DomTristate(domain, s.val[n]) # "fail"
  PROVE  AllKept(Assume(s, n, c), s, Len(dag))
<1>1. AllKept(AssumeValue(s, n, c), s, Len(dag))
  BY AssumeValueKept
<1>2. Preorder[n] \in Seq(Nodes)
  BY PreorderNodes
<1>3. AllKept(BackwardPropagate(AssumeValue(s, n, c), n), s, Len(dag))
  BY <1>1, <1>2, WalkKept DEF BackwardPropagate
<1> QED
  BY <1>1, <1>3 DEF Assume
-----------------------------------------------------------------------------
(***************************************************************************)
(* What a library answers is a value of the domain, or ends the fork.      *)
(***************************************************************************)

AnswerOK(o) == (o.how = "ok" /\ ValueOK(o.val)) \/ o.how \in Outs \ {"ok"}

AnswersOK(O) == \A o \in O : AnswerOK(o)

\* Domains without typed values.
Untyped == {"bitvec", "unit", "constant", "trivial", "term"}

LEMMA DomainsAre ==
  /\ Domains = {"interval", "sign", "zero"} \cup Untyped
  /\ domain \in Untyped => \A v : ValueOK(v)
  BY DEF Domains, Untyped, ValueOK

LEMMA GotOK == ASSUME NEW V, \A v \in V : ValueOK(v) PROVE AnswersOK(Got(V))
  BY DEF AnswersOK, AnswerOK, Got

LEMMA EndsOK == ASSUME NEW how \in Outs \ {"ok"} PROVE AnswersOK(Ends(how))
  BY DEF AnswersOK, AnswerOK, Ends

LEMMA FailsOK == AnswersOK(Fails)
  BY EndsOK DEF Fails, Outs

\* Numbers of the program are bounds.
LEMMA NumbersIn ==
  ASSUME NEW x \in 0 .. 2 ^ Width - 1
  PROVE  x \in Int /\ x \in Bounds
<1> DEFINE p == 2 ^ Width
<1>1. p \in Nat /\ p <= MaxBound
  BY WidthIn, PowerOfWidth, NumbersAssumption
<1> HIDE DEF p
<1>2. x \in 0 .. p - 1
  BY DEF p
<1> QED
  BY <1>1, <1>2, BoundFacts, BoundsInt

LEMMA MadeIn == ASSUME NEW i \in Intervals, domain = "interval" PROVE AnswersOK(Got(IvMake(i)))
<1>1. \A v \in IvMake(i) : ValueOK(v)
  BY DEF IvMake, ValueOK
<1> QED
  BY <1>1, GotOK

LEMMA DomLiftOK ==
  ASSUME domain \in Domains, NEW x \in 0 .. 2 ^ Width - 1, NEW w
  PROVE  AnswersOK(DomLift(domain, x, w))
<1>1. x \in Int /\ x \in Bounds
  BY NumbersIn
<1>2. CASE domain = "interval"
  <2>1. Iv(x, x) \in Intervals
    BY <1>1, IvParts
  <2> QED
    BY <1>2, <2>1, MadeIn DEF DomLift
<1>3. CASE domain = "sign"
  <2>1. ValueOK(SignLift(x))
    BY <1>1, <1>3, SignNumbersIn DEF ValueOK
  <2> QED
    BY <1>3, <2>1, GotOK DEF DomLift
<1>4. CASE domain = "zero"
  <2>1. ValueOK(ZeroLift(x))
    BY <1>4, ZeroNumbersIn DEF ValueOK
  <2> QED
    BY <1>4, <2>1, GotOK DEF DomLift
<1>5. CASE domain \in Untyped
  BY <1>5, DomainsAre, GotOK DEF DomLift, UnitAnswer, BitvecAnswer, Untyped
<1> QED
  BY <1>2, <1>3, <1>4, <1>5, DomainsAre

LEMMA DomAnyOK ==
  ASSUME domain \in Domains, NEW k
  PROVE  AnswersOK(DomAny(domain, k))
<1>1. CASE domain = "interval"
  <2>1. ValueOK(IvTop)
    BY <1>1, SomeBounds, IvParts DEF ValueOK, IvTop
  <2> QED
    BY <1>1, <2>1, GotOK DEF DomAny
<1>2. CASE domain = "sign"
  <2>1. ValueOK(Top)
    BY <1>2 DEF ValueOK, Signs
  <2> QED
    BY <1>2, <2>1, GotOK DEF DomAny
<1>3. CASE domain = "zero"
  <2>1. ValueOK(Unknown)
    BY <1>3 DEF ValueOK, Zeros
  <2> QED
    BY <1>3, <2>1, GotOK DEF DomAny
<1>4. CASE domain \in Untyped
  BY <1>4, DomainsAre, GotOK, FailsOK DEF DomAny, UnitAnswer, BitvecAnswer, Untyped
<1> QED
  BY <1>1, <1>2, <1>3, <1>4, DomainsAre

LEMMA DomRangeOK ==
  ASSUME domain \in Domains, NEW from \in 0 .. 2 ^ Width - 1, NEW to \in 0 .. 2 ^ Width - 1
  PROVE  AnswersOK(DomRange(domain, from, to))
<1>1. from \in Int /\ from \in Bounds /\ to \in Int /\ to \in Bounds
  BY NumbersIn
<1>2. CASE domain = "interval"
  <2>1. Iv(from, to) \in Intervals
    BY <1>1, IvParts
  <2> QED
    BY <1>2, <2>1, MadeIn DEF DomRange
<1>3. CASE domain = "sign"
  <2>1. ValueOK(SignAny(from, to))
    BY <1>1, <1>3, SignNumbersIn DEF ValueOK
  <2> QED
    BY <1>3, <2>1, GotOK DEF DomRange
<1>4. CASE domain = "zero"
  BY <1>4, FailsOK DEF DomRange
<1>5. CASE domain \in Untyped
  BY <1>5, DomainsAre, GotOK, FailsOK DEF DomRange, UnitAnswer, BitvecAnswer, Untyped
<1> QED
  BY <1>2, <1>3, <1>4, <1>5, DomainsAre

LEMMA DomOneOfOK ==
  ASSUME domain \in Domains, NEW r \in (0 .. 2 ^ Width - 1) \X (0 .. 2 ^ Width - 1)
  PROVE  AnswersOK(DomOneOf(domain, r))
<1>1. r[1] \in Bounds /\ r[2] \in Bounds
  BY NumbersIn
<1>2. CASE domain = "interval"
  <2> DEFINE i == IvJoin(IvJoin(Iv(0, -1), Iv(r[1], r[1])), Iv(r[2], r[2]))
  <2>1. Iv(0, -1) \in Intervals /\ Iv(r[1], r[1]) \in Intervals /\ Iv(r[2], r[2]) \in Intervals
    BY <1>1, SomeBounds, IvParts
  <2>2. i \in Intervals
    BY <2>1, IvMeetIn
  <2>3. DomOneOf(domain, r) = Got(IvMake(i))
    BY <1>2 DEF DomOneOf
  <2> HIDE DEF i
  <2> QED
    BY <1>2, <2>2, <2>3, MadeIn
<1>3. CASE domain \in {"sign", "zero"}
  BY <1>3, FailsOK DEF DomOneOf
<1>4. CASE domain \in Untyped
  BY <1>4, DomainsAre, GotOK, FailsOK DEF DomOneOf, UnitAnswer, BitvecAnswer, Untyped
<1> QED
  BY <1>2, <1>3, <1>4, DomainsAre

LEMMA DomOpOK ==
  ASSUME domain \in Domains, NEW op \in Arith \cup Compares, NEW a, NEW b, ValueOK(a), ValueOK(b), NEW w
  PROVE  AnswersOK(DomOp(domain, op, a, b, w))
<1>1. CASE domain = "interval"
  <2>1. a \in Intervals /\ b \in Intervals
    BY <1>1 DEF ValueOK
  <2>2. \A i \in IntervalOp(op, a, b) : IvMake(i) \subseteq Intervals
    BY <2>1, IntervalOpIn DEF IvMake
  <2>3. \A v \in UNION {IvMake(i) : i \in IntervalOp(op, a, b)} : ValueOK(v)
    BY <1>1, <2>2 DEF ValueOK
  <2>4. AnswersOK(Got(UNION {IvMake(i) : i \in IntervalOp(op, a, b)})) /\ AnswersOK(Ends("trap"))
    BY <2>3, GotOK, EndsOK DEF Outs
  <2>5. DomOp(domain, op, a, b, w) = RelationalOp(domain, op, a, b)
    BY <1>1 DEF DomOp, Relational
  <2> QED
    BY <1>1, <2>4, <2>5 DEF RelationalOp
<1>2. CASE domain = "sign"
  <2>1. a \in Signs \cup {Freed} /\ b \in Signs \cup {Freed}
    BY <1>2 DEF ValueOK
  <2>2. DomOp(domain, op, a, b, w) =
           IF op \in SignReads /\ Freed \in {a, b} THEN Ends("wild") ELSE Got({SignOp(op, a, b)})
    BY <1>2 DEF DomOp, Relational, RelationalOp
  <2>3. ASSUME ~(op \in SignReads /\ Freed \in {a, b}) PROVE ValueOK(SignOp(op, a, b))
    BY <1>2, <2>1, <2>3, SignOpIn DEF ValueOK
  <2> QED
    BY <2>2, <2>3, GotOK, EndsOK DEF Outs
<1>3. CASE domain = "zero"
  <2>1. ValueOK(ZeroOp(op, a, b))
    BY <1>3, ZeroOpIn DEF ValueOK
  <2>2. DomOp(domain, op, a, b, w) = IF ZeroFails(op, b) THEN Fails ELSE Got({ZeroOp(op, a, b)})
    BY <1>3 DEF DomOp, Relational, RelationalOp
  <2> QED
    BY <2>1, <2>2, GotOK, FailsOK
<1>4. CASE domain \in Untyped
  <2>1. \A V : AnswersOK(Got(V))
    BY <1>4, DomainsAre, GotOK
  <2>2. CASE domain = "bitvec"
    BY <2>1, <2>2 DEF DomOp, Relational, RelationalOp, BitvecAnswer
  <2>3. CASE domain = "unit"
    BY <2>1, <2>3 DEF DomOp, Relational, UnitAnswer
  <2>4. CASE domain = "constant"
    BY <2>1, <2>4, FailsOK DEF DomOp, Relational, WithType
  <2>5. CASE domain = "trivial"
    BY <2>1, <2>5, FailsOK DEF DomOp, Relational, WithType, SemilatticeOp, InDomain, UnitAnswer
  <2>6. CASE domain = "term"
    BY <2>1, <2>6 DEF DomOp, Relational
  <2> QED
    BY <1>4, <2>2, <2>3, <2>4, <2>5, <2>6 DEF Untyped
<1> QED
  BY <1>1, <1>2, <1>3, <1>4, DomainsAre

LEMMA DomCastOK ==
  ASSUME domain \in Domains, NEW op, NEW a, ValueOK(a), NEW w, NEW v
  PROVE  AnswersOK(DomCast(domain, op, a, w, v))
<1>1. CASE domain = "interval"
  BY <1>1, MadeIn DEF DomCast, ValueOK
<1>2. CASE domain = "sign"
  <2>1. ValueOK(Top)
    BY <1>2 DEF ValueOK, Signs
  <2> QED
    BY <1>2, <2>1, GotOK DEF DomCast
<1>3. CASE domain = "zero"
  <2>1. ValueOK(ZeroCast(op, a))
    BY <1>3, ZeroNumbersIn DEF ValueOK
  <2> QED
    BY <1>3, <2>1, GotOK DEF DomCast
<1>4. CASE domain \in Untyped
  <2>1. \A V : AnswersOK(Got(V))
    BY <1>4, DomainsAre, GotOK
  <2> QED
    BY <1>4, <2>1, FailsOK DEF DomCast, SemilatticeCast, InDomain, UnitAnswer, BitvecAnswer, Untyped
<1> QED
  BY <1>1, <1>2, <1>3, <1>4, DomainsAre
-----------------------------------------------------------------------------
(***************************************************************************)
(* The inductive invariant: every fork that runs has a value of the domain *)
(* for every node, and nodes are what the calls of a program make.         *)
(***************************************************************************)

ConOK == con \in Seq(Int) /\ Len(con) = Len(dag) /\ \A n \in Nodes : con[n] \in 0 .. 2 ^ dag[n].w - 1

ForksOK == \A s \in forks : ForkOK(s, Len(dag))

OpsIn == \A n \in Nodes : dag[n].op \notin Leaves => dag[n].op \in Ops[domain]

\* Of a program that makes sound calls only, no != or > of signs has come true.
AllSettled == NoDelete /\ \A s \in Going : Settled(s, Nodes \ {pending})

RelInv ==
    /\ domain \in DomainSet /\ domain \in Domains
    /\ DagShape /\ NodesOK /\ ConOK /\ ForksOK /\ OpsIn /\ (Strict => AllSettled)
    /\ pending \in Nodes \cup {0} /\ branches \in Seq(Nodes)

\* A node that a call may make next.
NewNode(node) ==
    /\ node \in NodeSet /\ KidsBefore(node, Len(dag) + 1)
    /\ node.op \notin Leaves => Len(node.kids) \in {1, 2} /\ node.op \in Ops[domain]

LEMMA AppendValues ==
  ASSUME NEW k \in Nat, NEW f, ValuesOK(f, k), NEW v, ValueOK(v)
  PROVE  ValuesOK(Append(f, v), k + 1)
<1> DEFINE S == {f[n] : n \in 1 .. k} \cup {v}
           g == Append(f, v)
<1>1. f = [n \in 1 .. k |-> f[n]] /\ \A n \in 1 .. k : ValueOK(f[n])
  BY DEF ValuesOK
<1>2. f \in Seq(S) /\ v \in S /\ Len(f) = k
  <2>1. f \in [1 .. k -> S]
    BY <1>1
  <2>2. v \in S
    OBVIOUS
  <2> HIDE DEF S
  <2> QED
    BY <2>1, <2>2
<1> HIDE DEF S
<1>3. g \in Seq(S) /\ Len(g) = k + 1
  BY <1>2
<1>4. \A n \in 1 .. k + 1 : g[n] = IF n = k + 1 THEN v ELSE f[n]
  BY <1>2
<1> HIDE DEF g
<1>5. g = [n \in 1 .. k + 1 |-> g[n]]
  BY <1>3
<1>6. \A n \in 1 .. k + 1 : ValueOK(g[n])
  <2>1. \A n \in 1 .. k + 1 : n = k + 1 \/ n \in 1 .. k
    OBVIOUS
  <2> QED
    BY <1>1, <1>4, <2>1
<1> QED
  BY <1>5, <1>6 DEF ValuesOK, g

LEMMA AnsweredFork ==
  ASSUME NEW k \in Nat, NEW s, LiveFork(s, k), NEW o, AnswerOK(o)
  PROVE  ForkOK(Answered(s, o), k + 1)
<1>1. CASE o.how = "ok"
  <2> DEFINE g == Append(s.val, o.val)
             t == [s EXCEPT !.val = g]
  <2>1. ValueOK(o.val)
    BY <1>1 DEF AnswerOK
  <2>2. Shaped(s) /\ s.out = "ok" /\ ValuesOK(s.val, k)
    BY DEF LiveFork, ForkOK
  <2>3. ValuesOK(g, k + 1)
    BY <2>1, <2>2, AppendValues
  <2>4. Answered(s, o) = t
    BY <1>1, <2>2 DEF Answered, Shaped
  <2> HIDE DEF g
  <2>5. Shaped(t) /\ t.val = g
    BY <2>2 DEF Shaped
  <2> HIDE DEF t
  <2> QED
    BY <2>3, <2>4, <2>5 DEF ForkOK
<1>2. CASE o.how # "ok"
  <2>1. o.how \in Outs \ {"ok"} /\ Answered(s, o) = End(s, o.how)
    BY <1>2 DEF AnswerOK, Answered
  <2> QED
    BY <2>1, EndKept
<1> QED
  BY <1>1, <1>2

LEMMA MakeNodes ==
  ASSUME RelInv, NEW node, NewNode(node), NEW x \in 0 .. 2 ^ node.w - 1,
         dag' = Append(dag, node), con' = Append(con, x), domain' = domain
  PROVE  /\ Nodes' = Nodes \cup {Len(dag) + 1} /\ Len(dag)' = Len(dag) + 1
         /\ DagShape' /\ NodesOK' /\ ConOK' /\ OpsIn'
<1> DEFINE k == Len(dag)
<1>1. dag \in Seq(NodeSet) /\ k \in Nat /\ Nodes = 1 .. k /\ node \in NodeSet
  BY NodesAre DEF RelInv, DagShape, NewNode
<1>2. dag' \in Seq(NodeSet) /\ Len(dag') = k + 1 /\ Nodes' = 1 .. k + 1
  BY <1>1 DEF Nodes
<1>3. \A n \in 1 .. k + 1 : dag'[n] = IF n = k + 1 THEN node ELSE dag[n]
  BY <1>1
<1>4. Nodes' = Nodes \cup {k + 1} /\ \A n \in Nodes' : n = k + 1 \/ (n \in Nodes /\ n # k + 1)
  BY <1>1, <1>2
<1>5. \A n \in Nodes' : dag'[n] = IF n = k + 1 THEN node ELSE dag[n]
  BY <1>2, <1>3
<1> DEFINE last == k + 1
<1>6. DagShape'
  <2>1. KidsBefore(node, last)
    BY DEF NewNode
  <2> HIDE DEF last, k
  <2>2. \A n \in Nodes' : KidsBefore(dag'[n], n)
    BY <1>4, <1>5, <2>1 DEF RelInv, DagShape, last
  <2> QED
    BY <1>2, <2>2 DEF DagShape, KidsBefore
<1>7. NodesOK'
  BY <1>4, <1>5 DEF RelInv, NodesOK, NewNode
<1>8. OpsIn'
  BY <1>4, <1>5 DEF RelInv, OpsIn, NewNode
<1>9. ConOK'
  <2>1. con \in Seq(Int) /\ Len(con) = k /\ \A n \in Nodes : con[n] \in 0 .. 2 ^ dag[n].w - 1
    BY DEF RelInv, ConOK
  <2>2. x \in Int
    OBVIOUS
  <2>3. con' \in Seq(Int) /\ Len(con') = k + 1 /\ \A n \in 1 .. k + 1 : con'[n] = IF n = k + 1 THEN x ELSE con[n]
    BY <1>1, <2>1, <2>2
  <2>4. ASSUME NEW n \in Nodes' PROVE con'[n] \in 0 .. 2 ^ dag'[n].w - 1
    <3>1. CASE n = k + 1
      <4>1. dag'[n] = node /\ con'[n] = x
        BY <1>2, <1>5, <2>3, <3>1
      <4> QED
        BY <4>1
    <3>2. CASE n # k + 1
      <4>1. n \in Nodes /\ dag'[n] = dag[n] /\ con'[n] = con[n]
        BY <1>2, <1>4, <1>5, <2>3, <3>2
      <4> QED
        BY <2>1, <4>1
    <3> QED
      BY <3>1, <3>2
  <2> QED
    BY <1>2, <2>3, <2>4 DEF ConOK
<1> QED
  BY <1>2, <1>4, <1>6, <1>7, <1>8, <1>9

\* The number of a node that a call makes, where calls are sound.
SettledCall(node, x) == Strict /\ domain = "sign" /\ node.op \in {"ne", "sgt"} => x = 0

LEMMA MakeSettles ==
  ASSUME RelInv, Strict, NEW node, NewNode(node), NEW x \in 0 .. 2 ^ node.w - 1, NEW answer,
         SettledCall(node, x), Make(node, x, answer)
  PROVE  AllSettled'
<1> DEFINE k == Len(dag)
<1>1. /\ dag' = Append(dag, node) /\ con' = Append(con, x) /\ domain' = domain
      /\ forks' = (forks \ Going) \cup UNION {{Answered(s, o) : o \in answer[s]} : s \in Going}
      /\ pending = 0 /\ pending' = IF node.op \in Compares \/ node.w = 1 THEN k + 1 ELSE 0
  BY DEF Make
<1>2. /\ dag \in Seq(NodeSet) /\ k \in Nat /\ Nodes = 1 .. k /\ node \in NodeSet
      /\ con \in Seq(Int) /\ Len(con) = k /\ x \in Int /\ AllSettled
  BY NodesAre DEF RelInv, DagShape, NewNode, ConOK
<1>3. /\ Nodes' = 1 .. k + 1
      /\ \A n \in 1 .. k + 1 : /\ dag'[n] = IF n = k + 1 THEN node ELSE dag[n]
                               /\ con'[n] = IF n = k + 1 THEN x ELSE con[n]
  BY <1>1, <1>2 DEF Nodes
<1> HIDE DEF k
<1>4. NoDelete'
  <2> SUFFICES ASSUME NEW n \in 1 .. k + 1, domain = "sign", dag'[n].op \in {"ne", "sgt"} PROVE con'[n] = 0
    BY <1>1, <1>3 DEF NoDelete, Deletes
  <2>1. CASE n = k + 1
    BY <1>3, <2>1 DEF SettledCall
  <2>2. CASE n # k + 1
    <3>1. n \in Nodes /\ dag'[n] = dag[n] /\ con'[n] = con[n]
      BY <1>2, <1>3, <2>2
    <3> QED
      BY <1>2, <3>1 DEF AllSettled, NoDelete, Deletes
  <2> QED
    BY <2>1, <2>2
<1>5. ASSUME NEW t \in Going', NEW n \in Nodes' \ {pending'}, domain = "sign", dag'[n].op \in {"ne", "sgt"}
      PROVE  t.val[n] # Gtz
  <2>1. n \in Nodes /\ dag'[n] = dag[n]
    <3>1. n \in 1 .. k + 1 /\ (n = k + 1 => node.op \notin Compares)
      BY <1>1, <1>3, <1>5
    <3>2. n # k + 1
      BY <1>3, <1>5, <3>1 DEF Compares
    <3> QED
      BY <1>2, <1>3, <3>1, <3>2
  <2>2. t \in forks' /\ t.out = "ok" /\ t \notin forks \ Going
    BY DEF Going
  <2>3. PICK s \in Going : \E o \in answer[s] : t = Answered(s, o)
    BY <1>1, <2>2
  <2>4. PICK o \in answer[s] : t = Answered(s, o)
    BY <2>3
  <2>5. Shaped(s) /\ ValuesOK(s.val, k)
    BY DEF RelInv, ForksOK, ForkOK, Going, k
  <2>6. t = [s EXCEPT !.val = Append(@, o.val)]
    <3>1. o.how # "ok" => t.out = o.how
      BY <2>4, <2>5, EndFork DEF Answered, End, Shaped
    <3> QED
      BY <2>2, <2>4, <3>1 DEF Answered
  <2>7. t.val = Append(s.val, o.val)
    BY <2>5, <2>6 DEF Shaped
  <2>8. t.val[n] = s.val[n]
    BY <1>2, <2>1, <2>5, <2>7 DEF ValuesOK
  <2>9. s.val[n] # Gtz
    BY <1>1, <1>2, <1>5, <2>1 DEF AllSettled, Settled, Deletes
  <2> QED
    BY <2>8, <2>9
<1> QED
  BY <1>1, <1>4, <1>5 DEF AllSettled, Settled, Deletes

\* A call of every fork keeps the invariant.
LEMMA MakeKeeps ==
  ASSUME RelInv, NEW node, NewNode(node), NEW x \in 0 .. 2 ^ node.w - 1, NEW answer,
         \A s \in Going : AnswersOK(answer[s]), SettledCall(node, x), Make(node, x, answer)
  PROVE  RelInv' /\ branches' = branches
<1>1. /\ dag' = Append(dag, node) /\ con' = Append(con, x) /\ domain' = domain /\ branches' = branches
      /\ forks' = (forks \ Going) \cup UNION {{Answered(s, o) : o \in answer[s]} : s \in Going}
      /\ pending' \in {Len(dag) + 1, 0}
  BY DEF Make
<1>2. /\ Nodes' = Nodes \cup {Len(dag) + 1} /\ Len(dag') = Len(dag) + 1
      /\ DagShape' /\ NodesOK' /\ ConOK' /\ OpsIn'
  BY <1>1, MakeNodes
<1>3. Len(dag) \in Nat
  BY NodesAre DEF RelInv
<1>4. ForksOK'
  <2>1. \A t \in forks' : ForkOK(t, Len(dag) + 1)
    <3> SUFFICES ASSUME NEW t \in forks' PROVE ForkOK(t, Len(dag) + 1)
      OBVIOUS
    <3>1. CASE t \in forks \ Going
      BY <3>1 DEF RelInv, ForksOK, ForkOK, Going
    <3>2. CASE t \in UNION {{Answered(s, o) : o \in answer[s]} : s \in Going}
      <4>1. PICK s \in Going : \E o \in answer[s] : t = Answered(s, o)
        BY <3>2
      <4>2. PICK o \in answer[s] : t = Answered(s, o)
        BY <4>1
      <4>3. LiveFork(s, Len(dag))
        BY DEF RelInv, ForksOK, LiveFork, Going
      <4>4. AnswerOK(o)
        BY DEF AnswersOK
      <4> QED
        BY <1>3, <4>2, <4>3, <4>4, AnsweredFork
    <3> QED
      BY <1>1, <3>1, <3>2
  <2> QED
    BY <1>1, <1>2, <2>1 DEF ForksOK, ForkOK, ValuesOK, ValueOK
<1>5. branches' \in Seq(Nodes')
  BY <1>1, <1>2 DEF RelInv
<1>6. pending' \in Nodes' \cup {0}
  BY <1>1, <1>2
<1>7. Strict => AllSettled'
  BY MakeSettles
<1> QED
  BY <1>1, <1>2, <1>4, <1>5, <1>6, <1>7 DEF RelInv
-----------------------------------------------------------------------------
(***************************************************************************)
(* The calls of a program.                                                 *)
(***************************************************************************)

LEMMA OpsAre ==
  ASSUME domain \in Domains, NEW op \in Ops[domain]
  PROVE  /\ op \in Arith \cup Compares \cup Casts /\ op \notin Leaves
         /\ op \notin Casts => op \in Arith \cup Compares
<1>1. op \in Arith \cup Compares \cup Casts
  BY ProgramAssumption
<1>2. op \notin Leaves
  BY <1>1 DEF Arith, Divisions, Shifts, Bits, Compares, Casts, Leaves
<1> QED
  BY <1>1, <1>2

LEMMA LeafNew ==
  ASSUME DagShape, NEW op \in Leaves
  PROVE  NewNode(Leaf(op)) /\ Leaf(op).w = Width /\ \A x : SettledCall(Leaf(op), x)
<1> DEFINE node == Leaf(op)
<1>1. node.op = op /\ node.kids = << >> /\ node.w = Width /\ node = [op |-> op, kids |-> << >>, w |-> Width]
  BY DEF Leaf, Tagged
<1>2. << >> \in Seq(Nat) /\ Width \in Widths
  BY WidthIn
<1>3. node \in NodeSet
  BY <1>1, <1>2 DEF NodeSet
<1>4. KidsBefore(node, Len(dag) + 1)
  BY <1>1 DEF KidsBefore
<1>5. \A x : SettledCall(node, x)
  BY <1>1 DEF SettledCall, Leaves
<1> QED
  BY <1>1, <1>3, <1>4, <1>5 DEF NewNode

LEMMA BinNew ==
  ASSUME DagShape, NEW op \in Arith \cup Compares, op \in Ops[domain], NEW a \in Nodes, NEW b \in Nodes,
         NEW w \in Widths
  PROVE  NewNode(Bin(op, a, b, w)) /\ Bin(op, a, b, w).w = w /\ Bin(op, a, b, w).op = op
<1> DEFINE node == Bin(op, a, b, w)
<1>1. node.op = op /\ node.kids = <<a, b>> /\ node.w = w /\ node = [op |-> op, kids |-> <<a, b>>, w |-> w]
  BY DEF Bin, Tagged
<1>2. Len(dag) \in Nat /\ a \in 1 .. Len(dag) /\ b \in 1 .. Len(dag)
  BY NodesAre
<1>3. <<a, b>> \in Seq(Nat)
  BY <1>2
<1>4. node \in NodeSet
  BY <1>1, <1>3 DEF NodeSet
<1>5. KidsBefore(node, Len(dag) + 1)
  BY <1>1, <1>2 DEF KidsBefore
<1> QED
  BY <1>1, <1>4, <1>5 DEF NewNode

LEMMA CastNew ==
  ASSUME DagShape, NEW op \in Casts, op \in Ops[domain], NEW a \in Nodes, NEW w \in Widths
  PROVE  NewNode(CastOf(op, a, w)) /\ CastOf(op, a, w).w = w /\ \A x : SettledCall(CastOf(op, a, w), x)
<1> DEFINE node == CastOf(op, a, w)
<1>1. node.op = op /\ node.kids = <<a>> /\ node.w = w /\ node = [op |-> op, kids |-> <<a>>, w |-> w]
  BY DEF CastOf, Tagged
<1>2. Len(dag) \in Nat /\ a \in 1 .. Len(dag)
  BY NodesAre
<1>3. <<a>> \in Seq(Nat)
  BY <1>2
<1>4. node \in NodeSet
  BY <1>1, <1>3 DEF NodeSet
<1>5. KidsBefore(node, Len(dag) + 1)
  BY <1>1, <1>2 DEF KidsBefore
<1>6. \A x : SettledCall(node, x)
  BY <1>1 DEF SettledCall, Casts
<1> QED
  BY <1>1, <1>4, <1>5, <1>6 DEF NewNode

LEMMA GoingLive ==
  ASSUME RelInv, NEW s \in Going, NEW n \in Nodes
  PROVE  LiveFork(s, Len(dag)) /\ ValueOK(s.val[n])
<1>1. LiveFork(s, Len(dag))
  BY DEF RelInv, ForksOK, LiveFork, Going
<1> QED
  BY <1>1, NodesAre, LiveParts DEF RelInv

LEMMA ConAt ==
  ASSUME RelInv, NEW n \in Nodes
  PROVE  dag[n].w \in Widths /\ con[n] \in 0 .. 2 ^ dag[n].w - 1 /\ con[n] \in Int
<1>1. dag[n] \in NodeSet
  BY NodesAre DEF RelInv
<1>2. con[n] \in 0 .. 2 ^ dag[n].w - 1
  BY DEF RelInv, ConOK
<1> QED
  BY <1>1, <1>2 DEF NodeSet

LEMMA AnyUnboundedKeeps ==
  ASSUME RelInv, AnyUnbounded
  PROVE  RelInv' /\ branches' = branches
<1> DEFINE node == Leaf("any")
           answer == [s \in Going |-> DomAny(domain, Unknowns + 1)]
<1>1. PICK x \in 0 .. 2 ^ Width - 1 : Make(node, x, answer)
  BY DEF AnyUnbounded
<1>2. NewNode(node) /\ node.w = Width /\ \A y : SettledCall(node, y)
  BY LeafNew DEF RelInv, Leaves
<1>3. \A s \in Going : AnswersOK(answer[s])
  BY DomAnyOK DEF RelInv
<1> HIDE DEF node, answer
<1> QED
  BY <1>1, <1>2, <1>3, MakeKeeps

LEMMA RangeNumbers ==
  ASSUME NEW r \in Ranges
  PROVE  /\ r \in (0 .. 2 ^ Width - 1) \X (0 .. 2 ^ Width - 1)
         /\ r[1] \in 0 .. 2 ^ Width - 1 /\ r[2] \in 0 .. 2 ^ Width - 1
         /\ \A x \in r[1] .. r[2] : x \in 0 .. 2 ^ Width - 1
<1>1. r \in (0 .. 2 ^ Width - 1) \X (0 .. 2 ^ Width - 1)
  BY ProgramAssumption
<1>2. 2 ^ Width \in Int
  BY WidthIn, PowerOfWidth
<1> QED
  BY <1>1, <1>2

LEMMA AnyRangeKeeps ==
  ASSUME RelInv, AnyRange
  PROVE  RelInv' /\ branches' = branches
<1> DEFINE node == Leaf("any")
<1>1. PICK r \in Ranges : \E x \in r[1] .. r[2] : Make(node, x, [s \in Going |-> DomRange(domain, r[1], r[2])])
  BY DEF AnyRange
<1> DEFINE answer == [s \in Going |-> DomRange(domain, r[1], r[2])]
<1>2. PICK x \in r[1] .. r[2] : Make(node, x, answer)
  BY <1>1
<1>3. r[1] \in 0 .. 2 ^ Width - 1 /\ r[2] \in 0 .. 2 ^ Width - 1 /\ x \in 0 .. 2 ^ Width - 1
  BY RangeNumbers
<1>4. NewNode(node) /\ node.w = Width /\ \A y : SettledCall(node, y)
  BY LeafNew DEF RelInv, Leaves
<1>5. \A s \in Going : AnswersOK(answer[s])
  BY <1>3, DomRangeOK DEF RelInv
<1> HIDE DEF node, answer
<1> QED
  BY <1>2, <1>3, <1>4, <1>5, MakeKeeps

LEMMA AnyOneOfKeeps ==
  ASSUME RelInv, AnyOneOf
  PROVE  RelInv' /\ branches' = branches
<1> DEFINE node == Leaf("any")
<1>1. PICK r \in Ranges : \E i \in {1, 2} : Make(node, r[i], [s \in Going |-> DomOneOf(domain, r)])
  BY DEF AnyOneOf
<1> DEFINE answer == [s \in Going |-> DomOneOf(domain, r)]
<1>2. PICK i \in {1, 2} : Make(node, r[i], answer)
  BY <1>1
<1>3. /\ r \in (0 .. 2 ^ Width - 1) \X (0 .. 2 ^ Width - 1)
      /\ r[i] \in 0 .. 2 ^ Width - 1
  BY RangeNumbers
<1>4. NewNode(node) /\ node.w = Width /\ \A y : SettledCall(node, y)
  BY LeafNew DEF RelInv, Leaves
<1>5. \A s \in Going : AnswersOK(answer[s])
  BY <1>3, DomOneOfOK DEF RelInv
<1> HIDE DEF node, answer
<1> QED
  BY <1>2, <1>3, <1>4, <1>5, MakeKeeps

LEMMA LiftKeeps ==
  ASSUME RelInv, Lift
  PROVE  RelInv' /\ branches' = branches
<1> DEFINE node == Leaf("lift")
<1>1. PICK x \in Lifted : Make(node, x, [s \in Going |-> DomLift(domain, x, Width)])
  BY DEF Lift
<1> DEFINE answer == [s \in Going |-> DomLift(domain, x, Width)]
<1>2. x \in 0 .. 2 ^ Width - 1
  BY ProgramAssumption
<1>3. NewNode(node) /\ node.w = Width /\ \A y : SettledCall(node, y)
  BY LeafNew DEF RelInv, Leaves
<1>4. \A s \in Going : AnswersOK(answer[s])
  BY <1>2, DomLiftOK DEF RelInv
<1>5. Make(node, x, answer)
  BY <1>1
<1> HIDE DEF node, answer
<1> QED
  BY <1>2, <1>3, <1>4, <1>5, MakeKeeps
\* Comparisons make truth values, other operations numbers of the same width.
LEMMA OperateNumber ==
  ASSUME NEW op \in Arith \cup Compares, NEW w \in Widths, NEW x \in Int, NEW y \in Int, Defined(op, x, y, w)
  PROVE  /\ op \in Compares => RawOp(op, x, y, w) \in 0 .. 2 ^ 1 - 1
         /\ op \notin Compares => MachineOp(op, x, y, w) \in 0 .. 2 ^ w - 1
<1>1. ASSUME op \in Compares PROVE RawOp(op, x, y, w) \in 0 .. 2 ^ 1 - 1
  <2>1. RawOp(op, x, y, w) \in {0, 1}
    BY <1>1, CompareTruth
  <2>2. 2 ^ 1 = 2
    BY PowerOfOne
  <2> DEFINE p == 2 ^ 1
  <2>3. p = 2
    BY <2>2
  <2> HIDE DEF p
  <2>4. RawOp(op, x, y, w) \in 0 .. p - 1
    BY <2>1, <2>3
  <2> QED
    BY <2>4 DEF p
<1>2. ASSUME op \notin Compares PROVE MachineOp(op, x, y, w) \in 0 .. 2 ^ w - 1
  BY <1>2, MachineOpRange
<1> QED
  BY <1>1, <1>2

LEMMA OperateKeeps ==
  ASSUME RelInv, Operate
  PROVE  RelInv' /\ branches' = branches
<1>1. PICK op \in Ops[domain] \ Casts, a \in Nodes, b \in Nodes :
         LET w == dag[a].w
         IN  /\ Defined(op, con[a], con[b], w) /\ (Strict => Sound(op, a, b))
             /\ Make(Bin(op, a, b, IF op \in Compares THEN 1 ELSE w),
                     IF op \in Compares THEN RawOp(op, con[a], con[b], w) ELSE MachineOp(op, con[a], con[b], w),
                     [s \in Going |-> DomOp(domain, op, s.val[a], s.val[b], w)])
  BY DEF Operate
<1> DEFINE w == dag[a].w
           v == IF op \in Compares THEN 1 ELSE w
           node == Bin(op, a, b, v)
           x == IF op \in Compares THEN RawOp(op, con[a], con[b], w) ELSE MachineOp(op, con[a], con[b], w)
           answer == [s \in Going |-> DomOp(domain, op, s.val[a], s.val[b], w)]
<1>2. Make(node, x, answer) /\ Defined(op, con[a], con[b], w)
  BY <1>1
<1>3. Strict /\ domain = "sign" /\ op \in {"ne", "sgt"} => RawOp(op, con[a], con[b], w) = 0
  BY <1>1 DEF Sound, SoundSign
<1>4. op \in Arith \cup Compares /\ op \in Ops[domain] /\ domain \in Domains
  BY OpsAre DEF RelInv
<1>5. w \in Widths /\ con[a] \in Int /\ con[b] \in Int
  BY ConAt
<1>6. \A s \in Going : AnswersOK(answer[s])
  <2>1. ASSUME NEW s \in Going PROVE AnswersOK(DomOp(domain, op, s.val[a], s.val[b], w))
    <3>1. ValueOK(s.val[a]) /\ ValueOK(s.val[b])
      BY GoingLive
    <3> HIDE DEF w
    <3> QED
      BY <1>4, <3>1, DomOpOK
  <2> QED
    BY <2>1
<1> HIDE DEF w, answer
<1>7. v \in Widths
  BY <1>5, WidthIn
<1>8. x \in 0 .. 2 ^ v - 1
  <2>1. CASE op \in Compares
    <3>1. v = 1 /\ x = RawOp(op, con[a], con[b], w)
      BY <2>1
    <3> HIDE DEF v, x
    <3> QED
      BY <1>2, <1>4, <1>5, <2>1, <3>1, OperateNumber
  <2>2. CASE op \notin Compares
    <3>1. v = w /\ x = MachineOp(op, con[a], con[b], w)
      BY <2>2
    <3> HIDE DEF v, x
    <3> QED
      BY <1>2, <1>4, <1>5, <2>2, <3>1, OperateNumber
  <2> QED
    BY <2>1, <2>2
<1>9. Strict /\ domain = "sign" /\ op \in {"ne", "sgt"} => x = 0
  BY <1>3 DEF Compares
<1> HIDE DEF x, v
<1>10. NewNode(node) /\ node.w = v /\ node.op = op
  BY <1>4, <1>7, BinNew DEF RelInv
<1> HIDE DEF node
<1>11. SettledCall(node, x)
  BY <1>10, <1>9 DEF SettledCall
<1> QED
  BY <1>2, <1>6, <1>8, <1>10, <1>11, MakeKeeps

LEMMA CastKeeps ==
  ASSUME RelInv, Cast
  PROVE  RelInv' /\ branches' = branches
<1>1. PICK op \in Ops[domain] \cap Casts, a \in Nodes, v \in {1, Width, 2 * Width} :
         LET w == dag[a].w
         IN  Make(CastOf(op, a, v), MachineCast(op, con[a], w, v),
                  [s \in Going |-> DomCast(domain, op, s.val[a], w, v)])
  BY DEF Cast
<1> DEFINE w == dag[a].w
           node == CastOf(op, a, v)
           x == MachineCast(op, con[a], w, v)
           answer == [s \in Going |-> DomCast(domain, op, s.val[a], w, v)]
<1>2. Make(node, x, answer)
  BY <1>1
<1>3. op \in Casts /\ op \in Ops[domain] /\ domain \in Domains /\ v \in Widths
  BY DEF RelInv, Widths
<1>4. w \in Widths /\ con[a] \in Int
  BY ConAt
<1>5. \A s \in Going : AnswersOK(answer[s])
  <2>1. ASSUME NEW s \in Going PROVE AnswersOK(DomCast(domain, op, s.val[a], w, v))
    <3>1. ValueOK(s.val[a])
      BY GoingLive
    <3> HIDE DEF w
    <3> QED
      BY <1>3, <3>1, DomCastOK
  <2> QED
    BY <2>1
<1> HIDE DEF w, answer
<1>6. x \in 0 .. 2 ^ v - 1
  BY <1>3, <1>4, MachineCastRange
<1>7. NewNode(node) /\ node.w = v /\ \A y : SettledCall(node, y)
  BY <1>3, CastNew DEF RelInv
<1> HIDE DEF node, x
<1> QED
  BY <1>2, <1>5, <1>6, <1>7, MakeKeeps

-----------------------------------------------------------------------------
(***************************************************************************)
(* The program's branch.                                                   *)
(***************************************************************************)

\* What a fork becomes when the condition n was c.
GoesOn(s, n, c) ==
    LET t == DomTristate(domain, s.val[n])
    IN  IF t = "fail" THEN {End(s, "trap")}
        ELSE IF c \in TriLower(t) THEN Assume(s, n, c) ELSE {}

LEMMA BranchIs ==
  ASSUME RelInv, Branch
  PROVE  /\ pending \in Nodes
         /\ forks' = (forks \ Going) \cup UNION {GoesOn(s, pending, con[pending] = 1) : s \in Going}
         /\ branches' = Append(branches, pending) /\ pending' = 0
         /\ domain' = domain /\ dag' = dag /\ con' = con
  BY DEF Branch, GoesOn, RelInv

LEMMA GoesOnKept ==
  ASSUME RelInv, NEW s \in Going, NEW n \in Nodes, NEW c \in BOOLEAN, con[n] = 0 => ~c
  PROVE  AllKept(GoesOn(s, n, c), s, Len(dag))
<1>1. LiveFork(s, Len(dag)) /\ Len(dag) \in Nat /\ DagShape /\ NodesOK
  BY GoingLive, NodesAre DEF RelInv
<1>2. DomTristate(domain, s.val[n]) # "fail" => AllKept(Assume(s, n, c), s, Len(dag))
  BY <1>1, AssumeKept
<1>3. Kept(End(s, "trap"), s, Len(dag))
  BY <1>1, EndKept DEF Outs
<1> QED
  BY <1>2, <1>3 DEF GoesOn, AllKept

\* A comparison of signs that surely came true is not taken for false.
LEMMA GoesOnSettled ==
  ASSUME RelInv, NEW s \in Going, NEW n \in Nodes, NEW c \in BOOLEAN, con[n] = 0 => ~c,
         NoDelete, Settled(s, Nodes \ {n}), NEW t \in GoesOn(s, n, c), t.out = "ok"
  PROVE  Settled(s, 1 .. Len(dag))
<1>1. Nodes = 1 .. Len(dag) /\ Shaped(s) /\ ValueOK(s.val[n])
  BY GoingLive, NodesAre, LiveParts DEF RelInv, LiveFork, ForkOK
<1>2. ASSUME Deletes(n) PROVE s.val[n] # Gtz
  <2>1. ~c /\ domain = "sign" /\ s.val[n] \in Signs \cup {Freed}
    BY <1>1, <1>2 DEF NoDelete, Deletes, ValueOK
  <2>2. SignTristate(s.val[n]) # "fail" /\ FALSE \in TriLower(SignTristate(s.val[n]))
    BY <1>1, <2>1, EndFork DEF GoesOn, DomTristate, Outs
  <2> QED
    BY <2>1, <2>2, SignLowered
<1> QED
  BY <1>1, <1>2 DEF Settled

LEMMA BranchKeeps ==
  ASSUME RelInv, Branch
  PROVE  RelInv'
<1> DEFINE c == con[pending] = 1
<1>1. /\ pending \in Nodes
      /\ forks' = (forks \ Going) \cup UNION {GoesOn(s, pending, c) : s \in Going}
      /\ branches' = Append(branches, pending) /\ pending' = 0
      /\ domain' = domain /\ dag' = dag /\ con' = con
  BY BranchIs
<1>2. c \in BOOLEAN /\ (con[pending] = 0 => ~c)
  OBVIOUS
<1> HIDE DEF c
<1>3. \A t \in forks' : ForkOK(t, Len(dag))
  <2>1. \A s \in Going : AllKept(GoesOn(s, pending, c), s, Len(dag))
    BY <1>1, <1>2, GoesOnKept
  <2>2. \A t \in forks : ForkOK(t, Len(dag))
    BY DEF RelInv, ForksOK
  <2> QED
    BY <1>1, <2>1, <2>2 DEF AllKept, Kept
<1>4. ForksOK'
  BY <1>1, <1>3 DEF ForksOK, ForkOK, ValuesOK, ValueOK
<1>5. Nodes' = Nodes
  BY <1>1 DEF Nodes
<1>6. DagShape' /\ NodesOK' /\ ConOK' /\ OpsIn'
  BY <1>1, <1>5 DEF RelInv, DagShape, NodesOK, ConOK, OpsIn
<1>7. branches' \in Seq(Nodes') /\ pending' \in Nodes' \cup {0}
  BY <1>1, <1>5 DEF RelInv
<1>8. ASSUME Strict PROVE AllSettled'
  <2>1. NoDelete /\ NoDelete'
    BY <1>1, <1>5, <1>8 DEF RelInv, AllSettled, NoDelete, Deletes
  <2>2. ASSUME NEW t \in Going' PROVE Settled(t, 1 .. Len(dag))
    <3>1. t \in forks' /\ t.out = "ok" /\ t \notin forks \ Going
      BY DEF Going
    <3>2. PICK s \in Going : t \in GoesOn(s, pending, c)
      BY <1>1, <3>1
    <3>3. Settled(s, Nodes \ {pending})
      BY <1>8 DEF RelInv, AllSettled
    <3>4. Settled(s, 1 .. Len(dag))
      BY <1>1, <1>2, <2>1, <3>1, <3>2, <3>3, GoesOnSettled
    <3>5. CASE domain = "sign"
      <4>1. Gentle
        BY <2>1, <3>5 DEF Gentle, NoFit
      <4> QED
        BY <1>1, <1>2, <3>1, <3>2, <3>4, <4>1, GoesOnKept DEF AllKept, Kept
    <3>6. CASE domain # "sign"
      BY <3>6 DEF Settled, Deletes
    <3> QED
      BY <3>5, <3>6
  <2>3. Nodes = 1 .. Len(dag)
    BY NodesAre DEF RelInv
  <2> QED
    BY <1>1, <1>5, <2>1, <2>2, <2>3 DEF AllSettled, Settled, Deletes
<1> QED
  BY <1>1, <1>4, <1>6, <1>7, <1>8 DEF RelInv

LEMMA InitKeeps == ASSUME RelInit PROVE RelInv
<1>1. /\ domain \in DomainSet /\ dag = << >> /\ con = << >> /\ branches = << >> /\ pending = 0
      /\ forks = {[val |-> << >>, out |-> "ok", solver |-> IF domain = "term" THEN Worlds ELSE {}]}
  BY DEF RelInit
<1>2. domain \in Domains
  BY <1>1, ProgramAssumption
<1>3. Nodes = {} /\ Len(dag) = 0
  BY <1>1 DEF Nodes
<1>4. dag \in Seq(NodeSet) /\ con \in Seq(Int) /\ Len(con) = Len(dag) /\ branches \in Seq(Nodes)
  BY <1>1
<1>5. DagShape /\ NodesOK /\ ConOK /\ OpsIn
  BY <1>3, <1>4 DEF DagShape, NodesOK, ConOK, OpsIn
<1>6. ForksOK
  <2> SUFFICES ASSUME NEW s \in forks PROVE ForkOK(s, 0)
    BY <1>3 DEF ForksOK
  <2>1. Shaped(s) /\ s.val = << >>
    BY <1>1 DEF Shaped, Outs
  <2>2. ValuesOK(<< >>, 0)
    BY DEF ValuesOK
  <2> QED
    BY <2>1, <2>2 DEF ForkOK
<1>7. AllSettled
  BY <1>3 DEF AllSettled, NoDelete, Settled
<1> QED
  BY <1>1, <1>2, <1>3, <1>4, <1>5, <1>6, <1>7 DEF RelInv

LEMMA StutterKeeps == ASSUME RelInv, UNCHANGED relVars PROVE RelInv'
<1>1. /\ domain' = domain /\ dag' = dag /\ con' = con /\ forks' = forks
      /\ pending' = pending /\ branches' = branches
  BY DEF relVars
<1>2. Nodes' = Nodes
  BY <1>1 DEF Nodes
<1>3. ForksOK'
  BY <1>1 DEF RelInv, ForksOK, ForkOK, ValuesOK, ValueOK
<1>4. DagShape' /\ NodesOK' /\ ConOK' /\ OpsIn'
  BY <1>1, <1>2 DEF RelInv, DagShape, NodesOK, ConOK, OpsIn
<1>5. Strict => AllSettled'
  BY <1>1, <1>2 DEF RelInv, AllSettled, NoDelete, Settled, Deletes, Going
<1> QED
  BY <1>1, <1>2, <1>3, <1>4, <1>5 DEF RelInv

LEMMA RelInvariant == RelSpec => []RelInv
<1>1. RelInit => RelInv
  BY InitKeeps
<1>2. RelInv /\ [RelNext]_relVars => RelInv'
  <2> SUFFICES ASSUME RelInv, [RelNext]_relVars PROVE RelInv'
    OBVIOUS
  <2>1. CASE AnyUnbounded
    BY <2>1, AnyUnboundedKeeps
  <2>2. CASE AnyRange
    BY <2>2, AnyRangeKeeps
  <2>3. CASE AnyOneOf
    BY <2>3, AnyOneOfKeeps
  <2>4. CASE Lift
    BY <2>4, LiftKeeps
  <2>5. CASE Operate
    BY <2>5, OperateKeeps
  <2>6. CASE Cast
    BY <2>6, CastKeeps
  <2>7. CASE Branch
    BY <2>7, BranchKeeps
  <2>8. CASE UNCHANGED relVars
    BY <2>8, StutterKeeps
  <2> QED
    BY <2>1, <2>2, <2>3, <2>4, <2>5, <2>6, <2>7, <2>8 DEF RelNext
<1> QED
  BY <1>1, <1>2, PTL DEF RelSpec
\* For every program and library: operands come before their results, numbers
\* keep their widths, every fork that runs has made every value, and what waits
\* for its branch or was branched on is a value (history.hpp:31-98,
\* wrapper.hpp:316-331).
THEOREM ValuesAreMade == RelSpec => []RelTypeOK
<1>1. RelInv => RelTypeOK
  <2> SUFFICES ASSUME RelInv PROVE RelTypeOK
    OBVIOUS
  <2>1. \A n \in Nodes : /\ dag[n].w \in {1, Width, 2 * Width}
                         /\ \A i \in DOMAIN dag[n].kids : dag[n].kids[i] \in 1 .. n - 1
                         /\ con[n] \in 0 .. 2 ^ dag[n].w - 1
    BY ConAt DEF RelInv, DagShape, KidsBefore, Widths
  <2>2. \A s \in Going : Len(s.val) = Len(dag)
    <3> SUFFICES ASSUME NEW s \in Going PROVE Len(s.val) = Len(dag)
      OBVIOUS
    <3> DEFINE k == Len(dag)
    <3>1. k \in Nat /\ LiveFork(s, k)
      BY NodesAre DEF RelInv, ForksOK, LiveFork, Going
    <3>2. s.val = [n \in 1 .. k |-> s.val[n]]
      BY <3>1, LiveParts
    <3> HIDE DEF k
    <3>3. Len(s.val) = k
      BY <3>1, <3>2
    <3> QED
      BY <3>3 DEF k
  <2>3. \A s \in forks : s.out \in {"ok", "trap", "wild", "stuck"} /\ s.solver \subseteq Worlds
    BY DEF RelInv, ForksOK, ForkOK, Shaped, Outs
  <2>4. Range(branches) \subseteq Nodes
    BY DEF RelInv, Range
  <2> QED
    BY <2>1, <2>2, <2>3, <2>4 DEF RelInv, RelTypeOK
<1> QED
  BY <1>1, RelInvariant, PTL

LEMMA BelowNarrower ==
  ASSUME domain # "term", NEW v, NEW old, ValueOK(v), ValueOK(old), ValueBelow(v, old), NEW w \in Widths
  PROVE  Narrower(v, old, w)
<1>0. domain = "sign" /\ v = Freed => old = Freed
  BY DEF ValueBelow, SignBelow
<1> SUFFICES ASSUME NEW x \in 0 .. 2 ^ w - 1, DomMeaning(domain, v, x, w) PROVE DomMeaning(domain, old, x, w)
  BY <1>0 DEF Narrower
<1> DEFINE n == IF w = 1 THEN x ELSE Signed(x, w)
<1>1. n \in Int
  BY SignedInt
<1>2. CASE domain = "interval"
  <2>1. IvMeaning(v, n)
    BY <1>2 DEF DomMeaning
  <2> HIDE DEF n
  <2>2. v \in Intervals /\ old \in Intervals /\ IvBelow(v, old)
    BY <1>2 DEF ValueOK, ValueBelow
  <2>3. /\ Low(v) \in Int /\ High(v) \in Int /\ Low(old) \in Int /\ High(old) \in Int
        /\ MinusInf <= Low(old) /\ High(old) <= PlusInf
    BY <2>2, IvParts, BoundsInt
  <2>4. IvMeaning(old, n)
    BY <1>1, <2>1, <2>2, <2>3, BoundFacts DEF IvMeaning, IvBelow
  <2> QED
    BY <1>2, <2>4 DEF DomMeaning, n
<1>3. CASE domain = "sign"
  <2>1. SignMeaning(v, n)
    BY <1>3 DEF DomMeaning
  <2> HIDE DEF n
  <2>2. SignMeaning(old, n)
    BY <1>1, <1>3, <2>1 DEF ValueBelow, SignBelow
  <2> QED
    BY <1>3, <2>2 DEF DomMeaning, n
<1>4. CASE domain = "zero"
  <2>1. ZeroMeaning(v, n)
    BY <1>4 DEF DomMeaning
  <2> HIDE DEF n
  <2>2. ZeroMeaning(old, n)
    BY <1>1, <1>4, <2>1 DEF ValueBelow, ZeroBelow
  <2> QED
    BY <1>4, <2>2 DEF DomMeaning, n
<1>5. CASE domain \notin {"interval", "sign", "zero"}
  <2>1. v = old
    BY <1>5 DEF ValueBelow
  <2> QED
    BY <2>1
<1> QED
  BY <1>2, <1>3, <1>4, <1>5

LEMMA BranchNarrows ==
  ASSUME RelInv, NoFit, domain = "sign" => AllSettled, Branch
  PROVE  Narrows
<1> DEFINE c == con[pending] = 1
           k == Len(dag)
<1>1. /\ pending \in Nodes
      /\ forks' = (forks \ Going) \cup UNION {GoesOn(s, pending, c) : s \in Going}
  BY BranchIs
<1>2. c \in BOOLEAN /\ (con[pending] = 0 => ~c)
  OBVIOUS
<1> HIDE DEF c
<1> SUFFICES ASSUME NEW t \in Going'
             PROVE  \E s \in Going :
                       /\ t.solver \subseteq s.solver
                       /\ domain # "term" => \A n \in Nodes : Narrower(t.val[n], s.val[n], dag[n].w)
  BY DEF Narrows
<1>3. t \in forks' /\ t.out = "ok" /\ t \notin forks \ Going
  BY DEF Going
<1>4. PICK s \in Going : t \in GoesOn(s, pending, c)
  BY <1>1, <1>3
<1>5. Kept(t, s, k)
  BY <1>1, <1>2, <1>4, GoesOnKept DEF AllKept
<1>6. k \in Nat /\ Nodes = 1 .. k
  BY NodesAre DEF RelInv
<1>7. Gentle /\ Settled(s, 1 .. k)
  <2>1. CASE domain = "sign"
    BY <1>1, <1>2, <1>3, <1>4, <2>1, GoesOnSettled DEF AllSettled, Gentle
  <2>2. CASE domain # "sign"
    BY <2>2 DEF Gentle, NoDelete, Settled, Deletes
  <2> QED
    BY <2>1, <2>2
<1>8. ASSUME domain # "term", NEW n \in Nodes PROVE Narrower(t.val[n], s.val[n], dag[n].w)
  <2>1. LiveFork(t, k) /\ LiveFork(s, k)
    BY <1>3, <1>5, <1>6, KeptLive, GoingLive, <1>8
  <2>2. ValueOK(t.val[n]) /\ ValueOK(s.val[n])
    BY <1>6, <2>1, LiveParts
  <2>3. ValueBelow(t.val[n], s.val[n])
    BY <1>3, <1>5, <1>6, <1>7 DEF Kept
  <2>4. dag[n].w \in Widths
    BY ConAt
  <2> QED
    BY <1>8, <2>2, <2>3, <2>4, BelowNarrower
<1> QED
  BY <1>5, <1>8 DEF Kept

\* What a branch teaches removes possibilities of every value, adds none, and
\* deletes none, for every library and program but two. Where intervals are
\* fitted to the width of a result, the code takes the operand's new interval
\* from the result without meeting the old one. Where a != or > of signs comes
\* true, its left operand is deleted; sound calls exclude that
\* (relational.hpp:84-203, interval.hpp:196-404, sign.hpp:380-396).
THEOREM BranchesNarrow ==
  ASSUME "zfit" \notin Ops["interval"], Strict \/ "sign" \notin DomainSet
  PROVE  RelSpec => Narrowing
<1>1. RelInv => NoFit
  <2> SUFFICES ASSUME RelInv, domain = "interval", NEW n \in Nodes PROVE dag[n].op # "zfit"
    BY DEF NoFit
  <2>1. "zfit" \notin Leaves
    BY DEF Leaves
  <2> QED
    BY <2>1 DEF RelInv, OpsIn
<1>2. RelInv /\ [RelNext]_relVars => [branches' # branches => Narrows]_relVars
  <2> SUFFICES ASSUME RelInv, RelNext, branches' # branches PROVE Narrows
    OBVIOUS
  <2>1. Branch
    BY AnyUnboundedKeeps, AnyRangeKeeps, AnyOneOfKeeps, LiftKeeps, OperateKeeps, CastKeeps DEF RelNext
  <2>2. domain = "sign" => AllSettled
    BY DEF RelInv
  <2> QED
    BY <1>1, <2>1, <2>2, BranchNarrows
<1> QED
  BY <1>2, RelInvariant, PTL DEF RelSpec, Narrowing

-----------------------------------------------------------------------------
(***************************************************************************)
(* Numbers of a width: what a remainder keeps, signs, and bits that are    *)
(* all zero.                                                               *)
(***************************************************************************)

LEMMA PowerOfZero == 2 ^ 0 = 1
<1>1. IsFiniteSet({}) /\ Cardinality({}) = 0
  BY FS_EmptySet
<1>2. Cardinality(SUBSET {}) = 2 ^ 0
  BY <1>1, FS_SUBSET
<1>3. IsFiniteSet({{}}) /\ Cardinality({{}}) = 1 /\ SUBSET {} = {{}}
  BY FS_Singleton
<1> QED
  BY <1>2, <1>3

\* The subsets of a set come from those of its two parts.
LEMMA PowerSum ==
  ASSUME NEW a \in Nat, NEW b \in Nat
  PROVE  2 ^ (a + b) = 2 ^ a * 2 ^ b
<1> DEFINE A == 1 .. a
           B == a + 1 .. a + b
           C == 1 .. a + b
           S == (SUBSET A) \X (SUBSET B)
           f == [p \in S |-> p[1] \cup p[2]]
<1>1. /\ IsFiniteSet(A) /\ Cardinality(A) = a
      /\ IsFiniteSet(B) /\ Cardinality(B) = b
      /\ IsFiniteSet(C) /\ Cardinality(C) = a + b
  <2>1. IsFiniteSet(A) /\ Cardinality(A) = a
    BY FS_Interval
  <2>2. IsFiniteSet(B) /\ Cardinality(B) = b
    BY FS_Interval
  <2>3. IsFiniteSet(C) /\ Cardinality(C) = a + b
    <3> DEFINE n == a + b
    <3>1. n \in Nat
      OBVIOUS
    <3> HIDE DEF n
    <3>2. IsFiniteSet(1 .. n) /\ Cardinality(1 .. n) = n
      BY <3>1, FS_Interval
    <3> QED
      BY <3>2 DEF n
  <2> QED
    BY <2>1, <2>2, <2>3
<1>2. A \cup B = C /\ A \cap B = {}
  OBVIOUS
<1> HIDE DEF A, B, C
<1>3. /\ IsFiniteSet(SUBSET A) /\ Cardinality(SUBSET A) = 2 ^ a
      /\ IsFiniteSet(SUBSET B) /\ Cardinality(SUBSET B) = 2 ^ b
      /\ IsFiniteSet(SUBSET C) /\ Cardinality(SUBSET C) = 2 ^ (a + b)
  <2>1. IsFiniteSet(SUBSET A) /\ Cardinality(SUBSET A) = 2 ^ a
    BY <1>1, FS_SUBSET
  <2>2. IsFiniteSet(SUBSET B) /\ Cardinality(SUBSET B) = 2 ^ b
    BY <1>1, FS_SUBSET
  <2>3. IsFiniteSet(SUBSET C) /\ Cardinality(SUBSET C) = 2 ^ (a + b)
    BY <1>1, FS_SUBSET
  <2> QED
    BY <2>1, <2>2, <2>3
<1>4. IsFiniteSet(S) /\ Cardinality(S) = 2 ^ a * 2 ^ b
  <2>1. IsFiniteSet(S) /\ Cardinality(S) = Cardinality(SUBSET A) * Cardinality(SUBSET B)
    BY <1>3, FS_Product
  <2> QED
    BY <1>3, <2>1
<1>5. f \in [S -> SUBSET C]
  BY <1>2
<1>6. ASSUME NEW p \in S, NEW q \in S, f[p] = f[q] PROVE p = q
  <2>1. p[1] \subseteq A /\ p[2] \subseteq B /\ q[1] \subseteq A /\ q[2] \subseteq B
    OBVIOUS
  <2>2. p[1] \cup p[2] = q[1] \cup q[2]
    BY <1>6
  <2>3. p[1] = q[1] /\ p[2] = q[2]
    BY <1>2, <2>1, <2>2
  <2> QED
    BY <2>3
<1>7. ASSUME NEW X \in SUBSET C PROVE \E p \in S : f[p] = X
  <2>1. <<X \cap A, X \cap B>> \in S
    OBVIOUS
  <2>2. f[<<X \cap A, X \cap B>>] = X
    BY <1>2, <2>1
  <2> QED
    BY <2>1, <2>2
<1> HIDE DEF S, f
<1>8. f \in Bijection(S, SUBSET C)
  BY <1>5, <1>6, <1>7 DEF Bijection, Injection, IsInjective, Surjection
<1>9. ExistsBijection(S, SUBSET C)
  BY <1>8 DEF ExistsBijection
<1> QED
  BY <1>3, <1>4, <1>9, FS_Bijection

\* A number is made of its quotient and its remainder, in one way.
LEMMA DivisionParts ==
  \A x, m \in Int : m > 0 => x = m * (x \div m) + (x % m)
  OBVIOUS

LEMMA RemainderUnique ==
  ASSUME NEW m \in Int, m > 0, NEW k \in Int, NEW c \in Int, 0 <= c, c < m
  PROVE  (m * k + c) % m = c
<1> DEFINE x == m * k + c
           q == x \div m
           r == x % m
<1>1. x \in Int
  OBVIOUS
<1>2. x = m * q + r /\ q \in Int /\ r \in Int /\ 0 <= r /\ r < m
  <2> HIDE DEF x
  <2> QED
    BY <1>1, DivisionParts, QuotientInt, RemainderRange
<1> HIDE DEF q, r
<1>3. m * (q - k) = c - r
  <2>1. m * q + r = m * k + c
    BY <1>2
  <2>2. m * (q - k) = m * q - m * k
    BY <1>2
  <2>3. m * q \in Int /\ m * k \in Int
    BY <1>2
  <2> DEFINE u == m * q
             v == m * k
  <2> HIDE DEF u, v
  <2>4. u - v = c - r
    <3>1. u + r = v + c /\ u \in Int /\ v \in Int
      BY <2>1, <2>3 DEF u, v
    <3> QED
      BY <1>2, <3>1
  <2> QED
    BY <2>2, <2>4 DEF u, v
<1>4. q - k = 0
  <2>1. \A d \in Int : d >= 1 => m * d >= m
    OBVIOUS
  <2>2. \A d \in Int : d <= -1 => m * d <= -m
    OBVIOUS
  <2>3. q - k \in Int /\ -m < m * (q - k) /\ m * (q - k) < m
    BY <1>2, <1>3
  <2> DEFINE d == q - k
             e == m * d
  <2>4. d \in Int /\ e \in Int /\ -m < e /\ e < m /\ (d >= 1 => e >= m) /\ (d <= -1 => e <= -m)
    BY <2>1, <2>2, <2>3
  <2> HIDE DEF d, e
  <2>5. d = 0
    BY <2>4
  <2> QED
    BY <2>5 DEF d
<1>5. c - r = 0
  <2>1. m * 0 = 0
    OBVIOUS
  <2> QED
    BY <1>3, <1>4, <2>1
<1>6. r = c
  BY <1>2, <1>5
<1> QED
  BY <1>6 DEF r

\* A remainder by a multiple says as much about the remainder by the factor.
LEMMA RemainderOfRemainder ==
  ASSUME NEW m \in Int, m > 0, NEW q \in Int, q > 0, NEW x \in Int
  PROVE  (x % (m * q)) % m = x % m
<1> DEFINE n == m * q
           t == x \div n
           r == x % n
           c == r % m
           d == r \div m
<1>1. n \in Int /\ n > 0
  OBVIOUS
<1>2. x = n * t + r /\ t \in Int /\ r \in Int
  <2> HIDE DEF n
  <2> QED
    BY <1>1, DivisionParts, QuotientInt, RemainderRange
<1>3. r = m * d + c /\ d \in Int /\ c \in Int /\ 0 <= c /\ c < m
  <2> HIDE DEF r
  <2> QED
    BY <1>2, DivisionParts, QuotientInt, RemainderRange
<1> HIDE DEF t, r, c, d
<1>4. x = m * (q * t + d) + c
  <2>1. n * t = m * (q * t)
    BY <1>2
  <2>2. m * (q * t + d) = m * (q * t) + m * d
    BY <1>2, <1>3
  <2>3. m * (q * t) \in Int /\ m * d \in Int /\ n * t \in Int
    BY <1>1, <1>2, <1>3
  <2> DEFINE u == n * t
             v == m * (q * t)
             w == m * d
             y == m * (q * t + d)
  <2>4. u = v /\ y = v + w /\ u \in Int /\ v \in Int /\ w \in Int /\ x = u + r /\ r = w + c
    BY <1>2, <1>3, <2>1, <2>2, <2>3
  <2> HIDE DEF u, v, w, y
  <2>5. x = y + c
    BY <1>2, <1>3, <2>4
  <2> QED
    BY <2>5 DEF y
<1>5. q * t + d \in Int
  BY <1>2, <1>3
<1>6. x % m = c
  <2> DEFINE k == q * t + d
  <2>1. k \in Int /\ x = m * k + c
    BY <1>4, <1>5
  <2> HIDE DEF k
  <2> QED
    BY <1>3, <2>1, RemainderUnique
<1> QED
  BY <1>6 DEF c, r, n

LEMMA PowerRemainder ==
  ASSUME NEW a \in Nat, NEW b \in Nat, NEW x \in Int
  PROVE  (x % 2 ^ (a + b)) % 2 ^ a = x % 2 ^ a
<1>1. 2 ^ a \in Int /\ 2 ^ a > 0 /\ 2 ^ b \in Int /\ 2 ^ b > 0
  BY PowerPositive
<1>2. (x % (2 ^ a * 2 ^ b)) % 2 ^ a = x % 2 ^ a
  <2> DEFINE m == 2 ^ a
             q == 2 ^ b
  <2>1. m \in Int /\ m > 0 /\ q \in Int /\ q > 0
    BY <1>1
  <2> HIDE DEF m, q
  <2>2. (x % (m * q)) % m = x % m
    BY <2>1, RemainderOfRemainder
  <2> QED
    BY <2>2 DEF m, q
<1> QED
  BY <1>2, PowerSum


\* Widths of a program's numbers and their powers.
LEMMA PowerHalf ==
  ASSUME NEW w \in Widths
  PROVE  2 ^ w = 2 * 2 ^ (w - 1) /\ 2 ^ w \in Int /\ 2 ^ w > 1 /\ 2 ^ (w - 1) \in Int /\ 2 ^ (w - 1) > 0
<1>1. w - 1 \in Nat /\ 1 \in Nat /\ 1 + (w - 1) = w
  BY WidthIn
<1>2. 2 ^ (1 + (w - 1)) = 2 ^ 1 * 2 ^ (w - 1)
  BY <1>1, PowerSum
<1>3. 2 ^ w = 2 * 2 ^ (w - 1)
  BY <1>1, <1>2, PowerOfOne
<1>4. 2 ^ w \in Int /\ 2 ^ (w - 1) \in Int /\ 2 ^ (w - 1) > 0
  BY PowerOfWidth
<1> DEFINE p == 2 ^ w
           h == 2 ^ (w - 1)
<1>5. p = 2 * h /\ h \in Int /\ h > 0
  BY <1>3, <1>4
<1> HIDE DEF p, h
<1>6. p > 1
  BY <1>5
<1> QED
  BY <1>3, <1>4, <1>6 DEF p

LEMMA PowerGrows ==
  ASSUME NEW w \in Widths, NEW v \in Widths, w < v
  PROVE  2 ^ w <= 2 ^ v
<1>1. w \in Nat /\ v - w \in Nat /\ w + (v - w) = v
  BY WidthIn
<1>2. 2 ^ v = 2 ^ w * 2 ^ (v - w)
  <2>1. 2 ^ (w + (v - w)) = 2 ^ w * 2 ^ (v - w)
    BY <1>1, PowerSum
  <2> QED
    BY <1>1, <2>1
<1>3. 2 ^ w \in Nat /\ 2 ^ (v - w) \in Nat /\ 2 ^ (v - w) >= 1
  BY <1>1, PowerPositive
<1>4. \A x, y \in Nat : y >= 1 => x * y >= x
  OBVIOUS
<1> DEFINE x == 2 ^ w
           y == 2 ^ (v - w)
<1>5. x * y >= x
  BY <1>3, <1>4
<1> QED
  BY <1>2, <1>5

LEMMA SmallRemainder == \A x, m \in Int : 0 <= x /\ x < m => x % m = x
  OBVIOUS

LEMMA NegativeRemainder == \A x, m \in Int : -m <= x /\ x < 0 => x % m = x + m
<1> SUFFICES ASSUME NEW x \in Int, NEW m \in Int, -m <= x, x < 0 PROVE x % m = x + m
  OBVIOUS
<1>1. (m * (-1) + (x + m)) % m = x + m
  BY RemainderUnique
<1>2. m * (-1) + (x + m) = x
  OBVIOUS
<1> QED
  BY <1>1, <1>2

\* A number of the program is its own remainder; its sign follows its half.
LEMMA NumberOfWidth ==
  ASSUME NEW w \in Widths, NEW x \in 0 .. 2 ^ w - 1
  PROVE  /\ x \in Int /\ Unsigned(x, w) = x
         /\ Signed(x, w) = IF x >= 2 ^ (w - 1) THEN x - 2 ^ w ELSE x
<1>1. 2 ^ w \in Int
  BY PowerHalf
<1>2. x % 2 ^ w = x
  <2> DEFINE m == 2 ^ w
  <2>1. m \in Int /\ x \in 0 .. m - 1
    BY <1>1
  <2> HIDE DEF m
  <2>2. x % m = x
    BY <2>1, SmallRemainder
  <2> QED
    BY <2>2 DEF m
<1> QED
  BY <1>1, <1>2 DEF Unsigned, Signed

LEMMA SignedParts ==
  ASSUME NEW w \in Widths, NEW x \in 0 .. 2 ^ w - 1
  PROVE  /\ Signed(x, w) \in Int /\ (Signed(x, w) = 0 <=> x = 0)
         /\ -(2 ^ w) < Signed(x, w) /\ Signed(x, w) < 2 ^ w
         /\ Unsigned(Signed(x, w), w) = x
<1> DEFINE m == 2 ^ w
           h == 2 ^ (w - 1)
           s == Signed(x, w)
<1>1. m \in Int /\ h \in Int /\ h > 0 /\ m = 2 * h /\ x \in 0 .. m - 1
  BY PowerHalf
<1>2. s = IF x >= h THEN x - m ELSE x
  BY NumberOfWidth
<1> HIDE DEF m, h, s
<1>3. s \in Int /\ (s = 0 <=> x = 0) /\ -m < s /\ s < m
  BY <1>1, <1>2
<1>4. s % m = x
  <2>1. CASE x >= h
    <3>1. s % m = s + m
      BY <1>1, <1>2, <2>1, NegativeRemainder
    <3> QED
      BY <1>1, <1>2, <2>1, <3>1
  <2>2. CASE ~(x >= h)
    BY <1>1, <1>2, <2>2, SmallRemainder
  <2> QED
    BY <2>1, <2>2
<1> QED
  BY <1>3, <1>4 DEF Unsigned, s, m

\* Cutting a number to its width changes neither its value nor its sign.
LEMMA CutNumber ==
  ASSUME NEW w \in Widths, NEW x \in Int
  PROVE  /\ Unsigned(Unsigned(x, w), w) = Unsigned(x, w)
         /\ Signed(Unsigned(x, w), w) = Signed(x, w)
<1>1. Unsigned(x, w) \in 0 .. 2 ^ w - 1
  BY UnsignedRange
<1>2. Unsigned(Unsigned(x, w), w) = Unsigned(x, w)
  BY <1>1, NumberOfWidth
<1>3. Unsigned(x, w) % 2 ^ w = x % 2 ^ w
  BY <1>2 DEF Unsigned
<1> QED
  BY <1>2, <1>3 DEF Signed

\* Numbers of the same sign are the same number.
LEMMA SignedSame ==
  ASSUME NEW w \in Widths, NEW x \in 0 .. 2 ^ w - 1, NEW y \in 0 .. 2 ^ w - 1
  PROVE  Signed(x, w) = Signed(y, w) <=> x = y
  BY SignedParts


\* A bit is never negative.
LEMMA BitsAre ==
  ASSUME NEW x \in Int, NEW i \in Nat
  PROVE  Bit(x, i) \in {0, 1}
<1>1. 2 ^ i \in Int /\ 2 ^ i > 0
  BY PowerPositive
<1>2. (x \div 2 ^ i) \in Int
  BY <1>1, QuotientInt
<1>3. \A z \in Int : z % 2 \in {0, 1}
  OBVIOUS
<1> QED
  BY <1>2, <1>3 DEF Bit

LEMMA BitAtCases ==
  ASSUME NEW x \in Int, NEW y \in Int, NEW i \in Nat
  PROVE  /\ BitAt("and", x, y, i) = (IF Bit(x, i) = 1 /\ Bit(y, i) = 1 THEN 1 ELSE 0)
         /\ BitAt("or", x, y, i) = (IF Bit(x, i) = 1 \/ Bit(y, i) = 1 THEN 1 ELSE 0)
         /\ BitAt("xor", x, y, i) = (IF Bit(x, i) = Bit(y, i) THEN 0 ELSE 1)
<1> DEFINE a == Bit(x, i)
           b == Bit(y, i)
<1>1. a \in {0, 1} /\ b \in {0, 1}
  BY BitsAre
<1>2. /\ BitAt("and", x, y, i) = (a + b) \div 2 /\ BitAt("or", x, y, i) = Lesser(a + b, 1)
      /\ BitAt("xor", x, y, i) = (a + b) % 2
  BY DEF BitAt
<1> HIDE DEF a, b
<1>3. 0 \div 2 = 0 /\ 1 \div 2 = 0 /\ 2 \div 2 = 1 /\ 0 % 2 = 0 /\ 1 % 2 = 1 /\ 2 % 2 = 0
  OBVIOUS
<1>4. Lesser(0, 1) = 0 /\ Lesser(1, 1) = 1 /\ Lesser(2, 1) = 1
  BY DEF Lesser
<1>5. \/ a = 0 /\ b = 0 /\ a + b = 0
      \/ a = 0 /\ b = 1 /\ a + b = 1
      \/ a = 1 /\ b = 0 /\ a + b = 1
      \/ a = 1 /\ b = 1 /\ a + b = 2
  BY <1>1
<1>6. (a + b) \div 2 = IF a = 1 /\ b = 1 THEN 1 ELSE 0
  BY <1>3, <1>5
<1>7. Lesser(a + b, 1) = IF a = 1 \/ b = 1 THEN 1 ELSE 0
  BY <1>4, <1>5
<1>8. (a + b) % 2 = IF a = b THEN 0 ELSE 1
  BY <1>3, <1>5
<1> QED
  BY <1>2, <1>6, <1>7, <1>8 DEF a, b

LEMMA ZeroBits == \A i \in Nat : Bit(0, i) = 0
<1> SUFFICES ASSUME NEW i \in Nat PROVE Bit(0, i) = 0
  OBVIOUS
<1>1. \A m \in Int : m > 0 => 0 \div m = 0
  OBVIOUS
<1>2. 0 \div 2 ^ i = 0
  BY <1>1, PowerPositive
<1>3. 0 % 2 = 0
  OBVIOUS
<1> QED
  BY <1>2, <1>3 DEF Bit

\* If no bit is set, the number is 0.
LEMMA NoBits ==
  ASSUME NEW op \in Bits, NEW x \in Int, NEW y \in Int, NEW w \in Nat,
         \A i \in Nat : BitAt(op, x, y, i) = 0
  PROVE  BitOp(op, x, y, w) = 0
<1> DEFINE sum == BitSum(op, x, y, w)
           Good == {k \in 0 .. w : sum[k] = 0}
<1>1. sum[0] = 0 /\ \A k \in 0 .. w - 1 : sum[k + 1] = sum[k] + BitAt(op, x, y, k) * 2 ^ k
  BY BitSumEquation
<1> HIDE DEF sum
<1>2. ASSUME NEW k \in 0 .. w - 1, k \in Good PROVE k + 1 \in Good
  <2>1. \A p \in Int : 0 + 0 * p = 0
    OBVIOUS
  <2>2. 2 ^ k \in Int /\ k \in Nat
    BY PowerPositive
  <2>3. sum[k + 1] = sum[k] + BitAt(op, x, y, k) * 2 ^ k /\ sum[k] = 0 /\ BitAt(op, x, y, k) = 0
    BY <1>1, <1>2, <2>2
  <2>4. k + 1 \in 0 .. w
    OBVIOUS
  <2> QED
    BY <2>1, <2>2, <2>3, <2>4
<1>3. 0 \in Good
  BY <1>1
<1>4. 0 .. w \subseteq Good
  <2> HIDE DEF Good
  <2> QED
    BY <1>2, <1>3, Climb
<1>5. sum[w] = 0
  BY <1>4
<1> QED
  BY <1>5 DEF BitOp, sum

\* A number without bits below a place is a multiple of the power of the place.
LEMMA BitCleared ==
  ASSUME NEW z \in Int, NEW k \in Nat, z % 2 ^ k = 0, Bit(z, k) = 0
  PROVE  z % 2 ^ (k + 1) = 0
<1> DEFINE p == 2 ^ k
           q == z \div p
           h == q \div 2
<1>1. p \in Int /\ p > 0
  BY PowerPositive
<1>2. 2 ^ (k + 1) = p * 2
  BY PowerSum, PowerOfOne
<1>3. z = p * q + 0 /\ q \in Int
  <2> HIDE DEF p
  <2>1. z % p = 0
    BY DEF p
  <2> QED
    BY <1>1, <2>1, DivisionParts, QuotientInt
<1>4. q = 2 * h + 0 /\ h \in Int
  <2>1. q % 2 = 0
    BY DEF Bit
  <2> HIDE DEF q
  <2> QED
    BY <1>3, <2>1, DivisionParts, QuotientInt
<1> HIDE DEF p, q, h
<1>5. z = (p * 2) * h + 0
  <2>1. p * (2 * h) = (p * 2) * h
    BY <1>1, <1>4
  <2>2. 2 * h = q
    BY <1>4
  <2>3. p * q \in Int /\ (p * 2) * h \in Int
    BY <1>1, <1>3, <1>4
  <2>4. p * q = (p * 2) * h
    BY <2>1, <2>2
  <2>5. z = p * q
    BY <1>3, <2>3
  <2> QED
    BY <2>3, <2>4, <2>5
<1>6. ((p * 2) * h + 0) % (p * 2) = 0
  <2>1. p * 2 \in Int /\ p * 2 > 0
    BY <1>1
  <2> DEFINE m == p * 2
  <2> HIDE DEF m
  <2>2. (m * h + 0) % m = 0
    <3>1. m \in Int /\ m > 0
      BY <2>1 DEF m
    <3> QED
      BY <1>4, <3>1, RemainderUnique
  <2> QED
    BY <2>2 DEF m
<1>7. z % (p * 2) = 0
  BY <1>5, <1>6
<1> QED
  BY <1>2, <1>7

\* If every bit of z is set in the result, a result of 0 says that z is.
LEMMA BitsOfZero ==
  ASSUME NEW op \in Bits, NEW x \in Int, NEW y \in Int, NEW w \in Nat, NEW z \in Int,
         \A i \in Nat : BitAt(op, x, y, i) = 0 => Bit(z, i) = 0,
         BitOp(op, x, y, w) = 0
  PROVE  z % 2 ^ w = 0
<1> DEFINE sum == BitSum(op, x, y, w)
           Good == {k \in 0 .. w : sum[k] \in Nat /\ (sum[k] = 0 => z % 2 ^ k = 0)}
<1>1. sum[0] = 0 /\ \A k \in 0 .. w - 1 : sum[k + 1] = sum[k] + BitAt(op, x, y, k) * 2 ^ k
  BY BitSumEquation
<1> HIDE DEF sum
<1>2. ASSUME NEW k \in 0 .. w - 1, k \in Good PROVE k + 1 \in Good
  <2> DEFINE b == BitAt(op, x, y, k)
             p == 2 ^ k
  <2>1. p \in Nat /\ p > 0 /\ k \in Nat /\ k + 1 \in 0 .. w
    BY PowerPositive
  <2>2. b \in {0, 1}
    BY <2>1, BitAtCases DEF Bits
  <2>3. sum[k + 1] = sum[k] + b * p /\ sum[k] \in Nat
    BY <1>1, <1>2
  <2>4. b = 0 => Bit(z, k) = 0
    BY <2>1
  <2>5. sum[k] = 0 => z % p = 0
    BY <1>2
  <2> HIDE DEF b, p
  <2>6. sum[k + 1] \in Nat /\ (sum[k + 1] = 0 => sum[k] = 0 /\ b = 0)
    <3>1. CASE b = 0
      <4>1. b * p = 0
        BY <2>1, <3>1
      <4> QED
        BY <2>3, <3>1, <4>1
    <3>2. CASE b = 1
      <4>1. b * p = p
        BY <2>1, <3>2
      <4> QED
        BY <2>1, <2>3, <4>1
    <3> QED
      BY <2>2, <3>1, <3>2
  <2>7. sum[k + 1] = 0 => z % 2 ^ (k + 1) = 0
    <3> SUFFICES ASSUME sum[k + 1] = 0 PROVE z % 2 ^ (k + 1) = 0
      OBVIOUS
    <3>1. z % 2 ^ k = 0 /\ Bit(z, k) = 0
      BY <2>4, <2>5, <2>6 DEF p
    <3> QED
      BY <2>1, <3>1, BitCleared
  <2> QED
    BY <2>1, <2>6, <2>7
<1>3. 0 \in Good
  <2>1. z % 2 ^ 0 = 0
    <3>1. z % 1 = 0
      OBVIOUS
    <3> QED
      BY <3>1, PowerOfZero
  <2>2. 0 \in 0 .. w
    OBVIOUS
  <2> QED
    BY <1>1, <2>1, <2>2
<1>4. 0 .. w \subseteq Good
  <2> HIDE DEF Good
  <2> QED
    BY <1>2, <1>3, Climb
<1>5. sum[w] = 0 => z % 2 ^ w = 0
  BY <1>4
<1> QED
  BY <1>5 DEF BitOp, sum


\* The bits of a result fit the width.
LEMMA BitOpRange ==
  ASSUME NEW op \in Bits, NEW x \in Int, NEW y \in Int, NEW w \in Nat
  PROVE  BitOp(op, x, y, w) \in 0 .. 2 ^ w - 1
<1> DEFINE sum == BitSum(op, x, y, w)
           Good == {k \in 0 .. w : sum[k] \in Int /\ 0 <= sum[k] /\ sum[k] < 2 ^ k}
<1>1. sum[0] = 0 /\ \A k \in 0 .. w - 1 : sum[k + 1] = sum[k] + BitAt(op, x, y, k) * 2 ^ k
  BY BitSumEquation
<1> HIDE DEF sum
<1>2. ASSUME NEW k \in 0 .. w - 1, k \in Good PROVE k + 1 \in Good
  <2> DEFINE b == BitAt(op, x, y, k)
             p == 2 ^ k
             r == 2 ^ (k + 1)
             s == sum[k]
             t == sum[k + 1]
  <2>1. p \in Nat /\ p > 0 /\ k \in Nat /\ k + 1 \in 0 .. w
    BY PowerPositive
  <2>2. b \in {0, 1}
    BY <2>1, BitAtCases DEF Bits
  <2>3. t = s + b * p /\ s \in Int /\ 0 <= s /\ s < p
    BY <1>1, <1>2
  <2>4. r = p * 2
    BY <2>1, PowerSum, PowerOfOne
  <2> HIDE DEF b, p, r, s, t
  <2>5. b * p \in {0, p}
    BY <2>1, <2>2
  <2>6. t \in Int /\ 0 <= t /\ t < r
    BY <2>1, <2>3, <2>4, <2>5
  <2> QED
    BY <2>1, <2>6 DEF t, r
<1>3. 0 \in Good
  <2>1. 0 \in 0 .. w
    OBVIOUS
  <2> QED
    BY <1>1, <2>1, PowerOfZero
<1>4. 0 .. w \subseteq Good
  <2> HIDE DEF Good
  <2> QED
    BY <1>2, <1>3, Climb
<1> DEFINE m == 2 ^ w
           v == sum[w]
<1>5. v \in Int /\ 0 <= v /\ v < m /\ m \in Int
  <2>1. w \in 0 .. w
    OBVIOUS
  <2> QED
    BY <1>4, <2>1, PowerPositive
<1> HIDE DEF m, v
<1>6. v \in 0 .. m - 1
  BY <1>5
<1> QED
  BY <1>6 DEF BitOp, sum, m, v

\* When bitwise operations give 0.
LEMMA BitOpZero ==
  ASSUME NEW w \in Widths, NEW x \in 0 .. 2 ^ w - 1, NEW y \in 0 .. 2 ^ w - 1
  PROVE  /\ x = 0 \/ y = 0 => BitOp("and", x, y, w) = 0
         /\ BitOp("or", x, y, w) = 0 <=> x = 0 /\ y = 0
         /\ x = 0 => (BitOp("xor", x, y, w) = 0 <=> y = 0)
         /\ y = 0 => (BitOp("xor", x, y, w) = 0 <=> x = 0)
<1>1. /\ x \in Int /\ y \in Int /\ w \in Nat /\ "and" \in Bits /\ "or" \in Bits /\ "xor" \in Bits
      /\ x % 2 ^ w = x /\ y % 2 ^ w = y
  BY NumberOfWidth, WidthIn DEF Bits, Unsigned
<1>2. \A i \in Nat : Bit(x, i) \in {0, 1} /\ Bit(y, i) \in {0, 1}
  BY <1>1, BitsAre
<1>3. ASSUME x = 0 \/ y = 0 PROVE BitOp("and", x, y, w) = 0
  <2>1. \A i \in Nat : BitAt("and", x, y, i) = 0
    BY <1>1, <1>3, ZeroBits, BitAtCases
  <2> QED
    BY <1>1, <2>1, NoBits
<1>4. ASSUME x = 0, y = 0 PROVE BitOp("or", x, y, w) = 0
  <2>1. \A i \in Nat : BitAt("or", x, y, i) = 0
    BY <1>1, <1>4, ZeroBits, BitAtCases
  <2> QED
    BY <1>1, <2>1, NoBits
<1>5. ASSUME BitOp("or", x, y, w) = 0 PROVE x = 0 /\ y = 0
  <2>1. \A i \in Nat : BitAt("or", x, y, i) = 0 => Bit(x, i) = 0 /\ Bit(y, i) = 0
    BY <1>1, <1>2, BitAtCases
  <2>2. x % 2 ^ w = 0
    BY <1>1, <1>5, <2>1, BitsOfZero
  <2>3. y % 2 ^ w = 0
    BY <1>1, <1>5, <2>1, BitsOfZero
  <2> QED
    BY <1>1, <2>2, <2>3
<1>6. ASSUME x = 0, y = 0 PROVE BitOp("xor", x, y, w) = 0
  <2>1. \A i \in Nat : BitAt("xor", x, y, i) = 0
    BY <1>1, <1>6, ZeroBits, BitAtCases
  <2> QED
    BY <1>1, <2>1, NoBits
<1>7. ASSUME x = 0, BitOp("xor", x, y, w) = 0 PROVE y = 0
  <2>1. \A i \in Nat : BitAt("xor", x, y, i) = 0 => Bit(y, i) = 0
    BY <1>1, <1>2, <1>7, ZeroBits, BitAtCases
  <2>2. y % 2 ^ w = 0
    BY <1>1, <1>7, <2>1, BitsOfZero
  <2> QED
    BY <1>1, <2>2
<1>8. ASSUME y = 0, BitOp("xor", x, y, w) = 0 PROVE x = 0
  <2>1. \A i \in Nat : BitAt("xor", x, y, i) = 0 => Bit(x, i) = 0
    BY <1>1, <1>2, <1>8, ZeroBits, BitAtCases
  <2>2. x % 2 ^ w = 0
    BY <1>1, <1>8, <2>1, BitsOfZero
  <2> QED
    BY <1>1, <2>2
<1> QED
  BY <1>3, <1>4, <1>5, <1>6, <1>7, <1>8

-----------------------------------------------------------------------------
(***************************************************************************)
(* The tables of the zero domain hold of all numbers of a width.           *)
(***************************************************************************)

\* What the tables need to know of a result r of numbers x and y.
ZeroStands(a, b, x, y) == a \in Zeros /\ b \in Zeros /\ ZeroMeaning(a, x) /\ ZeroMeaning(b, y)

LEMMA ZeroTables ==
  ASSUME NEW a, NEW b, NEW x \in Int, NEW y \in Int, ZeroStands(a, b, x, y), NEW r \in Int
  PROVE  /\ (x = 0 => (r = 0 <=> y = 0)) /\ (y = 0 => (r = 0 <=> x = 0)) =>
                ZeroMeaning(ZAdd[a + 1][b + 1], r)
         /\ (x = 0 => r = 0) /\ (y = 0 => (r = 0 <=> x = 0)) => ZeroMeaning(ZShift[a + 1][b + 1], r)
         /\ (x = 0 \/ y = 0 => r = 0) => ZeroMeaning(ZAnd[a + 1][b + 1], r)
         /\ (r = 0 <=> x = 0 /\ y = 0) => ZeroMeaning(ZOr[a + 1][b + 1], r)
         /\ (x = 0 => (r # 0 <=> y = 0)) /\ (y = 0 => (r # 0 <=> x = 0)) =>
                ZeroMeaning(ZEq[a + 1][b + 1], r)
         /\ (x = 0 => (r # 0 <=> y = 0)) /\ (y = 0 => r # 0) => ZeroMeaning(ZUge[a + 1][b + 1], r)
         /\ (x = 0 /\ y = 0 => r = 0) => ZeroMeaning(ZSgt[a + 1][b + 1], r)
         /\ (x = 0 /\ y = 0 => r # 0) => ZeroMeaning(ZSge[a + 1][b + 1], r)
<1>1. /\ (a = 0 /\ x = 0) \/ (a = 1 /\ x # 0) \/ (a = 2)
      /\ (b = 0 /\ y = 0) \/ (b = 1 /\ y # 0) \/ (b = 2)
  BY DEF ZeroStands, Zeros, ZeroMeaning, Zero, NonZero, Unknown
<1>2. /\ ZeroMeaning(0, r) <=> r = 0
      /\ ZeroMeaning(1, r) <=> r # 0
      /\ ZeroMeaning(2, r)
  BY DEF ZeroMeaning, Zero, NonZero, Unknown
<1>3. (x = 0 => (r = 0 <=> y = 0)) /\ (y = 0 => (r = 0 <=> x = 0)) => ZeroMeaning(ZAdd[a + 1][b + 1], r)
  BY <1>1, <1>2 DEF ZAdd
<1>4. (x = 0 => r = 0) /\ (y = 0 => (r = 0 <=> x = 0)) => ZeroMeaning(ZShift[a + 1][b + 1], r)
  BY <1>1, <1>2 DEF ZShift
<1>5. (x = 0 \/ y = 0 => r = 0) => ZeroMeaning(ZAnd[a + 1][b + 1], r)
  BY <1>1, <1>2 DEF ZAnd
<1>6. (r = 0 <=> x = 0 /\ y = 0) => ZeroMeaning(ZOr[a + 1][b + 1], r)
  BY <1>1, <1>2 DEF ZOr
<1>7. (x = 0 => (r # 0 <=> y = 0)) /\ (y = 0 => (r # 0 <=> x = 0)) => ZeroMeaning(ZEq[a + 1][b + 1], r)
  BY <1>1, <1>2 DEF ZEq
<1>8. (x = 0 => (r # 0 <=> y = 0)) /\ (y = 0 => r # 0) => ZeroMeaning(ZUge[a + 1][b + 1], r)
  BY <1>1, <1>2 DEF ZUge
<1>9. (x = 0 /\ y = 0 => r = 0) => ZeroMeaning(ZSgt[a + 1][b + 1], r)
  BY <1>1, <1>2 DEF ZSgt
<1>10. (x = 0 /\ y = 0 => r # 0) => ZeroMeaning(ZSge[a + 1][b + 1], r)
  BY <1>1, <1>2 DEF ZSge
<1> QED
  BY <1>3, <1>4, <1>5, <1>6, <1>7, <1>8, <1>9, <1>10


\* When machine operations give 0.
LEMMA ZeroSums ==
  ASSUME NEW w \in Widths, NEW x \in 0 .. 2 ^ w - 1, NEW y \in 0 .. 2 ^ w - 1
  PROVE  /\ x = 0 => MachineOp("add", x, y, w) = y /\ (MachineOp("sub", x, y, w) = 0 <=> y = 0)
         /\ y = 0 => MachineOp("add", x, y, w) = x /\ MachineOp("sub", x, y, w) = x
<1> DEFINE m == 2 ^ w
<1>1. m \in Int /\ m > 1 /\ x \in 0 .. m - 1 /\ y \in 0 .. m - 1
  BY PowerHalf
<1>2. Unsigned(x, w) = x /\ Unsigned(y, w) = y
  BY NumberOfWidth
<1>3. MachineOp("add", x, y, w) = (x + y) % m /\ MachineOp("sub", x, y, w) = (x - y) % m
  BY <1>2 DEF MachineOp, RawOp, Bits, Unsigned
<1> HIDE DEF m
<1>4. x % m = x /\ y % m = y
  BY <1>1, SmallRemainder
<1>5. y # 0 => (0 - y) % m = m - y
  <2> SUFFICES ASSUME y # 0 PROVE (0 - y) % m = m - y
    OBVIOUS
  <2> DEFINE z == 0 - y
  <2>1. z \in Int /\ -m <= z /\ z < 0
    BY <1>1
  <2>2. z % m = z + m
    <3> HIDE DEF z
    <3> QED
      BY <1>1, <2>1, NegativeRemainder
  <2> QED
    BY <1>1, <2>2
<1>6. x = 0 => (x + y) % m = y /\ (y = 0 => (x - y) % m = 0) /\ (y # 0 => (x - y) % m # 0)
  <2> SUFFICES ASSUME x = 0
               PROVE  (x + y) % m = y /\ (y = 0 => (x - y) % m = 0) /\ (y # 0 => (x - y) % m # 0)
    OBVIOUS
  <2>1. x + y = y /\ x - y = 0 - y /\ (y = 0 => x - y = x) /\ (y # 0 => m - y # 0)
    BY <1>1
  <2> QED
    BY <1>4, <1>5, <2>1
<1>7. y = 0 => (x + y) % m = x /\ (x - y) % m = x
  <2> SUFFICES ASSUME y = 0 PROVE (x + y) % m = x /\ (x - y) % m = x
    OBVIOUS
  <2>1. x + y = x /\ x - y = x
    BY <1>1
  <2> QED
    BY <1>4, <2>1
<1> QED
  BY <1>3, <1>6, <1>7

LEMMA TruncatedZero ==
  ASSUME NEW y \in Int, y # 0
  PROVE  Truncated(0, y) = 0
<1> DEFINE Y == IF y < 0 THEN -y ELSE y
<1>1. Y \in Int /\ Y > 0
  OBVIOUS
<1>2. Truncated(0, y) \in {0 \div Y, -(0 \div Y)}
  BY DEF Truncated
<1> HIDE DEF Y
<1>3. \A z \in Int : z > 0 => 0 \div z = 0
  OBVIOUS
<1>4. 0 \div Y = 0
  BY <1>1, <1>3
<1>5. \A z \in Int : z <= 0 /\ z >= 0 => -z = z
  OBVIOUS
<1> DEFINE q == 0 \div Y
<1>6. q = 0 /\ q \in Int /\ Truncated(0, y) \in {q, -q}
  BY <1>2, <1>4
<1> HIDE DEF q
<1>7. q <= 0 /\ q >= 0
  BY <1>6
<1>8. -q = q
  BY <1>5, <1>6, <1>7
<1> QED
  BY <1>6, <1>8

LEMMA ZeroQuotients ==
  ASSUME NEW w \in Widths, NEW y \in 0 .. 2 ^ w - 1, y # 0, NEW op \in Divisions
  PROVE  MachineOp(op, 0, y, w) = 0
<1> DEFINE s == Signed(y, w)
<1>1. y \in Int /\ 0 \in 0 .. 2 ^ w - 1 /\ s \in Int /\ s # 0 /\ Signed(0, w) = 0
      /\ Unsigned(0, w) = 0 /\ Unsigned(y, w) = y
  <2>1. 0 \in 0 .. 2 ^ w - 1
    BY PowerHalf
  <2> QED
    BY <2>1, NumberOfWidth, SignedParts
<1>2. 0 \div y = 0 /\ 0 % y = 0
  <2>1. \A z \in Int : z > 0 => 0 \div z = 0 /\ 0 % z = 0
    OBVIOUS
  <2> QED
    BY <1>1, <2>1
<1>3. Truncated(0, s) = 0 /\ 0 - s * Truncated(0, s) = 0
  <2> HIDE DEF s
  <2>1. Truncated(0, s) = 0
    BY <1>1, TruncatedZero
  <2>2. s * 0 = 0
    BY <1>1
  <2> QED
    BY <2>1, <2>2
<1>4. RawOp(op, 0, y, w) = 0
  <2>1. CASE op = "sdiv"
    BY <1>1, <1>3, <2>1 DEF RawOp, Bits
  <2>2. CASE op = "udiv"
    BY <1>1, <1>2, <2>2 DEF RawOp, Bits
  <2>3. CASE op = "srem"
    BY <1>1, <1>3, <2>3 DEF RawOp, Bits
  <2>4. CASE op = "urem"
    BY <1>1, <1>2, <2>4 DEF RawOp, Bits
  <2> QED
    BY <2>1, <2>2, <2>3, <2>4 DEF Divisions
<1> QED
  BY <1>1, <1>4 DEF MachineOp

LEMMA ZeroShifts ==
  ASSUME NEW w \in Widths, NEW x \in 0 .. 2 ^ w - 1, NEW y \in 0 .. 2 ^ w - 1, NEW op \in Shifts
  PROVE  /\ x = 0 => MachineOp(op, x, y, w) = 0
         /\ y = 0 => MachineOp(op, x, y, w) = x
<1> DEFINE s == Signed(x, w)
           p == 2 ^ y
<1>1. /\ x \in Int /\ y \in Nat /\ s \in Int /\ (x = 0 => s = 0) /\ Unsigned(x, w) = x /\ Unsigned(y, w) = y
      /\ Unsigned(s, w) = x
  <2>1. y \in Nat
    OBVIOUS
  <2> QED
    BY <2>1, NumberOfWidth, SignedParts
<1>2. p \in Int /\ p > 0 /\ (y = 0 => p = 1)
  <2>1. p \in Int /\ p > 0
    BY <1>1, PowerPositive
  <2>2. y = 0 => p = 2 ^ 0
    OBVIOUS
  <2> QED
    BY <2>1, <2>2, PowerOfZero
<1>3. RawOp(op, x, y, w) \in {x * p, x \div p, s \div p}
  <2>1. CASE op = "shl"
    BY <1>1, <2>1 DEF RawOp, Bits
  <2>2. CASE op = "lshr"
    BY <1>1, <2>2 DEF RawOp, Bits
  <2>3. CASE op = "ashr"
    BY <1>1, <2>3 DEF RawOp, Bits
  <2> QED
    BY <2>1, <2>2, <2>3 DEF Shifts
<1> HIDE DEF s, p
<1>4. \A z \in Int : z * 1 = z /\ z \div 1 = z
  OBVIOUS
<1>5. \A z \in Int : z > 0 => 0 * z = 0 /\ 0 \div z = 0
  OBVIOUS
<1>6. x = 0 => RawOp(op, x, y, w) = 0
  BY <1>1, <1>2, <1>3, <1>5
<1>7. y = 0 => RawOp(op, x, y, w) \in {x, s}
  BY <1>1, <1>2, <1>3, <1>4
<1>8. x = 0 => Unsigned(RawOp(op, x, y, w), w) = 0
  BY <1>1, <1>6
<1>9. y = 0 => Unsigned(RawOp(op, x, y, w), w) = x
  BY <1>1, <1>7
<1> QED
  BY <1>8, <1>9 DEF MachineOp

LEMMA ZeroBitwise ==
  ASSUME NEW w \in Widths, NEW x \in 0 .. 2 ^ w - 1, NEW y \in 0 .. 2 ^ w - 1, NEW op \in Bits
  PROVE  MachineOp(op, x, y, w) = BitOp(op, x, y, w)
<1>1. x \in Int /\ y \in Int /\ w \in Nat /\ Unsigned(x, w) = x /\ Unsigned(y, w) = y
  BY NumberOfWidth, WidthIn
<1>2. BitOp(op, x, y, w) \in 0 .. 2 ^ w - 1
  BY <1>1, BitOpRange
<1>3. Unsigned(BitOp(op, x, y, w), w) = BitOp(op, x, y, w)
  BY <1>2, NumberOfWidth
<1>4. op \notin {"add", "sub", "mul", "sdiv", "udiv", "srem", "urem", "shl", "lshr", "ashr"}
                \cup Compares
  BY DEF Bits, Compares
<1>5. RawOp(op, x, y, w) = BitOp(op, x, y, w)
  BY <1>1, <1>4 DEF RawOp, Compares
<1> QED
  BY <1>3, <1>5 DEF MachineOp

\* What comparisons of numbers say.
LEMMA Comparisons ==
  ASSUME NEW w \in Widths, NEW x \in 0 .. 2 ^ w - 1, NEW y \in 0 .. 2 ^ w - 1
  PROVE  /\ RawOp("eq", x, y, w) = Truth(x = y) /\ RawOp("ne", x, y, w) = Truth(x # y)
         /\ RawOp("ult", x, y, w) = Truth(x < y) /\ RawOp("ule", x, y, w) = Truth(x <= y)
         /\ RawOp("ugt", x, y, w) = Truth(x > y) /\ RawOp("uge", x, y, w) = Truth(x >= y)
         /\ RawOp("slt", x, y, w) = Truth(Signed(x, w) < Signed(y, w))
         /\ RawOp("sle", x, y, w) = Truth(Signed(x, w) <= Signed(y, w))
         /\ RawOp("sgt", x, y, w) = Truth(Signed(x, w) > Signed(y, w))
         /\ RawOp("sge", x, y, w) = Truth(Signed(x, w) >= Signed(y, w))
<1>1. Unsigned(x, w) = x /\ Unsigned(y, w) = y
  BY NumberOfWidth
<1>2. /\ RawOp("eq", x, y, w) = Truth(x = y) /\ RawOp("ne", x, y, w) = Truth(x # y)
      /\ RawOp("ult", x, y, w) = Truth(x < y) /\ RawOp("ule", x, y, w) = Truth(x <= y)
      /\ RawOp("ugt", x, y, w) = Truth(x > y) /\ RawOp("uge", x, y, w) = Truth(x >= y)
  BY <1>1 DEF RawOp, Bits
<1>3. /\ RawOp("slt", x, y, w) = Truth(Signed(x, w) < Signed(y, w))
      /\ RawOp("sle", x, y, w) = Truth(Signed(x, w) <= Signed(y, w))
      /\ RawOp("sgt", x, y, w) = Truth(Signed(x, w) > Signed(y, w))
      /\ RawOp("sge", x, y, w) = Truth(Signed(x, w) >= Signed(y, w))
  BY DEF RawOp, Bits
<1> QED
  BY <1>2, <1>3


\* What the zero domain answers stands for what the machine computes.
LEMMA ZeroOpSound ==
  ASSUME NEW op \in Arith \cup Compares, op # "mul", NEW w \in Widths,
         NEW x \in 0 .. 2 ^ w - 1, NEW y \in 0 .. 2 ^ w - 1, Defined(op, x, y, w),
         NEW a, NEW b, ZeroStands(a, b, x, y), ~ZeroFails(op, b)
  PROVE  ZeroMeaning(ZeroOp(op, a, b), IF op \in Compares THEN RawOp(op, x, y, w) ELSE MachineOp(op, x, y, w))
<1> DEFINE r == IF op \in Compares THEN RawOp(op, x, y, w) ELSE MachineOp(op, x, y, w)
           o == ZeroOp(op, a, b)
<1> SUFFICES ZeroMeaning(o, r)
  OBVIOUS
<1>1. x \in Int /\ y \in Int /\ 0 <= x /\ 0 <= y /\ ZeroStands(b, a, y, x)
  <2>1. 2 ^ w \in Int
    BY PowerHalf
  <2> QED
    BY <2>1 DEF ZeroStands
<1>2. r \in Int
  <2>1. op \in Compares => RawOp(op, x, y, w) \in {0, 1}
    BY CompareTruth
  <2>2. op \notin Compares => MachineOp(op, x, y, w) \in 0 .. 2 ^ w - 1
    BY <1>1, MachineOpRange
  <2>3. 2 ^ w \in Int
    BY PowerHalf
  <2> QED
    BY <2>1, <2>2, <2>3
<1> HIDE DEF r, o
<1>5. CASE op \in {"add", "sub"}
  <2>1. r = MachineOp(op, x, y, w) /\ o = ZAdd[a + 1][b + 1]
    BY <1>5 DEF ZeroOp, ZeroDivisions, Compares, r, o
  <2>2. (x = 0 => (r = 0 <=> y = 0)) /\ (y = 0 => (r = 0 <=> x = 0))
    BY <1>5, <2>1, ZeroSums
  <2> QED
    BY <1>1, <1>2, <2>1, <2>2, ZeroTables
<1>6. CASE op \in Divisions
  <2>1. r = MachineOp(op, x, y, w) /\ o = (IF a # Zero THEN Unknown ELSE Zero)
    BY <1>6 DEF ZeroOp, Compares, Divisions, ZeroDivisions, r, o
  <2>2. y # 0
    <3>1. Unsigned(y, w) = y
      BY NumberOfWidth
    <3> QED
      BY <1>6, <3>1 DEF Defined
  <2>3. x = 0 => r = 0
    BY <1>6, <2>1, <2>2, ZeroQuotients
  <2> QED
    BY <2>1, <2>3 DEF ZeroStands, ZeroMeaning, Zero, NonZero, Unknown
<1>7. CASE op \in Shifts
  <2>1. r = MachineOp(op, x, y, w) /\ o = ZShift[a + 1][b + 1]
    BY <1>7 DEF ZeroOp, Compares, Shifts, ZeroDivisions, r, o
  <2>2. (x = 0 => r = 0) /\ (y = 0 => (r = 0 <=> x = 0))
    BY <1>7, <2>1, ZeroShifts
  <2> QED
    BY <1>1, <1>2, <2>1, <2>2, ZeroTables
<1>8. CASE op \in Bits
  <2>1. r = BitOp(op, x, y, w)
    BY <1>8, ZeroBitwise DEF Compares, Bits, r
  <2>2. /\ op = "and" => o = ZAnd[a + 1][b + 1]
        /\ op = "or" => o = ZOr[a + 1][b + 1]
        /\ op = "xor" => o = ZAdd[a + 1][b + 1]
    BY DEF ZeroOp, ZeroDivisions, o
  <2>3. /\ op = "and" => (x = 0 \/ y = 0 => r = 0)
        /\ op = "or" => (r = 0 <=> x = 0 /\ y = 0)
        /\ op = "xor" => (x = 0 => (r = 0 <=> y = 0)) /\ (y = 0 => (r = 0 <=> x = 0))
    BY <2>1, BitOpZero
  <2> QED
    BY <1>1, <1>2, <1>8, <2>2, <2>3, ZeroTables DEF Bits
<1>9. CASE op \in {"eq", "ne"}
  <2>1. /\ op = "eq" => r = Truth(x = y) /\ o = ZEq[a + 1][b + 1]
        /\ op = "ne" => r = Truth(x # y) /\ o = ZAdd[a + 1][b + 1]
    BY <1>9, Comparisons DEF ZeroOp, ZeroDivisions, Compares, r, o
  <2>2. /\ op = "eq" => (r # 0 <=> x = y)
        /\ op = "ne" => (r = 0 <=> x = y)
    BY <1>1, <2>1 DEF Truth
  <2> QED
    BY <1>1, <1>2, <1>9, <2>1, <2>2, ZeroTables
<1>10. CASE op \in {"ugt", "uge", "ult", "ule"}
  <2>1. /\ op = "ugt" => r = Truth(x > y) /\ o = ZShift[a + 1][b + 1]
        /\ op = "uge" => r = Truth(x >= y) /\ o = ZUge[a + 1][b + 1]
        /\ op = "ult" => r = Truth(x < y) /\ o = ZShift[b + 1][a + 1]
        /\ op = "ule" => r = Truth(x <= y) /\ o = ZUge[b + 1][a + 1]
    BY <1>10, Comparisons DEF ZeroOp, ZeroDivisions, Compares, r, o
  <2>2. /\ op = "ugt" => (r = 0 <=> ~(x > y))
        /\ op = "uge" => (r # 0 <=> x >= y)
        /\ op = "ult" => (r = 0 <=> ~(x < y))
        /\ op = "ule" => (r # 0 <=> x <= y)
    BY <1>1, <2>1 DEF Truth
  <2>3. /\ op = "ugt" => (x = 0 => r = 0) /\ (y = 0 => (r = 0 <=> x = 0))
        /\ op = "uge" => (x = 0 => (r # 0 <=> y = 0)) /\ (y = 0 => r # 0)
        /\ op = "ult" => (y = 0 => r = 0) /\ (x = 0 => (r = 0 <=> y = 0))
        /\ op = "ule" => (y = 0 => (r # 0 <=> x = 0)) /\ (x = 0 => r # 0)
    BY <1>1, <2>2
  <2>4. CASE op \in {"ugt", "uge"}
    BY <1>1, <1>2, <2>1, <2>3, <2>4, ZeroTables
  <2>5. CASE op \in {"ult", "ule"}
    BY <1>1, <1>2, <2>1, <2>3, <2>5, ZeroTables
  <2> QED
    BY <1>10, <2>4, <2>5
<1>11. CASE op \in {"sgt", "sge", "slt", "sle"}
  <2> DEFINE s == Signed(x, w)
             t == Signed(y, w)
  <2>1. /\ op = "sgt" => r = Truth(s > t) /\ o = ZSgt[a + 1][b + 1]
        /\ op = "sge" => r = Truth(s >= t) /\ o = ZSge[a + 1][b + 1]
        /\ op = "slt" => r = Truth(s < t) /\ o = ZSgt[b + 1][a + 1]
        /\ op = "sle" => r = Truth(s <= t) /\ o = ZSge[b + 1][a + 1]
    BY <1>11, Comparisons DEF ZeroOp, ZeroDivisions, Compares, r, o
  <2>2. s \in Int /\ t \in Int /\ (x = 0 => s = 0) /\ (y = 0 => t = 0)
    BY SignedParts
  <2> HIDE DEF s, t
  <2>3. /\ op = "sgt" => (r = 0 <=> ~(s > t))
        /\ op = "sge" => (r # 0 <=> s >= t)
        /\ op = "slt" => (r = 0 <=> ~(s < t))
        /\ op = "sle" => (r # 0 <=> s <= t)
    BY <2>1, <2>2 DEF Truth
  <2>4. /\ op \in {"sgt", "slt"} => (x = 0 /\ y = 0 => r = 0)
        /\ op \in {"sge", "sle"} => (x = 0 /\ y = 0 => r # 0)
    BY <2>2, <2>3
  <2>5. CASE op \in {"sgt", "sge"}
    BY <1>1, <1>2, <2>1, <2>4, <2>5, ZeroTables
  <2>6. CASE op \in {"slt", "sle"}
    BY <1>1, <1>2, <2>1, <2>4, <2>6, ZeroTables
  <2> QED
    BY <1>11, <2>5, <2>6
<1> QED
  BY <1>5, <1>6, <1>7, <1>8, <1>9, <1>10, <1>11 DEF Arith, Compares, Bits

\* A cast that keeps the value keeps whether it is 0, and one of 0 makes 0.
LEMMA ZeroCastSound ==
  ASSUME NEW op \in Casts, NEW w \in Widths, NEW v \in Widths, NEW x \in 0 .. 2 ^ w - 1,
         op \in {"sext", "zext"} => w < v, NEW a \in Zeros, ZeroMeaning(a, x)
  PROVE  ZeroMeaning(ZeroCast(op, a), MachineCast(op, x, w, v))
<1> DEFINE m == 2 ^ w
           n == 2 ^ v
           s == Signed(x, w)
           r == MachineCast(op, x, w, v)
<1>1. m \in Int /\ m > 1 /\ n \in Int /\ n > 1 /\ x \in 0 .. m - 1 /\ (op \in {"sext", "zext"} => m <= n)
  BY PowerHalf, PowerGrows
<1>2. s \in Int /\ (s = 0 <=> x = 0) /\ -m < s /\ s < m /\ Unsigned(x, w) = x
  BY NumberOfWidth, SignedParts
<1>3. r = IF op = "sext" THEN s % n ELSE x % n
  BY <1>2 DEF MachineCast, Unsigned
<1> HIDE DEF m, n, s, r
<1>4. x = 0 => r = 0
  <2>1. 0 % n = 0
    BY <1>1, SmallRemainder
  <2> QED
    BY <1>2, <1>3, <2>1
<1>5. op = "zext" => r = x
  BY <1>1, <1>3, SmallRemainder
<1>6. op = "sext" /\ x # 0 => r # 0
  <2> SUFFICES ASSUME op = "sext", x # 0 PROVE s % n # 0
    BY <1>3
  <2>1. CASE s >= 0
    <3>1. s % n = s
      BY <1>1, <1>2, <2>1, SmallRemainder
    <3> QED
      BY <1>2, <3>1
  <2>2. CASE ~(s >= 0)
    <3>1. s % n = s + n
      BY <1>1, <1>2, <2>2, NegativeRemainder
    <3> QED
      BY <1>1, <1>2, <3>1
  <2> QED
    BY <2>1, <2>2
<1>7. ZeroMeaning(ZeroCast(op, a), r)
  BY <1>4, <1>5, <1>6 DEF ZeroCast, ZeroMeaning, Zeros, Zero, NonZero, Unknown
<1> QED
  BY <1>7 DEF r

-----------------------------------------------------------------------------
(***************************************************************************)
(* The tables of the sign domain hold of all integers.                     *)
(***************************************************************************)

\* The tables tell apart only whether numbers are negative, 0 or positive.
SignStands(a, b, x, y) == a \in Signs /\ b \in Signs /\ SignMeaning(a, x) /\ SignMeaning(b, y)

LEMMA SignStandsFor ==
  ASSUME NEW a, NEW b, NEW x \in Int, NEW y \in Int, SignStands(a, b, x, y)
  PROVE  /\ a \in {1, 2, 3, 5, 6, 7} /\ b \in {1, 2, 3, 5, 6, 7}
         /\ (a = 1 => x < 0) /\ (a = 2 => x > 0) /\ (a = 3 => x = 0)
         /\ (a = 5 => x >= 0) /\ (a = 6 => x <= 0)
         /\ (b = 1 => y < 0) /\ (b = 2 => y > 0) /\ (b = 3 => y = 0)
         /\ (b = 5 => y >= 0) /\ (b = 6 => y <= 0)
  BY SignNumbers, SignCases DEF SignStands

LEMMA SignAdds ==
  ASSUME NEW a, NEW b, NEW x \in Int, NEW y \in Int, SignStands(a, b, x, y)
  PROVE  SignMeaning(Look(AddLut, a, b), x + y)
<1> DEFINE r == x + y
           o == Look(AddLut, a, b)
<1> SUFFICES SignMeaning(o, r)
  OBVIOUS
<1>1. /\ a \in {1, 2, 3, 5, 6, 7} /\ b \in {1, 2, 3, 5, 6, 7}
      /\ (a = 1 => x < 0) /\ (a = 2 => x > 0) /\ (a = 3 => x = 0)
      /\ (a = 5 => x >= 0) /\ (a = 6 => x <= 0)
      /\ (b = 1 => y < 0) /\ (b = 2 => y > 0) /\ (b = 3 => y = 0)
      /\ (b = 5 => y >= 0) /\ (b = 6 => y <= 0)
  BY SignStandsFor
<1>2. /\ (o = 1 /\ r < 0) \/ (o = 2 /\ r > 0) \/ (o = 3 /\ r = 0)
         \/ (o = 5 /\ r >= 0) \/ (o = 6 /\ r <= 0) \/ o = 7
      => SignMeaning(o, r)
  BY SignNumbers
<1>3. r \in Int /\ r = x + y
  OBVIOUS
<1> HIDE DEF r
<1>4. CASE a = 1
  <2>1. o = AddLut[2][b + 1]
    BY <1>4 DEF Look
  <2> HIDE DEF o
  <2> QED
    BY <1>1, <1>2, <1>3, <1>4, <2>1 DEF AddLut
<1>5. CASE a = 2
  <2>1. o = AddLut[3][b + 1]
    BY <1>5 DEF Look
  <2> HIDE DEF o
  <2> QED
    BY <1>1, <1>2, <1>3, <1>5, <2>1 DEF AddLut
<1>6. CASE a = 3
  <2>1. o = AddLut[4][b + 1]
    BY <1>6 DEF Look
  <2> HIDE DEF o
  <2> QED
    BY <1>1, <1>2, <1>3, <1>6, <2>1 DEF AddLut
<1>7. CASE a = 5
  <2>1. o = AddLut[6][b + 1]
    BY <1>7 DEF Look
  <2> HIDE DEF o
  <2> QED
    BY <1>1, <1>2, <1>3, <1>7, <2>1 DEF AddLut
<1>8. CASE a = 6
  <2>1. o = AddLut[7][b + 1]
    BY <1>8 DEF Look
  <2> HIDE DEF o
  <2> QED
    BY <1>1, <1>2, <1>3, <1>8, <2>1 DEF AddLut
<1>9. CASE a = 7
  <2>1. o = AddLut[8][b + 1]
    BY <1>9 DEF Look
  <2> HIDE DEF o
  <2> QED
    BY <1>1, <1>2, <1>3, <1>9, <2>1 DEF AddLut
<1> QED
  BY <1>1, <1>4, <1>5, <1>6, <1>7, <1>8, <1>9

LEMMA ProductSigns ==
  \A x, y \in Int : /\ x * y \in Int /\ (x = 0 \/ y = 0 => x * y = 0)
                    /\ (x > 0 /\ y > 0 => x * y > 0) /\ (x < 0 /\ y < 0 => x * y > 0)
                    /\ (x > 0 /\ y < 0 => x * y < 0) /\ (x < 0 /\ y > 0 => x * y < 0)
  OBVIOUS

LEMMA SignMultiplies ==
  ASSUME NEW a, NEW b, NEW x \in Int, NEW y \in Int, SignStands(a, b, x, y)
  PROVE  SignMeaning(Look(MulLut, a, b), x * y)
<1> DEFINE r == x * y
           o == Look(MulLut, a, b)
<1> SUFFICES SignMeaning(o, r)
  OBVIOUS
<1>1. /\ a \in {1, 2, 3, 5, 6, 7} /\ b \in {1, 2, 3, 5, 6, 7}
      /\ (a = 1 => x < 0) /\ (a = 2 => x > 0) /\ (a = 3 => x = 0)
      /\ (a = 5 => x >= 0) /\ (a = 6 => x <= 0)
      /\ (b = 1 => y < 0) /\ (b = 2 => y > 0) /\ (b = 3 => y = 0)
      /\ (b = 5 => y >= 0) /\ (b = 6 => y <= 0)
  BY SignStandsFor
<1>2. /\ (o = 1 /\ r < 0) \/ (o = 2 /\ r > 0) \/ (o = 3 /\ r = 0)
         \/ (o = 5 /\ r >= 0) \/ (o = 6 /\ r <= 0) \/ o = 7
      => SignMeaning(o, r)
  BY SignNumbers
<1>3. /\ r \in Int /\ (x = 0 \/ y = 0 => r = 0)
      /\ (x > 0 /\ y > 0 => r > 0) /\ (x < 0 /\ y < 0 => r > 0)
      /\ (x > 0 /\ y < 0 => r < 0) /\ (x < 0 /\ y > 0 => r < 0)
  BY ProductSigns
<1> HIDE DEF r
<1>4. CASE a = 1
  <2>1. o = MulLut[2][b + 1]
    BY <1>4 DEF Look
  <2> HIDE DEF o
  <2> QED
    BY <1>1, <1>2, <1>3, <1>4, <2>1 DEF MulLut
<1>5. CASE a = 2
  <2>1. o = MulLut[3][b + 1]
    BY <1>5 DEF Look
  <2> HIDE DEF o
  <2> QED
    BY <1>1, <1>2, <1>3, <1>5, <2>1 DEF MulLut
<1>6. CASE a = 3
  <2>1. o = MulLut[4][b + 1]
    BY <1>6 DEF Look
  <2> HIDE DEF o
  <2> QED
    BY <1>1, <1>2, <1>3, <1>6, <2>1 DEF MulLut
<1>7. CASE a = 5
  <2>1. o = MulLut[6][b + 1]
    BY <1>7 DEF Look
  <2> HIDE DEF o
  <2> QED
    BY <1>1, <1>2, <1>3, <1>7, <2>1 DEF MulLut
<1>8. CASE a = 6
  <2>1. o = MulLut[7][b + 1]
    BY <1>8 DEF Look
  <2> HIDE DEF o
  <2> QED
    BY <1>1, <1>2, <1>3, <1>8, <2>1 DEF MulLut
<1>9. CASE a = 7
  <2>1. o = MulLut[8][b + 1]
    BY <1>9 DEF Look
  <2> HIDE DEF o
  <2> QED
    BY <1>1, <1>2, <1>3, <1>9, <2>1 DEF MulLut
<1> QED
  BY <1>1, <1>4, <1>5, <1>6, <1>7, <1>8, <1>9

LEMMA SignEquals ==
  ASSUME NEW a, NEW b, NEW x \in Int, NEW y \in Int, SignStands(a, b, x, y)
  PROVE  SignMeaning(Look(EqLut, a, b), Truth(x = y))
<1> DEFINE r == Truth(x = y)
           o == Look(EqLut, a, b)
<1> SUFFICES SignMeaning(o, r)
  OBVIOUS
<1>1. /\ a \in {1, 2, 3, 5, 6, 7} /\ b \in {1, 2, 3, 5, 6, 7}
      /\ (a = 1 => x < 0) /\ (a = 2 => x > 0) /\ (a = 3 => x = 0)
      /\ (a = 5 => x >= 0) /\ (a = 6 => x <= 0)
      /\ (b = 1 => y < 0) /\ (b = 2 => y > 0) /\ (b = 3 => y = 0)
      /\ (b = 5 => y >= 0) /\ (b = 6 => y <= 0)
  BY SignStandsFor
<1>2. /\ (o = 1 /\ r < 0) \/ (o = 2 /\ r > 0) \/ (o = 3 /\ r = 0)
         \/ (o = 5 /\ r >= 0) \/ (o = 6 /\ r <= 0) \/ o = 7
      => SignMeaning(o, r)
  BY SignNumbers
<1>3. r \in {0, 1} /\ (r = 1 <=> x = y)
  BY DEF Truth
<1> HIDE DEF r
<1>4. CASE a = 1
  <2>1. o = EqLut[2][b + 1]
    BY <1>4 DEF Look
  <2> HIDE DEF o
  <2> QED
    BY <1>1, <1>2, <1>3, <1>4, <2>1 DEF EqLut
<1>5. CASE a = 2
  <2>1. o = EqLut[3][b + 1]
    BY <1>5 DEF Look
  <2> HIDE DEF o
  <2> QED
    BY <1>1, <1>2, <1>3, <1>5, <2>1 DEF EqLut
<1>6. CASE a = 3
  <2>1. o = EqLut[4][b + 1]
    BY <1>6 DEF Look
  <2> HIDE DEF o
  <2> QED
    BY <1>1, <1>2, <1>3, <1>6, <2>1 DEF EqLut
<1>7. CASE a = 5
  <2>1. o = EqLut[6][b + 1]
    BY <1>7 DEF Look
  <2> HIDE DEF o
  <2> QED
    BY <1>1, <1>2, <1>3, <1>7, <2>1 DEF EqLut
<1>8. CASE a = 6
  <2>1. o = EqLut[7][b + 1]
    BY <1>8 DEF Look
  <2> HIDE DEF o
  <2> QED
    BY <1>1, <1>2, <1>3, <1>8, <2>1 DEF EqLut
<1>9. CASE a = 7
  <2>1. o = EqLut[8][b + 1]
    BY <1>9 DEF Look
  <2> HIDE DEF o
  <2> QED
    BY <1>1, <1>2, <1>3, <1>9, <2>1 DEF EqLut
<1> QED
  BY <1>1, <1>4, <1>5, <1>6, <1>7, <1>8, <1>9

LEMMA SignDiffers ==
  ASSUME NEW a, NEW b, NEW x \in Int, NEW y \in Int, SignStands(a, b, x, y)
  PROVE  SignMeaning(Look(NeLut, a, b), Truth(x # y))
<1> DEFINE r == Truth(x # y)
           o == Look(NeLut, a, b)
<1> SUFFICES SignMeaning(o, r)
  OBVIOUS
<1>1. /\ a \in {1, 2, 3, 5, 6, 7} /\ b \in {1, 2, 3, 5, 6, 7}
      /\ (a = 1 => x < 0) /\ (a = 2 => x > 0) /\ (a = 3 => x = 0)
      /\ (a = 5 => x >= 0) /\ (a = 6 => x <= 0)
      /\ (b = 1 => y < 0) /\ (b = 2 => y > 0) /\ (b = 3 => y = 0)
      /\ (b = 5 => y >= 0) /\ (b = 6 => y <= 0)
  BY SignStandsFor
<1>2. /\ (o = 1 /\ r < 0) \/ (o = 2 /\ r > 0) \/ (o = 3 /\ r = 0)
         \/ (o = 5 /\ r >= 0) \/ (o = 6 /\ r <= 0) \/ o = 7
      => SignMeaning(o, r)
  BY SignNumbers
<1>3. r \in {0, 1} /\ (r = 1 <=> x # y)
  BY DEF Truth
<1> HIDE DEF r
<1>4. CASE a = 1
  <2>1. o = NeLut[2][b + 1]
    BY <1>4 DEF Look
  <2> HIDE DEF o
  <2> QED
    BY <1>1, <1>2, <1>3, <1>4, <2>1 DEF NeLut
<1>5. CASE a = 2
  <2>1. o = NeLut[3][b + 1]
    BY <1>5 DEF Look
  <2> HIDE DEF o
  <2> QED
    BY <1>1, <1>2, <1>3, <1>5, <2>1 DEF NeLut
<1>6. CASE a = 3
  <2>1. o = NeLut[4][b + 1]
    BY <1>6 DEF Look
  <2> HIDE DEF o
  <2> QED
    BY <1>1, <1>2, <1>3, <1>6, <2>1 DEF NeLut
<1>7. CASE a = 5
  <2>1. o = NeLut[6][b + 1]
    BY <1>7 DEF Look
  <2> HIDE DEF o
  <2> QED
    BY <1>1, <1>2, <1>3, <1>7, <2>1 DEF NeLut
<1>8. CASE a = 6
  <2>1. o = NeLut[7][b + 1]
    BY <1>8 DEF Look
  <2> HIDE DEF o
  <2> QED
    BY <1>1, <1>2, <1>3, <1>8, <2>1 DEF NeLut
<1>9. CASE a = 7
  <2>1. o = NeLut[8][b + 1]
    BY <1>9 DEF Look
  <2> HIDE DEF o
  <2> QED
    BY <1>1, <1>2, <1>3, <1>9, <2>1 DEF NeLut
<1> QED
  BY <1>1, <1>4, <1>5, <1>6, <1>7, <1>8, <1>9

LEMMA SignLess ==
  ASSUME NEW a, NEW b, NEW x \in Int, NEW y \in Int, SignStands(a, b, x, y)
  PROVE  SignMeaning(Look(SltLut, a, b), Truth(x < y))
<1> DEFINE r == Truth(x < y)
           o == Look(SltLut, a, b)
<1> SUFFICES SignMeaning(o, r)
  OBVIOUS
<1>1. /\ a \in {1, 2, 3, 5, 6, 7} /\ b \in {1, 2, 3, 5, 6, 7}
      /\ (a = 1 => x < 0) /\ (a = 2 => x > 0) /\ (a = 3 => x = 0)
      /\ (a = 5 => x >= 0) /\ (a = 6 => x <= 0)
      /\ (b = 1 => y < 0) /\ (b = 2 => y > 0) /\ (b = 3 => y = 0)
      /\ (b = 5 => y >= 0) /\ (b = 6 => y <= 0)
  BY SignStandsFor
<1>2. /\ (o = 1 /\ r < 0) \/ (o = 2 /\ r > 0) \/ (o = 3 /\ r = 0)
         \/ (o = 5 /\ r >= 0) \/ (o = 6 /\ r <= 0) \/ o = 7
      => SignMeaning(o, r)
  BY SignNumbers
<1>3. r \in {0, 1} /\ (r = 1 <=> x < y)
  BY DEF Truth
<1> HIDE DEF r
<1>4. CASE a = 1
  <2>1. o = SltLut[2][b + 1]
    BY <1>4 DEF Look
  <2> HIDE DEF o
  <2> QED
    BY <1>1, <1>2, <1>3, <1>4, <2>1 DEF SltLut
<1>5. CASE a = 2
  <2>1. o = SltLut[3][b + 1]
    BY <1>5 DEF Look
  <2> HIDE DEF o
  <2> QED
    BY <1>1, <1>2, <1>3, <1>5, <2>1 DEF SltLut
<1>6. CASE a = 3
  <2>1. o = SltLut[4][b + 1]
    BY <1>6 DEF Look
  <2> HIDE DEF o
  <2> QED
    BY <1>1, <1>2, <1>3, <1>6, <2>1 DEF SltLut
<1>7. CASE a = 5
  <2>1. o = SltLut[6][b + 1]
    BY <1>7 DEF Look
  <2> HIDE DEF o
  <2> QED
    BY <1>1, <1>2, <1>3, <1>7, <2>1 DEF SltLut
<1>8. CASE a = 6
  <2>1. o = SltLut[7][b + 1]
    BY <1>8 DEF Look
  <2> HIDE DEF o
  <2> QED
    BY <1>1, <1>2, <1>3, <1>8, <2>1 DEF SltLut
<1>9. CASE a = 7
  <2>1. o = SltLut[8][b + 1]
    BY <1>9 DEF Look
  <2> HIDE DEF o
  <2> QED
    BY <1>1, <1>2, <1>3, <1>9, <2>1 DEF SltLut
<1> QED
  BY <1>1, <1>4, <1>5, <1>6, <1>7, <1>8, <1>9

\* What the sign domain answers stands for what the machine computes, unless it
\* overflows.
LEMMA SignOpSound ==
  ASSUME NEW op \in Arith \cup Compares, NEW w \in Widths,
         NEW x \in 0 .. 2 ^ w - 1, NEW y \in 0 .. 2 ^ w - 1, NoOverflow(op, x, y, w),
         NEW a \in Signs, NEW b \in Signs,
         SignMeaning(a, Signed(x, w)), SignMeaning(b, Signed(y, w))
  PROVE  SignMeaning(SignOp(op, a, b),
                     IF op \in Compares THEN RawOp(op, x, y, w) ELSE Signed(MachineOp(op, x, y, w), w))
<1> DEFINE s == Signed(x, w)
           t == Signed(y, w)
           r == IF op \in Compares THEN RawOp(op, x, y, w) ELSE Signed(MachineOp(op, x, y, w), w)
           o == SignOp(op, a, b)
<1> SUFFICES SignMeaning(o, r)
  OBVIOUS
<1>1. /\ x \in Int /\ y \in Int /\ s \in Int /\ t \in Int /\ (s = t <=> x = y)
      /\ Unsigned(x, w) = x /\ Unsigned(y, w) = y
  BY NumberOfWidth, SignedParts, SignedSame
<1>2. SignStands(a, b, s, t) /\ SignStands(b, a, t, s)
  BY DEF SignStands
<1>3. CASE op \in {"add", "mul"}
  <2>1. /\ op = "add" => RawOp(op, x, y, w) = x + y /\ Signed(x + y, w) = s + t
        /\ op = "mul" => RawOp(op, x, y, w) = x * y /\ Signed(x * y, w) = s * t
    BY <1>1, <1>3 DEF RawOp, Bits, NoOverflow
  <2>2. r = Signed(RawOp(op, x, y, w), w)
    <3>1. RawOp(op, x, y, w) \in Int
      BY <1>1, <1>3, <2>1
    <3> QED
      BY <1>3, <3>1, CutNumber DEF MachineOp, Compares
  <2>3. /\ op = "add" => o = Look(AddLut, a, b)
        /\ op = "mul" => o = Look(MulLut, a, b)
    BY DEF SignOp
  <2> HIDE DEF s, t, r, o
  <2>4. CASE op = "add"
    BY <1>1, <1>2, <2>1, <2>2, <2>3, <2>4, SignAdds
  <2>5. CASE op = "mul"
    BY <1>1, <1>2, <2>1, <2>2, <2>3, <2>5, SignMultiplies
  <2> QED
    BY <1>3, <2>4, <2>5
<1>4. CASE op \in {"eq", "ne", "slt", "sgt"}
  <2>1. /\ op = "eq" => r = Truth(x = y) /\ o = Look(EqLut, a, b)
        /\ op = "ne" => r = Truth(x # y) /\ o = Look(NeLut, a, b)
        /\ op = "slt" => r = Truth(s < t) /\ o = Look(SltLut, a, b)
        /\ op = "sgt" => r = Truth(s > t) /\ o = Look(SltLut, b, a)
    BY <1>4, Comparisons DEF SignOp, Compares
  <2> HIDE DEF s, t, r, o
  <2>2. /\ op = "eq" => r = Truth(s = t)
        /\ op = "ne" => r = Truth(s # t)
        /\ op = "sgt" => r = Truth(t < s)
    BY <1>1, <2>1 DEF Truth
  <2>3. CASE op = "eq"
    BY <1>1, <1>2, <2>1, <2>2, <2>3, SignEquals
  <2>4. CASE op = "ne"
    BY <1>1, <1>2, <2>1, <2>2, <2>4, SignDiffers
  <2>5. CASE op = "slt"
    BY <1>1, <1>2, <2>1, <2>5, SignLess
  <2>6. CASE op = "sgt"
    BY <1>1, <1>2, <2>1, <2>2, <2>6, SignLess
  <2> QED
    BY <1>4, <2>3, <2>4, <2>5, <2>6
<1>5. CASE op \notin {"add", "mul", "eq", "ne", "slt", "sgt"}
  <2>1. op # "ffalse"
    BY DEF Arith, Compares, Divisions, Shifts, Bits
  <2>2. o = Top
    BY <1>5, <2>1 DEF SignOp
  <2> QED
    BY <2>2, SignNumbers DEF Top
<1> QED
  BY <1>3, <1>4, <1>5

LEMMA SignLiftSound == ASSUME NEW x \in Int PROVE SignMeaning(SignLift(x), x)
  BY SignNumbers DEF SignLift, Ltz, Gtz, Eqz

LEMMA SignAnySound ==
  ASSUME NEW from \in Int, NEW to \in Int, NEW x \in from .. to
  PROVE  SignMeaning(SignAny(from, to), x)
<1> DEFINE o == SignAny(from, to)
<1>1. /\ from = 0 => o = IF to = 0 THEN 3 ELSE 5
      /\ from # 0 /\ to = 0 => o = 6
      /\ from < 0 /\ to < 0 => o = 1
      /\ from > 0 => o = 2
      /\ from < 0 /\ to > 0 => o = 7
  BY DEF SignAny, Bot, Ltz, Gtz, Eqz, Gez, Lez, Top
<1> HIDE DEF o
<1>2. SignMeaning(o, x)
  BY <1>1, SignNumbers
<1> QED
  BY <1>2 DEF o

\* Deleted storage stands for no number.
LEMMA FreedMeansNothing == Freed \notin Signs /\ \A x : ~SignMeaning(Freed, x)
  BY SignCases DEF SignMeaning, Freed, Bot, Ltz, Gtz, Eqz, Nez, Gez, Lez, Top

\* Meeting a truth value with itself keeps it.
LEMMA SignAssumeSound ==
  ASSUME NEW a \in Signs, NEW x \in {0, 1}, SignMeaning(a, x)
  PROVE  /\ SignMeaning(SignAssume(a, x = 1), x)
         /\ (x = 1) \in TriLower(SignTristate(a)) /\ SignTristate(a) # "fail"
<1> DEFINE o == SignAssume(a, x = 1)
<1>1. /\ x = 0 => a \in {3, 5, 6, 7} /\ o = Look(MeetLut, a, 3)
      /\ x = 1 => a \in {2, 5, 7} /\ o = Look(MeetLut, a, 2)
  BY SignNumbers, SignCases DEF SignAssume, Gtz, Eqz
<1>2. \A c \in {3, 5, 6, 7} : Look(MeetLut, c, 3) = 3
  BY DEF Look, MeetLut
<1>3. \A c \in {2, 5, 7} : Look(MeetLut, c, 2) = 2
  BY DEF Look, MeetLut
<1> HIDE DEF o
<1>4. SignMeaning(o, x)
  BY <1>1, <1>2, <1>3, SignNumbers
<1>5. /\ x = 0 => SignTristate(a) \in {"false", "maybe"}
      /\ x = 1 => SignTristate(a) \in {"true", "maybe"}
  BY <1>1 DEF SignTristate, Ltz, Gtz, Eqz, Nez, Gez, Lez, Top
<1>6. (x = 1) \in TriLower(SignTristate(a))
  BY <1>5 DEF TriLower
<1> QED
  BY <1>4, <1>5, <1>6 DEF o

-----------------------------------------------------------------------------
(***************************************************************************)
(* Constants keep the number they stand for, cut to a wider type.          *)
(***************************************************************************)

ConstantOf(v, x, w) ==
    /\ v.dom = "constant" /\ v.bw = Width /\ v.num \in Int
    /\ Unsigned(v.num, w) = x /\ (w = 1 => v.num = x)

\* Operations read their operands in the width, unsigned or signed.
LEMMA OperandsCut ==
  ASSUME NEW op \in Arith \cup Compares, NEW w \in Widths, NEW x \in Int, NEW y \in Int
  PROVE  RawOp(op, x, y, w) = RawOp(op, Unsigned(x, w), Unsigned(y, w), w)
<1>1. /\ Unsigned(Unsigned(x, w), w) = Unsigned(x, w) /\ Signed(Unsigned(x, w), w) = Signed(x, w)
      /\ Unsigned(Unsigned(y, w), w) = Unsigned(y, w) /\ Signed(Unsigned(y, w), w) = Signed(y, w)
  BY CutNumber
<1>2. CASE op \in {"add", "sub", "mul", "udiv", "urem", "shl", "lshr", "eq", "ne"}
  BY <1>1, <1>2 DEF RawOp, Bits
<1>3. CASE op \in {"sdiv", "srem", "ashr", "slt", "sle", "sgt", "sge"}
  BY <1>1, <1>3 DEF RawOp, Bits
<1>4. CASE op \in {"ult", "ule", "ugt", "uge"} \cup Bits
  BY <1>1, <1>4 DEF RawOp, Bits
<1> QED
  BY <1>2, <1>3, <1>4 DEF Arith, Compares, Divisions, Shifts, Bits

\* Cutting a number to twice the width first changes nothing.
LEMMA WideCut ==
  ASSUME NEW x \in Int
  PROVE  (x % 2 ^ (2 * Width)) \in Int /\ Unsigned(x % 2 ^ (2 * Width), Width) = Unsigned(x, Width)
<1>1. Width \in Nat /\ Width + Width = 2 * Width /\ 2 * Width \in Widths
  BY WidthIn
<1>2. (x % 2 ^ (Width + Width)) % 2 ^ Width = x % 2 ^ Width
  BY <1>1, PowerRemainder
<1>3. (x % 2 ^ (2 * Width)) \in Int
  BY <1>1, UnsignedRange DEF Unsigned
<1> QED
  BY <1>1, <1>2, <1>3 DEF Unsigned

LEMMA BitCut ==
  ASSUME NEW x \in Int
  PROVE  Unsigned(Unsigned(x, Width), 1) = Unsigned(x, 1)
<1>1. Width - 1 \in Nat /\ 1 \in Nat /\ 1 + (Width - 1) = Width
  BY WidthIn
<1>2. (x % 2 ^ (1 + (Width - 1))) % 2 ^ 1 = x % 2 ^ 1
  BY <1>1, PowerRemainder
<1> QED
  BY <1>1, <1>2 DEF Unsigned

LEMMA TruthCut ==
  ASSUME NEW x \in {0, 1}, NEW w \in Widths
  PROVE  x \in Int /\ Unsigned(x, w) = x
<1>1. 2 ^ w \in Int /\ 2 ^ w > 1
  BY PowerHalf
<1>2. x \in 0 .. 2 ^ w - 1
  BY <1>1
<1> QED
  BY <1>2, NumberOfWidth

LEMMA ConstantOpSound ==
  ASSUME NEW op \in Arith \cup Compares, Width # 1,
         NEW x \in 0 .. 2 ^ Width - 1, NEW y \in 0 .. 2 ^ Width - 1, Defined(op, x, y, Width),
         NEW a, NEW b, ConstantOf(a, x, Width), ConstantOf(b, y, Width)
  PROVE  \E v : /\ WithType(op, a, b) = Got({v})
                /\ ConstantOf(v, IF op \in Compares THEN RawOp(op, x, y, Width) ELSE MachineOp(op, x, y, Width),
                              IF op \in Compares THEN 1 ELSE Width)
<1> DEFINE q == RawOp(op, x, y, Width)
           v == Constant(q % 2 ^ (2 * Width), Width)
<1>1. RawOp(op, a.num, b.num, Width) = q
  BY OperandsCut, WidthIn DEF ConstantOf
<1>2. WithType(op, a, b) = Got({v})
  BY <1>1 DEF WithType, ConstantOf
<1>3. v.dom = "constant" /\ v.bw = Width /\ v.num = q % 2 ^ (2 * Width)
  BY DEF Constant
<1>4. CASE op \in Compares
  <2>1. q \in {0, 1}
    BY <1>4, CompareTruth
  <2> HIDE DEF q, v
  <2>2. v.num = q /\ q \in Int /\ Unsigned(v.num, 1) = q
    BY <1>3, <2>1, TruthCut, WidthIn DEF Unsigned
  <2>3. ConstantOf(v, q, 1)
    BY <1>3, <2>2 DEF ConstantOf
  <2> QED
    BY <1>2, <1>4, <2>3 DEF q
<1>5. CASE op \notin Compares
  <2>1. q \in Int
    BY <1>5, RawOpInt, NumberOfWidth, WidthIn
  <2>2. MachineOp(op, x, y, Width) = Unsigned(q, Width)
    BY DEF MachineOp
  <2> HIDE DEF q, v
  <2>3. v.num \in Int /\ Unsigned(v.num, Width) = Unsigned(q, Width)
    BY <1>3, <2>1, WideCut
  <2>4. ConstantOf(v, Unsigned(q, Width), Width)
    BY <1>3, <2>3 DEF ConstantOf
  <2> QED
    BY <1>2, <1>5, <2>2, <2>4
<1> QED
  BY <1>4, <1>5

\* Only casts to truth values are sound.
LEMMA ConstantCastSound ==
  ASSUME Width # 1, NEW x \in 0 .. 2 ^ Width - 1, NEW a, ConstantOf(a, x, Width)
  PROVE  ConstantOf(ConstantCast("trunc", a, 1), MachineCast("trunc", x, Width, 1), 1)
<1> DEFINE v == ConstantCast("trunc", a, 1)
           r == MachineCast("trunc", x, Width, 1)
<1>1. v = Constant(Unsigned(a.num, 1), Width)
  BY DEF ConstantCast, SetBw, ConstantOf
<1>2. v.dom = "constant" /\ v.bw = Width /\ v.num = Unsigned(a.num, 1)
  BY <1>1 DEF Constant
<1>3. a.num \in Int /\ Unsigned(a.num, Width) = x
  BY DEF ConstantOf
<1>4. Unsigned(a.num, 1) \in Int /\ Unsigned(Unsigned(a.num, 1), 1) = Unsigned(a.num, 1)
  BY <1>3, CutNumber, UnsignedRange, WidthIn
<1>5. r = Unsigned(a.num, 1)
  <2>1. r = Unsigned(Unsigned(x, Width), 1)
    BY DEF MachineCast
  <2> QED
    BY <1>3, <2>1, BitCut, CutNumber, WidthIn
<1> HIDE DEF v, r
<1>6. ConstantOf(v, r, 1)
  BY <1>2, <1>4, <1>5 DEF ConstantOf
<1> QED
  BY <1>6 DEF v, r

-----------------------------------------------------------------------------
(***************************************************************************)
(* What a value stands for. Terms are read under choices of the unknowns:  *)
(* those that give the ones met so far the numbers of the concrete run.    *)
(***************************************************************************)

Number(x, w) == IF w = 1 THEN x ELSE Signed(x, w)

Stands(d, v, x, w, W) ==
    CASE d = "sign" -> SignMeaning(v, Number(x, w))
      [] d = "zero" -> ZeroMeaning(v, Number(x, w))
      [] d = "constant" -> ConstantOf(v, x, w)
      [] d = "trivial" -> v.dom = "unit" \/ ConstantOf(v, x, w)
      [] d = "term" -> \A m \in W : v[m] = x
      [] OTHER -> v.dom = "unit"

\* An answer that stands for x, or a process that ends in the open.
Covers(O, x, w, W) ==
    \E o \in O : o.how = "trap" \/ (o.how = "ok" /\ Stands(domain, o.val, x, w, W))

NotIntervals == domain \in Domains /\ domain # "interval"

LEMMA OtherDomains ==
  ASSUME NotIntervals
  PROVE  domain \in {"sign", "zero", "bitvec", "unit", "constant", "trivial", "term"}
  BY DEF NotIntervals, Domains

LEMMA GotCovers ==
  ASSUME NEW v, NEW x, NEW w, NEW W, Stands(domain, v, x, w, W)
  PROVE  Covers(Got({v}), x, w, W)
<1> DEFINE o == [how |-> "ok", val |-> v]
<1>1. o \in Got({v})
  BY DEF Got
<1>2. o.how = "ok" /\ o.val = v
  OBVIOUS
<1> HIDE DEF o
<1> QED
  BY <1>1, <1>2 DEF Covers

LEMMA EndsCover ==
  ASSUME NEW x, NEW w, NEW W
  PROVE  Covers(Fails, x, w, W)
  BY DEF Covers, Ends, Fails

LEMMA UnitCovers ==
  ASSUME domain \in {"bitvec", "unit", "trivial"}, NEW x, NEW w, NEW W
  PROVE  Covers(UnitAnswer, x, w, W) /\ Covers(BitvecAnswer, x, w, W)
<1>1. Stands(domain, UnitValue, x, w, W)
  BY DEF Stands, UnitValue
<1> QED
  BY <1>1, GotCovers DEF UnitAnswer, BitvecAnswer

LEMMA NumberIs ==
  ASSUME NEW w \in Widths, NEW x \in 0 .. 2 ^ w - 1
  PROVE  /\ Number(x, w) \in Int /\ (Number(x, w) = 0 <=> x = 0) /\ x \in Int
         /\ w # 1 => Number(x, w) = Signed(x, w)
         /\ w = 1 => Number(x, w) = x /\ x \in {0, 1}
<1>1. Signed(x, w) \in Int /\ (Signed(x, w) = 0 <=> x = 0) /\ x \in Int
  BY SignedParts, NumberOfWidth
<1>2. w = 1 => x \in {0, 1}
  <2> SUFFICES ASSUME w = 1 PROVE x \in {0, 1}
    OBVIOUS
  <2> DEFINE p == 2 ^ 1
  <2>1. p = 2 /\ x \in 0 .. p - 1
    BY PowerOfOne
  <2> HIDE DEF p
  <2> QED
    BY <2>1
<1> QED
  BY <1>1, <1>2 DEF Number

\* The zero domain tells apart only 0 from other numbers.
LEMMA ZeroNumber ==
  ASSUME NEW w \in Widths, NEW x \in 0 .. 2 ^ w - 1, NEW v
  PROVE  ZeroMeaning(v, Number(x, w)) <=> ZeroMeaning(v, x)
<1> DEFINE n == Number(x, w)
<1>1. n = 0 <=> x = 0
  BY NumberIs
<1> HIDE DEF n
<1>2. ZeroMeaning(v, n) <=> ZeroMeaning(v, x)
  BY <1>1 DEF ZeroMeaning, Zero, NonZero, Unknown
<1> QED
  BY <1>2 DEF n

LEMMA LiftCovers ==
  ASSUME NotIntervals, NEW x \in 0 .. 2 ^ Width - 1, Fits(x), NEW W \in SUBSET Worlds
  PROVE  Covers(DomLift(domain, x, Width), x, Width, W)
<1>1. Width \in Widths /\ x \in Int /\ Unsigned(x, Width) = x
  BY WidthIn, NumberOfWidth
<1>2. CASE domain = "sign"
  <2>1. Number(x, Width) = x
    BY <1>2 DEF Number, Fits
  <2>2. Stands(domain, SignLift(x), x, Width, W)
    BY <1>1, <1>2, <2>1, SignLiftSound DEF Stands
  <2> QED
    BY <1>2, <2>2, GotCovers DEF DomLift
<1>3. CASE domain = "zero"
  <2>1. ZeroMeaning(ZeroLift(x), x)
    BY DEF ZeroMeaning, ZeroLift, Zero, NonZero, Unknown
  <2>2. Stands(domain, ZeroLift(x), x, Width, W)
    BY <1>1, <1>3, <2>1, ZeroNumber DEF Stands
  <2> QED
    BY <1>3, <2>2, GotCovers DEF DomLift
<1>4. CASE domain \in {"constant", "trivial"}
  <2>1. ConstantOf(Constant(x, Width), x, Width)
    BY <1>1 DEF ConstantOf, Constant
  <2>2. Stands(domain, Constant(x, Width), x, Width, W)
    BY <1>4, <2>1 DEF Stands
  <2> QED
    BY <1>4, <2>2, GotCovers DEF DomLift
<1>5. CASE domain = "term"
  <2>1. Stands(domain, [m \in Worlds |-> x], x, Width, W)
    BY <1>5 DEF Stands
  <2> QED
    BY <1>5, <2>1, GotCovers DEF DomLift
<1>6. CASE domain \in {"bitvec", "unit"}
  BY <1>6, UnitCovers DEF DomLift
<1> QED
  BY <1>2, <1>3, <1>4, <1>5, <1>6, OtherDomains

LEMMA AnyCovers ==
  ASSUME NotIntervals, NEW x, NEW w, NEW k, NEW W \in SUBSET Worlds, \A m \in W : m[k] = x
  PROVE  Covers(DomAny(domain, k), x, w, W)
<1>1. CASE domain = "sign"
  <2>1. Stands(domain, Top, x, w, W)
    BY <1>1, SignNumbers DEF Stands, Top
  <2> QED
    BY <1>1, <2>1, GotCovers DEF DomAny
<1>2. CASE domain = "zero"
  <2>1. Stands(domain, Unknown, x, w, W)
    BY <1>2 DEF Stands, ZeroMeaning, Zero, NonZero, Unknown
  <2> QED
    BY <1>2, <2>1, GotCovers DEF DomAny
<1>3. CASE domain = "constant"
  BY <1>3, EndsCover DEF DomAny
<1>4. CASE domain = "term"
  <2>1. Stands(domain, [m \in Worlds |-> m[k]], x, w, W)
    BY <1>4 DEF Stands
  <2> QED
    BY <1>4, <2>1, GotCovers DEF DomAny
<1>5. CASE domain \in {"bitvec", "unit", "trivial"}
  BY <1>5, UnitCovers DEF DomAny
<1> QED
  BY <1>1, <1>2, <1>3, <1>4, <1>5, OtherDomains

LEMMA RangeCovers ==
  ASSUME NotIntervals, NEW from \in 0 .. 2 ^ Width - 1, NEW to \in 0 .. 2 ^ Width - 1,
         NEW x \in from .. to, Fits(to), NEW W
  PROVE  Covers(DomRange(domain, from, to), x, Width, W)
<1>1. CASE domain = "sign"
  <2>1. Width \in Widths /\ from \in Int /\ to \in Int /\ x \in 0 .. 2 ^ Width - 1
    <3>1. 2 ^ Width \in Int
      BY WidthIn, PowerOfWidth
    <3> QED
      BY <3>1, WidthIn
  <2>2. Number(x, Width) = x
    <3> DEFINE h == 2 ^ (Width - 1)
               m == 2 ^ Width
    <3>1. /\ Signed(to, Width) = IF to >= h THEN to - m ELSE to
          /\ Signed(x, Width) = IF x >= h THEN x - m ELSE x
      BY <2>1, NumberOfWidth
    <3>2. h \in Int /\ m \in Int /\ m > 0 /\ x <= to
      BY <2>1, PowerHalf
    <3>3. Signed(to, Width) = to
      BY <1>1 DEF Fits
    <3> HIDE DEF h, m
    <3>4. Signed(x, Width) = x
      BY <2>1, <3>1, <3>2, <3>3
    <3> QED
      BY <3>4 DEF Number
  <2>3. Stands(domain, SignAny(from, to), x, Width, W)
    BY <1>1, <2>1, <2>2, SignAnySound DEF Stands
  <2> QED
    BY <1>1, <2>3, GotCovers DEF DomRange
<1>2. CASE domain \in {"zero", "constant", "term"}
  BY <1>2, EndsCover DEF DomRange
<1>3. CASE domain \in {"bitvec", "unit", "trivial"}
  BY <1>3, UnitCovers DEF DomRange
<1> QED
  BY <1>1, <1>2, <1>3, OtherDomains

LEMMA OneOfCovers ==
  ASSUME NotIntervals, NEW r, NEW x, NEW w, NEW W
  PROVE  Covers(DomOneOf(domain, r), x, w, W)
<1>1. CASE domain \in {"sign", "zero", "constant", "term"}
  BY <1>1, EndsCover DEF DomOneOf
<1>2. CASE domain \in {"bitvec", "unit", "trivial"}
  BY <1>2, UnitCovers DEF DomOneOf
<1> QED
  BY <1>1, <1>2, OtherDomains

LEMMA TermOpSound ==
  ASSUME NEW op \in Arith \cup Compares, NEW w \in Widths, NEW a, NEW b, NEW m \in Worlds,
         Defined(op, a[m], b[m], w)
  PROVE  TermOp(op, a, b, w)[m] =
             IF op \in Compares THEN RawOp(op, a[m], b[m], w) ELSE MachineOp(op, a[m], b[m], w)
<1>1. TermOp(op, a, b, w)[m] = MachineOp(op, a[m], b[m], w)
  BY DEF TermOp
<1>2. op \in Compares => MachineOp(op, a[m], b[m], w) = RawOp(op, a[m], b[m], w)
  BY CompareTruth, TruthCut DEF MachineOp
<1> QED
  BY <1>1, <1>2

LEMMA OpCovers ==
  ASSUME NotIntervals, NEW op \in Arith \cup Compares, NEW w \in Widths, w # 1,
         domain \in {"constant", "trivial"} => w = Width,
         NEW x \in 0 .. 2 ^ w - 1, NEW y \in 0 .. 2 ^ w - 1, Defined(op, x, y, w),
         NEW a, NEW b, ValueOK(a), ValueOK(b), NEW W \in SUBSET Worlds,
         Stands(domain, a, x, w, W), Stands(domain, b, y, w, W),
         domain = "sign" => NoOverflow(op, x, y, w),
         domain = "zero" => op # "mul"
  PROVE  Covers(DomOp(domain, op, a, b, w),
                IF op \in Compares THEN RawOp(op, x, y, w) ELSE MachineOp(op, x, y, w),
                IF op \in Compares THEN 1 ELSE w, W)
<1> DEFINE r == IF op \in Compares THEN RawOp(op, x, y, w) ELSE MachineOp(op, x, y, w)
           v == IF op \in Compares THEN 1 ELSE w
<1> SUFFICES Covers(DomOp(domain, op, a, b, w), r, v, W)
  OBVIOUS
<1>1. v \in Widths /\ r \in 0 .. 2 ^ v - 1
  <2>1. /\ op \in Compares => RawOp(op, x, y, w) \in 0 .. 2 ^ 1 - 1
        /\ op \notin Compares => MachineOp(op, x, y, w) \in 0 .. 2 ^ w - 1
    BY NumberOfWidth, OperateNumber
  <2> QED
    BY <2>1, WidthIn
<1>2. CASE domain = "sign"
  <2>1. /\ a \in Signs \cup {Freed} /\ SignMeaning(a, Signed(x, w)) /\ NoOverflow(op, x, y, w)
        /\ b \in Signs \cup {Freed} /\ SignMeaning(b, Signed(y, w))
    BY <1>2, NumberIs DEF ValueOK, Stands
  <2>5. a \in Signs /\ b \in Signs /\ a # Freed /\ b # Freed
    BY <2>1, FreedMeansNothing
  <2>2. SignMeaning(SignOp(op, a, b),
                    IF op \in Compares THEN RawOp(op, x, y, w) ELSE Signed(MachineOp(op, x, y, w), w))
    BY <2>1, <2>5, SignOpSound
  <2>3. Number(r, v) = IF op \in Compares THEN RawOp(op, x, y, w) ELSE Signed(MachineOp(op, x, y, w), w)
    BY DEF Number
  <2> HIDE DEF r, v
  <2>4. Stands(domain, SignOp(op, a, b), r, v, W)
    BY <1>2, <2>2, <2>3 DEF Stands
  <2>6. DomOp(domain, op, a, b, w) = Got({SignOp(op, a, b)})
    BY <1>2, <2>5 DEF DomOp, Relational, RelationalOp
  <2> QED
    BY <2>4, <2>6, GotCovers
<1>3. CASE domain = "zero"
  <2>1. a \in Zeros /\ ZeroMeaning(a, x) /\ b \in Zeros /\ ZeroMeaning(b, y) /\ op # "mul"
    BY <1>3, ZeroNumber DEF ValueOK, Stands
  <2>2. DomOp(domain, op, a, b, w) = IF ZeroFails(op, b) THEN Fails ELSE Got({ZeroOp(op, a, b)})
    BY <1>3 DEF DomOp, Relational, RelationalOp
  <2>3. CASE ZeroFails(op, b)
    BY <2>2, <2>3, EndsCover
  <2>4. CASE ~ZeroFails(op, b)
    <3>1. ZeroStands(a, b, x, y)
      BY <2>1 DEF ZeroStands
    <3>2. ZeroMeaning(ZeroOp(op, a, b), r)
      BY <2>1, <2>4, <3>1, ZeroOpSound
    <3> HIDE DEF r, v
    <3>3. Stands(domain, ZeroOp(op, a, b), r, v, W)
      BY <1>1, <1>3, <3>2, ZeroNumber DEF Stands
    <3> QED
      BY <2>2, <2>4, <3>3, GotCovers
  <2> QED
    BY <2>3, <2>4
<1>4. CASE domain \in {"constant", "trivial"} /\ ConstantOf(a, x, w) /\ ConstantOf(b, y, w)
  <2>1. w = Width /\ Width # 1
    BY <1>4
  <2>2. PICK c : WithType(op, a, b) = Got({c}) /\ ConstantOf(c, r, v)
    BY <1>4, <2>1, ConstantOpSound
  <2> HIDE DEF r, v
  <2>3. Stands(domain, c, r, v, W)
    BY <1>4, <2>2 DEF Stands
  <2>4. DomOp(domain, op, a, b, w) = Got({c})
    <3>1. a.dom = "constant" /\ b.dom = "constant"
      BY <1>4 DEF ConstantOf
    <3>2. SemilatticeJoin({a.dom, b.dom}) = "constant"
      BY <3>1 DEF SemilatticeJoin
    <3> QED
      BY <1>4, <2>2, <3>2 DEF DomOp, Relational, SemilatticeOp, InDomain
  <2> QED
    BY <2>3, <2>4, GotCovers
<1>5. CASE domain = "trivial" /\ ~(ConstantOf(a, x, w) /\ ConstantOf(b, y, w))
  <2>1. a.dom = "unit" \/ b.dom = "unit"
    BY <1>5 DEF Stands
  <2>2. SemilatticeJoin({a.dom, b.dom}) = "unit"
    <3>1. {a.dom, b.dom} # {"constant"}
      BY <2>1
    <3> QED
      BY <3>1 DEF SemilatticeJoin
  <2>3. DomOp(domain, op, a, b, w) = UnitAnswer
    BY <1>5, <2>2 DEF DomOp, Relational, SemilatticeOp, InDomain
  <2> QED
    BY <1>5, <2>3, UnitCovers
<1>6. CASE domain = "term"
  <2>1. \A m \in W : a[m] = x /\ b[m] = y
    BY <1>6 DEF Stands
  <2>2. \A m \in W : TermOp(op, a, b, w)[m] = r
    BY <2>1, TermOpSound
  <2> HIDE DEF r, v
  <2>3. Stands(domain, TermOp(op, a, b, w), r, v, W)
    BY <1>6, <2>2 DEF Stands
  <2> QED
    BY <1>6, <2>3, GotCovers DEF DomOp, Relational
<1>7. CASE domain \in {"bitvec", "unit"}
  <2>1. DomOp(domain, op, a, b, w) \in {UnitAnswer, BitvecAnswer}
    BY <1>7 DEF DomOp, Relational, RelationalOp
  <2> HIDE DEF r, v
  <2> QED
    BY <1>7, <2>1, UnitCovers
<1>8. domain = "constant" => ConstantOf(a, x, w) /\ ConstantOf(b, y, w)
  BY DEF Stands
<1> QED
  BY <1>2, <1>3, <1>4, <1>5, <1>6, <1>7, <1>8, OtherDomains

LEMMA CastCovers ==
  ASSUME NotIntervals, NEW op \in Casts, NEW w \in Widths, w # 1, NEW v \in Widths,
         op # "trunc" => w < v,
         domain \in {"constant", "trivial"} => w = Width /\ v = 1 /\ op = "trunc",
         NEW x \in 0 .. 2 ^ w - 1, NEW a, ValueOK(a), NEW W \in SUBSET Worlds, Stands(domain, a, x, w, W)
  PROVE  Covers(DomCast(domain, op, a, w, v), MachineCast(op, x, w, v), v, W)
<1> DEFINE r == MachineCast(op, x, w, v)
<1>1. r \in 0 .. 2 ^ v - 1
  BY NumberOfWidth, MachineCastRange
<1>2. CASE domain = "sign"
  <2>1. Stands(domain, Top, r, v, W)
    BY <1>2, SignNumbers DEF Stands, Top
  <2> QED
    BY <1>2, <2>1, GotCovers DEF DomCast
<1>3. CASE domain = "zero"
  <2>1. a \in Zeros /\ ZeroMeaning(a, x)
    BY <1>3, ZeroNumber DEF ValueOK, Stands
  <2>2. ZeroMeaning(ZeroCast(op, a), r)
    <3>1. op \in {"sext", "zext"} => w < v
      OBVIOUS
    <3> QED
      BY <2>1, <3>1, ZeroCastSound
  <2> HIDE DEF r
  <2>3. Stands(domain, ZeroCast(op, a), r, v, W)
    BY <1>1, <1>3, <2>2, ZeroNumber DEF Stands
  <2> QED
    BY <1>3, <2>3, GotCovers DEF DomCast, r
<1>4. CASE domain \in {"constant", "trivial"} /\ ConstantOf(a, x, w)
  <2>1. w = Width /\ v = 1 /\ op = "trunc" /\ Width # 1
    BY <1>4
  <2>2. ConstantOf(ConstantCast(op, a, v), r, v)
    BY <1>4, <2>1, ConstantCastSound
  <2>3. Stands(domain, ConstantCast(op, a, v), r, v, W)
    BY <1>4, <2>2 DEF Stands
  <2>4. DomCast(domain, op, a, w, v) = Got({ConstantCast(op, a, v)})
    BY <1>4 DEF DomCast, SemilatticeCast, InDomain, ConstantOf
  <2> QED
    BY <2>3, <2>4, GotCovers
<1>5. CASE domain = "trivial" /\ a.dom = "unit"
  BY <1>5, UnitCovers DEF DomCast, SemilatticeCast, InDomain
<1>6. CASE domain = "term"
  <2>1. \A m \in W : TermCast(op, a, w, v)[m] = r
    BY <1>6 DEF Stands, TermCast
  <2> HIDE DEF r
  <2>2. Stands(domain, TermCast(op, a, w, v), r, v, W)
    BY <1>6, <2>1 DEF Stands
  <2>3. Covers(Got({TermCast(op, a, w, v)}), r, v, W) /\ Covers(Fails, r, v, W)
    BY <2>2, GotCovers, EndsCover
  <2> QED
    BY <1>6, <2>3 DEF DomCast, r
<1>7. CASE domain \in {"bitvec", "unit"}
  BY <1>7, UnitCovers DEF DomCast
<1>8. domain = "constant" => ConstantOf(a, x, w)
  BY DEF Stands
<1>9. domain = "trivial" => a.dom = "unit" \/ ConstantOf(a, x, w)
  BY DEF Stands
<1> QED
  BY <1>2, <1>3, <1>4, <1>5, <1>6, <1>7, <1>8, <1>9, OtherDomains

-----------------------------------------------------------------------------
(***************************************************************************)
(* Following the concrete run. A choice of the unknowns agrees with the    *)
(* run when it gives the numbers met so far; a fork follows the run when   *)
(* its values stand for the run's numbers under every choice that agrees.  *)
(***************************************************************************)

Agreeing(f, k) == {m \in Worlds : \A i \in 1 .. k : m[i] = f[i]}

Ended(s) == s.out = "trap"

Follows(s, W) ==
    /\ s.out = "ok" /\ (domain = "term" => W \subseteq s.solver)
    /\ \A n \in Nodes : Stands(domain, s.val[n], con[n], dag[n].w, W)

Held(W) == \E s \in forks : Ended(s) \/ Follows(s, W)

NodesSound ==
    /\ pending # 0 => dag[pending].w = 1
    /\ domain \in {"constant", "trivial"} => \A n \in Nodes : dag[n].w \in {1, Width}

Following == \E f \in Worlds : Held(Agreeing(f, Unknowns))

CoverInv == RelInv /\ NodesSound /\ Following

LEMMA NewNodes ==
  ASSUME RelInv, NEW node, NewNode(node), NEW x \in 0 .. 2 ^ node.w - 1,
         dag' = Append(dag, node), con' = Append(con, x), domain' = domain
  PROVE  /\ Len(dag) \in Nat /\ Nodes = 1 .. Len(dag) /\ Nodes' = 1 .. Len(dag) + 1
         /\ \A n \in Nodes' : /\ dag'[n] = IF n = Len(dag) + 1 THEN node ELSE dag[n]
                              /\ con'[n] = IF n = Len(dag) + 1 THEN x ELSE con[n]
                              /\ n # Len(dag) + 1 => n \in Nodes
<1> DEFINE k == Len(dag)
<1>1. dag \in Seq(NodeSet) /\ k \in Nat /\ Nodes = 1 .. k /\ node \in NodeSet
  BY NodesAre DEF RelInv, DagShape, NewNode
<1>2. Len(dag') = k + 1 /\ dag' \in Seq(NodeSet) /\ \A n \in 1 .. k + 1 : dag'[n] = IF n = k + 1 THEN node ELSE dag[n]
  BY <1>1
<1>3. con \in Seq(Int) /\ Len(con) = k /\ x \in Int
  BY DEF RelInv, ConOK
<1>4. \A n \in 1 .. k + 1 : con'[n] = IF n = k + 1 THEN x ELSE con[n]
  BY <1>1, <1>3
<1>5. Nodes' = 1 .. k + 1
  BY <1>2 DEF Nodes
<1>6. \A n \in 1 .. k + 1 : n # k + 1 => n \in 1 .. k
  BY <1>1
<1> HIDE DEF k
<1> QED
  BY <1>1, <1>2, <1>4, <1>5, <1>6 DEF k

LEMMA AnsweredParts ==
  ASSUME NEW k \in Nat, NEW s, LiveFork(s, k), NEW o, o.how = "ok"
  PROVE  LET t == Answered(s, o)
         IN  /\ t.out = "ok" /\ t.solver = s.solver
             /\ \A n \in 1 .. k + 1 : t.val[n] = IF n = k + 1 THEN o.val ELSE s.val[n]
<1> DEFINE f == s.val
           v == o.val
           S == {f[n] : n \in 1 .. k} \cup {v}
           g == Append(f, v)
           t == [s EXCEPT !.val = g]
<1>1. Shaped(s) /\ s.out = "ok" /\ f = [n \in 1 .. k |-> f[n]]
  BY LiveParts
<1>2. Answered(s, o) = t
  BY <1>1 DEF Answered, Shaped
<1>3. t.out = "ok" /\ t.solver = s.solver /\ t.val = g
  <2> HIDE DEF g
  <2> QED
    BY <1>1 DEF Shaped
<1>4. f \in Seq(S) /\ v \in S /\ Len(f) = k
  <2>1. f \in [1 .. k -> S]
    <3> HIDE DEF f, v
    <3> QED
      BY <1>1
  <2>2. v \in S
    OBVIOUS
  <2> HIDE DEF S, f, v
  <2> QED
    BY <1>1, <2>1, <2>2
<1> HIDE DEF S, f, v, t
<1>5. \A n \in 1 .. k + 1 : g[n] = IF n = k + 1 THEN v ELSE f[n]
  BY <1>4
<1> HIDE DEF g
<1> QED
  BY <1>2, <1>3, <1>5 DEF f, v

\* A call of every fork does not lose the run when the answer of the fork that
\* follows it covers the new number.
LEMMA MakeHolds ==
  ASSUME RelInv, NEW node, NewNode(node), NEW x \in 0 .. 2 ^ node.w - 1, NEW answer, Make(node, x, answer),
         NEW W, NEW V \in SUBSET W, Held(W),
         \A s \in Going : Follows(s, W) => Covers(answer[s], x, node.w, V)
  PROVE  Held(V)'
<1> DEFINE k == Len(dag)
<1>1. /\ dag' = Append(dag, node) /\ con' = Append(con, x) /\ domain' = domain
      /\ forks' = (forks \ Going) \cup UNION {{Answered(s, o) : o \in answer[s]} : s \in Going}
  BY DEF Make
<1>2. /\ k \in Nat /\ Nodes = 1 .. k /\ Nodes' = 1 .. k + 1
      /\ \A n \in Nodes' : /\ dag'[n] = IF n = k + 1 THEN node ELSE dag[n]
                           /\ con'[n] = IF n = k + 1 THEN x ELSE con[n]
                           /\ n # k + 1 => n \in Nodes
  BY <1>1, NewNodes
<1>3. PICK s \in forks : Ended(s) \/ Follows(s, W)
  BY DEF Held
<1>4. CASE Ended(s)
  <2>1. s \in forks'
    BY <1>1, <1>4 DEF Going, Ended
  <2> QED
    BY <1>4, <2>1 DEF Held, Ended
<1>5. CASE Follows(s, W)
  <2>1. s \in Going
    BY <1>5 DEF Follows, Going
  <2>2. LiveFork(s, k)
    BY <2>1 DEF RelInv, ForksOK, LiveFork, Going
  <2>3. PICK o \in answer[s] : o.how = "trap" \/ (o.how = "ok" /\ Stands(domain, o.val, x, node.w, V))
    BY <1>5, <2>1 DEF Covers
  <2> DEFINE t == Answered(s, o)
  <2>4. t \in forks'
    BY <1>1, <2>1
  <2>5. CASE o.how = "trap"
    <3>1. t = End(s, o.how)
      BY <2>5 DEF Answered
    <3>2. Shaped(s)
      BY <2>2 DEF LiveFork, ForkOK
    <3>3. t.out = o.how
      BY <3>1, <3>2 DEF End, Shaped
    <3> QED
      BY <2>4, <2>5, <3>3 DEF Held, Ended
  <2>6. CASE o.how = "ok" /\ Stands(domain, o.val, x, node.w, V)
    <3>1. /\ t.out = "ok" /\ t.solver = s.solver
          /\ \A n \in 1 .. k + 1 : t.val[n] = IF n = k + 1 THEN o.val ELSE s.val[n]
      <4> HIDE DEF k
      <4> QED
        BY <1>2, <2>2, <2>6, AnsweredParts DEF k
    <3> HIDE DEF k, t
    <3>2. \A n \in Nodes : Stands(domain, s.val[n], con[n], dag[n].w, V)
      <4>1. \A n \in Nodes : Stands(domain, s.val[n], con[n], dag[n].w, W)
        BY <1>5 DEF Follows
      <4> QED
        BY <4>1 DEF Stands
    <3>3. \A n \in Nodes' : Stands(domain, t.val[n], con'[n], dag'[n].w, V)
      <4> SUFFICES ASSUME NEW n \in Nodes' PROVE Stands(domain, t.val[n], con'[n], dag'[n].w, V)
        OBVIOUS
      <4>1. CASE n = k + 1
        <5>1. t.val[n] = o.val /\ con'[n] = x /\ dag'[n] = node
          BY <1>2, <3>1, <4>1
        <5> QED
          BY <2>6, <5>1
      <4>2. CASE n # k + 1
        <5>1. n \in Nodes /\ t.val[n] = s.val[n] /\ con'[n] = con[n] /\ dag'[n] = dag[n]
          BY <1>2, <3>1, <4>2
        <5> QED
          BY <3>2, <5>1
      <4> QED
        BY <4>1, <4>2
    <3>5. domain = "term" => V \subseteq t.solver
      BY <1>5, <3>1 DEF Follows
    <3>6. Follows(t, V)'
      BY <1>1, <3>1, <3>3, <3>5 DEF Follows
    <3> QED
      BY <2>4, <3>6 DEF Held, t
  <2> QED
    BY <2>3, <2>5, <2>6
<1> QED
  BY <1>3, <1>4, <1>5

\* What a call must make for the nodes to stay in order.
LEMMA MakeSound ==
  ASSUME RelInv, NodesSound, NEW node, NewNode(node), NEW x \in 0 .. 2 ^ node.w - 1, NEW answer,
         Make(node, x, answer), node.op \in Compares => node.w = 1,
         domain \in {"constant", "trivial"} => node.w \in {1, Width}
  PROVE  NodesSound'
<1> DEFINE k == Len(dag)
<1>1. /\ dag' = Append(dag, node) /\ con' = Append(con, x) /\ domain' = domain
      /\ pending' = IF node.op \in Compares \/ node.w = 1 THEN k + 1 ELSE 0
  BY DEF Make
<1>2. /\ k \in Nat /\ Nodes = 1 .. k /\ Nodes' = 1 .. k + 1
      /\ \A n \in Nodes' : /\ dag'[n] = IF n = k + 1 THEN node ELSE dag[n]
                           /\ con'[n] = IF n = k + 1 THEN x ELSE con[n]
                           /\ n # k + 1 => n \in Nodes
  BY <1>1, NewNodes
<1>3. k + 1 \in Nodes' /\ k + 1 \notin Nodes
  BY <1>2
<1> HIDE DEF k
<1>4. pending' # 0 => dag'[pending'].w = 1
  BY <1>1, <1>2, <1>3
<1>5. domain \in {"constant", "trivial"} => \A n \in Nodes' : dag'[n].w \in {1, Width}
  BY <1>2 DEF NodesSound
<1> QED
  BY <1>1, <1>4, <1>5 DEF NodesSound

-----------------------------------------------------------------------------
(***************************************************************************)
(* The calls of a program do not lose the run.                             *)
(***************************************************************************)

LEMMA UnknownsFinite ==
  ASSUME RelInv
  PROVE  IsFiniteSet({n \in Nodes : dag[n].op = "any"}) /\ Unknowns \in Nat
<1>1. IsFiniteSet(Nodes)
  BY NodesAre, FS_Interval DEF RelInv
<1>2. IsFiniteSet({n \in Nodes : dag[n].op = "any"})
  BY <1>1, FS_Subset
<1> QED
  BY <1>2, FS_CardinalityType DEF Unknowns

LEMMA UnknownsAfter ==
  ASSUME RelInv, NEW node, NewNode(node), NEW x \in 0 .. 2 ^ node.w - 1, NEW answer, Make(node, x, answer)
  PROVE  Unknowns' = IF node.op = "any" THEN Unknowns + 1 ELSE Unknowns
<1> DEFINE k == Len(dag)
           A == {n \in Nodes : dag[n].op = "any"}
<1>1. /\ dag' = Append(dag, node) /\ con' = Append(con, x) /\ domain' = domain
  BY DEF Make
<1>2. /\ k \in Nat /\ Nodes = 1 .. k /\ Nodes' = 1 .. k + 1
      /\ \A n \in Nodes' : /\ dag'[n] = IF n = k + 1 THEN node ELSE dag[n]
                           /\ n # k + 1 => n \in Nodes
  BY <1>1, NewNodes
<1>3. IsFiniteSet(A) /\ Unknowns = Cardinality(A)
  BY UnknownsFinite DEF Unknowns
<1>4. A' = IF node.op = "any" THEN A \cup {k + 1} ELSE A
  <2>1. k + 1 \in Nodes' /\ k + 1 \notin Nodes /\ Nodes \subseteq Nodes'
    BY <1>2
  <2> HIDE DEF k
  <2> QED
    BY <1>2, <2>1
<1>5. k + 1 \notin A
  BY <1>2
<1>6. Unknowns' = Cardinality(A')
  BY DEF Unknowns
<1> HIDE DEF A, k
<1>7. Cardinality(A \cup {k + 1}) = Cardinality(A) + 1
  BY <1>3, <1>5, FS_AddElement
<1> QED
  BY <1>3, <1>4, <1>6, <1>7

\* Every call is one of these: the fork that follows the run has an answer for
\* the new number, under the choices that agree with the run after it.
LEMMA MakeCovers ==
  ASSUME CoverInv, NotIntervals, NEW node, NewNode(node), NEW x \in 0 .. 2 ^ node.w - 1, NEW answer,
         Make(node, x, answer), node.op # "any",
         \A s \in Going, W \in SUBSET Worlds : Follows(s, W) => Covers(answer[s], x, node.w, W)
  PROVE  Following'
<1>1. PICK f \in Worlds : Held(Agreeing(f, Unknowns))
  BY DEF CoverInv, Following
<1>2. PICK W : W = Agreeing(f, Unknowns)
  OBVIOUS
<1>3. W \in SUBSET Worlds /\ Held(W) /\ RelInv
  BY <1>1, <1>2 DEF Agreeing, CoverInv
<1>4. Agreeing(f, Unknowns)' = W
  BY <1>2, <1>3, UnknownsAfter DEF Agreeing
<1>5. \A s \in Going : Follows(s, W) => Covers(answer[s], x, node.w, W)
  BY <1>3
<1>6. W \in SUBSET W
  OBVIOUS
<1>7. Held(W)'
  BY <1>3, <1>5, <1>6, MakeHolds
<1> QED
  BY <1>4, <1>7 DEF Following, Held, Follows

\* The numbers that agree with the run, once there is one more.
LEMMA OneMore ==
  ASSUME NEW f \in Worlds, NEW k \in Nat, k < MaxAny, NEW x \in 0 .. 2 ^ Width - 1
  PROVE  \E g \in Worlds : /\ Agreeing(g, k + 1) \in SUBSET Agreeing(f, k)
                           /\ \A m \in Agreeing(g, k + 1) : m[k + 1] = x
<1> DEFINE g == [f EXCEPT ![k + 1] = x]
<1>1. MaxAny \in Nat /\ k + 1 \in 1 .. MaxAny /\ k + 1 \in 1 .. k + 1 /\ (\A i \in 1 .. k : i \in 1 .. k + 1 /\ i # k + 1 /\ i \in 1 .. MaxAny)
  BY WidthAssumption
<1>2. g \in Worlds /\ g[k + 1] = x /\ \A i \in 1 .. k : g[i] = f[i]
  <2> DEFINE D == 0 .. 2 ^ Width - 1
  <2>1. f \in [1 .. MaxAny -> D] /\ x \in D /\ Worlds = [1 .. MaxAny -> D]
    BY DEF Worlds
  <2> HIDE DEF D
  <2> QED
    BY <1>1, <2>1
<1> HIDE DEF g
<1>3. ASSUME NEW m \in Agreeing(g, k + 1) PROVE m \in Agreeing(f, k) /\ m[k + 1] = x
  BY <1>1, <1>2 DEF Agreeing
<1> QED
  BY <1>2, <1>3

LEMMA MakeUnknownCovers ==
  ASSUME CoverInv, NotIntervals, Unknowns < MaxAny, NEW x \in 0 .. 2 ^ Width - 1, NEW answer,
         Make(Leaf("any"), x, answer),
         \A s \in Going : \A V \in SUBSET Worlds :
             (\A m \in V : m[Unknowns + 1] = x) => Covers(answer[s], x, Width, V)
  PROVE  NodesSound' /\ Following'
<1> DEFINE node == Leaf("any")
<1>1. RelInv /\ NodesSound /\ NewNode(node) /\ node.w = Width /\ node.op = "any"
  BY LeafNew DEF CoverInv, RelInv, Leaves, Leaf, Tagged
<1> HIDE DEF node
<1>2. PICK f \in Worlds : Held(Agreeing(f, Unknowns))
  BY DEF CoverInv, Following
<1>3. Unknowns \in Nat /\ Unknowns' = Unknowns + 1
  BY <1>1, UnknownsFinite, UnknownsAfter DEF node
<1>4. PICK g \in Worlds : /\ Agreeing(g, Unknowns + 1) \in SUBSET Agreeing(f, Unknowns)
                          /\ \A m \in Agreeing(g, Unknowns + 1) : m[Unknowns + 1] = x
  BY <1>3, OneMore
<1>5. PICK W : W = Agreeing(f, Unknowns)
  OBVIOUS
<1>6. PICK V : V = Agreeing(g, Unknowns + 1)
  OBVIOUS
<1>7. Held(W) /\ V \in SUBSET W /\ V \in SUBSET Worlds
  BY <1>2, <1>4, <1>5, <1>6 DEF Agreeing
<1>8. \A s \in Going : Follows(s, W) => Covers(answer[s], x, node.w, V)
  BY <1>1, <1>4, <1>6, <1>7
<1>9. Held(V)'
  <2>1. Make(node, x, answer) /\ x \in 0 .. 2 ^ node.w - 1
    BY <1>1 DEF node
  <2> QED
    BY <1>1, <1>7, <1>8, <2>1, MakeHolds
<1>10. Agreeing(g, Unknowns)' = V
  BY <1>3, <1>6 DEF Agreeing
<1>11. Following'
  BY <1>9, <1>10 DEF Following, Held, Follows
<1>12. NodesSound'
  <2>1. Make(node, x, answer) /\ x \in 0 .. 2 ^ node.w - 1 /\ node.op \notin Compares
    BY <1>1 DEF node, Compares
  <2> QED
    BY <1>1, <2>1, MakeSound
<1> QED
  BY <1>11, <1>12

LEMMA AnyUnboundedCovers ==
  ASSUME CoverInv, NotIntervals, AnyUnbounded
  PROVE  NodesSound' /\ Following'
<1> DEFINE answer == [s \in Going |-> DomAny(domain, Unknowns + 1)]
<1>1. PICK x \in 0 .. 2 ^ Width - 1 : Make(Leaf("any"), x, answer)
  BY DEF AnyUnbounded
<1>2. \A s \in Going : \A V \in SUBSET Worlds :
          (\A m \in V : m[Unknowns + 1] = x) => Covers(answer[s], x, Width, V)
  BY AnyCovers
<1>3. Unknowns < MaxAny
  BY DEF AnyUnbounded
<1> HIDE DEF answer
<1> QED
  BY <1>1, <1>2, <1>3, MakeUnknownCovers

LEMMA AnyRangeCovers ==
  ASSUME Strict, CoverInv, NotIntervals, AnyRange
  PROVE  NodesSound' /\ Following'
<1>1. PICK r \in Ranges : /\ Fits(r[2])
                         /\ \E x \in r[1] .. r[2] : Make(Leaf("any"), x, [s \in Going |-> DomRange(domain, r[1], r[2])])
  BY DEF AnyRange
<1> DEFINE answer == [s \in Going |-> DomRange(domain, r[1], r[2])]
<1>2. PICK x \in r[1] .. r[2] : Make(Leaf("any"), x, answer)
  BY <1>1
<1>3. r[1] \in 0 .. 2 ^ Width - 1 /\ r[2] \in 0 .. 2 ^ Width - 1 /\ x \in 0 .. 2 ^ Width - 1
  BY RangeNumbers
<1>4. \A V : Covers(DomRange(domain, r[1], r[2]), x, Width, V)
  BY <1>1, <1>3, RangeCovers
<1>5. \A s \in Going : \A V \in SUBSET Worlds :
          (\A m \in V : m[Unknowns + 1] = x) => Covers(answer[s], x, Width, V)
  BY <1>4
<1>6. Unknowns < MaxAny
  BY DEF AnyRange
<1> HIDE DEF answer
<1> QED
  BY <1>2, <1>3, <1>5, <1>6, MakeUnknownCovers

LEMMA AnyOneOfCovers ==
  ASSUME CoverInv, NotIntervals, AnyOneOf
  PROVE  NodesSound' /\ Following'
<1>1. PICK r \in Ranges : \E i \in {1, 2} : Make(Leaf("any"), r[i], [s \in Going |-> DomOneOf(domain, r)])
  BY DEF AnyOneOf
<1> DEFINE answer == [s \in Going |-> DomOneOf(domain, r)]
<1>2. PICK i \in {1, 2} : Make(Leaf("any"), r[i], answer)
  BY <1>1
<1>3. r[i] \in 0 .. 2 ^ Width - 1
  BY RangeNumbers
<1>4. \A s \in Going : \A V \in SUBSET Worlds :
          (\A m \in V : m[Unknowns + 1] = r[i]) => Covers(answer[s], r[i], Width, V)
  BY OneOfCovers
<1>5. Unknowns < MaxAny
  BY DEF AnyOneOf
<1> HIDE DEF answer
<1> QED
  BY <1>2, <1>3, <1>4, <1>5, MakeUnknownCovers

LEMMA LiftCalls ==
  ASSUME Strict, CoverInv, NotIntervals, Lift
  PROVE  NodesSound' /\ Following'
<1> DEFINE node == Leaf("lift")
<1>1. PICK x \in Lifted : Fits(x) /\ Make(node, x, [s \in Going |-> DomLift(domain, x, Width)])
  BY DEF Lift
<1> DEFINE answer == [s \in Going |-> DomLift(domain, x, Width)]
<1>2. x \in 0 .. 2 ^ Width - 1
  BY ProgramAssumption
<1>3. NewNode(node) /\ node.w = Width /\ node.op = "lift" /\ RelInv /\ NodesSound
  BY LeafNew DEF CoverInv, RelInv, Leaves, Leaf, Tagged
<1>4. \A s \in Going, W \in SUBSET Worlds : Follows(s, W) => Covers(answer[s], x, node.w, W)
  BY <1>1, <1>2, <1>3, LiftCovers
<1>6. Make(node, x, answer)
  BY <1>1
<1>7. x \in 0 .. 2 ^ node.w - 1
  BY <1>2, <1>3
<1>8. node.op \notin Compares /\ node.op # "any"
  BY <1>3 DEF Compares
<1> HIDE DEF node, answer
<1>9. NodesSound'
  BY <1>3, <1>6, <1>7, <1>8, MakeSound
<1> QED
  BY <1>3, <1>4, <1>6, <1>7, <1>8, <1>9, MakeCovers


LEMMA FollowedValue ==
  ASSUME RelInv, NEW s \in Going, NEW W, Follows(s, W), NEW n \in Nodes
  PROVE  ValueOK(s.val[n]) /\ Stands(domain, s.val[n], con[n], dag[n].w, W)
  BY GoingLive DEF Follows

LEMMA OperateCalls ==
  ASSUME Strict, CoverInv, NotIntervals, Operate
  PROVE  NodesSound' /\ Following'
<1>1. PICK op \in Ops[domain] \ Casts, a \in Nodes, b \in Nodes :
         LET w == dag[a].w
         IN  /\ dag[b].w = w /\ w # 1
             /\ Defined(op, con[a], con[b], w)
             /\ Sound(op, a, b)
             /\ Make(Bin(op, a, b, IF op \in Compares THEN 1 ELSE w),
                     IF op \in Compares THEN RawOp(op, con[a], con[b], w) ELSE MachineOp(op, con[a], con[b], w),
                     [s \in Going |-> DomOp(domain, op, s.val[a], s.val[b], w)])
  BY DEF Operate
<1> DEFINE w == dag[a].w
           v == IF op \in Compares THEN 1 ELSE w
           node == Bin(op, a, b, v)
           x == IF op \in Compares THEN RawOp(op, con[a], con[b], w) ELSE MachineOp(op, con[a], con[b], w)
           answer == [s \in Going |-> DomOp(domain, op, s.val[a], s.val[b], w)]
<1>2. Make(node, x, answer) /\ Defined(op, con[a], con[b], w) /\ dag[b].w = w /\ w # 1 /\ Sound(op, a, b)
  BY <1>1
<1>3. op \in Arith \cup Compares /\ op \in Ops[domain] /\ op \notin Leaves /\ RelInv /\ NodesSound
  BY OpsAre DEF CoverInv, RelInv
<1>4. w \in Widths /\ con[a] \in 0 .. 2 ^ w - 1 /\ con[b] \in 0 .. 2 ^ w - 1 /\ con[a] \in Int /\ con[b] \in Int
  BY <1>2, <1>3, ConAt
<1>5. /\ domain = "sign" => NoOverflow(op, con[a], con[b], w)
      /\ domain = "zero" => op # "mul"
  BY <1>2 DEF Sound
<1>6. domain \in {"constant", "trivial"} => w = Width
  BY <1>2, <1>3 DEF NodesSound
<1>7. \A s \in Going, W \in SUBSET Worlds : Follows(s, W) => Covers(answer[s], x, v, W)
  <2> SUFFICES ASSUME NEW s \in Going, NEW W \in SUBSET Worlds, Follows(s, W)
               PROVE  Covers(DomOp(domain, op, s.val[a], s.val[b], w), x, v, W)
    OBVIOUS
  <2>1. /\ ValueOK(s.val[a]) /\ Stands(domain, s.val[a], con[a], w, W)
        /\ ValueOK(s.val[b]) /\ Stands(domain, s.val[b], con[b], w, W)
    BY <1>2, <1>3, FollowedValue
  <2> HIDE DEF w
  <2> QED
    BY <1>2, <1>3, <1>4, <1>5, <1>6, <2>1, OpCovers
<1> HIDE DEF w, answer
<1>8. v \in Widths
  BY <1>4, WidthIn
<1>9. x \in 0 .. 2 ^ v - 1
  <2>1. CASE op \in Compares
    <3>1. v = 1 /\ x = RawOp(op, con[a], con[b], w)
      BY <2>1
    <3> HIDE DEF v, x
    <3> QED
      BY <1>2, <1>3, <1>4, <2>1, <3>1, OperateNumber
  <2>2. CASE op \notin Compares
    <3>1. v = w /\ x = MachineOp(op, con[a], con[b], w)
      BY <2>2
    <3> HIDE DEF v, x
    <3> QED
      BY <1>2, <1>3, <1>4, <2>2, <3>1, OperateNumber
  <2> QED
    BY <2>1, <2>2
<1>10. /\ op \in Compares => v = 1
       /\ domain \in {"constant", "trivial"} => v \in {1, Width}
  BY <1>6
<1> HIDE DEF x, v
<1>13. NewNode(node) /\ node.w = v /\ node.op = op
  <2>1. NewNode(node) /\ node.w = v
    BY <1>3, <1>8, BinNew DEF CoverInv, RelInv
  <2> QED
    BY <2>1 DEF Bin, Tagged
<1> HIDE DEF node
<1>15. NodesSound'
  BY <1>2, <1>3, <1>9, <1>10, <1>13, MakeSound
<1>16. node.op # "any"
  BY <1>3, <1>13 DEF Leaves
<1>17. \A s \in Going, W \in SUBSET Worlds : Follows(s, W) => Covers(answer[s], x, node.w, W)
  BY <1>7, <1>13
<1>18. Following'
  BY <1>2, <1>9, <1>13, <1>16, <1>17, MakeCovers
<1> QED
  BY <1>15, <1>18

LEMMA CastCalls ==
  ASSUME Strict, CoverInv, NotIntervals, Cast
  PROVE  NodesSound' /\ Following'
<1>1. PICK op \in Ops[domain] \cap Casts, a \in Nodes, v \in {1, Width, 2 * Width} :
         LET w == dag[a].w
         IN  /\ IF op = "trunc" THEN v < w ELSE w < v
             /\ w # 1 /\ Sound(op, a, a)
             /\ Make(CastOf(op, a, v), MachineCast(op, con[a], w, v),
                     [s \in Going |-> DomCast(domain, op, s.val[a], w, v)])
  BY DEF Cast
<1> DEFINE w == dag[a].w
           node == CastOf(op, a, v)
           x == MachineCast(op, con[a], w, v)
           answer == [s \in Going |-> DomCast(domain, op, s.val[a], w, v)]
<1>2. Make(node, x, answer) /\ w # 1 /\ Sound(op, a, a) /\ (IF op = "trunc" THEN v < w ELSE w < v)
  BY <1>1
<1>3. op \in Casts /\ op \in Ops[domain] /\ v \in Widths /\ RelInv /\ NodesSound
  BY DEF CoverInv, Widths
<1>4. w \in Widths /\ con[a] \in 0 .. 2 ^ w - 1 /\ con[a] \in Int
  BY <1>3, ConAt
<1>5. domain \in {"constant", "trivial"} => w = Width /\ v = 1 /\ op = "trunc"
  <2> SUFFICES ASSUME domain \in {"constant", "trivial"} PROVE w = Width /\ v = 1 /\ op = "trunc"
    OBVIOUS
  <2>1. w = Width
    BY <1>2, <1>3 DEF NodesSound
  <2>2. op = "trunc"
    BY <1>2, <1>3 DEF Sound, Casts
  <2> HIDE DEF w
  <2>3. v < Width /\ Width \in Nat \ {0}
    BY <1>2, <2>1, <2>2, WidthAssumption
  <2> QED
    BY <2>1, <2>2, <2>3
<1>6. \A s \in Going, W \in SUBSET Worlds : Follows(s, W) => Covers(answer[s], x, v, W)
  <2> SUFFICES ASSUME NEW s \in Going, NEW W \in SUBSET Worlds, Follows(s, W)
               PROVE  Covers(DomCast(domain, op, s.val[a], w, v), x, v, W)
    OBVIOUS
  <2>1. ValueOK(s.val[a]) /\ Stands(domain, s.val[a], con[a], w, W)
    BY <1>3, FollowedValue
  <2> HIDE DEF w
  <2> QED
    BY <1>2, <1>3, <1>4, <1>5, <2>1, CastCovers
<1> HIDE DEF w, answer
<1>7. x \in 0 .. 2 ^ v - 1
  BY <1>3, <1>4, MachineCastRange
<1> HIDE DEF x
<1>8. NewNode(node) /\ node.w = v /\ node.op = op
  <2>1. NewNode(node) /\ node.w = v
    BY <1>3, CastNew DEF RelInv
  <2> QED
    BY <2>1 DEF CastOf, Tagged
<1> HIDE DEF node
<1>9. node.op \notin Compares /\ node.op # "any"
  BY <1>3, <1>8 DEF Casts, Compares
<1>10. domain \in {"constant", "trivial"} => node.w \in {1, Width}
  BY <1>5, <1>8
<1>11. NodesSound'
  BY <1>2, <1>3, <1>7, <1>8, <1>9, <1>10, MakeSound
<1>12. \A s \in Going, W \in SUBSET Worlds : Follows(s, W) => Covers(answer[s], x, node.w, W)
  BY <1>6, <1>8
<1>13. Following'
  BY <1>2, <1>7, <1>8, <1>9, <1>12, MakeCovers
<1> QED
  BY <1>11, <1>13

-----------------------------------------------------------------------------
(***************************************************************************)
(* A branch keeps the fork that follows the run, and so does everything    *)
(* the branch teaches it.                                                  *)
(***************************************************************************)

Fine(s, W) == LiveFork(s, Len(dag)) /\ Follows(s, W)

\* What learns something and still stands for the run follows it.
LEMMA KeptFine ==
  ASSUME RelInv, NotIntervals, NEW s, NEW W, Fine(s, W), NEW t, Kept(t, s, Len(dag)), t.out = "ok",
         domain = "term" => W \subseteq t.solver,
         \A n \in Nodes : Stands(domain, t.val[n], con[n], dag[n].w, W)
  PROVE  Fine(t, W)
<1>1. LiveFork(t, Len(dag)) /\ Len(dag) \in Nat /\ Nodes = 1 .. Len(dag)
  BY NodesAre, KeptLive DEF RelInv
<1>3. Follows(t, W)
  BY DEF Follows
<1> QED
  BY <1>1, <1>3 DEF Fine

\* A new value for one node.
LEMMA PutFine ==
  ASSUME RelInv, NotIntervals, NEW s, NEW W, Fine(s, W), NEW n \in Nodes, NEW v,
         Kept(Put(s, n, v), s, Len(dag)), Stands(domain, v, con[n], dag[n].w, W)
  PROVE  Fine(Put(s, n, v), W) /\ Put(s, n, v).out = "ok"
<1> DEFINE t == Put(s, n, v)
           k == Len(dag)
<1>1. k \in Nat /\ Nodes = 1 .. k /\ LiveFork(s, k)
  BY NodesAre DEF RelInv, Fine
<1>2. Shaped(s) /\ s.out = "ok" /\ s.val = [m \in 1 .. k |-> s.val[m]]
  <2> HIDE DEF k
  <2> QED
    BY <1>1, LiveParts
<1>3. t.out = "ok" /\ t.val = [s.val EXCEPT ![n] = v] /\ t.solver = s.solver
  <2>1. Shaped(s) /\ s.out = "ok"
    BY <1>2
  <2> QED
    BY <2>1, PutFork
<1> HIDE DEF k
<1>4. \A m \in Nodes : t.val[m] = IF m = n THEN v ELSE s.val[m]
  <2> HIDE DEF t
  <2> QED
    BY <1>1, <1>2, <1>3
<1> HIDE DEF t
<1>5. \A m \in Nodes : Stands(domain, t.val[m], con[m], dag[m].w, W)
  <2>1. \A m \in Nodes : Stands(domain, s.val[m], con[m], dag[m].w, W)
    BY DEF Fine, Follows
  <2> QED
    BY <1>4, <2>1
<1>6. domain = "term" => W \subseteq t.solver
  BY <1>3 DEF Fine, Follows
<1>7. Kept(t, s, Len(dag))
  BY DEF t
<1>8. Fine(t, W)
  BY <1>3, <1>5, <1>6, <1>7, KeptFine
<1> QED
  BY <1>3, <1>8 DEF t

LEMMA ZeroAssumeSound ==
  ASSUME NEW a \in Zeros, NEW x \in {0, 1}, ZeroMeaning(a, x)
  PROVE  /\ \E v \in ZeroAssume(a, x = 1) : ZeroMeaning(v, x)
         /\ (x = 1) \in TriLower(ZeroTristate(a)) /\ ZeroTristate(a) # "fail"
<1> DEFINE v == IF x = 1 THEN NonZero ELSE Zero
<1>1. (a = Zero => x = 0) /\ (a = NonZero => x = 1) /\ a \in {Zero, NonZero, Unknown}
  BY DEF ZeroMeaning, Zero, NonZero, Unknown, Zeros
<1>2. ZeroMeaning(v, x)
  BY DEF ZeroMeaning, Zero, NonZero
<1>3. v \in ZeroAssume(a, x = 1)
  BY <1>1 DEF ZeroAssume, Zero, NonZero, Unknown
<1>4. (x = 1) \in TriLower(ZeroTristate(a)) /\ ZeroTristate(a) # "fail"
  <2>1. ZeroTristate(a) = "maybe" \/ ZeroTristate(a) = IF x = 1 THEN "true" ELSE "false"
    BY <1>1 DEF ZeroTristate, Zero, NonZero, Unknown
  <2> QED
    BY <2>1 DEF TriLower
<1> QED
  BY <1>2, <1>3, <1>4

\* The branch the run takes is open to the fork that follows it.
LEMMA BranchOpen ==
  ASSUME RelInv, NotIntervals, NEW s, NEW W, Fine(s, W), NEW n \in Nodes, dag[n].w = 1
  PROVE  /\ con[n] \in {0, 1} /\ Number(con[n], 1) = con[n]
         /\ DomTristate(domain, s.val[n]) # "fail" /\ (con[n] = 1) \in TriLower(DomTristate(domain, s.val[n]))
<1> DEFINE a == s.val[n]
           x == con[n]
<1>1. x \in {0, 1} /\ Number(x, 1) = x
  BY ConAt, NumberIs
<1>2. ValueOK(a) /\ Stands(domain, a, x, 1, W)
  BY NodesAre, LiveParts DEF Fine, Follows, RelInv
<1> HIDE DEF a, x
<1>3. CASE domain = "sign"
  <2>1. a \in Signs \cup {Freed} /\ SignMeaning(a, x) /\ DomTristate(domain, a) = SignTristate(a)
    BY <1>1, <1>2, <1>3 DEF ValueOK, Stands, DomTristate
  <2>2. a \in Signs
    BY <2>1, FreedMeansNothing
  <2> QED
    BY <1>1, <2>1, <2>2, SignAssumeSound DEF a, x
<1>4. CASE domain = "zero"
  <2>1. a \in Zeros /\ ZeroMeaning(a, x) /\ DomTristate(domain, a) = ZeroTristate(a)
    BY <1>1, <1>2, <1>4 DEF ValueOK, Stands, DomTristate
  <2> QED
    BY <1>1, <2>1, ZeroAssumeSound DEF a, x
<1>5. CASE domain \in {"constant", "trivial"} /\ a.dom = "constant"
  <2>1. ConstantOf(a, x, 1)
    BY <1>2, <1>5 DEF Stands
  <2>2. a.num = x /\ DomTristate(domain, a) = TriOf(a.num # 0)
    BY <1>5, <2>1 DEF DomTristate, ConstantOf
  <2>3. DomTristate(domain, a) = IF x = 1 THEN "true" ELSE "false"
    BY <1>1, <2>2 DEF TriOf
  <2>4. DomTristate(domain, a) # "fail" /\ (x = 1) \in TriLower(DomTristate(domain, a))
    BY <1>1, <2>3 DEF TriLower
  <2> QED
    BY <1>1, <2>4 DEF a, x
<1>6. CASE domain \in {"bitvec", "unit", "term"} \/ (domain = "trivial" /\ a.dom # "constant")
  <2>1. DomTristate(domain, a) = "maybe"
    BY <1>6 DEF DomTristate
  <2>2. DomTristate(domain, a) # "fail" /\ (x = 1) \in TriLower(DomTristate(domain, a))
    BY <2>1 DEF TriLower
  <2> QED
    BY <1>1, <2>2 DEF a, x
<1>7. domain = "constant" => a.dom = "constant"
  BY <1>2 DEF Stands, ConstantOf
<1> QED
  BY <1>3, <1>4, <1>5, <1>6, <1>7, OtherDomains


LEMMA AssumeValueFine ==
  ASSUME RelInv, NotIntervals, NEW W, W # {}, NEW s, Fine(s, W), NEW n \in Nodes, dag[n].w = 1
  PROVE  \E t \in AssumeValue(s, n, con[n] = 1) : Fine(t, W)
<1> DEFINE c == con[n] = 1
           old == s.val[n]
           x == con[n]
           T == AssumeValue(s, n, c)
           k == Len(dag)
<1>1. /\ x \in {0, 1} /\ Number(x, 1) = x /\ c \in BOOLEAN
      /\ (con[n] = 0 => ~c) /\ DomTristate(domain, s.val[n]) # "fail"
  BY BranchOpen
<1>2. LiveFork(s, k) /\ DagShape /\ k \in Nat /\ n \in 1 .. k /\ s.out = "ok" /\ Shaped(s)
  BY NodesAre DEF Fine, LiveFork, ForkOK, RelInv
<1>3. \A t \in T : Kept(t, s, k)
  BY <1>1, <1>2, AssumeValueKept DEF AllKept
<1>4. ValueOK(old) /\ Stands(domain, old, x, 1, W)
  <2>1. Stands(domain, old, x, 1, W)
    BY DEF Fine, Follows
  <2> HIDE DEF k
  <2> QED
    BY <1>2, <2>1, LiveParts
<1>5. \A v : Put(s, n, v) \in T /\ Stands(domain, v, x, 1, W) => \E t \in T : Fine(t, W)
  BY <1>3, PutFine
<1> HIDE DEF T, k, old, x, c
<1> SUFFICES \E t \in T : Fine(t, W)
  BY DEF T, c
<1>6. CASE domain = "sign"
  <2>1. T = {Put(s, n, SignAssume(old, x = 1))}
    BY <1>6 DEF T, AssumeValue, old, c, x
  <2>2. old \in Signs /\ SignMeaning(old, x)
    BY <1>1, <1>4, <1>6, FreedMeansNothing DEF ValueOK, Stands
  <2>3. SignMeaning(SignAssume(old, x = 1), x)
    BY <1>1, <2>2, SignAssumeSound
  <2>4. Stands(domain, SignAssume(old, x = 1), x, 1, W)
    BY <1>1, <1>6, <2>3 DEF Stands
  <2> QED
    BY <1>5, <2>1, <2>4
<1>7. CASE domain = "zero"
  <2>1. T = Chosen(s, n, ZeroAssume(old, x = 1))
    BY <1>7 DEF T, AssumeValue, old, c, x
  <2>2. old \in Zeros /\ ZeroMeaning(old, x)
    BY <1>1, <1>4, <1>7 DEF ValueOK, Stands
  <2>3. PICK v \in ZeroAssume(old, x = 1) : ZeroMeaning(v, x)
    BY <1>1, <2>2, ZeroAssumeSound
  <2>4. Stands(domain, v, x, 1, W) /\ Put(s, n, v) \in T
    BY <1>1, <1>7, <2>1, <2>3 DEF Stands, Chosen
  <2> QED
    BY <1>5, <2>4
<1>8. CASE domain \in {"constant", "trivial"} /\ old.dom = "constant"
  <2>1. T = Chosen(s, n, ConstantAssume(old, x = 1))
    BY <1>8 DEF T, AssumeValue, old, c, x
  <2>2. ConstantOf(old, x, 1)
    BY <1>4, <1>8 DEF Stands
  <2>3. old.num = Truth(x = 1)
    BY <1>1, <2>2 DEF ConstantOf, Truth
  <2>4. Put(s, n, old) \in T
    BY <2>1, <2>3 DEF ConstantAssume, Chosen
  <2> QED
    BY <1>4, <1>5, <2>4
<1>9. CASE domain = "term"
  <2> DEFINE left == {m \in s.solver : s.val[n][m] = Truth(c)}
             t == [s EXCEPT !.solver = left]
  <2>1. W \subseteq left
    <3>1. \A m \in W : s.val[n][m] = x
      BY <1>4, <1>9 DEF Stands, old
    <3>2. x = Truth(c) /\ W \subseteq s.solver
      BY <1>1, <1>9 DEF Truth, c, x, Fine, Follows
    <3> QED
      BY <3>1, <3>2
  <2>2. left # {}
    BY <2>1
  <2>3. T = {t}
    BY <1>9, <2>2 DEF T, AssumeValue, TermAssume
  <2> HIDE DEF left
  <2>4. t.val = s.val /\ t.out = "ok" /\ t.solver = left
    BY <1>2 DEF Shaped
  <2>5. Kept(t, s, Len(dag)) /\ t \in T
    BY <1>3, <2>3 DEF k
  <2> HIDE DEF t
  <2>6. \A m \in Nodes : Stands(domain, t.val[m], con[m], dag[m].w, W)
    BY <2>4 DEF Fine, Follows
  <2>7. Fine(t, W)
    BY <2>1, <2>4, <2>5, <2>6, KeptFine
  <2> QED
    BY <2>5, <2>7
<1>10. CASE domain \in {"bitvec", "unit"} \/ (domain = "trivial" /\ old.dom # "constant")
  <2>1. T = {s}
    BY <1>10 DEF T, AssumeValue, old
  <2> QED
    BY <2>1
<1>11. domain = "constant" => old.dom = "constant"
  BY <1>4 DEF Stands, ConstantOf
<1> QED
  BY <1>6, <1>7, <1>8, <1>9, <1>10, <1>11, OtherDomains

\* A != or > that the run does not take is not propagated.
LEMMA NothingDeleted ==
  ASSUME RelInv, Strict, domain = "sign", NEW W, NEW s, Fine(s, W), NEW n \in Nodes
  PROVE  ~SignDeletes(dag[n].op, s.val[n])
<1> SUFFICES ASSUME dag[n].op \in {"ne", "sgt"} PROVE s.val[n] # Gtz
  BY DEF SignDeletes
<1>1. con[n] = 0
  BY DEF RelInv, AllSettled, NoDelete, Deletes
<1>2. Number(con[n], dag[n].w) = 0
  BY <1>1, ConAt, NumberIs
<1>3. SignMeaning(s.val[n], 0)
  BY <1>2 DEF Fine, Follows, Stands
<1> QED
  BY <1>3, SignNumbers DEF Gtz

LEMMA BackwardStepFine ==
  ASSUME RelInv, Strict, NotIntervals, NEW W, NEW s, Fine(s, W), NEW n \in Nodes
  PROVE  \E t \in BackwardStep(s, n) : Fine(t, W)
<1> DEFINE op == dag[n].op
           T == DomainBack(op, s, n, dag[n].kids)
<1>1. s.out = "ok"
  BY DEF Fine, LiveFork
<1>2. CASE op \in Leaves
  <2>1. BackwardStep(s, n) = {s}
    BY <1>2 DEF BackwardStep
  <2> QED
    BY <2>1
<1>3. CASE op \notin Leaves
  <2>1. T = {s}
    BY NothingDeleted DEF DomainBack, Reported, NotIntervals
  <2>2. BackwardStep(s, n) = Then(T, TagBack)
    BY <1>3 DEF BackwardStep, ProductBack
  <2> HIDE DEF T
  <2> QED
    BY <1>1, <2>1, <2>2 DEF Then, TagBack
<1> QED
  BY <1>2, <1>3

LEMMA WalkFine ==
  ASSUME RelInv, Strict, NotIntervals, NEW W, NEW S, \E s \in S : Fine(s, W), NEW order \in Seq(Nodes)
  PROVE  \E t \in Walk(S, order)[Len(order)] : Fine(t, W)
<1> DEFINE N == Len(order)
           w == Walk(S, order)
           Good == {j \in 0 .. N : \E t \in w[j] : Fine(t, W)}
<1>1. N \in Nat /\ w[0] = S /\ \A j \in 1 .. N : w[j] = BackwardAll(w[j - 1], order[j])
  BY WalkEquation
<1> HIDE DEF w
<1>2. 0 \in Good
  BY <1>1
<1>3. ASSUME NEW j \in 0 .. N - 1, j \in Good PROVE j + 1 \in Good
  <2>1. j + 1 \in 1 .. N /\ j + 1 - 1 = j /\ j + 1 \in 0 .. N
    BY <1>1
  <2>2. w[j + 1] = BackwardAll(w[j], order[j + 1]) /\ order[j + 1] \in Nodes
    BY <1>1, <2>1
  <2>3. PICK t \in w[j] : Fine(t, W)
    BY <1>3
  <2>4. PICK u \in BackwardStep(t, order[j + 1]) : Fine(u, W)
    BY <2>2, <2>3, BackwardStepFine
  <2>5. t.out = "ok"
    BY <2>3 DEF Fine, LiveFork
  <2>6. u \in w[j + 1]
    BY <2>2, <2>3, <2>4, <2>5 DEF BackwardAll, Then
  <2> QED
    BY <2>1, <2>4, <2>6
<1>4. N \in Good
  <2>1. \A j \in 0 .. N - 1 : j \in Good => j + 1 \in Good
    BY <1>3
  <2>2. N \in 0 .. N
    BY <1>1
  <2> HIDE DEF N, Good
  <2> QED
    BY <1>1, <1>2, <2>1, <2>2, Climb
<1> QED
  BY <1>4 DEF w

LEMMA GoesOnFine ==
  ASSUME RelInv, Strict, NotIntervals, NEW W, W # {}, NEW s, Fine(s, W), NEW n \in Nodes, dag[n].w = 1
  PROVE  \E t \in GoesOn(s, n, con[n] = 1) : Fine(t, W)
<1> DEFINE T == AssumeValue(s, n, con[n] = 1)
<1>1. \E t \in T : Fine(t, W)
  BY AssumeValueFine
<1>2. GoesOn(s, n, con[n] = 1) = Assume(s, n, con[n] = 1)
  BY BranchOpen DEF GoesOn
<1>3. Preorder[n] \in Seq(Nodes)
  BY PreorderNodes DEF RelInv
<1> HIDE DEF T
<1>4. \E t \in BackwardPropagate(T, n) : Fine(t, W)
  BY <1>1, <1>3, WalkFine DEF BackwardPropagate
<1> QED
  BY <1>1, <1>2, <1>4 DEF Assume, T


LEMMA BranchCalls ==
  ASSUME Strict, CoverInv, NotIntervals, Branch
  PROVE  NodesSound' /\ Following'
<1> DEFINE c == con[pending] = 1
<1>1. RelInv /\ NodesSound
  BY DEF CoverInv
<1>2. /\ pending \in Nodes /\ dag[pending].w = 1
      /\ forks' = (forks \ Going) \cup UNION {GoesOn(s, pending, c) : s \in Going}
      /\ pending' = 0 /\ domain' = domain /\ dag' = dag /\ con' = con
  <2>1. /\ pending \in Nodes
        /\ forks' = (forks \ Going) \cup UNION {GoesOn(s, pending, c) : s \in Going}
        /\ pending' = 0 /\ domain' = domain /\ dag' = dag /\ con' = con
    BY <1>1, BranchIs
  <2>2. pending # 0
    BY <1>1, <2>1, NodesAre DEF RelInv
  <2> QED
    BY <1>1, <2>1, <2>2 DEF NodesSound
<1> HIDE DEF c
<1>3. NodesSound'
  BY <1>1, <1>2 DEF NodesSound, Nodes
<1>4. PICK f \in Worlds : Held(Agreeing(f, Unknowns))
  BY DEF CoverInv, Following
<1>5. PICK W : W = Agreeing(f, Unknowns)
  OBVIOUS
<1>6. Held(W) /\ f \in W
  BY <1>4, <1>5 DEF Agreeing
<1>7. Unknowns' = Unknowns
  BY <1>2 DEF Unknowns, Nodes
<1>8. PICK s \in forks : Ended(s) \/ Follows(s, W)
  BY <1>6 DEF Held
<1>9. CASE Ended(s)
  <2>1. s \in forks'
    BY <1>2, <1>9 DEF Going, Ended
  <2> QED
    BY <1>3, <1>5, <1>7, <1>9, <2>1 DEF Following, Held, Ended, Agreeing
<1>10. CASE Follows(s, W)
  <2>1. s \in Going /\ Fine(s, W)
    BY <1>1, <1>10, GoingLive DEF Follows, Going, Fine, RelInv, ForksOK, LiveFork
  <2>2. PICK t \in GoesOn(s, pending, c) : Fine(t, W)
    <3>1. W # {}
      BY <1>6
    <3> QED
      BY <1>1, <1>2, <2>1, <3>1, GoesOnFine DEF c
  <2>3. t \in forks' /\ Follows(t, W)
    BY <1>2, <2>1, <2>2 DEF Fine
  <2>4. Nodes' = Nodes
    BY <1>2 DEF Nodes
  <2>5. Follows(t, W)'
    BY <1>2, <2>3, <2>4 DEF Follows
  <2>6. Held(W)'
    BY <2>3, <2>5 DEF Held
  <2>7. Agreeing(f, Unknowns)' = W
    BY <1>5, <1>7 DEF Agreeing
  <2>8. Following'
    BY <2>6, <2>7 DEF Following, Held, Follows
  <2> QED
    BY <1>3, <2>8
<1> QED
  BY <1>8, <1>9, <1>10

-----------------------------------------------------------------------------
(***************************************************************************)
(* The concrete run is never lost.                                         *)
(***************************************************************************)

FollowInv == RelInv /\ (domain # "interval" => NodesSound /\ Following)

LEMMA FollowInit == ASSUME RelInit PROVE FollowInv
<1>1. RelInv
  BY InitKeeps
<1>2. /\ dag = << >> /\ con = << >> /\ pending = 0
      /\ forks = {[val |-> << >>, out |-> "ok", solver |-> IF domain = "term" THEN Worlds ELSE {}]}
  BY DEF RelInit
<1>3. Nodes = {}
  BY <1>2 DEF Nodes
<1>4. NodesSound
  BY <1>2, <1>3 DEF NodesSound
<1>5. Following
  <2> DEFINE f == [i \in 1 .. MaxAny |-> 0]
             s == [val |-> << >>, out |-> "ok", solver |-> IF domain = "term" THEN Worlds ELSE {}]
             W == Agreeing(f, Unknowns)
  <2>1. f \in Worlds
    <3>1. 0 \in 0 .. 2 ^ Width - 1
      BY WidthIn, PowerOfWidth
    <3> QED
      BY <3>1 DEF Worlds
  <2>2. s \in forks /\ s.out = "ok" /\ (domain = "term" => s.solver = Worlds)
    BY <1>2
  <2> HIDE DEF s
  <2>3. W \subseteq Worlds
    BY DEF Agreeing
  <2> HIDE DEF W, f
  <2>4. Follows(s, W)
    BY <1>3, <2>2, <2>3 DEF Follows
  <2> QED
    BY <2>1, <2>2, <2>4 DEF Following, Held, W
<1> QED
  BY <1>1, <1>4, <1>5 DEF FollowInv

LEMMA FollowStutter == ASSUME FollowInv, UNCHANGED relVars PROVE FollowInv'
<1>1. RelInv /\ RelInv'
  BY StutterKeeps DEF FollowInv
<1>2. /\ domain' = domain /\ dag' = dag /\ con' = con /\ forks' = forks /\ pending' = pending
  BY DEF relVars
<1>3. Nodes' = Nodes /\ Unknowns' = Unknowns
  BY <1>2 DEF Nodes, Unknowns
<1>4. NodesSound => NodesSound'
  BY <1>2, <1>3 DEF NodesSound
<1>5. Following => Following'
  BY <1>2, <1>3 DEF Following, Held, Ended, Follows, Agreeing
<1> QED
  BY <1>1, <1>2, <1>4, <1>5 DEF FollowInv

LEMMA DomainKept == ASSUME RelNext PROVE domain' = domain
  BY DEF RelNext, AnyUnbounded, AnyRange, AnyOneOf, Lift, Operate, Cast, Branch, Make

LEMMA FollowNext == ASSUME Strict, FollowInv, RelNext PROVE FollowInv'
<1>1. RelInv /\ domain' = domain /\ domain \in Domains
  BY DomainKept DEF FollowInv, RelInv
<1>2. RelInv'
  BY <1>1, AnyUnboundedKeeps, AnyRangeKeeps, AnyOneOfKeeps, LiftKeeps, OperateKeeps, CastKeeps, BranchKeeps
     DEF RelNext
<1>3. ASSUME domain # "interval" PROVE NodesSound' /\ Following'
  <2>1. CoverInv /\ NotIntervals
    BY <1>1, <1>3 DEF FollowInv, CoverInv, NotIntervals
  <2> QED
    BY <2>1, AnyUnboundedCovers, AnyRangeCovers, AnyOneOfCovers, LiftCalls, OperateCalls, CastCalls, BranchCalls
       DEF RelNext
<1> QED
  BY <1>1, <1>2, <1>3 DEF FollowInv

\* A fork whose values stand for the run's numbers under every choice that
\* agrees stands for the run under the one choice Covered asks for.
LEMMA FollowCovers ==
  ASSUME RelInv, Following, domain # "interval"
  PROVE  Covered
<1>1. PICK f \in Worlds : Held(Agreeing(f, Unknowns))
  BY DEF Following
<1>2. PICK s \in forks : Ended(s) \/ Follows(s, Agreeing(f, Unknowns))
  BY <1>1 DEF Held
<1>3. CASE Ended(s)
  BY <1>3 DEF Covered, Ended
<1>4. CASE Follows(s, Agreeing(f, Unknowns))
  <2> DEFINE W == Agreeing(f, Unknowns)
  <2>1. f \in W /\ s.out = "ok" /\ (domain = "term" => W \subseteq s.solver)
        /\ \A n \in Nodes : Stands(domain, s.val[n], con[n], dag[n].w, W)
    BY <1>4 DEF Agreeing, Follows
  <2> HIDE DEF W
  <2>2. domain = "term" => f \in s.solver /\ \A n \in Nodes : s.val[n][f] = con[n]
    BY <2>1 DEF Stands
  <2>3. domain # "term" => \A n \in Nodes : DomMeaning(domain, s.val[n], con[n], dag[n].w)
    BY <2>1, OtherDomains DEF Stands, DomMeaning, Number, ConstantOf, NotIntervals, RelInv
  <2>4. StandsFor(s)
    BY <2>2, <2>3 DEF StandsFor
  <2> QED
    BY <2>1, <2>4 DEF Covered
<1> QED
  BY <1>2, <1>3, <1>4

\* For every program and every library but that of intervals: the concrete run
\* is not lost, as long as only calls are made that the library answers soundly;
\* among signs, no != and no > that comes true, which would delete an operand.
\* Some fork still stands for all of the run's numbers, or one failed in the
\* open: what operations answer, what branches decide and teach, and what is
\* propagated back to operands add up (relational.hpp:84-203,
\* wrapper.hpp:316-331, sign.hpp:120-440, zero.hpp, constant.hpp, term.hpp).
THEOREM RunIsCovered ==
  ASSUME Strict
  PROVE  RelSpec => [](domain # "interval" => Covered)
<1>1. RelInit => FollowInv
  BY FollowInit
<1>2. FollowInv /\ [RelNext]_relVars => FollowInv'
  BY FollowNext, FollowStutter
<1>3. FollowInv => (domain # "interval" => Covered)
  BY FollowCovers DEF FollowInv
<1> QED
  BY <1>1, <1>2, <1>3, PTL DEF RelSpec
==============================================================================
