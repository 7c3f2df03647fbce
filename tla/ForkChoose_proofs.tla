------------------------- MODULE ForkChoose_proofs --------------------------
(***************************************************************************)
(* Proofs about ForkChoose, for any set of process slots, any set of       *)
(* programs and any options.                                               *)
(***************************************************************************)
EXTENDS ForkChoose, TLAPS, WellFoundedInduction, FiniteSetTheorems

(***************************************************************************)
(* Numbers, paths and depths. Induction is done with the least element of  *)
(* a set of numbers: a property fails first somewhere, and does not there. *)
(***************************************************************************)

\* A set of numbers that is not empty has a least element.
LEMMA LeastNumber ==
  ASSUME NEW S \in SUBSET Nat, S # {}
  PROVE  \E m \in S : \A n \in S : m <= n
<1>1. \E m \in S : \A n \in S : <<n, m>> \notin OpToRel(<, Nat)
  BY NatLessThanWellFounded, WFMin
<1>2. \A m, n \in Nat : <<n, m>> \notin OpToRel(<, Nat) => m <= n
  BY DEF OpToRel
<1> QED
  BY <1>1, <1>2

\* A set that has 0 and with every number below top the next one has them all.
LEMMA Climb ==
  ASSUME NEW top \in Nat, NEW S, 0 \in S,
         \A n \in 0 .. top - 1 : n \in S => n + 1 \in S
  PROVE  0 .. top \subseteq S
<1> DEFINE Missing == (0 .. top) \ S
<1> SUFFICES ASSUME Missing # {} PROVE FALSE
  OBVIOUS
<1>1. PICK m \in Missing : \A n \in Missing : m <= n
  <2>1. Missing \in SUBSET Nat
    OBVIOUS
  <2> HIDE DEF Missing
  <2> QED
    BY <2>1, LeastNumber
<1>2. m # 0 /\ m - 1 \in 0 .. top - 1 /\ m \notin S
  BY <1>1
<1>3. m - 1 \in S
  BY <1>1, <1>2
<1> QED
  BY <1>2, <1>3

-----------------------------------------------------------------------------
(***************************************************************************)
(* Paths.  Two paths agree on their first n choices; Arity and SubSeq      *)
(* depend on these only.                                                   *)
(***************************************************************************)

\* Two paths give the same first n answers.
Agree(q, r, n) == n <= Len(q) /\ n <= Len(r) /\ \A j \in 1 .. n : q[j] = r[j]

\* Agreement is equality of prefixes.
LEMMA AgreeSubSeq ==
  ASSUME NEW q \in Seq(Nat), NEW r \in Seq(Nat), NEW n \in Nat,
         n <= Len(q), n <= Len(r)
  PROVE  Agree(q, r, n) <=> SubSeq(q, 1, n) = SubSeq(r, 1, n)
<1>1. /\ SubSeq(q, 1, n) = [j \in 1 .. n |-> q[j]]
      /\ SubSeq(r, 1, n) = [j \in 1 .. n |-> r[j]]
  OBVIOUS
<1> HIDE DEF Agree
<1>2. ASSUME Agree(q, r, n) PROVE SubSeq(q, 1, n) = SubSeq(r, 1, n)
  BY <1>1, <1>2 DEF Agree
<1>3. ASSUME SubSeq(q, 1, n) = SubSeq(r, 1, n) PROVE Agree(q, r, n)
  <2>1. ASSUME NEW j \in 1 .. n PROVE q[j] = r[j]
    <3>1. [k \in 1 .. n |-> q[k]][j] = [k \in 1 .. n |-> r[k]][j]
      BY <1>1, <1>3
    <3> QED
      BY <3>1
  <2> QED
    BY <2>1 DEF Agree
<1> QED
  BY <1>2, <1>3

\* Agreement on more choices is agreement on fewer, and it can be extended by
\* one more choice.
LEMMA AgreeFacts ==
  ASSUME NEW q \in Seq(Nat), NEW r \in Seq(Nat), NEW n \in Nat, Agree(q, r, n)
  PROVE  /\ Agree(r, q, n)
         /\ \A m \in 0 .. n : Agree(q, r, m)
         /\ \A t \in Seq(Nat) : Agree(r, t, n) => Agree(q, t, n)
         /\ \A v \in Nat : n = Len(q) /\ n < Len(r) /\ r[n + 1] = v
              => Agree(Append(q, v), r, n + 1)
         /\ \A v \in Nat : Agree(q, Append(r, v), n)
BY DEF Agree

\* What a tree has on the way to one of its nodes.
LEMMA OnTheWay ==
  ASSUME NEW f, IsTree(f), NEW q \in DOMAIN f, NEW i \in 1 .. Len(q)
  PROVE  /\ q \in Seq(Nat)
         /\ SubSeq(q, 1, i - 1) \in DOMAIN f
         /\ f[SubSeq(q, 1, i - 1)].op = "choose"
         /\ Arity(f, q, i) \in Nat
         /\ q[i] \in 0 .. Arity(f, q, i) - 1
<1>1. q \in Seq(Nat)
  BY DEF IsTree
<1>2. q[i] \in Nat
  BY <1>1
<1>3. /\ SubSeq(q, 1, i - 1) \in DOMAIN f
      /\ f[SubSeq(q, 1, i - 1)].op = "choose"
      /\ q[i] < Arity(f, q, i)
  BY DEF IsTree, Arity
<1>4. f[SubSeq(q, 1, i - 1)] \in Node
  BY <1>3 DEF IsTree
<1> QED
  BY <1>1, <1>2, <1>3, <1>4 DEF Node, Arity

-----------------------------------------------------------------------------
(***************************************************************************)
(* DepthBefore is a recursive function of the position.                    *)
(***************************************************************************)

\* The table behind DepthOf: the sum over the first i choices of a path.
DepthSums(f, q, n, s) ==
  s = [j \in 0 .. n |-> IF j = 0 THEN 0 ELSE s[j - 1] + Arity(f, q, j) - q[j]]

\* The sums along a path exist: a table for one more position extends the
\* table that was there.
LEMMA DepthSumsExist ==
  ASSUME NEW f, IsTree(f), NEW q \in DOMAIN f
  PROVE  \A n \in 0 .. Len(q) : \E s \in [0 .. n -> Nat] : DepthSums(f, q, n, s)
<1> DEFINE S == {n \in 0 .. Len(q) : \E s \in [0 .. n -> Nat] : DepthSums(f, q, n, s)}
<1>1. Len(q) \in Nat /\ \A j \in 1 .. Len(q) : Arity(f, q, j) - q[j] \in Nat
                                               /\ Arity(f, q, j) \in Nat /\ q[j] \in Nat
  <2>1. q \in Seq(Nat)
    BY DEF IsTree
  <2> QED
    BY <2>1, OnTheWay
<1>2. 0 \in S
  <2>1. DepthSums(f, q, 0, [j \in 0 .. 0 |-> 0])
    BY DEF DepthSums
  <2> QED
    BY <1>1, <2>1
<1>3. ASSUME NEW n \in 0 .. Len(q) - 1, n \in S PROVE n + 1 \in S
  <2>1. PICK s \in [0 .. n -> Nat] : DepthSums(f, q, n, s)
    BY <1>3
  <2> DEFINE add == Arity(f, q, n + 1) - q[n + 1]
             t == [j \in 0 .. n + 1 |-> IF j = n + 1 THEN s[n] + add ELSE s[j]]
  <2>2. t \in [0 .. n + 1 -> Nat]
    BY <1>1
  <2>3. \A j \in 0 .. n : s[j] = IF j = 0 THEN 0 ELSE s[j - 1] + Arity(f, q, j) - q[j]
    BY <2>1 DEF DepthSums
  <2>4. \A j \in 0 .. n + 1 : t[j] = IF j = 0 THEN 0 ELSE t[j - 1] + Arity(f, q, j) - q[j]
    BY <1>1, <2>3
  <2>5. DepthSums(f, q, n + 1, t)
    BY <2>2, <2>4 DEF DepthSums
  <2>6. \E u \in [0 .. n + 1 -> Nat] : DepthSums(f, q, n + 1, u)
    <3> HIDE DEF t
    <3> QED
      BY <2>2, <2>5
  <2>7. n + 1 \in 0 .. Len(q)
    BY <1>1
  <2> QED
    BY <2>6, <2>7
<1>4. 0 .. Len(q) \subseteq S
  <2> HIDE DEF S
  <2> QED
    BY <1>1, <1>2, <1>3, Climb
<1> QED
  BY <1>4

\* Tables of paths that agree so far agree so far.
LEMMA DepthSumsAgree ==
  ASSUME NEW f, NEW q, NEW r, NEW top \in Nat, NEW n \in Nat, NEW m \in Nat,
         top <= n, top <= m,
         \A j \in 1 .. top : Arity(f, q, j) = Arity(f, r, j) /\ q[j] = r[j],
         NEW s, DepthSums(f, q, n, s), NEW t, DepthSums(f, r, m, t)
  PROVE  s[top] = t[top]
<1> DEFINE S == {j \in 0 .. top : s[j] = t[j]}
<1>1. /\ \A j \in 0 .. n : s[j] = IF j = 0 THEN 0 ELSE s[j - 1] + Arity(f, q, j) - q[j]
      /\ \A j \in 0 .. m : t[j] = IF j = 0 THEN 0 ELSE t[j - 1] + Arity(f, r, j) - r[j]
  BY DEF DepthSums
<1>2. 0 \in S
  BY <1>1
<1>3. ASSUME NEW j \in 0 .. top - 1, j \in S PROVE j + 1 \in S
  BY <1>1, <1>3
<1>4. 0 .. top \subseteq S
  <2> HIDE DEF S
  <2> QED
    BY <1>2, <1>3, Climb
<1> QED
  BY <1>4

\* DepthBefore is the last entry of such a table.
LEMMA DepthBeforeTable ==
  ASSUME NEW f, IsTree(f), NEW q \in DOMAIN f, NEW i \in 1 .. Len(q) + 1
  PROVE  \E s \in [0 .. i - 1 -> Nat] : DepthSums(f, q, i - 1, s) /\ DepthBefore(f, q, i) = s[i - 1]
<1> DEFINE c == CHOOSE s : DepthSums(f, q, i - 1, s)
<1>1. q \in Seq(Nat) /\ i - 1 \in 0 .. Len(q) /\ i - 1 \in Nat
  BY DEF IsTree
<1>2. PICK s \in [0 .. i - 1 -> Nat] : DepthSums(f, q, i - 1, s)
  BY <1>1, DepthSumsExist
<1>3. DepthSums(f, q, i - 1, c)
  BY <1>2
<1>4. DepthBefore(f, q, i) = c[i - 1]
  BY DEF DepthBefore, DepthSums
<1>5. c[i - 1] = s[i - 1]
  <2> HIDE DEF c
  <2> QED
    BY <1>1, <1>2, <1>3, DepthSumsAgree
<1> QED
  BY <1>2, <1>4, <1>5

\* The depth before a position depends on the choices before it only.
LEMMA DepthBeforeAgrees ==
  ASSUME NEW f, IsTree(f), NEW q \in DOMAIN f, NEW r \in DOMAIN f,
         NEW i \in Nat \ {0}, Agree(q, r, i - 1)
  PROVE  DepthBefore(f, q, i) = DepthBefore(f, r, i)
<1>1. q \in Seq(Nat) /\ r \in Seq(Nat)
  BY DEF IsTree
<1>2. /\ i \in 1 .. Len(q) + 1 /\ i \in 1 .. Len(r) + 1 /\ i - 1 \in Nat
      /\ \A j \in 1 .. i - 1 : j <= Len(q) /\ j <= Len(r)
  BY <1>1 DEF Agree
<1>3. PICK s : DepthSums(f, q, i - 1, s) /\ DepthBefore(f, q, i) = s[i - 1]
  BY <1>2, DepthBeforeTable
<1>4. PICK t : DepthSums(f, r, i - 1, t) /\ DepthBefore(f, r, i) = t[i - 1]
  BY <1>2, DepthBeforeTable
<1>5. ASSUME NEW j \in 1 .. i - 1 PROVE Arity(f, q, j) = Arity(f, r, j) /\ q[j] = r[j]
  <2>1. j - 1 \in Nat /\ j - 1 <= Len(q) /\ j - 1 <= Len(r) /\ Agree(q, r, j - 1)
    BY <1>1, <1>2 DEF Agree
  <2>2. SubSeq(q, 1, j - 1) = SubSeq(r, 1, j - 1)
    BY <1>1, <2>1, AgreeSubSeq
  <2> QED
    BY <2>2 DEF Arity, Agree
<1> QED
  BY <1>2, <1>3, <1>4, <1>5, DepthSumsAgree

\* One choice more adds the activations that its result unwinds.
LEMMA DepthBeforeNext ==
  ASSUME NEW f, IsTree(f), NEW q \in DOMAIN f
  PROVE  /\ DepthBefore(f, q, 1) = 0
         /\ \A i \in 1 .. Len(q) :
              DepthBefore(f, q, i + 1) = DepthBefore(f, q, i) + Arity(f, q, i) - q[i]
         /\ \A i \in 1 .. Len(q) + 1 : DepthBefore(f, q, i) \in Nat
<1>0. q \in Seq(Nat)
  BY DEF IsTree
<1>1. DepthBefore(f, q, 1) = 0
  <2>1. PICK s : DepthSums(f, q, 0, s) /\ DepthBefore(f, q, 1) = s[0]
    BY <1>0, DepthBeforeTable
  <2> QED
    BY <2>1 DEF DepthSums
<1>2. ASSUME NEW i \in 1 .. Len(q)
      PROVE  DepthBefore(f, q, i + 1) = DepthBefore(f, q, i) + Arity(f, q, i) - q[i]
  <2>1. PICK s : DepthSums(f, q, i - 1, s) /\ DepthBefore(f, q, i) = s[i - 1]
    BY <1>0, DepthBeforeTable
  <2>2. PICK t : DepthSums(f, q, i, t) /\ DepthBefore(f, q, i + 1) = t[i]
    <3>1. i + 1 \in 1 .. Len(q) + 1 /\ (i + 1) - 1 = i
      BY <1>0
    <3> QED
      BY <3>1, DepthBeforeTable
  <2>3. s[i - 1] = t[i - 1]
    BY <1>0, <2>1, <2>2, DepthSumsAgree
  <2>4. t[i] = t[i - 1] + Arity(f, q, i) - q[i]
    BY <1>0, <2>2 DEF DepthSums
  <2> QED
    BY <2>1, <2>2, <2>3, <2>4
<1>3. ASSUME NEW i \in 1 .. Len(q) + 1 PROVE DepthBefore(f, q, i) \in Nat
  <2>1. PICK s \in [0 .. i - 1 -> Nat] : DepthBefore(f, q, i) = s[i - 1]
    BY DepthBeforeTable
  <2> QED
    BY <1>0, <2>1
<1> QED
  BY <1>1, <1>2, <1>3

\* The depth after one more choice.
LEMMA DepthOfAppend ==
  ASSUME NEW f, IsTree(f), NEW q \in DOMAIN f
  PROVE  /\ DepthOf(f, q) \in Nat
         /\ \A v \in Nat : Append(q, v) \in DOMAIN f
              => DepthOf(f, Append(q, v)) = DepthOf(f, q) + f[q].arg - v
<1>1. q \in Seq(Nat) /\ Len(q) \in Nat
  BY DEF IsTree
<1>2. DepthOf(f, q) \in Nat
  BY <1>1, DepthBeforeNext DEF DepthOf
<1>3. ASSUME NEW v \in Nat, Append(q, v) \in DOMAIN f
      PROVE  DepthOf(f, Append(q, v)) = DepthOf(f, q) + f[q].arg - v
  <2> DEFINE r == Append(q, v)
             n == Len(q) + 1
  <2>1. Len(r) = n /\ r[n] = v /\ n \in 1 .. Len(r) /\ n \in Nat \ {0} /\ n - 1 = Len(q)
    BY <1>1
  <2>2. Agree(q, r, n - 1)
    BY <1>1 DEF Agree
  <2>3. Arity(f, r, n) = f[q].arg
    <3>1. SubSeq(r, 1, n - 1) = SubSeq(q, 1, Len(q))
      BY <1>1, <2>1, <2>2, AgreeSubSeq
    <3>2. SubSeq(q, 1, Len(q)) = q
      BY <1>1
    <3> QED
      BY <3>1, <3>2 DEF Arity
  <2> HIDE DEF r, n
  <2>4. r \in DOMAIN f
    BY <1>3 DEF r
  <2>5. DepthBefore(f, r, n + 1) = DepthBefore(f, r, n) + Arity(f, r, n) - r[n]
    BY <2>1, <2>4, DepthBeforeNext
  <2>6. DepthBefore(f, q, n) = DepthBefore(f, r, n)
    BY <2>1, <2>2, <2>4, DepthBeforeAgrees
  <2>7. DepthOf(f, r) = DepthBefore(f, r, n + 1) /\ DepthOf(f, q) = DepthBefore(f, q, n)
    BY <2>1 DEF DepthOf, n
  <2> QED
    BY <2>1, <2>3, <2>5, <2>6, <2>7 DEF r
<1> QED
  BY <1>2, <1>3

-----------------------------------------------------------------------------
(***************************************************************************)
(* Leaves under a node, the order of the exploration, and what it prunes.  *)
(***************************************************************************)

\* A path that has all of q in front begins with q.
LEMMA AgreePrefix ==
  ASSUME NEW q \in Seq(Nat), NEW r \in Seq(Nat), Agree(q, r, Len(q))
  PROVE  /\ SubSeq(r, 1, Len(q)) = q
         /\ Len(q) <= Len(r)
         /\ Len(r) = Len(q) => r = q
<1>1. Len(q) \in Nat /\ Len(q) <= Len(r)
  BY DEF Agree
<1>2. SubSeq(q, 1, Len(q)) = SubSeq(r, 1, Len(q))
  BY <1>1, AgreeSubSeq
<1>3. SubSeq(q, 1, Len(q)) = q /\ SubSeq(r, 1, Len(r)) = r
  OBVIOUS
<1> QED
  BY <1>1, <1>2, <1>3

\* A leaf under a choice took one of its values; under a leaf is only itself.
LEMMA LeafUnder ==
  ASSUME NEW f, IsTree(f), NEW q \in DOMAIN f, NEW r \in Leaves(f),
         Agree(q, r, Len(q))
  PROVE  /\ f[q].op = "choose" =>
              /\ Len(q) < Len(r)
              /\ r[Len(q) + 1] \in 0 .. f[q].arg - 1
              /\ Arity(f, r, Len(q) + 1) = f[q].arg
         /\ f[q].op # "choose" => r = q
<1>1. /\ q \in Seq(Nat) /\ r \in Seq(Nat) /\ Len(q) \in Nat /\ Len(r) \in Nat
      /\ r \in DOMAIN f /\ f[r].op # "choose"
  BY DEF IsTree, Leaves
<1>2. /\ SubSeq(r, 1, Len(q)) = q
      /\ Len(q) <= Len(r)
      /\ Len(r) = Len(q) => r = q
  BY <1>1, AgreePrefix
<1>3. ASSUME Len(q) < Len(r)
      PROVE  /\ f[q].op = "choose"
             /\ r[Len(q) + 1] \in 0 .. f[q].arg - 1
             /\ Arity(f, r, Len(q) + 1) = f[q].arg
  <2>1. Len(q) + 1 \in 1 .. Len(r) /\ (Len(q) + 1) - 1 = Len(q)
    BY <1>1, <1>3
  <2> DEFINE i == Len(q) + 1
  <2>2. SubSeq(r, 1, i - 1) = q
    BY <1>2, <2>1
  <2> HIDE DEF i
  <2>3. i \in 1 .. Len(r)
    BY <2>1 DEF i
  <2>4. f[SubSeq(r, 1, i - 1)].op = "choose" /\ r[i] \in 0 .. Arity(f, r, i) - 1
    BY <1>1, <2>3, OnTheWay
  <2>5. Arity(f, r, i) = f[q].arg
    BY <2>2 DEF Arity
  <2> QED
    BY <2>2, <2>4, <2>5 DEF i
<1>4. CASE Len(q) < Len(r)
  BY <1>3, <1>4
<1>5. CASE ~(Len(q) < Len(r))
  BY <1>1, <1>2, <1>5
<1> QED
  BY <1>4, <1>5

\* One value further.
LEMMA AgreeAppend ==
  ASSUME NEW q \in Seq(Nat), NEW r \in Seq(Nat), NEW v \in Nat
  PROVE  Agree(Append(q, v), r, Len(Append(q, v)))
           <=> Agree(q, r, Len(q)) /\ Len(q) < Len(r) /\ r[Len(q) + 1] = v
<1> DEFINE a == Append(q, v)
           n == Len(q)
<1>1. /\ n \in Nat /\ Len(r) \in Nat /\ Len(a) = n + 1 /\ a[n + 1] = v
      /\ \A j \in 1 .. n : a[j] = q[j]
  OBVIOUS
<1> HIDE DEF a, n
<1>2. ASSUME Agree(a, r, Len(a))
      PROVE  Agree(q, r, n) /\ n < Len(r) /\ r[n + 1] = v
  <2>1. n + 1 <= Len(r) /\ \A j \in 1 .. n + 1 : a[j] = r[j]
    BY <1>1, <1>2 DEF Agree
  <2>2. n < Len(r) /\ r[n + 1] = v
    BY <1>1, <2>1
  <2>3. n <= Len(q)
    BY <1>1 DEF n
  <2> QED
    BY <1>1, <2>1, <2>2, <2>3 DEF Agree
<1>3. ASSUME Agree(q, r, n), n < Len(r), r[n + 1] = v
      PROVE  Agree(a, r, Len(a))
  <2>1. \A j \in 1 .. n : a[j] = r[j]
    BY <1>1, <1>3 DEF Agree
  <2>2. \A j \in 1 .. n + 1 : a[j] = r[j]
    <3> SUFFICES ASSUME NEW j \in 1 .. n + 1 PROVE a[j] = r[j]
      OBVIOUS
    <3>1. j \in 1 .. n \/ j = n + 1
      BY <1>1
    <3> QED
      BY <1>1, <1>3, <2>1, <3>1
  <2>3. Len(a) <= Len(r) /\ Len(a) <= Len(a)
    BY <1>1, <1>3
  <2> QED
    BY <1>1, <2>2, <2>3 DEF Agree
<1> QED
  BY <1>2, <1>3 DEF a, n

\* The bound asks the same of two paths as far as they agree.
LEMMA AdmissibleAppend ==
  ASSUME NEW f, IsTree(f), NEW q \in DOMAIN f, NEW v \in Nat,
         Append(q, v) \in DOMAIN f, NEW bound \in Nat
  PROVE  Admissible(f, bound, Append(q, v))
           <=> /\ Admissible(f, bound, q)
               /\ bound > 0 /\ DepthOf(f, q) >= bound => v = f[q].arg - 1
<1> DEFINE r == Append(q, v)
           n == Len(q)
<1>1. /\ q \in Seq(Nat) /\ n \in Nat /\ Len(r) = n + 1 /\ r[n + 1] = v
      /\ r \in Seq(Nat)
      /\ \A j \in 1 .. n : r[j] = q[j]
  BY DEF IsTree
<1>2. \A i \in 1 .. n + 1 : Agree(q, r, i - 1)
  BY <1>1 DEF Agree
<1>3. \A i \in 1 .. n + 1 : DepthBefore(f, r, i) = DepthBefore(f, q, i)
  <2> HIDE DEF r, n
  <2> SUFFICES ASSUME NEW i \in 1 .. n + 1 PROVE DepthBefore(f, r, i) = DepthBefore(f, q, i)
    OBVIOUS
  <2>1. i \in Nat \ {0} /\ Agree(q, r, i - 1) /\ r \in DOMAIN f
    BY <1>1, <1>2 DEF r
  <2> QED
    BY <2>1, DepthBeforeAgrees
<1>4. \A i \in 1 .. n + 1 : Arity(f, r, i) = Arity(f, q, i)
  <2> HIDE DEF r, n
  <2> SUFFICES ASSUME NEW i \in 1 .. n + 1 PROVE Arity(f, r, i) = Arity(f, q, i)
    OBVIOUS
  <2>1. /\ i - 1 \in Nat /\ i - 1 <= Len(q) /\ i - 1 <= Len(r) /\ Agree(q, r, i - 1)
    BY <1>1, <1>2 DEF n
  <2>2. SubSeq(q, 1, i - 1) = SubSeq(r, 1, i - 1)
    BY <1>1, <2>1, AgreeSubSeq
  <2> QED
    BY <2>2 DEF Arity
<1>5. Arity(f, q, n + 1) = f[q].arg
  <2>1. SubSeq(q, 1, (n + 1) - 1) = q
    BY <1>1
  <2> QED
    BY <2>1 DEF Arity
<1>6. DepthOf(f, q) = DepthBefore(f, q, n + 1)
  BY DEF DepthOf
<1> HIDE DEF r, n
<1>7. ASSUME Admissible(f, bound, r)
      PROVE  /\ Admissible(f, bound, q)
             /\ bound > 0 /\ DepthOf(f, q) >= bound => v = f[q].arg - 1
  <2>1. ASSUME bound > 0
        PROVE  \A i \in 1 .. n + 1 :
                 DepthBefore(f, q, i) >= bound => r[i] = Arity(f, q, i) - 1
    BY <1>1, <1>3, <1>4, <1>7, <2>1 DEF Admissible
  <2>2. Admissible(f, bound, q)
    <3>1. ASSUME bound > 0, NEW i \in 1 .. Len(q), DepthBefore(f, q, i) >= bound
          PROVE  q[i] = Arity(f, q, i) - 1
      <4>1. i \in 1 .. n + 1 /\ r[i] = q[i]
        BY <1>1 DEF n
      <4> QED
        BY <2>1, <3>1, <4>1
    <3> QED
      BY <3>1 DEF Admissible
  <2>3. ASSUME bound > 0, DepthOf(f, q) >= bound PROVE v = f[q].arg - 1
    <3>1. n + 1 \in 1 .. n + 1
      BY <1>1
    <3> QED
      BY <1>1, <1>5, <1>6, <2>1, <2>3, <3>1
  <2> QED
    BY <2>2, <2>3
<1>8. ASSUME Admissible(f, bound, q),
             bound > 0 /\ DepthOf(f, q) >= bound => v = f[q].arg - 1
      PROVE  Admissible(f, bound, r)
  <2> SUFFICES ASSUME bound > 0, NEW i \in 1 .. n + 1, DepthBefore(f, r, i) >= bound
               PROVE  r[i] = Arity(f, r, i) - 1
    BY <1>1 DEF Admissible
  <2>1. CASE i \in 1 .. n
    <3>1. q[i] = Arity(f, q, i) - 1
      BY <1>3, <1>8, <2>1 DEF Admissible, n
    <3> QED
      BY <1>1, <1>4, <2>1, <3>1
  <2>2. CASE i = n + 1
    BY <1>1, <1>3, <1>4, <1>5, <1>6, <1>8, <2>2
  <2> QED
    BY <1>1, <2>1, <2>2
<1> QED
  BY <1>7, <1>8 DEF r

\* Beyond the bound only the highest value is admissible.
LEMMA AdmissibleBelow ==
  ASSUME NEW f, IsTree(f), NEW q \in DOMAIN f, NEW r \in DOMAIN f,
         Agree(q, r, Len(q)), Len(q) < Len(r), NEW bound \in Nat \ {0},
         DepthOf(f, q) >= bound, Admissible(f, bound, r)
  PROVE  r[Len(q) + 1] = Arity(f, r, Len(q) + 1) - 1
<1>1. q \in Seq(Nat) /\ r \in Seq(Nat) /\ Len(q) \in Nat /\ Len(r) \in Nat
  BY DEF IsTree
<1> DEFINE i == Len(q) + 1
<1>2. i \in 1 .. Len(r) /\ i \in Nat \ {0} /\ i - 1 = Len(q)
  BY <1>1
<1> HIDE DEF i
<1>3. DepthBefore(f, q, i) = DepthBefore(f, r, i)
  BY <1>2, DepthBeforeAgrees
<1>4. DepthOf(f, q) = DepthBefore(f, q, i)
  BY DEF DepthOf, i
<1> QED
  BY <1>2, <1>3, <1>4 DEF Admissible, i

\* The order of the exploration is an order, so a set has at most one first
\* path.
LEMMA FirstIs ==
  ASSUME NEW S \in SUBSET Seq(Nat), NEW q \in S,
         \A r \in S \ {q} : Precedes(q, r)
  PROVE  First(S) = q
<1> DEFINE c == First(S)
<1>1. c \in S /\ \A r \in S \ {c} : Precedes(c, r)
  BY DEF First
<1> HIDE DEF c
<1> SUFFICES ASSUME c # q PROVE FALSE
  BY DEF c
<1>2. Precedes(q, c) /\ Precedes(c, q)
  BY <1>1
<1>3. PICK i \in 1 .. Len(q) :
        i <= Len(c) /\ SubSeq(q, 1, i - 1) = SubSeq(c, 1, i - 1) /\ q[i] > c[i]
  BY <1>2 DEF Precedes
<1>4. PICK k \in 1 .. Len(c) :
        k <= Len(q) /\ SubSeq(c, 1, k - 1) = SubSeq(q, 1, k - 1) /\ c[k] > q[k]
  BY <1>2 DEF Precedes
<1>5. q \in Seq(Nat) /\ c \in Seq(Nat)
  BY <1>1
<1>6. Agree(q, c, i - 1) /\ Agree(c, q, k - 1)
  <2>1. /\ i - 1 \in Nat /\ i - 1 <= Len(q) /\ i - 1 <= Len(c)
        /\ k - 1 \in Nat /\ k - 1 <= Len(q) /\ k - 1 <= Len(c)
    BY <1>3, <1>4, <1>5
  <2> QED
    BY <1>3, <1>4, <1>5, <2>1, AgreeSubSeq
<1>7. q[i] \in Nat /\ c[i] \in Nat /\ q[k] \in Nat /\ c[k] \in Nat
  BY <1>3, <1>4, <1>5
<1>8. CASE i < k
  BY <1>3, <1>6, <1>7, <1>8 DEF Agree
<1>9. CASE k < i
  BY <1>4, <1>6, <1>7, <1>9 DEF Agree
<1>10. CASE i = k
  BY <1>3, <1>4, <1>7, <1>10
<1> QED
  BY <1>8, <1>9, <1>10

\* The nearest fork point, and the nearest two.
LEMMA NearestForksAre ==
  ASSUME NEW q \in Seq(Nat), NEW i \in ForkPoints(q)
  PROVE  /\ i \notin NearestForks(q, 0)
         /\ i \in NearestForks(q, 1) <=> \A j \in ForkPoints(q) : ~(j > i)
         /\ i \in NearestForks(q, 2)
              <=> \A j, k \in ForkPoints(q) : j > i /\ k > i => j = k
<1> DEFINE D == {j \in ForkPoints(q) : j > i}
<1>1. IsFiniteSet(D) /\ Cardinality(D) \in Nat
  <2>1. IsFiniteSet(1 .. Len(q))
    BY FS_Interval
  <2>2. D \in SUBSET (1 .. Len(q))
    BY DEF ForkPoints
  <2> HIDE DEF D
  <2>3. IsFiniteSet(D)
    BY <2>1, <2>2, FS_Subset
  <2> QED
    BY <2>3, FS_CardinalityType
<1>2. \A n \in Nat : i \in NearestForks(q, n) <=> Cardinality(D) < n
  BY DEF NearestForks
<1>3. Cardinality(D) = 0 <=> D = {}
  BY <1>1, FS_EmptySet
<1>4. Cardinality(D) = 1 <=> \E x : D = {x}
  BY <1>1, FS_Singleton
<1>5. Cardinality(D) < 2 <=> \A j, k \in D : j = k
  <2> HIDE DEF D
  <2>1. ASSUME \A j, k \in D : j = k, D # {} PROVE \E x : D = {x}
    <3>1. PICK x \in D : TRUE
      BY <2>1
    <3>2. D = {x}
      BY <2>1, <3>1
    <3> QED
      BY <3>2
  <2>2. ASSUME \E x : D = {x} PROVE \A j, k \in D : j = k
    BY <2>2
  <2>3. Cardinality(D) < 2 <=> Cardinality(D) = 0 \/ Cardinality(D) = 1
    BY <1>1
  <2> QED
    BY <1>3, <1>4, <2>1, <2>2, <2>3
<1>6. (\A j, k \in D : j = k) <=> \A j, k \in ForkPoints(q) : j > i /\ k > i => j = k
  OBVIOUS
<1>7. D = {} <=> \A j \in ForkPoints(q) : ~(j > i)
  OBVIOUS
<1> HIDE DEF D
<1> QED
  BY <1>1, <1>2, <1>3, <1>5, <1>6, <1>7

-----------------------------------------------------------------------------
(***************************************************************************)
(* Runs.                                                                   *)
(***************************************************************************)

\* What the assumption on Programs gives for the program that runs.
LEMMA TreeFacts ==
  ASSUME TypeOK, NEW q \in DOMAIN prog
  PROVE  /\ q \in Seq(Nat)
         /\ prog[q] \in Node
         /\ prog[q].op = "choose" =>
              \A v \in 0 .. prog[q].arg - 1 : Append(q, v) \in DOMAIN prog
BY ProgramsAssumption DEF TypeOK, IsTree

\* Paths are sequences of numbers.
LEMMA PathType == TypeOK => \A p \in Pid : path[p] \in Seq(Nat) /\ Len(path[p]) \in Nat
BY DEF TypeOK

\* The choices pushed on a return are a sequence of numbers.
LEMMA PushedType ==
  ASSUME TypeOK, NEW v \in Nat, NEW k \in Nat
  PROVE  Pushed(v, k) \in Seq(Nat)
<1>1. [j \in 1 .. k |-> v] \in [1 .. k -> Nat]
  OBVIOUS
<1>2. [j \in 1 .. k |-> v] \in Seq(Nat)
  BY <1>1
<1> QED
  BY <1>2 DEF Pushed

\* A process in a choice returns one of the values of that choice.
LEMMA ResultInRange ==
  ASSUME TypeOK, NEW p \in Pid, pc[p] \in {"fork", "wait", "check"}
  PROVE  /\ prog[path[p]] = Do("choose", want[p])
         /\ want[p] \in Nat /\ cnt[p] \in 1 .. want[p]
         /\ Result(p) \in 0 .. want[p] - 1
         /\ Activations(p) \in Nat
         /\ Append(path[p], Result(p)) \in DOMAIN prog
<1>1. /\ prog[path[p]] = Do("choose", want[p])
      /\ want[p] \in Nat
      /\ cnt[p] \in 1 .. want[p]
      /\ path[p] \in DOMAIN prog
  BY DEF TypeOK, AtNode
<1>2. Result(p) \in 0 .. want[p] - 1 /\ Activations(p) \in Nat
  BY <1>1 DEF Result, Activations
<1>3. prog[path[p]].op = "choose" /\ prog[path[p]].arg = want[p]
  BY <1>1 DEF Do
<1> QED
  BY <1>1, <1>2, <1>3, TreeFacts

\* A status word is a number.
LEMMA ExitStatusType == ASSUME NEW code \in Nat PROVE ExitStatus(code) \in Nat
BY DEF ExitStatus

-----------------------------------------------------------------------------

\* The initial state is well typed.
LEMMA TypeInit == Init => TypeOK
<1> SUFFICES ASSUME Init PROVE TypeOK
  OBVIOUS
<1>1. << >> \in DOMAIN prog
  BY ProgramsAssumption DEF Init, IsTree
<1>2. << >> \in Seq(Nat) /\ << >> \in Seq(Seq(Nat))
  OBVIOUS
<1> QED
  BY <1>1, <1>2, RootAssumption DEF Init, TypeOK, AtNode, States, Lines

\* A return from choose keeps the memory of the process well typed, and
\* puts the process at a node of the tree.
LEMMA ReturnType ==
  ASSUME TypeOK, NEW q \in Pid, NEW p \in Pid, NEW v \in Nat, NEW k \in Nat,
         Append(path[p], v) \in DOMAIN prog,
         Return(q, p, v, k)
  PROVE  /\ path' \in [Pid -> Seq(Nat)]
         /\ depth' \in [Pid -> Nat]
         /\ trace' \in [Pid -> Seq(Nat)]
         /\ path'[q] \in DOMAIN prog
         /\ \A r \in Pid \ {q} : path'[r] = path[r]
<1>1. trace[p] \in Seq(Nat) /\ Pushed(v, k) \in Seq(Nat)
  BY PushedType DEF TypeOK
<1>2. trace[p] \o Pushed(v, k) \in Seq(Nat)
  BY <1>1
<1>3. path[p] \in Seq(Nat) /\ depth[p] \in Nat
  BY DEF TypeOK
<1>4. Append(path[p], v) \in Seq(Nat) /\ depth[p] + k \in Nat
  BY <1>3
<1>5. trace' \in [Pid -> Seq(Nat)]
  BY <1>2 DEF TypeOK, Return
<1>6. path' \in [Pid -> Seq(Nat)] /\ depth' \in [Pid -> Nat]
  BY <1>4 DEF TypeOK, Return
<1>7. path'[q] = Append(path[p], v) /\ \A r \in Pid \ {q} : path'[r] = path[r]
  BY DEF TypeOK, Return
<1> QED
  BY <1>5, <1>6, <1>7

\* Every step keeps types.
LEMMA TypeStep == TypeOK /\ [Next]_vars => TypeOK'
<1> SUFFICES ASSUME TypeOK, [Next]_vars PROVE TypeOK'
  OBVIOUS
<1> USE DEF States
<1>1. ASSUME NEW p \in Pid, CallChoose(p) PROVE TypeOK'
  <2>1. prog[path[p]] \in Node /\ prog[path[p]].op = "choose"
    BY <1>1, TreeFacts DEF CallChoose, TypeOK, AtNode
  <2>2. prog[path[p]] = Do("choose", prog[path[p]].arg) /\ prog[path[p]].arg \in Nat
    BY <2>1 DEF Node, Do
  <2>3. prog[path[p]].arg > 0
    BY <2>1, ProgramsAssumption DEF TypeOK, AtNode, IsTree
  <2> QED
    BY <1>1, <2>2, <2>3 DEF CallChoose, TypeOK, AtNode, memory
<1>2. ASSUME NEW p \in Pid, AskChoose(p) PROVE TypeOK'
  <2>1. PICK v \in 0 .. prog[path[p]].arg - 1 : Return(p, p, v, 1)
    BY <1>2 DEF AskChoose
  <2>2. Append(path[p], v) \in DOMAIN prog /\ v \in Nat
    BY <1>2, TreeFacts DEF AskChoose, TypeOK, AtNode, Node
  <2>3. /\ path' \in [Pid -> Seq(Nat)] /\ depth' \in [Pid -> Nat]
        /\ trace' \in [Pid -> Seq(Nat)] /\ path'[p] \in DOMAIN prog
        /\ \A r \in Pid \ {p} : path'[r] = path[r]
    BY <2>1, <2>2, ReturnType
  <2> QED
    BY <1>2, <2>3 DEF AskChoose, TypeOK, AtNode, frame
<1>3. ASSUME NEW p \in Pid, Fork(p) PROVE TypeOK'
  <2>1. PICK c \in Pid :
          /\ pc[c] = "free"
          /\ pc' = [pc EXCEPT ![p] = "wait", ![c] = "prog"]
          /\ parent' = [parent EXCEPT ![c] = p]
          /\ Return(c, p, Result(p), Activations(p))
          /\ want' = [want EXCEPT ![c] = 0]
          /\ cnt' = [cnt EXCEPT ![c] = 0]
          /\ status' = [status EXCEPT ![c] = 0]
    BY <1>3 DEF Fork
  <2>2. /\ path' \in [Pid -> Seq(Nat)] /\ depth' \in [Pid -> Nat]
        /\ trace' \in [Pid -> Seq(Nat)] /\ path'[c] \in DOMAIN prog
        /\ \A r \in Pid \ {c} : path'[r] = path[r]
    BY <1>3, <2>1, ResultInRange, ReturnType DEF Fork
  <2>a. DOMAIN pc = Pid /\ DOMAIN want = Pid /\ DOMAIN cnt = Pid /\ AtNode(p)
    BY DEF TypeOK
  <2>b. pc[p] = "fork" /\ cnt[p] > 1 /\ prog' = prog
    BY <1>3 DEF Fork
  <2>3. p # c /\ pc'[p] = "wait" /\ pc'[c] = "prog"
    BY <2>1, <2>a, <2>b
  <2>4. ASSUME NEW r \in Pid PROVE AtNode(r)'
    <3>1. CASE r = c
      BY <2>2, <2>3, <2>b, <3>1 DEF AtNode
    <3>2. CASE r = p
      <4>1. path'[p] = path[p] /\ want'[p] = want[p] /\ cnt'[p] = cnt[p] /\ prog' = prog
        BY <2>1, <2>2, <2>3, <2>a, <2>b
      <4> QED
        BY <2>3, <2>a, <2>b, <3>2, <4>1 DEF AtNode
    <3>3. CASE r # c /\ r # p
      <4>1. pc'[r] = pc[r] /\ path'[r] = path[r] /\ want'[r] = want[r] /\ cnt'[r] = cnt[r] /\ prog' = prog
        BY <2>1, <2>2, <2>a, <2>b, <3>3
      <4>2. AtNode(r)
        BY DEF TypeOK
      <4> QED
        BY <4>1, <4>2 DEF AtNode
    <3> QED
      BY <3>1, <3>2, <3>3
  <2> QED
    BY <1>3, <2>1, <2>2, <2>4 DEF Fork, TypeOK
<1>4. ASSUME NEW p \in Pid, ForkFails(p) PROVE TypeOK'
  BY <1>4, UninitAssumption DEF ForkFails, TypeOK, AtNode, memory
<1>5. ASSUME NEW p \in Pid, ReturnLast(p) PROVE TypeOK'
  <2>1. /\ path' \in [Pid -> Seq(Nat)] /\ depth' \in [Pid -> Nat]
        /\ trace' \in [Pid -> Seq(Nat)] /\ path'[p] \in DOMAIN prog
        /\ \A r \in Pid \ {p} : path'[r] = path[r]
    BY <1>5, ResultInRange, ReturnType DEF ReturnLast
  <2>2. ASSUME NEW r \in Pid PROVE AtNode(r)'
    BY <1>5, <2>1 DEF ReturnLast, TypeOK, AtNode
  <2> QED
    BY <1>5, <2>1, <2>2 DEF ReturnLast, TypeOK
<1>6. ASSUME NEW p \in Pid, Wait(p) PROVE TypeOK'
  <2>1. PICK c \in Pid :
          /\ pc[c] = "zombie"
          /\ status' = [status EXCEPT ![p] = status[c]]
          /\ pc' = [pc EXCEPT ![p] = "check", ![c] = "free"]
    BY <1>6 DEF Wait
  <2>2. /\ status' \in [Pid -> Nat] /\ pc' \in [Pid -> States]
        /\ UNCHANGED <<prog, config, error_found, parent, path, depth, trace, want,
                      cnt, report, explored>>
    BY <1>6, <2>1 DEF Wait, TypeOK, memory
  <2>3. ASSUME NEW r \in Pid PROVE AtNode(r)'
    BY <1>6, <2>1, <2>2 DEF Wait, TypeOK, AtNode
  <2> QED
    BY <2>2, <2>3 DEF TypeOK
<1>7. ASSUME NEW p \in Pid, ExitOnStatus(p) PROVE TypeOK'
  BY <1>7, ExitStatusType DEF ExitOnStatus, Exit, TypeOK, AtNode, memory
<1>8. ASSUME NEW p \in Pid, ExitOnError(p) PROVE TypeOK'
  BY <1>8, ExitStatusType DEF ExitOnError, Exit, TypeOK, AtNode, memory
<1>9. ASSUME NEW p \in Pid, ExitOnBound(p) PROVE TypeOK'
  BY <1>9, ExitStatusType DEF ExitOnBound, Exit, TypeOK, AtNode, memory, Lines
<1>10. ASSUME NEW p \in Pid, NextValue(p) PROVE TypeOK'
  BY <1>10 DEF NextValue, TypeOK, AtNode, memory
<1>11. ASSUME NEW p \in Pid, NEW op, Reaches(p, op)
       PROVE /\ explored' \in Seq(Seq(Nat))
             /\ prog[path[p]].arg \in Nat
  BY <1>11, TreeFacts DEF Reaches, TypeOK, AtNode, Node
<1>12. ASSUME NEW p \in Pid, ExitProgram(p) PROVE TypeOK'
  BY <1>12, <1>11, ExitStatusType
  DEF ExitProgram, Reaches, Exit, TypeOK, AtNode, memory
<1>13. ASSUME NEW p \in Pid, Cancel(p) PROVE TypeOK'
  BY <1>13, <1>11, ExitStatusType DEF Cancel, Reaches, Exit, TypeOK, AtNode, memory
<1>18. ASSUME NEW p \in Pid, Abort(p) PROVE TypeOK'
  BY <1>18, <1>11, ExitStatusType DEF Abort, Reaches, Exit, TypeOK, AtNode, memory
<1>14. ASSUME NEW p \in Pid, Fault(p) PROVE TypeOK'
  BY <1>14, <1>11, ExitStatusType
  DEF Fault, Reaches, Exit, TypeOK, AtNode, memory, Lines
<1>15. ASSUME NEW p \in Pid, Fail(p) PROVE TypeOK'
  BY <1>15, <1>11 DEF Fail, Reaches, TypeOK, AtNode, memory, Lines, SIGILL
<1>16. ASSUME NEW p \in Pid, Crash(p) PROVE TypeOK'
  BY <1>16, <1>11 DEF Crash, Reaches, TypeOK, AtNode, memory
<1>17. CASE UNCHANGED vars
  BY <1>17 DEF vars, TypeOK, AtNode
<1> QED
  BY <1>1, <1>2, <1>3, <1>4, <1>5, <1>6, <1>7, <1>8, <1>9, <1>10, <1>12, <1>13,
     <1>14, <1>15, <1>16, <1>17, <1>18
  DEF Next, Step, Terminated

\* Every variable keeps its type, every process stands at a node of the tree
\* of the program, and the choice it answers is the one of that node with at
\* least one value left.
THEOREM TypeCorrect == Spec => []TypeOK
BY TypeInit, TypeStep, PTL DEF Spec

-----------------------------------------------------------------------------
(***************************************************************************)
(* The discipline of fork and wait.  The inductive invariant says that the *)
(* processes form a chain: one of them is active, the others wait, and     *)
(* parent is a bijection from the processes but the first one to the       *)
(* waiting ones.  Each part needs the others: a fork keeps OneActive       *)
(* because the parent blocks, and a wait keeps it because the child that   *)
(* is reaped was the active process, which takes OnlyChild.                *)
(***************************************************************************)

\* At most one process is not blocked ...
OneActive == \A p, q \in Pid : Active(p) /\ Active(q) => p = q

\* ... and at least one.
SomeActive == \E p \in Pid : Active(p)

\* Every waiting process has a child.
HasChild ==
  \A p \in Pid :
    pc[p] = "wait" => \E c \in Pid \ {Root} : pc[c] # "free" /\ parent[c] = p

\* Parents of live processes wait.
Awaited == \A c \in Pid \ {Root} : pc[c] # "free" => pc[parent[c]] = "wait"

\* No two live processes have the same parent.
OnlyChild ==
  \A c, d \in Pid \ {Root} :
    pc[c] # "free" /\ pc[d] # "free" /\ parent[c] = parent[d] => c = d

\* After a fault nobody runs the program or is about to fork.
Stopping == error_found => \A p \in Pid : pc[p] \notin {"prog", "fork"}

\* The processes are a chain that ends in the runner.
Chain ==
  /\ OneActive
  /\ SomeActive
  /\ HasChild
  /\ Awaited
  /\ OnlyChild
  /\ pc[Root] # "free"
  /\ Stopping

\* The steps that neither create nor reap a process: an active process moves
\* on, and it runs the program or forks only if no assertion has failed.
Moves(p) ==
  /\ Active(p)
  /\ \E s \in States \ {"free", "wait"} :
       /\ pc' = [pc EXCEPT ![p] = s]
       /\ s \in {"prog", "fork"} => ~error_found' \/ pc[p] \in {"prog", "fork"}
       /\ error_found' # error_found => s = "zombie"
  /\ UNCHANGED parent

\* A step moves the runner, forks, or takes in an ended child.
LEMMA StepKinds ==
  ASSUME TypeOK, NEW p \in Pid, Step(p)
  PROVE  Fork(p) \/ Wait(p) \/ Moves(p)
<1> USE DEF Moves, Active, States
<1>1. ASSUME CallChoose(p) PROVE Moves(p)
  BY <1>1 DEF CallChoose
<1>2. ASSUME AskChoose(p) PROVE Moves(p)
  <2>1. pc' = [pc EXCEPT ![p] = "prog"]
    BY <1>2 DEF AskChoose, TypeOK
  <2> QED
    BY <1>2, <2>1 DEF AskChoose
<1>3. ASSUME ForkFails(p) PROVE Moves(p)
  BY <1>3 DEF ForkFails
<1>4. ASSUME ReturnLast(p) PROVE Moves(p)
  BY <1>4 DEF ReturnLast
<1>5. ASSUME ExitOnStatus(p) \/ ExitOnError(p) \/ ExitOnBound(p) PROVE Moves(p)
  BY <1>5 DEF ExitOnStatus, ExitOnError, ExitOnBound, Exit
<1>6. ASSUME NextValue(p) PROVE Moves(p)
  BY <1>6 DEF NextValue
<1>7. ASSUME ExitProgram(p) \/ Cancel(p) \/ Abort(p) \/ Fault(p) PROVE Moves(p)
  BY <1>7 DEF ExitProgram, Cancel, Abort, Fault, Reaches, Exit
<1>8. ASSUME Fail(p) \/ Crash(p) PROVE Moves(p)
  BY <1>8 DEF Fail, Crash, Reaches
<1> QED
  BY <1>1, <1>2, <1>3, <1>4, <1>5, <1>6, <1>7, <1>8 DEF Step

\* The root alone is a chain.
LEMMA ChainInit == Init => Chain
BY RootAssumption
DEF Init, Chain, OneActive, SomeActive, HasChild, Awaited, OnlyChild, Stopping, Active

\* A fork puts a new runner at the end of the chain.
LEMMA ForkKeepsChain ==
  ASSUME TypeOK, Chain, NEW p \in Pid, Fork(p)
  PROVE  Chain'
<1>1. PICK c \in Pid :
        /\ pc[c] = "free"
        /\ pc' = [pc EXCEPT ![p] = "wait", ![c] = "prog"]
        /\ parent' = [parent EXCEPT ![c] = p]
  BY DEF Fork
<1>2. pc[p] = "fork" /\ ~error_found /\ ~error_found' /\ p # c /\ c # Root
  BY <1>1 DEF Fork, Chain, Stopping
<1>3. /\ pc'[p] = "wait" /\ pc'[c] = "prog" /\ parent'[c] = p
      /\ \A r \in Pid \ {p, c} : pc'[r] = pc[r]
      /\ \A r \in Pid \ {c} : parent'[r] = parent[r]
  BY <1>1, <1>2 DEF TypeOK
<1>4. \A r \in Pid : Active(r)' <=> r = c
  BY <1>2, <1>3 DEF Chain, OneActive, Active
<1>5. \A d \in Pid \ {Root} : pc[d] # "free" => parent[d] # p /\ parent[d] # c
  BY <1>1, <1>2 DEF Chain, Awaited
<1>6. OneActive' /\ SomeActive'
  BY <1>4 DEF OneActive, SomeActive
<1>7. HasChild'
  <2> SUFFICES ASSUME NEW r \in Pid, pc'[r] = "wait"
               PROVE  \E d \in Pid \ {Root} : pc'[d] # "free" /\ parent'[d] = r
    BY DEF HasChild
  <2>1. CASE r = p
    BY <1>2, <1>3, <2>1
  <2>2. CASE r # p
    <3>1. pc[r] = "wait"
      BY <1>3, <2>2
    <3>2. PICK d \in Pid \ {Root} : pc[d] # "free" /\ parent[d] = r
      BY <3>1 DEF Chain, HasChild
    <3> QED
      BY <1>1, <1>3, <3>2
  <2> QED
    BY <2>1, <2>2
<1>8. Awaited'
  <2> SUFFICES ASSUME NEW d \in Pid \ {Root}, pc'[d] # "free"
               PROVE  pc'[parent'[d]] = "wait"
    BY DEF Awaited
  <2>1. CASE d = c
    BY <1>3, <2>1
  <2>2. CASE d # c
    <3>1. pc[d] # "free" /\ parent'[d] = parent[d]
      BY <1>2, <1>3, <2>2
    <3>2. pc[parent[d]] = "wait" /\ parent[d] \in Pid
      BY <3>1 DEF Chain, Awaited, TypeOK
    <3> QED
      BY <1>1, <1>2, <1>3, <3>1, <3>2
  <2> QED
    BY <2>1, <2>2
<1>9. OnlyChild'
  <2> SUFFICES ASSUME NEW d \in Pid \ {Root}, NEW e \in Pid \ {Root},
                      pc'[d] # "free", pc'[e] # "free", parent'[d] = parent'[e]
               PROVE  d = e
    BY DEF OnlyChild
  <2>1. \A r \in Pid : r # c /\ pc'[r] # "free" => pc[r] # "free"
    BY <1>2, <1>3
  <2>2. CASE d # c /\ e # c
    BY <1>3, <2>1, <2>2 DEF Chain, OnlyChild
  <2>3. CASE d = c \/ e = c
    BY <1>3, <1>5, <2>1, <2>3
  <2> QED
    BY <2>2, <2>3
<1>10. pc'[Root] # "free" /\ Stopping'
  BY <1>2, <1>3, RootAssumption DEF Chain, Stopping
<1> QED
  BY <1>6, <1>7, <1>8, <1>9, <1>10 DEF Chain

\* A wait takes the ended process off the chain.
LEMMA WaitKeepsChain ==
  ASSUME TypeOK, Chain, NEW p \in Pid, Wait(p)
  PROVE  Chain'
<1>1. PICK c \in Pid :
        /\ c # Root /\ pc[c] = "zombie" /\ parent[c] = p
        /\ pc' = [pc EXCEPT ![p] = "check", ![c] = "free"]
  BY DEF Wait
<1>2. pc[p] = "wait" /\ p # c /\ parent' = parent /\ error_found' = error_found
  BY <1>1 DEF Wait
<1>3. /\ pc'[p] = "check" /\ pc'[c] = "free"
      /\ \A r \in Pid \ {p, c} : pc'[r] = pc[r]
  BY <1>1, <1>2 DEF TypeOK
<1>4. \A r \in Pid : Active(r) <=> r = c
  BY <1>1 DEF Chain, OneActive, Active
<1>5. \A r \in Pid : Active(r)' <=> r = p
  BY <1>2, <1>3, <1>4 DEF Active
<1>6. \A d \in Pid \ {Root, c} : pc[d] # "free" => parent[d] # p /\ parent[d] # c
  <2>1. \A d \in Pid \ {Root, c} : pc[d] # "free" => parent[d] # p
    BY <1>1 DEF Chain, OnlyChild
  <2>2. \A d \in Pid \ {Root, c} : pc[d] # "free" => parent[d] # c
    BY <1>1 DEF Chain, Awaited
  <2> QED
    BY <2>1, <2>2
<1>7. OneActive' /\ SomeActive'
  BY <1>5 DEF OneActive, SomeActive
<1>8. HasChild'
  <2> SUFFICES ASSUME NEW r \in Pid, pc'[r] = "wait"
               PROVE  \E d \in Pid \ {Root} : pc'[d] # "free" /\ parent'[d] = r
    BY DEF HasChild
  <2>1. pc[r] = "wait" /\ r # p
    BY <1>3
  <2>2. PICK d \in Pid \ {Root} : pc[d] # "free" /\ parent[d] = r
    BY <2>1 DEF Chain, HasChild
  <2>3. d # c
    BY <1>1, <2>1, <2>2
  <2>4. pc'[d] # "free"
    BY <1>3, <2>2, <2>3
  <2> QED
    BY <1>2, <2>2, <2>4
<1>9. Awaited'
  <2> SUFFICES ASSUME NEW d \in Pid \ {Root}, pc'[d] # "free"
               PROVE  pc'[parent[d]] = "wait"
    BY <1>2 DEF Awaited
  <2>1. CASE d = p
    <3>1. pc[parent[p]] = "wait" /\ parent[p] \in Pid
      BY <1>2, <2>1 DEF Chain, Awaited, TypeOK
    <3>2. parent[p] # p /\ parent[p] # c
      BY <1>1, <1>2, <1>6, <2>1
    <3> QED
      BY <1>3, <2>1, <3>1, <3>2
  <2>2. CASE d # p
    <3>1. pc[d] # "free" /\ d # c
      BY <1>3, <2>2
    <3>2. pc[parent[d]] = "wait" /\ parent[d] \in Pid
      BY <3>1 DEF Chain, Awaited, TypeOK
    <3>3. parent[d] # p /\ parent[d] # c
      BY <1>6, <3>1
    <3> QED
      BY <1>3, <3>2, <3>3
  <2> QED
    BY <2>1, <2>2
<1>10. OnlyChild'
  <2>1. \A r \in Pid : pc'[r] # "free" => pc[r] # "free"
    BY <1>2, <1>3
  <2> QED
    BY <1>2, <2>1 DEF Chain, OnlyChild
<1>11. pc'[Root] # "free" /\ Stopping'
  BY <1>1, <1>2, <1>3, RootAssumption DEF Chain, Stopping
<1> QED
  BY <1>7, <1>8, <1>9, <1>10, <1>11 DEF Chain

\* Other steps leave the chain as it is.
LEMMA MoveKeepsChain ==
  ASSUME TypeOK, Chain, NEW p \in Pid, Moves(p)
  PROVE  Chain'
<1>1. PICK s \in States \ {"free", "wait"} :
        /\ pc' = [pc EXCEPT ![p] = s]
        /\ s \in {"prog", "fork"} => ~error_found' \/ pc[p] \in {"prog", "fork"}
        /\ error_found' # error_found => s = "zombie"
  BY DEF Moves
<1>2. /\ pc'[p] = s /\ parent' = parent
      /\ \A r \in Pid \ {p} : pc'[r] = pc[r]
  BY <1>1 DEF Moves, TypeOK
<1>3. /\ \A r \in Pid : Active(r)' <=> Active(r)
      /\ \A r \in Pid : pc'[r] = "wait" <=> pc[r] = "wait"
      /\ \A r \in Pid : pc'[r] = "free" <=> pc[r] = "free"
  BY <1>1, <1>2 DEF Moves, Active
<1>4. OneActive' /\ SomeActive'
  BY <1>3 DEF Chain, OneActive, SomeActive
<1>5. HasChild'
  BY <1>2, <1>3 DEF Chain, HasChild
<1>6. Awaited' /\ OnlyChild'
  BY <1>2, <1>3 DEF Chain, Awaited, OnlyChild, TypeOK
<1>7. pc'[Root] # "free"
  BY <1>3, RootAssumption DEF Chain
<1>8. \A r \in Pid \ {p} : pc'[r] \in {"free", "wait"}
  BY <1>2 DEF Chain, OneActive, Moves, Active
<1>9. Stopping'
  <2> SUFFICES ASSUME error_found' PROVE s \notin {"prog", "fork"}
    BY <1>2, <1>8 DEF Stopping
  <2>1. CASE error_found' = error_found
    BY <1>1, <2>1 DEF Chain, Stopping
  <2>2. CASE error_found' # error_found
    BY <1>1, <2>2
  <2> QED
    BY <2>1, <2>2
<1> QED
  BY <1>4, <1>5, <1>6, <1>7, <1>9 DEF Chain

\* Every step keeps the chain.
LEMMA ChainStep == TypeOK /\ Chain /\ [Next]_vars => Chain'
<1> SUFFICES ASSUME TypeOK, Chain, [Next]_vars PROVE Chain'
  OBVIOUS
<1>1. ASSUME NEW p \in Pid, Step(p) PROVE Chain'
  BY <1>1, StepKinds, ForkKeepsChain, WaitKeepsChain, MoveKeepsChain
<1>2. CASE UNCHANGED vars
  BY <1>2
  DEF vars, Chain, OneActive, SomeActive, HasChild, Awaited, OnlyChild, Stopping, Active
<1> QED
  BY <1>1, <1>2 DEF Next, Terminated

\* The chain holds in every run.
LEMMA ChainInvariant == Spec => [](TypeOK /\ Chain)
BY TypeInit, TypeStep, ChainInit, ChainStep, PTL DEF Spec

\* At every moment exactly one process of a run is not blocked in wait().
THEOREM OneRunnerAlways == Spec => []OneRunner
<1>1. Chain => OneRunner
  BY DEF Chain, OneActive, SomeActive, OneRunner
<1> QED
  BY <1>1, ChainInvariant, PTL

\* A waiting parent has exactly one child, and every process but the first
\* one is awaited by the parent that forked it.
THEOREM EveryoneAwaitedAlways == Spec => []EveryoneAwaited
<1>1. TypeOK /\ Chain => EveryoneAwaited
  <2> SUFFICES ASSUME TypeOK, Chain PROVE EveryoneAwaited
    OBVIOUS
  <2>1. ASSUME NEW p \in Pid, pc[p] = "wait"
        PROVE  \E c \in Pid : ChildrenOf(p) = {c}
    <3>1. PICK c \in Pid \ {Root} : pc[c] # "free" /\ parent[c] = p
      BY <2>1 DEF Chain, HasChild
    <3>2. ChildrenOf(p) = {c}
      BY <3>1 DEF ChildrenOf, Chain, OnlyChild
    <3> QED
      BY <3>2
  <2> QED
    BY <2>1 DEF EveryoneAwaited, Chain, Awaited
<1> QED
  BY <1>1, ChainInvariant, PTL

\* Once an assertion failed anywhere, no process forks and no further path is
\* reached: all that is left is the way back to the first process.
THEOREM ErrorStopsAlways == Spec => ErrorStops
<1>1. TypeOK /\ Chain /\ [Next]_vars =>
        [error_found =>
           /\ explored' = explored
           /\ \A p \in Pid : pc[p] = "free" => pc'[p] = "free"]_vars
  <2> SUFFICES ASSUME TypeOK, Chain, Next, error_found
               PROVE  /\ explored' = explored
                      /\ \A p \in Pid : pc[p] = "free" => pc'[p] = "free"
    OBVIOUS
  <2>1. ASSUME NEW p \in Pid, Step(p)
        PROVE  /\ explored' = explored
               /\ \A r \in Pid : pc[r] = "free" => pc'[r] = "free"
    <3>1. pc[p] \notin {"prog", "fork"}
      BY DEF Chain, Stopping
    <3>2. \/ Wait(p) \/ ExitOnStatus(p) \/ ExitOnError(p) \/ ExitOnBound(p)
          \/ NextValue(p)
      BY <2>1, <3>1
      DEF Step, CallChoose, AskChoose, Fork, ForkFails, ReturnLast, ExitProgram,
          Cancel, Abort, Fault, Fail, Crash, Reaches
    <3>3. explored' = explored
      BY <3>2 DEF Wait, ExitOnStatus, ExitOnError, ExitOnBound, NextValue
    <3>4. CASE Wait(p)
      BY <3>3, <3>4 DEF Wait, TypeOK
    <3>5. CASE ExitOnStatus(p) \/ ExitOnError(p) \/ ExitOnBound(p) \/ NextValue(p)
      BY <3>3, <3>5
      DEF ExitOnStatus, ExitOnError, ExitOnBound, NextValue, Exit, TypeOK
    <3> QED
      BY <3>2, <3>4, <3>5
  <2>2. CASE Terminated
    BY <2>2 DEF Terminated, vars
  <2> QED
    BY <2>1, <2>2 DEF Next
<1> QED
  BY <1>1, ChainInvariant, PTL DEF Spec, ErrorStops

-----------------------------------------------------------------------------
(***************************************************************************)
(* Where the processes are in the tree.  The processes of the chain stand  *)
(* one below the other: each waiting one is above all that came later, and *)
(* in decreasing order the later ones are in the subtree of the value it   *)
(* handed out last.                                                        *)
(***************************************************************************)

\* Slots that hold a process.
Live(p) == pc[p] # "free"

\* Process x waits at a choice on the path of y; y went the way x handed out.
OnBranch(x, y) ==
  /\ pc[x] = "wait"
  /\ Len(path[x]) < Len(path[y])
  /\ Agree(path[x], path[y], Len(path[x]))
  /\ ~config.choose_increasing => path[y][Len(path[x]) + 1] = cnt[x] - 1

\* The default mode.
Decreasing == ~config.choose_increasing /\ ~config.ask_choices

\* Of two live processes one is an ancestor of the other.
Linear ==
  \A x, y \in Pid : Live(x) /\ Live(y) /\ x # y => OnBranch(x, y) \/ OnBranch(y, x)

\* All processes come from the root.
RootFirst == \A y \in Pid \ {Root} : Live(y) => OnBranch(Root, y)

\* Nobody is between a process and its parent.
Nearest ==
  \A y \in Pid \ {Root}, q \in Pid :
    Live(y) /\ parent[y] = q =>
      /\ OnBranch(q, y)
      /\ \A z \in Pid : z # q /\ OnBranch(z, y) => OnBranch(z, q)

\* Every value of a path but the lowest was handed out by a process that is
\* still waiting there.
Forked ==
  Decreasing =>
    \A y \in Pid : Live(y) =>
      \A i \in 1 .. Len(path[y]) :
        path[y][i] > 0 => \E x \in Pid : OnBranch(x, y) /\ Len(path[x]) = i - 1

\* Where processes stand: along one branch, in the order they were forked.
Branches == Linear /\ RootFirst /\ Nearest /\ Forked

\* A move of the active process, with what it does to the paths.
MovesOn(p) ==
  /\ Moves(p)
  /\ UNCHANGED <<prog, config>>
  /\ \A r \in Pid \ {p} : path'[r] = path[r] /\ cnt'[r] = cnt[r]
  /\ \/ path'[p] = path[p]
     \/ \E v \in Nat : path'[p] = Append(path[p], v) /\ (Decreasing => v = 0)

\* How a step changes paths and parents, by its kind.
LEMMA StepOnKinds ==
  ASSUME TypeOK, NEW p \in Pid, Step(p)
  PROVE  Fork(p) \/ Wait(p) \/ MovesOn(p)
<1> SUFFICES ASSUME ~Fork(p), ~Wait(p) PROVE MovesOn(p)
  OBVIOUS
<1>1. Moves(p)
  BY StepKinds
<1>2. CASE AskChoose(p)
  <2>1. PICK v \in 0 .. prog[path[p]].arg - 1 : Return(p, p, v, 1)
    BY <1>2 DEF AskChoose
  <2>2. v \in Nat /\ path'[p] = Append(path[p], v)
        /\ \A r \in Pid \ {p} : path'[r] = path[r]
    BY <1>2, <2>1, TreeFacts DEF AskChoose, Return, TypeOK, AtNode, Node
  <2> QED
    BY <1>1, <1>2, <2>2 DEF AskChoose, MovesOn, Decreasing, frame
<1>3. CASE ReturnLast(p)
  <2>1. /\ path'[p] = Append(path[p], Result(p))
        /\ \A r \in Pid \ {p} : path'[r] = path[r] /\ cnt'[r] = cnt[r]
    BY <1>3 DEF ReturnLast, Return, TypeOK
  <2>2. Result(p) \in Nat /\ (Decreasing => Result(p) = 0)
    BY <1>3, ResultInRange DEF ReturnLast, Result, Decreasing
  <2> QED
    BY <1>1, <1>3, <2>1, <2>2 DEF ReturnLast, MovesOn
<1>4. CASE CallChoose(p)
  BY <1>1, <1>4 DEF CallChoose, MovesOn, TypeOK, memory
<1>5. CASE ForkFails(p) \/ ExitOnStatus(p) \/ ExitOnError(p) \/ ExitOnBound(p)
  BY <1>1, <1>5
  DEF ForkFails, ExitOnStatus, ExitOnError, ExitOnBound, MovesOn, memory
<1>6. CASE NextValue(p)
  BY <1>1, <1>6 DEF NextValue, MovesOn, TypeOK, memory
<1>7. CASE ExitProgram(p) \/ Cancel(p) \/ Abort(p) \/ Fault(p) \/ Fail(p) \/ Crash(p)
  BY <1>1, <1>7
  DEF ExitProgram, Cancel, Abort, Fault, Fail, Crash, Reaches, MovesOn, memory
<1> QED
  BY <1>2, <1>3, <1>4, <1>5, <1>6, <1>7 DEF Step

\* A process is never above itself, nor two above each other.
LEMMA OnBranchOrder ==
  ASSUME TypeOK, NEW x \in Pid, NEW y \in Pid, OnBranch(x, y)
  PROVE  x # y /\ ~OnBranch(y, x) /\ Live(x) /\ ~Active(x)
<1>1. Len(path[x]) \in Nat /\ Len(path[y]) \in Nat
  BY DEF TypeOK
<1> QED
  BY <1>1 DEF OnBranch, Live, Active

\* Below a process are those that have longer paths with its path in front.
LEMMA OnBranchExtends ==
  ASSUME NEW a \in Seq(Nat), NEW b \in Seq(Nat), NEW c \in Seq(Nat),
         Len(a) < Len(b), Agree(a, b, Len(a)),
         c = b \/ (\E v \in Nat : c = Append(b, v))
  PROVE  Len(a) < Len(c) /\ Agree(a, c, Len(a)) /\ c[Len(a) + 1] = b[Len(a) + 1]
<1>1. CASE c = b
  BY <1>1
<1>2. ASSUME NEW v \in Nat, c = Append(b, v)
      PROVE  Len(a) < Len(c) /\ Agree(a, c, Len(a)) /\ c[Len(a) + 1] = b[Len(a) + 1]
  <2>1. /\ Len(c) = Len(b) + 1
        /\ \A j \in 1 .. Len(b) : c[j] = b[j]
    BY <1>2
  <2>2. Len(a) \in Nat /\ Len(b) \in Nat
    OBVIOUS
  <2>3. Len(a) + 1 \in 1 .. Len(b)
    BY <2>2
  <2>4. Len(a) < Len(c) /\ c[Len(a) + 1] = b[Len(a) + 1]
    <3>1. Len(a) < Len(c)
      BY <2>1, <2>2
    <3>2. c[Len(a) + 1] = b[Len(a) + 1]
      BY <2>1, <2>3, Zenon
    <3> QED
      BY <3>1, <3>2
  <2>5. \A j \in 1 .. Len(a) : a[j] = c[j]
    BY <2>1, <2>2 DEF Agree
  <2> QED
    BY <2>2, <2>4, <2>5 DEF Agree
<1> QED
  BY <1>1, <1>2

\* The root alone is a branch.
LEMMA BranchesInit == Init => Branches
<1> SUFFICES ASSUME Init PROVE Branches
  OBVIOUS
<1>1. \A p \in Pid : (Live(p) <=> p = Root) /\ path[p] = << >>
  BY DEF Init, Live
<1> QED
  BY <1>1 DEF Branches, Linear, RootFirst, Nearest, Forked

\* A runner goes down its own branch.
LEMMA MoveKeepsBranches ==
  ASSUME TypeOK, TypeOK', Chain, Branches, NEW p \in Pid, MovesOn(p)
  PROVE  Branches'
<1>1. /\ Active(p) /\ pc[p] # "wait" /\ pc'[p] # "wait" /\ Live(p) /\ Live(p)'
      /\ \A r \in Pid \ {p} : pc'[r] = pc[r]
      /\ parent' = parent /\ config' = config
  BY DEF MovesOn, Moves, Active, Live, TypeOK
<1>2. \A r \in Pid : Live(r)' <=> Live(r)
  BY <1>1 DEF Live
<1>3. \A x, y \in Pid \ {p} : OnBranch(x, y)' <=> OnBranch(x, y)
  <2> SUFFICES ASSUME NEW x \in Pid \ {p}, NEW y \in Pid \ {p}
               PROVE  OnBranch(x, y)' <=> OnBranch(x, y)
    OBVIOUS
  <2>1. pc'[x] = pc[x] /\ path'[x] = path[x] /\ path'[y] = path[y] /\ cnt'[x] = cnt[x]
    BY <1>1 DEF MovesOn
  <2> QED
    BY <1>1, <2>1 DEF OnBranch
<1>4. \A x \in Pid \ {p} : OnBranch(x, p) => OnBranch(x, p)'
  <2> SUFFICES ASSUME NEW x \in Pid \ {p}, OnBranch(x, p) PROVE OnBranch(x, p)'
    OBVIOUS
  <2>1. pc'[x] = pc[x] /\ path'[x] = path[x] /\ cnt'[x] = cnt[x]
    BY <1>1 DEF MovesOn
  <2>2. /\ path[x] \in Seq(Nat) /\ path[p] \in Seq(Nat) /\ path'[p] \in Seq(Nat)
        /\ path'[p] = path[p] \/ \E v \in Nat : path'[p] = Append(path[p], v)
    BY DEF TypeOK, MovesOn
  <2>3. /\ Len(path[x]) < Len(path'[p]) /\ Agree(path[x], path'[p], Len(path[x]))
        /\ path'[p][Len(path[x]) + 1] = path[p][Len(path[x]) + 1]
    BY <2>2, OnBranchExtends DEF OnBranch
  <2> QED
    BY <1>1, <2>1, <2>3 DEF OnBranch
<1>5. \A y \in Pid : ~OnBranch(p, y) /\ ~OnBranch(p, y)'
  BY <1>1 DEF OnBranch
<1>6. \A x \in Pid : Live(x) /\ x # p => OnBranch(x, p)
  BY <1>1, <1>5 DEF Branches, Linear
<1>7. \A x, y \in Pid : OnBranch(x, y) => x # p /\ OnBranch(x, y)'
  BY <1>3, <1>4, <1>5, OnBranchOrder
<1>8. \A x, y \in Pid : Live(y) /\ OnBranch(x, y)' => x # p /\ x # y /\ OnBranch(x, y)
  <2> SUFFICES ASSUME NEW x \in Pid, NEW y \in Pid, Live(y), OnBranch(x, y)'
               PROVE  x # p /\ x # y /\ OnBranch(x, y)
    OBVIOUS
  <2>1. x # p
    BY <1>5
  <2>2. Live(x)
    BY <1>1, <2>1 DEF OnBranch, Live
  <2> QED
    BY <1>3, <1>6, <2>1, <2>2, OnBranchOrder
<1>9. Linear'
  BY <1>2, <1>7 DEF Branches, Linear
<1>10. RootFirst'
  BY <1>2, <1>7, RootAssumption DEF Branches, RootFirst
<1>11. Nearest'
  <2> SUFFICES ASSUME NEW y \in Pid \ {Root}, NEW q \in Pid, Live(y)', parent[y] = q
               PROVE  /\ OnBranch(q, y)'
                      /\ \A z \in Pid : z # q /\ OnBranch(z, y)' => OnBranch(z, q)'
    BY <1>1 DEF Nearest
  <2>1. Live(y)
    BY <1>2
  <2>2. /\ OnBranch(q, y)
        /\ \A z \in Pid : z # q /\ OnBranch(z, y) => OnBranch(z, q)
    BY <2>1 DEF Branches, Nearest
  <2> QED
    BY <1>7, <1>8, <2>1, <2>2
<1>12. Forked'
  <2> SUFFICES ASSUME Decreasing', NEW y \in Pid, Live(y)',
                      NEW i \in 1 .. Len(path'[y]), path'[y][i] > 0
               PROVE  \E x \in Pid : OnBranch(x, y)' /\ Len(path'[x]) = i - 1
    BY DEF Forked
  <2>1. Decreasing /\ Live(y)
    BY <1>1, <1>2 DEF Decreasing
  <2>2. i \in 1 .. Len(path[y]) /\ path[y][i] > 0
    <3>1. path[y] \in Seq(Nat)
      BY DEF TypeOK
    <3>2. CASE path'[y] = path[y]
      BY <3>2
    <3>3. CASE path'[y] = Append(path[y], 0)
      <4>1. /\ Len(path'[y]) = Len(path[y]) + 1 /\ path'[y][Len(path[y]) + 1] = 0
            /\ \A j \in 1 .. Len(path[y]) : path'[y][j] = path[y][j]
        BY <3>1, <3>3
      <4>2. i # Len(path[y]) + 1
        BY <4>1
      <4>3. Len(path[y]) \in Nat
        BY <3>1
      <4> QED
        BY <4>1, <4>2, <4>3
    <3>4. path'[y] = path[y] \/ path'[y] = Append(path[y], 0)
      BY <2>1 DEF MovesOn
    <3> QED
      BY <3>2, <3>3, <3>4
  <2>3. PICK x \in Pid : OnBranch(x, y) /\ Len(path[x]) = i - 1
    BY <2>1, <2>2 DEF Branches, Forked
  <2>4. OnBranch(x, y)' /\ path'[x] = path[x]
    BY <1>7, <2>3 DEF MovesOn
  <2> QED
    BY <2>3, <2>4
<1> QED
  BY <1>9, <1>10, <1>11, <1>12 DEF Branches

\* A child begins where its parent stands, one value further.
LEMMA ForkKeepsBranches ==
  ASSUME TypeOK, TypeOK', Chain, Branches, NEW p \in Pid, Fork(p)
  PROVE  Branches'
<1>1. PICK c \in Pid :
        /\ pc[c] = "free"
        /\ pc' = [pc EXCEPT ![p] = "wait", ![c] = "prog"]
        /\ parent' = [parent EXCEPT ![c] = p]
        /\ Return(c, p, Result(p), Activations(p))
        /\ cnt' = [cnt EXCEPT ![c] = 0]
  BY DEF Fork
<1>2. /\ pc[p] = "fork" /\ p # c /\ c # Root /\ config' = config
      /\ pc'[p] = "wait" /\ pc'[c] = "prog" /\ parent'[c] = p
      /\ \A r \in Pid \ {p, c} : pc'[r] = pc[r]
      /\ \A r \in Pid \ {c} : parent'[r] = parent[r] /\ path'[r] = path[r] /\ cnt'[r] = cnt[r]
      /\ path'[c] = Append(path[p], Result(p))
  <2>1. pc[p] = "fork" /\ p # c /\ c # Root /\ config' = config
    BY <1>1 DEF Fork, Chain
  <2>2. /\ pc'[p] = "wait" /\ pc'[c] = "prog"
        /\ \A r \in Pid \ {p, c} : pc'[r] = pc[r]
    BY <1>1, <2>1 DEF TypeOK
  <2>3. /\ parent'[c] = p
        /\ \A r \in Pid \ {c} : parent'[r] = parent[r] /\ cnt'[r] = cnt[r]
    BY <1>1 DEF TypeOK
  <2>4. /\ path'[c] = Append(path[p], Result(p))
        /\ \A r \in Pid \ {c} : path'[r] = path[r]
    BY <1>1 DEF TypeOK, Return
  <2> QED
    BY <2>1, <2>2, <2>3, <2>4
<1>3. /\ \A r \in Pid : Live(r)' <=> Live(r) \/ r = c
      /\ Live(p) /\ ~Live(c) /\ Active(p)
  BY <1>1, <1>2 DEF Live, Active
<1>4. /\ Result(p) \in Nat
      /\ ~config.choose_increasing => Result(p) = cnt[p] - 1
  BY <1>2, ResultInRange DEF Result
<1>5. \A y \in Pid : ~OnBranch(p, y) /\ ~OnBranch(c, y) /\ ~OnBranch(c, y)'
  BY <1>1, <1>2 DEF OnBranch
<1>6. \A x \in Pid : Live(x) /\ x # p => OnBranch(x, p)
  BY <1>3, <1>5 DEF Branches, Linear
<1>7. \A x, y \in Pid \ {p, c} : OnBranch(x, y)' <=> OnBranch(x, y)
  BY <1>2 DEF OnBranch
<1>8. \A x \in Pid \ {p, c} : OnBranch(x, p)' <=> OnBranch(x, p)
  BY <1>2 DEF OnBranch
<1>9. OnBranch(p, c)'
  <2>1. path[p] \in Seq(Nat)
    BY DEF TypeOK
  <2>2. /\ Len(path'[c]) = Len(path[p]) + 1
        /\ Agree(path[p], path'[c], Len(path[p]))
        /\ path'[c][Len(path[p]) + 1] = Result(p)
    BY <1>2, <1>4, <2>1 DEF Agree
  <2> QED
    BY <1>2, <1>4, <2>1, <2>2 DEF OnBranch
<1>10. \A x \in Pid \ {p, c} : OnBranch(x, p) => OnBranch(x, c)'
  <2> SUFFICES ASSUME NEW x \in Pid \ {p, c}, OnBranch(x, p) PROVE OnBranch(x, c)'
    OBVIOUS
  <2>1. /\ path[x] \in Seq(Nat) /\ path[p] \in Seq(Nat) /\ path'[c] \in Seq(Nat)
        /\ \E v \in Nat : path'[c] = Append(path[p], v)
    BY <1>2, <1>4 DEF TypeOK
  <2>2. /\ Len(path[x]) < Len(path'[c]) /\ Agree(path[x], path'[c], Len(path[x]))
        /\ path'[c][Len(path[x]) + 1] = path[p][Len(path[x]) + 1]
    BY <2>1, OnBranchExtends DEF OnBranch
  <2> QED
    BY <1>2, <2>2 DEF OnBranch
<1>11. \A y \in Pid \ {c} : Live(y) => ~OnBranch(p, y)'
  <2> SUFFICES ASSUME NEW y \in Pid \ {c}, Live(y), OnBranch(p, y)' PROVE FALSE
    OBVIOUS
  <2>0. path'[p] = path[p] /\ path'[y] = path[y]
    BY <1>2
  <2>1. Len(path[p]) < Len(path[y])
    BY <2>0 DEF OnBranch
  <2>2. Len(path[p]) \in Nat /\ Len(path[y]) \in Nat
    BY PathType
  <2>3. OnBranch(y, p)
    BY <1>6, <2>1, <2>2
  <2> QED
    BY <2>1, <2>2, <2>3 DEF OnBranch
<1>12. Linear'
  BY <1>3, <1>6, <1>7, <1>8, <1>9, <1>10 DEF Branches, Linear
<1>13. RootFirst'
  <2> SUFFICES ASSUME NEW y \in Pid \ {Root}, Live(y)' PROVE OnBranch(Root, y)'
    BY DEF RootFirst
  <2>1. CASE y = c
    <3>1. CASE p = Root
      BY <1>9, <2>1, <3>1
    <3>2. CASE p # Root
      BY <1>2, <1>3, <1>10, <2>1, <3>2, RootAssumption DEF Branches, RootFirst
    <3> QED
      BY <3>1, <3>2
  <2>2. CASE y # c
    <3>1. Live(y) /\ OnBranch(Root, y)
      BY <1>3, <2>2 DEF Branches, RootFirst
    <3>2. Root # p /\ Root # c
      BY <1>2, <1>5, <3>1
    <3> QED
      BY <1>7, <1>8, <2>2, <3>1, <3>2, RootAssumption
  <2> QED
    BY <2>1, <2>2
<1>14. Nearest'
  <2> SUFFICES ASSUME NEW y \in Pid \ {Root}, NEW q \in Pid, Live(y)', parent'[y] = q
               PROVE  /\ OnBranch(q, y)'
                      /\ \A z \in Pid : z # q /\ OnBranch(z, y)' => OnBranch(z, q)'
    BY DEF Nearest
  <2>1. CASE y = c
    <3>1. ASSUME NEW z \in Pid, z # p, OnBranch(z, c)' PROVE OnBranch(z, p)'
      <4>1. z # c
        BY <1>5, <3>1
      <4>2. Live(z)
        BY <1>2, <3>1, <4>1 DEF OnBranch, Live
      <4> QED
        BY <1>6, <1>8, <3>1, <4>1, <4>2
    <3> QED
      BY <1>2, <1>9, <2>1, <3>1
  <2>2. CASE y # c
    <3>1. /\ Live(y) /\ parent[y] = q
          /\ OnBranch(q, y)
          /\ \A z \in Pid : z # q /\ OnBranch(z, y) => OnBranch(z, q)
      BY <1>2, <1>3, <2>2 DEF Branches, Nearest
    <3>2. q # p /\ q # c
      BY <1>5, <3>1
    <3>3. \A z \in Pid : OnBranch(z, y)' => z # p /\ z # c /\ OnBranch(z, y)
      BY <1>5, <1>7, <1>8, <1>11, <2>2, <3>1
    <3>4. OnBranch(q, y)'
      BY <1>7, <1>8, <2>2, <3>1, <3>2
    <3> QED
      BY <1>7, <3>1, <3>2, <3>3, <3>4
  <2> QED
    BY <2>1, <2>2
<1>15. Forked'
  <2> SUFFICES ASSUME Decreasing', NEW y \in Pid, Live(y)',
                      NEW i \in 1 .. Len(path'[y]), path'[y][i] > 0
               PROVE  \E x \in Pid : OnBranch(x, y)' /\ Len(path'[x]) = i - 1
    BY DEF Forked
  <2>1. Decreasing
    BY <1>2 DEF Decreasing
  <2>2. CASE y = c
    <3>1. path[p] \in Seq(Nat)
      BY DEF TypeOK
    <3>2. CASE i = Len(path[p]) + 1
      BY <1>2, <1>9, <2>2, <3>1, <3>2
    <3>3. CASE i # Len(path[p]) + 1
      <4>1. i \in 1 .. Len(path[p]) /\ path[p][i] > 0
        BY <1>2, <1>4, <2>2, <3>1, <3>3
      <4>2. PICK x \in Pid : OnBranch(x, p) /\ Len(path[x]) = i - 1
        BY <1>3, <2>1, <4>1 DEF Branches, Forked
      <4>3. x # p /\ x # c
        BY <1>5, <4>2
      <4> QED
        BY <1>2, <1>10, <2>2, <4>2, <4>3
    <3> QED
      BY <3>2, <3>3
  <2>3. CASE y # c
    <3>1. Live(y) /\ path'[y] = path[y]
      BY <1>2, <1>3, <2>3
    <3>2. PICK x \in Pid : OnBranch(x, y) /\ Len(path[x]) = i - 1
      BY <2>1, <3>1 DEF Branches, Forked
    <3>3. x # p /\ x # c
      BY <1>5, <3>2
    <3> QED
      BY <1>2, <1>7, <1>8, <2>3, <3>2, <3>3
  <2> QED
    BY <2>2, <2>3
<1> QED
  BY <1>12, <1>13, <1>14, <1>15 DEF Branches

\* Taking an ended process away leaves a branch.
LEMMA WaitKeepsBranches ==
  ASSUME TypeOK, TypeOK', Chain, Branches, NEW p \in Pid, Wait(p)
  PROVE  Branches'
<1>1. PICK c \in Pid :
        /\ c # Root /\ pc[c] = "zombie" /\ parent[c] = p
        /\ pc' = [pc EXCEPT ![p] = "check", ![c] = "free"]
  BY DEF Wait
<1>a. DOMAIN pc = Pid
  BY DEF TypeOK
<1>b. pc[p] = "wait" /\ config' = config /\ parent' = parent /\ path' = path /\ cnt' = cnt
  BY DEF Wait, memory
<1>2. /\ pc[p] = "wait" /\ p # c /\ config' = config
      /\ parent' = parent /\ path' = path /\ cnt' = cnt
      /\ pc'[p] = "check" /\ pc'[c] = "free"
      /\ \A r \in Pid \ {p, c} : pc'[r] = pc[r]
  BY <1>1, <1>a, <1>b
<1>3. /\ \A r \in Pid : Live(r)' <=> Live(r) /\ r # c
      /\ Live(p) /\ Live(c)
  BY <1>1, <1>2 DEF Live
<1>4. \A x, y \in Pid : x # p => (OnBranch(x, y)' <=> OnBranch(x, y))
  BY <1>1, <1>2 DEF OnBranch
<1>5. \A y \in Pid : ~OnBranch(c, y) /\ ~OnBranch(p, y)'
  BY <1>1, <1>2 DEF OnBranch
<1>6. \A y \in Pid : Live(y) /\ y # c => ~OnBranch(p, y)
  <2> SUFFICES ASSUME NEW y \in Pid, Live(y), y # c, OnBranch(p, y) PROVE FALSE
    OBVIOUS
  <2>1. OnBranch(y, c)
    BY <1>3, <1>5 DEF Branches, Linear
  <2>2. y # p /\ ~OnBranch(y, p)
    BY OnBranchOrder
  <2> QED
    BY <1>1, <1>3, <2>1, <2>2 DEF Branches, Nearest
<1>7. \A x, y \in Pid : Live(y)' /\ OnBranch(x, y) => x # p /\ OnBranch(x, y)'
  BY <1>3, <1>4, <1>6
<1>8. Linear'
  BY <1>3, <1>7 DEF Branches, Linear
<1>9. RootFirst'
  BY <1>3, <1>7, RootAssumption DEF Branches, RootFirst
<1>10. Nearest'
  <2> SUFFICES ASSUME NEW y \in Pid \ {Root}, NEW q \in Pid, Live(y)', parent[y] = q
               PROVE  /\ OnBranch(q, y)'
                      /\ \A z \in Pid : z # q /\ OnBranch(z, y)' => OnBranch(z, q)'
    BY <1>2 DEF Nearest
  <2>1. Live(y)
    BY <1>3
  <2>2. /\ OnBranch(q, y)
        /\ \A z \in Pid : z # q /\ OnBranch(z, y) => OnBranch(z, q)
    BY <2>1 DEF Branches, Nearest
  <2>3. \A z \in Pid : OnBranch(z, y)' => z # p /\ OnBranch(z, y)
    BY <1>4, <1>5
  <2>4. OnBranch(q, y)'
    BY <1>7, <2>2
  <2> QED
    BY <1>4, <2>2, <2>3, <2>4
<1>11. Forked'
  BY <1>2, <1>3, <1>7 DEF Branches, Forked, Decreasing
<1> QED
  BY <1>8, <1>9, <1>10, <1>11 DEF Branches

\* Every step keeps the branch.
LEMMA BranchesStep == TypeOK /\ TypeOK' /\ Chain /\ Branches /\ [Next]_vars => Branches'
<1> SUFFICES ASSUME TypeOK, TypeOK', Chain, Branches, [Next]_vars PROVE Branches'
  OBVIOUS
<1>1. ASSUME NEW p \in Pid, Step(p) PROVE Branches'
  BY <1>1, StepOnKinds, ForkKeepsBranches, WaitKeepsBranches, MoveKeepsBranches
<1>2. CASE UNCHANGED vars
  BY <1>2
  DEF vars, Branches, Linear, RootFirst, Nearest, Forked, Live, OnBranch, Decreasing
<1> QED
  BY <1>1, <1>2 DEF Next, Terminated

\* The branch holds in every run.
LEMMA BranchInvariant == Spec => [](TypeOK /\ Chain /\ Branches)
BY ChainInvariant, BranchesInit, BranchesStep, TypeInit, TypeStep, PTL DEF Spec

\* In decreasing order a child runs in the subtree of the value its parent
\* handed out last, however far it has come.
THEOREM ChildOnBranchAlways == Spec => []ChildOnBranch
<1>1. TypeOK /\ Branches => ChildOnBranch
  <2> SUFFICES ASSUME TypeOK, Branches, NEW p \in Pid, pc[p] = "wait",
                      ~config.choose_increasing, NEW c \in ChildrenOf(p)
               PROVE  /\ Len(path[p]) < Len(path[c])
                      /\ SubSeq(path[c], 1, Len(path[p]) + 1) = Append(path[p], cnt[p] - 1)
    BY DEF ChildOnBranch
  <2>1. c \in Pid \ {Root} /\ OnBranch(p, c)
    BY DEF ChildrenOf, Branches, Nearest, Live
  <2>2. path[p] \in Seq(Nat) /\ path[c] \in Seq(Nat) /\ Len(path[p]) \in Nat
    BY <2>1 DEF TypeOK
  <2>3. /\ Len(path[p]) < Len(path[c])
        /\ \A j \in 1 .. Len(path[p]) : path[p][j] = path[c][j]
        /\ path[c][Len(path[p]) + 1] = cnt[p] - 1
    BY <2>1 DEF OnBranch, Agree
  <2>4. cnt[p] - 1 = path[c][Len(path[p]) + 1] /\ cnt[p] - 1 \in Nat
    BY <2>2, <2>3
  <2>5. Agree(Append(path[p], cnt[p] - 1), path[c], Len(path[p]) + 1)
    BY <2>2, <2>3, <2>4 DEF Agree
  <2>6. /\ Append(path[p], cnt[p] - 1) \in Seq(Nat)
        /\ Len(Append(path[p], cnt[p] - 1)) = Len(path[p]) + 1
        /\ SubSeq(Append(path[p], cnt[p] - 1), 1, Len(path[p]) + 1)
             = Append(path[p], cnt[p] - 1)
    <3>1. ASSUME NEW s \in Seq(Nat), NEW v \in Nat
          PROVE  /\ Append(s, v) \in Seq(Nat) /\ Len(Append(s, v)) = Len(s) + 1
                 /\ SubSeq(Append(s, v), 1, Len(s) + 1) = Append(s, v)
      <4>1. Append(s, v) \in Seq(Nat) /\ Len(Append(s, v)) = Len(s) + 1
        OBVIOUS
      <4>2. \A q \in Seq(Nat) : SubSeq(q, 1, Len(q)) = q
        OBVIOUS
      <4> QED
        BY <4>1, <4>2
    <3> QED
      BY <2>2, <2>4, <3>1
  <2>7. SubSeq(Append(path[p], cnt[p] - 1), 1, Len(path[p]) + 1)
          = SubSeq(path[c], 1, Len(path[p]) + 1)
    BY <2>2, <2>3, <2>5, <2>6, AgreeSubSeq
  <2> QED
    BY <2>3, <2>6, <2>7
<1> QED
  BY <1>1, BranchInvariant, PTL

-----------------------------------------------------------------------------
(***************************************************************************)
(* What the counter counts: a return through k activations of choose adds  *)
(* k to depth and pushes k choices, and in decreasing order value v of     *)
(* choose( n ) returns through n - v of them.                              *)
(***************************************************************************)

\* The steps that return from choose, and the others.
LEMMA StepOnMemory ==
  ASSUME TypeOK, NEW p \in Pid, Step(p), ~config.ask_choices
  PROVE  /\ UNCHANGED <<prog, config>>
         /\ \/ /\ UNCHANGED memory
               /\ \A r \in Pid : pc'[r] # "free" => pc[r] # "free"
            \/ /\ pc[p] = "fork"
               /\ \E q \in Pid :
                    /\ Return(q, p, Result(p), Activations(p))
                    /\ \A r \in Pid \ {q} : pc'[r] # "free" => pc[r] # "free"
<1>1. CASE CallChoose(p) \/ ForkFails(p) \/ NextValue(p)
  BY <1>1 DEF CallChoose, ForkFails, NextValue, TypeOK
<1>2. CASE ExitOnStatus(p) \/ ExitOnError(p) \/ ExitOnBound(p)
  BY <1>2 DEF ExitOnStatus, ExitOnError, ExitOnBound, Exit, TypeOK
<1>3. CASE ExitProgram(p) \/ Cancel(p) \/ Abort(p) \/ Fault(p) \/ Fail(p) \/ Crash(p)
  BY <1>3 DEF ExitProgram, Cancel, Abort, Fault, Fail, Crash, Reaches, Exit, TypeOK
<1>4. CASE Wait(p)
  BY <1>4 DEF Wait, TypeOK
<1>5. CASE ReturnLast(p)
  BY <1>5 DEF ReturnLast, TypeOK
<1>6. CASE Fork(p)
  <2>1. PICK c \in Pid : /\ pc' = [pc EXCEPT ![p] = "wait", ![c] = "prog"]
                         /\ Return(c, p, Result(p), Activations(p))
    BY <1>6 DEF Fork
  <2>2. pc[p] = "fork" /\ UNCHANGED <<prog, config>>
    BY <1>6 DEF Fork
  <2>3. \A r \in Pid \ {c} : pc'[r] # "free" => pc[r] # "free"
    BY <2>1, <2>2 DEF TypeOK
  <2> QED
    BY <2>1, <2>2, <2>3
<1>7. ~AskChoose(p)
  BY DEF AskChoose
<1> QED
  BY <1>1, <1>2, <1>3, <1>4, <1>5, <1>6, <1>7 DEF Step

\* A return keeps the count of the process that returns.
LEMMA ReturnCounts ==
  ASSUME TypeOK, TypeOK', NEW p \in Pid, NEW q \in Pid, pc[p] = "fork", Decreasing,
         UNCHANGED prog, Return(q, p, Result(p), Activations(p)),
         depth[p] = DepthOf(prog, path[p])
  PROVE  /\ depth'[q] = DepthOf(prog, path'[q])
         /\ config.trace_choices /\ Len(trace[p]) = depth[p] => Len(trace'[q]) = depth'[q]
<1>1. /\ prog[path[p]].arg = want[p] /\ want[p] \in Nat /\ cnt[p] \in 1 .. want[p]
      /\ Result(p) = cnt[p] - 1 /\ Activations(p) = want[p] - cnt[p] + 1
      /\ Append(path[p], Result(p)) \in DOMAIN prog
  <2>1. /\ prog[path[p]] = Do("choose", want[p])
        /\ want[p] \in Nat /\ cnt[p] \in 1 .. want[p]
        /\ Append(path[p], Result(p)) \in DOMAIN prog
    BY ResultInRange
  <2>2. Result(p) = cnt[p] - 1 /\ Activations(p) = want[p] - cnt[p] + 1
    BY DEF Result, Activations, Decreasing
  <2> QED
    BY <2>1, <2>2 DEF Do
<1>2. /\ path'[q] = Append(path[p], Result(p))
      /\ depth'[q] = depth[p] + Activations(p)
      /\ trace'[q] = trace[p] \o Pushed(Result(p), Activations(p))
  BY DEF Return, TypeOK
<1>3. IsTree(prog) /\ path[p] \in DOMAIN prog
  BY ProgramsAssumption DEF TypeOK, AtNode
<1>4. DepthOf(prog, path'[q]) = DepthOf(prog, path[p]) + want[p] - (cnt[p] - 1)
  BY <1>1, <1>2, <1>3, DepthOfAppend
<1>5. DepthOf(prog, path[p]) \in Nat
  BY <1>3, DepthOfAppend
<1>6. depth'[q] = DepthOf(prog, path'[q])
  BY <1>1, <1>2, <1>4, <1>5
<1>7. ASSUME config.trace_choices, Len(trace[p]) = depth[p] PROVE Len(trace'[q]) = depth'[q]
  <2>1. trace[p] \in Seq(Nat)
    BY DEF TypeOK
  <2>2. Result(p) \in Nat /\ Activations(p) \in Nat
    BY <1>1
  <2>3. Pushed(Result(p), Activations(p)) \in Seq(Nat)
    BY <2>2, PushedType
  <2>4. Len(Pushed(Result(p), Activations(p))) = Activations(p)
    BY <1>7, <2>2 DEF Pushed
  <2>5. Len(trace[p] \o Pushed(Result(p), Activations(p)))
          = Len(trace[p]) + Len(Pushed(Result(p), Activations(p)))
    BY <2>1, <2>3
  <2> QED
    BY <1>2, <1>7, <2>4, <2>5
<1> QED
  BY <1>6, <1>7

\* A step changes the depth with the path.
LEMMA CountStep ==
  TypeOK /\ TypeOK' /\ DepthCountsActivations /\ [Next]_vars => DepthCountsActivations'
<1> SUFFICES ASSUME TypeOK, TypeOK', DepthCountsActivations, [Next]_vars,
                    ~config'.choose_increasing, ~config'.ask_choices,
                    NEW r \in Pid, pc'[r] # "free"
             PROVE  /\ depth'[r] = DepthOf(prog', path'[r])
                    /\ config'.trace_choices => Len(trace'[r]) = depth'[r]
  BY DEF DepthCountsActivations
<1>1. ASSUME UNCHANGED <<prog, config, memory>>, pc[r] # "free"
      PROVE  /\ depth'[r] = DepthOf(prog', path'[r])
             /\ config'.trace_choices => Len(trace'[r]) = depth'[r]
  BY <1>1 DEF DepthCountsActivations, memory
<1>2. ASSUME NEW p \in Pid, Step(p)
      PROVE  /\ depth'[r] = DepthOf(prog', path'[r])
             /\ config'.trace_choices => Len(trace'[r]) = depth'[r]
  <2>0. UNCHANGED <<prog, config>>
    BY <1>2 DEF Step, CallChoose, AskChoose, Fork, ForkFails, ReturnLast, Wait,
         ExitOnStatus, ExitOnError, ExitOnBound, NextValue, ExitProgram, Cancel, Abort,
         Fault, Fail, Crash, Reaches
  <2>1. Decreasing /\ ~config.ask_choices
    BY <2>0 DEF Decreasing
  <2>2. CASE UNCHANGED memory /\ pc[r] # "free"
    BY <1>1, <2>0, <2>2
  <2>3. CASE pc[p] = "fork"
             /\ \E q \in Pid :
                  /\ Return(q, p, Result(p), Activations(p))
                  /\ \A s \in Pid \ {q} : pc'[s] # "free" => pc[s] # "free"
    <3>1. PICK q \in Pid :
            /\ Return(q, p, Result(p), Activations(p))
            /\ \A s \in Pid \ {q} : pc'[s] # "free" => pc[s] # "free"
      BY <2>3
    <3>2. CASE r = q
      <4>1. /\ depth[p] = DepthOf(prog, path[p])
            /\ config.trace_choices => Len(trace[p]) = depth[p]
        BY <2>1, <2>3 DEF DepthCountsActivations, Decreasing
      <4> QED
        BY <2>0, <2>1, <2>3, <3>1, <3>2, <4>1, ReturnCounts
    <3>3. CASE r # q
      <4>1. path'[r] = path[r] /\ depth'[r] = depth[r] /\ trace'[r] = trace[r]
        BY <3>1, <3>3 DEF Return, TypeOK
      <4> QED
        BY <2>0, <2>1, <3>1, <3>3, <4>1 DEF DepthCountsActivations, Decreasing
    <3> QED
      BY <3>2, <3>3
  <2> QED
    BY <1>2, <2>1, <2>2, <2>3, StepOnMemory
<1>3. CASE UNCHANGED vars
  BY <1>1, <1>3 DEF vars, memory
<1> QED
  BY <1>2, <1>3 DEF Next, Terminated

\* Nothing is counted at the start.
LEMMA CountInit == Init => DepthCountsActivations
<1> SUFFICES ASSUME Init, NEW p \in Pid
             PROVE  /\ depth[p] = DepthOf(prog, path[p])
                    /\ Len(trace[p]) = depth[p]
  BY DEF DepthCountsActivations
<1>1. IsTree(prog) /\ << >> \in DOMAIN prog
  BY ProgramsAssumption DEF Init, IsTree
<1>2. DepthOf(prog, << >>) = 0
  BY <1>1, DepthBeforeNext DEF DepthOf
<1> QED
  BY <1>2 DEF Init

\* The counter that choose_bound is compared with, and the choices printed at
\* exit, count the activations of choose that the path of the process took,
\* whatever the branching of the program.
THEOREM DepthCountsActivationsAlways == Spec => []DepthCountsActivations
BY CountInit, CountStep, TypeInit, TypeStep, PTL DEF Spec

=============================================================================
