--------------------------- MODULE Dataflow_proofs ---------------------------
(***************************************************************************)
(* Proofs about the data-flow analysis, for any program: types, and that   *)
(* what it ends with is the least solution of its equations.               *)
(***************************************************************************)
EXTENDS Dataflow, TLAPS, FiniteSetTheorems

(***************************************************************************)
(* Layers and onions.                                                      *)
(***************************************************************************)

TriBelow(x, y) == x = y \/ y = "maybe"

LayerBelow(l, m) == TriBelow(l.pointer, m.pointer) /\ TriBelow(l.abstract, m.abstract)

\* What is below in an onion, layer by layer: aligned at the last layers, the
\* surplus ones under the first.
Under(a, b) ==
  /\ Len(b) <= Len(a)
  /\ Len(b) = Len(a) => \A i \in 1 .. Len(a) : LayerBelow(a[i], b[i])
  /\ Len(b) < Len(a) =>
       /\ b[1].pointer = "maybe"
       /\ \A k \in 1 .. Len(a) - Len(b) + 1 : TriBelow(a[k].abstract, b[1].abstract)
       /\ \A i \in 2 .. Len(b) : LayerBelow(a[i + (Len(a) - Len(b))], b[i])

\* Lengths are split this way.
LEMMA OneOrMore == ASSUME NEW n \in Nat \ {0} PROVE n = 1 \/ n > 1
OBVIOUS

\* The join of tristates is the least one above both.
LEMMA TriJoinIs ==
  ASSUME NEW x \in Tri, NEW y \in Tri
  PROVE  /\ TriJoin(x, y) \in Tri
         /\ TriBelow(x, TriJoin(x, y)) /\ TriBelow(y, TriJoin(x, y))
         /\ \A z \in Tri : TriBelow(x, z) /\ TriBelow(y, z) => TriBelow(TriJoin(x, y), z)
BY DEF Tri, TriJoin, TriBelow

\* Layers are pairs of tristates.
LEMMA LayerType ==
  /\ \A p \in Tri, a \in Tri : TypeLayer(p, a) \in Layers
  /\ \A p, a : TypeLayer(p, a).pointer = p /\ TypeLayer(p, a).abstract = a
  /\ \A l \in Layers : l.pointer \in Tri /\ l.abstract \in Tri
  /\ \A l \in Layers, m \in Layers : l.pointer = m.pointer /\ l.abstract = m.abstract => l = m
BY DEF TypeLayer, Layers

\* Layers are joined component by component, so their join is the least layer
\* above both.
LEMMA LayerJoinIs ==
  ASSUME NEW l \in Layers, NEW m \in Layers
  PROVE  /\ LayerJoin(l, m) \in Layers
         /\ LayerBelow(l, LayerJoin(l, m)) /\ LayerBelow(m, LayerJoin(l, m))
         /\ \A n \in Layers : LayerBelow(l, n) /\ LayerBelow(m, n) => LayerBelow(LayerJoin(l, m), n)
         /\ l.pointer # "no" => LayerJoin(l, m).pointer # "no"
<1>1. l.pointer \in Tri /\ l.abstract \in Tri /\ m.pointer \in Tri /\ m.abstract \in Tri
  BY LayerType
<1>2. LayerJoin(l, m).pointer = TriJoin(l.pointer, m.pointer)
      /\ LayerJoin(l, m).abstract = TriJoin(l.abstract, m.abstract)
  BY LayerType DEF LayerJoin
<1>3. LayerJoin(l, m) \in Layers
  BY <1>1, TriJoinIs, LayerType DEF LayerJoin
<1>4. l.pointer # "no" => LayerJoin(l, m).pointer # "no"
  BY <1>2 DEF TriJoin
<1>5. ASSUME NEW n \in Layers, LayerBelow(l, n), LayerBelow(m, n)
      PROVE  LayerBelow(LayerJoin(l, m), n)
  <2>1. n.pointer \in Tri /\ n.abstract \in Tri
    BY LayerType
  <2>2. /\ TriBelow(l.pointer, n.pointer) /\ TriBelow(m.pointer, n.pointer)
        /\ TriBelow(l.abstract, n.abstract) /\ TriBelow(m.abstract, n.abstract)
    BY <1>5 DEF LayerBelow
  <2>3. TriBelow(TriJoin(l.pointer, m.pointer), n.pointer)
    BY <1>1, <2>1, <2>2, TriJoinIs
  <2>4. TriBelow(TriJoin(l.abstract, m.abstract), n.abstract)
    BY <1>1, <2>1, <2>2, TriJoinIs
  <2> QED
    BY <1>2, <2>3, <2>4 DEF LayerBelow
<1> QED
  BY <1>1, <1>2, <1>3, <1>4, <1>5, TriJoinIs DEF LayerBelow

\* What is under an onion in its first layer and in the others, at a distance.
Parts(a, b, d) ==
  /\ d \in Nat /\ Len(a) = Len(b) + d
  /\ \A k \in 1 .. d + 1 : TriBelow(a[k].abstract, b[1].abstract)
  /\ \A k \in 2 .. Len(b) : LayerBelow(a[k + d], b[k])
  /\ IF d = 0 THEN LayerBelow(a[1], b[1]) ELSE b[1].pointer = "maybe"

\* An onion under another is under it in its parts ...
LEMMA UnderParts ==
  ASSUME NEW a \in Onions, NEW b \in Onions, Under(a, b)
  PROVE  Parts(a, b, Len(a) - Len(b))
<1>1. Len(a) \in Nat \ {0} /\ Len(b) \in Nat \ {0} /\ Len(b) <= Len(a)
  BY DEF Onions, Under
<1>2. CASE Len(a) = Len(b)
  <2>1. \A i \in 1 .. Len(a) : LayerBelow(a[i], b[i])
    BY <1>2 DEF Under
  <2>2. LayerBelow(a[1], b[1]) /\ Len(a) - Len(b) = 0
    BY <1>1, <1>2, <2>1
  <2>3. \A k \in 1 .. 1 : TriBelow(a[k].abstract, b[1].abstract)
    BY <2>2 DEF LayerBelow
  <2>4. \A k \in 2 .. Len(b) : LayerBelow(a[k + 0], b[k])
    BY <1>1, <1>2, <2>1
  <2> QED
    BY <1>1, <1>2, <2>2, <2>3, <2>4 DEF Parts
<1>3. CASE Len(b) < Len(a)
  BY <1>1, <1>3 DEF Under, Parts
<1> QED
  BY <1>1, <1>2, <1>3

\* ... and the parts make it so.
LEMMA UnderFromParts ==
  ASSUME NEW a \in Onions, NEW b \in Onions, NEW d \in Nat, Parts(a, b, d)
  PROVE  Under(a, b)
<1>1. /\ Len(a) \in Nat \ {0} /\ Len(b) \in Nat \ {0} /\ Len(b) <= Len(a)
      /\ Len(a) - Len(b) = d
  BY DEF Onions, Parts
<1>2. CASE d = 0
  <2>1. Len(b) = Len(a) /\ \A k \in 2 .. Len(b) : k + d = k
    BY <1>1, <1>2
  <2>2. \A i \in 1 .. Len(a) : LayerBelow(a[i], b[i])
    BY <1>1, <1>2, <2>1 DEF Parts
  <2> QED
    BY <1>1, <2>1, <2>2 DEF Under
<1>3. CASE d > 0
  BY <1>1, <1>3 DEF Under, Parts
<1> QED
  BY <1>2, <1>3

\* Being below is an order.
LEMMA UnderOrder ==
  ASSUME NEW a \in Onions, NEW b \in Onions, NEW c \in Onions
  PROVE  /\ Under(a, a)
         /\ Under(a, b) /\ Under(b, a) => a = b
         /\ Under(a, b) /\ Under(b, c) => Under(a, c)
<1>1. /\ a \in Seq(Layers) /\ b \in Seq(Layers) /\ c \in Seq(Layers)
      /\ Len(a) \in Nat \ {0} /\ Len(b) \in Nat \ {0} /\ Len(c) \in Nat \ {0}
  BY DEF Onions
<1>2. Under(a, a)
  BY <1>1 DEF Under, LayerBelow, TriBelow
<1>3. ASSUME Under(a, b), Under(b, a)
      PROVE  a = b
  <2>1. Len(a) = Len(b)
    BY <1>1, <1>3 DEF Under
  <2>2. ASSUME NEW i \in 1 .. Len(a) PROVE a[i] = b[i]
    <3>1. LayerBelow(a[i], b[i]) /\ LayerBelow(b[i], a[i])
      BY <1>1, <1>3, <2>1 DEF Under
    <3>2. a[i] \in Layers /\ b[i] \in Layers
      BY <1>1, <2>1
    <3> QED
      BY <3>1, <3>2, LayerType DEF LayerBelow, TriBelow
  <2> QED
    BY <1>1, <2>1, <2>2
<1>4. ASSUME Under(a, b), Under(b, c)
      PROVE  Under(a, c)
  <2> DEFINE d == Len(a) - Len(b)
             e == Len(b) - Len(c)
  <2>1. d \in Nat /\ e \in Nat /\ Len(a) - Len(c) = e + d /\ Len(c) <= Len(a)
    BY <1>1, <1>4 DEF Under
  <2>2. \A k \in 2 .. Len(b) : LayerBelow(a[k + d], b[k])
    BY <1>4, UnderParts DEF Parts
  <2>3. \A k \in 2 .. Len(c) : LayerBelow(b[k + e], c[k])
    BY <1>4, UnderParts DEF Parts
  <2>4. \A k \in 1 .. d + 1 : TriBelow(a[k].abstract, b[1].abstract)
    BY <1>4, UnderParts DEF Parts
  <2>5. \A k \in 1 .. e + 1 : TriBelow(b[k].abstract, c[1].abstract)
    BY <1>4, UnderParts DEF Parts
  <2>6. ASSUME NEW k \in 2 .. Len(c) PROVE LayerBelow(a[k + (e + d)], c[k])
    <3>1. k + e \in 2 .. Len(b) /\ (k + e) + d = k + (e + d)
      BY <1>1, <2>1
    <3> QED
      BY <2>2, <2>3, <3>1 DEF LayerBelow, TriBelow
  <2>7. ASSUME NEW k \in 1 .. e + d + 1 PROVE TriBelow(a[k].abstract, c[1].abstract)
    <3>1. CASE k <= d + 1
      BY <1>1, <2>1, <2>4, <2>5, <3>1 DEF TriBelow
    <3>2. CASE k > d + 1
      <4>1. k - d \in 2 .. Len(b) /\ k - d \in 1 .. e + 1 /\ (k - d) + d = k
        BY <1>1, <2>1, <3>2
      <4> QED
        BY <2>2, <2>5, <4>1 DEF LayerBelow, TriBelow
    <3> QED
      BY <2>1, <3>1, <3>2
  <2>8. c[1].pointer = "maybe" \/ (d = 0 /\ e = 0)
    <3>1. CASE e > 0
      BY <1>1, <1>4, <2>1, <3>1 DEF Under
    <3>2. CASE e = 0 /\ d > 0
      BY <1>1, <1>4, <2>1, <3>2 DEF Under, LayerBelow, TriBelow
    <3> QED
      BY <2>1, <3>1, <3>2
  <2>9. d = 0 /\ e = 0 => LayerBelow(a[1], c[1])
    BY <1>1, <1>4, <2>1 DEF Under, LayerBelow, TriBelow
  <2> HIDE DEF d, e
  <2>10. Len(c) = Len(a) => d = 0 /\ e = 0
    BY <1>1, <2>1
  <2>11. Len(c) < Len(a) => c[1].pointer = "maybe"
    BY <1>1, <2>1, <2>8
  <2>12. Len(c) = Len(a) => \A i \in 1 .. Len(a) : LayerBelow(a[i], c[i])
    BY <1>1, <2>6, <2>9, <2>10
  <2>13. Len(c) < Len(a) =>
           /\ \A k \in 1 .. Len(a) - Len(c) + 1 : TriBelow(a[k].abstract, c[1].abstract)
           /\ \A i \in 2 .. Len(c) : LayerBelow(a[i + (Len(a) - Len(c))], c[i])
    BY <2>1, <2>6, <2>7
  <2> QED
    BY <2>1, <2>11, <2>12, <2>13 DEF Under
<1> QED
  BY <1>2, <1>3, <1>4

\* The layers of a join.
LEMMA JoinLayers ==
  ASSUME NEW a \in Onions, NEW b \in Onions, Len(a) <= Len(b)
  PROVE  LET J == OnionJoin(a, b)
             d == Len(b) - Len(a)
         IN  /\ J \in Onions /\ Len(J) = Len(a)
             /\ d = 0 => J[1] = LayerJoin(a[1], b[1])
             /\ \A i \in 2 .. Len(a) : J[i] = LayerJoin(a[i], b[i + d])
             /\ d > 0 => /\ J[1].pointer = "maybe"
                         /\ TriBelow(a[1].abstract, J[1].abstract)
                         /\ \A k \in 1 .. d + 1 : TriBelow(b[k].abstract, J[1].abstract)
                         /\ \A z \in Tri :
                              (\A k \in 1 .. d + 1 : TriBelow(b[k].abstract, z))
                                /\ TriBelow(a[1].abstract, z)
                                => TriBelow(J[1].abstract, z)
<1> DEFINE d == Len(b) - Len(a)
           core == TypeLayer("maybe",
                    IF \A k \in 1 .. d + 1 : b[k].abstract = a[1].abstract
                    THEN a[1].abstract ELSE "maybe")
           J == [i \in 1 .. Len(a) |->
                   IF i = 1 /\ d > 0 THEN core ELSE LayerJoin(a[i], b[i + d])]
<1>1. /\ a \in Seq(Layers) /\ b \in Seq(Layers)
      /\ Len(a) \in Nat \ {0} /\ Len(b) \in Nat \ {0} /\ d \in Nat
      /\ \A i \in 2 .. Len(a) : a[i].pointer # "no"
  BY DEF Onions
<1>2. OnionJoin(a, b) = J
  <2>1. CASE Len(a) < Len(b)
    BY <1>1, <2>1 DEF OnionJoin
  <2>2. CASE Len(a) = Len(b)
    BY <1>1, <2>2 DEF OnionJoin
  <2> QED
    BY <1>1, <2>1, <2>2
<1>3. core \in Layers /\ core.pointer = "maybe"
  BY <1>1, LayerType DEF Tri
<1>4. \A i \in 1 .. Len(a) : a[i] \in Layers /\ b[i + d] \in Layers
  BY <1>1
<1>5. \A i \in 1 .. Len(a) : J[i] \in Layers
  BY <1>3, <1>4, LayerJoinIs
<1>6. \A i \in 2 .. Len(a) : J[i].pointer # "no"
  BY <1>1, <1>4, LayerJoinIs
<1>7. d > 0 => /\ TriBelow(a[1].abstract, core.abstract)
               /\ \A k \in 1 .. d + 1 : TriBelow(b[k].abstract, core.abstract)
               /\ \A z \in Tri :
                    (\A k \in 1 .. d + 1 : TriBelow(b[k].abstract, z))
                      /\ TriBelow(a[1].abstract, z)
                      => TriBelow(core.abstract, z)
  <2>1. CASE \A k \in 1 .. d + 1 : b[k].abstract = a[1].abstract
    <3>1. core.abstract = a[1].abstract
      BY <2>1, LayerType
    <3> QED
      BY <2>1, <3>1 DEF TriBelow
  <2>2. CASE ~(\A k \in 1 .. d + 1 : b[k].abstract = a[1].abstract)
    <3>1. core.abstract = "maybe"
      BY <2>2, LayerType
    <3> HIDE DEF core
    <3>2. \A z \in Tri : (\A k \in 1 .. d + 1 : TriBelow(b[k].abstract, z))
                      /\ TriBelow(a[1].abstract, z) => z = "maybe"
      BY <2>2 DEF TriBelow
    <3> QED
      BY <3>1, <3>2 DEF TriBelow
  <2> QED
    BY <2>1, <2>2
<1> HIDE DEF core
<1>8. J \in Seq(Layers) /\ Len(J) = Len(a)
  BY <1>1, <1>5
<1>9. J \in Onions
  BY <1>1, <1>6, <1>8 DEF Onions
<1>10. d > 0 => J[1] = core
  BY <1>1
<1>11. d = 0 => J[1] = LayerJoin(a[1], b[1])
  BY <1>1
<1>12. \A i \in 2 .. Len(a) : J[i] = LayerJoin(a[i], b[i + d])
  BY <1>1
<1> HIDE DEF J
<1> QED
  BY <1>2, <1>3, <1>7, <1>8, <1>9, <1>10, <1>11, <1>12

\* Joining is symmetric.
LEMMA JoinSymmetric ==
  ASSUME NEW a \in Onions, NEW b \in Onions
  PROVE  OnionJoin(a, b) = OnionJoin(b, a)
<1>1. Len(a) \in Nat /\ Len(b) \in Nat
  BY DEF Onions
<1>2. CASE Len(a) # Len(b)
  BY <1>1, <1>2 DEF OnionJoin
<1>3. CASE Len(a) = Len(b)
  <2>1. \A i \in 1 .. Len(a) : LayerJoin(a[i], b[i]) = LayerJoin(b[i], a[i])
    BY DEF LayerJoin, TriJoin
  <2> QED
    BY <1>1, <1>3, <2>1 DEF OnionJoin
<1> QED
  BY <1>2, <1>3

\* The join of two onions is the least onion above both.
LEMMA JoinIsLeast ==
  ASSUME NEW a \in Onions, NEW b \in Onions
  PROVE  /\ OnionJoin(a, b) \in Onions
         /\ Len(OnionJoin(a, b)) <= Len(a) /\ Len(OnionJoin(a, b)) <= Len(b)
         /\ Under(a, OnionJoin(a, b)) /\ Under(b, OnionJoin(a, b))
         /\ \A c \in Onions : Under(a, c) /\ Under(b, c) => Under(OnionJoin(a, b), c)
<1>1. ASSUME NEW x \in Onions, NEW y \in Onions, Len(x) <= Len(y)
      PROVE  LET J == OnionJoin(x, y)
             IN  /\ J \in Onions /\ Len(J) <= Len(x) /\ Len(J) <= Len(y)
                 /\ Under(x, J) /\ Under(y, J)
                 /\ \A c \in Onions : Under(x, c) /\ Under(y, c) => Under(J, c)
  <2> DEFINE J == OnionJoin(x, y)
             d == Len(y) - Len(x)
  <2>1. /\ J \in Onions /\ Len(J) = Len(x)
        /\ d = 0 => J[1] = LayerJoin(x[1], y[1])
        /\ \A i \in 2 .. Len(x) : J[i] = LayerJoin(x[i], y[i + d])
        /\ d > 0 => /\ J[1].pointer = "maybe"
                    /\ TriBelow(x[1].abstract, J[1].abstract)
                    /\ \A k \in 1 .. d + 1 : TriBelow(y[k].abstract, J[1].abstract)
                    /\ \A z \in Tri :
                         (\A k \in 1 .. d + 1 : TriBelow(y[k].abstract, z))
                           /\ TriBelow(x[1].abstract, z)
                           => TriBelow(J[1].abstract, z)
    BY <1>1, JoinLayers
  <2>2. /\ Len(x) \in Nat \ {0} /\ Len(y) \in Nat \ {0} /\ d \in Nat
        /\ \A i \in 1 .. Len(x) : x[i] \in Layers /\ y[i + d] \in Layers
        /\ x[1] \in Layers /\ J[1] \in Layers /\ y[1] \in Layers
        /\ Len(y) - Len(J) = d
    BY <1>1, <2>1 DEF Onions
  <2> HIDE DEF J, d
  <2>3. \A i \in 2 .. Len(x) : LayerBelow(x[i], J[i]) /\ LayerBelow(y[i + d], J[i])
    BY <2>1, <2>2, LayerJoinIs
  <2>4. LayerBelow(x[1], J[1])
    <3>1. CASE d = 0
      BY <2>1, <2>2, <3>1, LayerJoinIs
    <3>2. CASE d > 0
      BY <2>1, <2>2, <3>2 DEF LayerBelow, TriBelow
    <3> QED
      BY <2>2, <3>1, <3>2
  <2>5. Under(x, J)
    <3>1. \A i \in 1 .. Len(x) : LayerBelow(x[i], J[i])
      BY <2>2, <2>3, <2>4
    <3> QED
      BY <2>1, <2>2, <3>1 DEF Under
  <2>6. Under(y, J)
    <3>1. CASE d = 0
      <4>1. LayerBelow(y[1], J[1])
        BY <2>1, <2>2, <3>1, LayerJoinIs
      <4>2. Len(y) = Len(J) /\ \A i \in 1 .. Len(y) : LayerBelow(y[i], J[i])
        BY <2>1, <2>2, <2>3, <3>1, <4>1
      <4> QED
        BY <2>2, <4>2 DEF Under
    <3>2. CASE d > 0
      <4>1. Len(J) < Len(y) /\ Len(J) \in Nat
        BY <2>1, <2>2, <3>2
      <4>2. /\ \A k \in 1 .. (Len(y) - Len(J)) + 1 : TriBelow(y[k].abstract, J[1].abstract)
            /\ \A i \in 2 .. Len(J) : LayerBelow(y[i + (Len(y) - Len(J))], J[i])
        BY <2>1, <2>2, <2>3, <3>2
      <4> QED
        BY <2>1, <2>2, <3>2, <4>1, <4>2 DEF Under
    <3> QED
      BY <2>2, <3>1, <3>2
  <2>7. ASSUME NEW c \in Onions, Under(x, c), Under(y, c)
        PROVE  Under(J, c)
    <3> DEFINE e == Len(x) - Len(c)
    <3>1. /\ e \in Nat /\ Len(J) - Len(c) = e /\ Len(y) - Len(c) = e + d
          /\ Len(c) \in Nat \ {0} /\ c[1] \in Layers /\ Len(c) <= Len(J)
          /\ \A k \in 1 .. Len(c) : c[k] \in Layers
      BY <2>1, <2>2, <2>7 DEF Under, Onions, d
    <3>2. /\ \A k \in 1 .. e + 1 : TriBelow(x[k].abstract, c[1].abstract)
          /\ \A k \in 2 .. Len(c) : LayerBelow(x[k + e], c[k])
      BY <2>7, UnderParts DEF Parts
    <3>3. /\ \A k \in 1 .. (e + d) + 1 : TriBelow(y[k].abstract, c[1].abstract)
          /\ \A k \in 2 .. Len(c) : LayerBelow(y[k + (e + d)], c[k])
      <4>1. /\ \A k \in 1 .. Len(y) - Len(c) + 1 : TriBelow(y[k].abstract, c[1].abstract)
            /\ \A k \in 2 .. Len(c) : LayerBelow(y[k + (Len(y) - Len(c))], c[k])
        BY <2>7, UnderParts DEF Parts
      <4> QED
        BY <3>1, <4>1
    <3>4. e + d > 0 => c[1].pointer = "maybe"
      <4>1. CASE e > 0
        BY <2>2, <2>7, <3>1, <4>1 DEF Under
      <4>2. CASE e = 0 /\ d > 0
        BY <2>2, <2>7, <3>1, <4>2 DEF Under
      <4> QED
        BY <2>2, <3>1, <4>1, <4>2
    <3> HIDE DEF e
    <3>5. \A k \in 2 .. Len(c) : LayerBelow(J[k + e], c[k])
      <4> SUFFICES ASSUME NEW k \in 2 .. Len(c) PROVE LayerBelow(J[k + e], c[k])
        OBVIOUS
      <4>1. k + e \in 2 .. Len(x) /\ (k + e) + d = k + (e + d) /\ k + e \in 1 .. Len(x)
        BY <2>1, <2>2, <3>1
      <4>2. J[k + e] = LayerJoin(x[k + e], y[(k + e) + d])
        BY <2>1, <4>1
      <4>3. LayerBelow(x[k + e], c[k]) /\ LayerBelow(y[(k + e) + d], c[k])
        BY <3>2, <3>3, <4>1
      <4>4. x[k + e] \in Layers /\ y[(k + e) + d] \in Layers
        BY <2>2, <4>1
      <4>5. c[k] \in Layers
        BY <3>1
      <4> QED
        BY <4>2, <4>3, <4>4, <4>5, LayerJoinIs
    <3>6. \A k \in 1 .. e + 1 : TriBelow(J[k].abstract, c[1].abstract)
      <4> SUFFICES ASSUME NEW k \in 1 .. e + 1 PROVE TriBelow(J[k].abstract, c[1].abstract)
        OBVIOUS
      <4>1. c[1].abstract \in Tri /\ x[1].abstract \in Tri /\ y[1].abstract \in Tri
        BY <2>2, <3>1, LayerType
      <4>2. CASE k = 1 /\ d = 0
        <5>1. TriBelow(x[1].abstract, c[1].abstract) /\ TriBelow(y[1].abstract, c[1].abstract)
          BY <2>2, <3>1, <3>2, <3>3
        <5>2. J[1].abstract = TriJoin(x[1].abstract, y[1].abstract)
          BY <2>1, <4>2, LayerType DEF LayerJoin
        <5> QED
          BY <4>1, <4>2, <5>1, <5>2, TriJoinIs
      <4>3. CASE k = 1 /\ d > 0
        <5>1. TriBelow(x[1].abstract, c[1].abstract)
          BY <3>1, <3>2
        <5>2. \A j \in 1 .. d + 1 : TriBelow(y[j].abstract, c[1].abstract)
          BY <2>2, <3>1, <3>3
        <5> QED
          BY <2>1, <4>1, <4>3, <5>1, <5>2
      <4>4. CASE k > 1
        <5>1. k \in 2 .. Len(x) /\ k + d \in 1 .. (e + d) + 1 /\ k \in 1 .. Len(x)
          BY <2>1, <2>2, <3>1, <4>4
        <5>2. TriBelow(x[k].abstract, c[1].abstract) /\ TriBelow(y[k + d].abstract, c[1].abstract)
          BY <3>2, <3>3, <5>1
        <5>3. J[k].abstract = TriJoin(x[k].abstract, y[k + d].abstract)
          BY <2>1, <5>1, LayerType DEF LayerJoin
        <5>4. x[k].abstract \in Tri /\ y[k + d].abstract \in Tri
          BY <2>2, <5>1, LayerType
        <5> QED
          BY <4>1, <5>2, <5>3, <5>4, TriJoinIs
      <4> QED
        BY <2>2, <3>1, <4>2, <4>3, <4>4
    <3>7. e = 0 => LayerBelow(J[1], c[1])
      <4>1. CASE e = 0 /\ d > 0
        <5>1. TriBelow(J[1].abstract, c[1].abstract)
          BY <3>6, <4>1
        <5>2. c[1].pointer = "maybe"
          BY <2>2, <3>4, <4>1
        <5> QED
          BY <5>1, <5>2 DEF LayerBelow, TriBelow
      <4>2. CASE e = 0 /\ d = 0
        <5>1. Len(x) = Len(c) /\ Len(y) = Len(c)
          BY <2>2, <3>1, <4>2 DEF e
        <5>2. LayerBelow(x[1], c[1]) /\ LayerBelow(y[1], c[1])
          BY <2>2, <2>7, <5>1 DEF Under
        <5> QED
          BY <2>1, <2>2, <3>1, <4>2, <5>2, LayerJoinIs
      <4> QED
        BY <2>2, <3>1, <4>1, <4>2
    <3>8. CASE e = 0
      <4>1. Len(c) = Len(J) /\ \A i \in 1 .. Len(J) : LayerBelow(J[i], c[i])
        BY <2>1, <2>2, <3>1, <3>5, <3>7, <3>8
      <4> QED
        BY <3>1, <4>1 DEF Under
    <3>9. CASE e > 0
      <4>1. Len(c) < Len(J) /\ c[1].pointer = "maybe"
        BY <2>1, <2>2, <3>1, <3>4, <3>9
      <4> QED
        <5>1. /\ \A k \in 1 .. (Len(J) - Len(c)) + 1 : TriBelow(J[k].abstract, c[1].abstract)
              /\ \A i \in 2 .. Len(c) : LayerBelow(J[i + (Len(J) - Len(c))], c[i])
          BY <3>1, <3>5, <3>6
        <5> QED
          BY <3>1, <4>1, <5>1 DEF Under
    <3> QED
      BY <3>1, <3>8, <3>9
  <2> QED
    BY <1>1, <2>1, <2>2, <2>5, <2>6, <2>7 DEF J
<1>2. Len(a) \in Nat /\ Len(b) \in Nat
  BY DEF Onions
<1>3. CASE Len(a) <= Len(b)
  BY <1>1, <1>3
<1>4. CASE Len(b) <= Len(a)
  BY <1>1, <1>4, JoinSymmetric
<1> QED
  BY <1>2, <1>3, <1>4

\* Joining adds nothing exactly to what is above.
LEMMA JoinAbsorbs ==
  ASSUME NEW a \in Onions, NEW b \in Onions
  PROVE  OnionJoin(b, a) = b <=> Under(a, b)
BY JoinIsLeast, UnderOrder

-----------------------------------------------------------------------------
(***************************************************************************)
(* What edges carry.                                                       *)
(***************************************************************************)

\* What an edge adds to the type it leads to.
Carry(p, e, o) ==
  CASE e.ty = "load"  -> Peel(o)
    [] e.ty = "store" -> Wrap(o)
    [] e.ty = "uniform" -> IF p.kind[e.to] = "cmp" THEN <<Last(o)>> ELSE o

EdgeKinds == {"uniform", "load", "store"}

\* An onion without its last layer.
LEMMA PeelIs ==
  ASSUME NEW o \in Onions
  PROVE  /\ Peel(o) \in Onions
         /\ Len(o) = 1 => /\ Len(Peel(o)) = 1 /\ Peel(o)[1].pointer = "maybe"
                          /\ Peel(o)[1].abstract = o[1].abstract
         /\ Len(o) > 1 => /\ Len(Peel(o)) = Len(o) - 1
                          /\ \A i \in 1 .. Len(o) - 1 : Peel(o)[i] = o[i]
<1>1. /\ o \in Seq(Layers) /\ Len(o) \in Nat \ {0} /\ o[1] \in Layers
      /\ \A i \in 2 .. Len(o) : o[i].pointer # "no"
  BY DEF Onions
<1>2. CASE Len(o) = 1
  <2>1. Peel(o) = [o EXCEPT ![1].pointer = "maybe"]
    BY <1>2 DEF Peel
  <2>2. [o[1] EXCEPT !.pointer = "maybe"] \in Layers
    BY <1>1 DEF Layers, Tri
  <2>3. Peel(o)[1] = [o[1] EXCEPT !.pointer = "maybe"]
    BY <1>1, <1>2, <2>1
  <2>4. Peel(o) \in Seq(Layers) /\ Len(Peel(o)) = Len(o)
    BY <1>1, <2>1, <2>2
  <2>5. Peel(o)[1].pointer = "maybe" /\ Peel(o)[1].abstract = o[1].abstract
    BY <1>1, <2>3 DEF Layers
  <2>6. Peel(o) # << >> /\ \A i \in 2 .. Len(Peel(o)) : Peel(o)[i].pointer # "no"
    BY <1>1, <1>2, <2>4
  <2>7. Peel(o) \in Onions
    BY <2>4, <2>6 DEF Onions
  <2>8. \A n : n = 1 => ~(n > 1)
    OBVIOUS
  <2> QED
    BY <1>2, <2>4, <2>5, <2>7, <2>8, Zenon
<1>3. CASE Len(o) > 1
  <2>1. Peel(o) = SubSeq(o, 1, Len(o) - 1)
    BY <1>1, <1>3 DEF Peel, Front
  <2>2. Peel(o) \in Seq(Layers) /\ Len(Peel(o)) = Len(o) - 1
    BY <1>1, <1>3, <2>1
  <2>3. \A i \in 1 .. Len(o) - 1 : Peel(o)[i] = o[i]
    BY <1>1, <1>3, <2>1
  <2> QED
    BY <1>1, <1>3, <2>2, <2>3 DEF Onions
<1> QED
  BY <1>1, <1>2, <1>3, OneOrMore, Zenon

\* An onion with a pointer around.
LEMMA WrapIs ==
  ASSUME NEW o \in Onions
  PROVE  /\ Wrap(o) \in Onions /\ Len(Wrap(o)) = Len(o) + 1
         /\ \A i \in 1 .. Len(o) : Wrap(o)[i] = o[i]
         /\ Wrap(o)[Len(o) + 1] = TypeLayer("yes", "no")
<1>1. o \in Seq(Layers) /\ Len(o) \in Nat \ {0} /\ \A i \in 2 .. Len(o) : o[i].pointer # "no"
  BY DEF Onions
<1>2. TypeLayer("yes", "no") \in Layers /\ TypeLayer("yes", "no").pointer # "no"
  BY LayerType DEF Tri
<1>3. Wrap(o) \in Seq(Layers) /\ Len(Wrap(o)) = Len(o) + 1
  BY <1>1, <1>2 DEF Wrap
<1>4. /\ \A i \in 1 .. Len(o) : Wrap(o)[i] = o[i]
      /\ Wrap(o)[Len(o) + 1] = TypeLayer("yes", "no")
  BY <1>1 DEF Wrap
<1> QED
  BY <1>1, <1>2, <1>3, <1>4 DEF Onions

\* The last layer by itself.
LEMMA CoreIs ==
  ASSUME NEW o \in Onions
  PROVE  <<Last(o)>> \in Onions /\ o[Len(o)] \in Layers
BY DEF Onions, Last

\* Higher onions carry more.
LEMMA PeelMonotone ==
  ASSUME NEW a \in Onions, NEW b \in Onions, Under(a, b)
  PROVE  Under(Peel(a), Peel(b))
<1> DEFINE d == Len(a) - Len(b)
<1>1. Len(a) \in Nat \ {0} /\ Len(b) \in Nat \ {0}
  BY DEF Onions
<1>2. Parts(a, b, d)
  BY UnderParts
<1> HIDE DEF d
<1>3. d \in Nat /\ Len(a) = Len(b) + d
  BY <1>2 DEF Parts
<1>4. CASE Len(a) = 1
  <2>1. d = 0 /\ Len(b) = 1
    BY <1>1, <1>3, <1>4
  <2>2. TriBelow(a[1].abstract, b[1].abstract)
    BY <1>2, <2>1 DEF Parts, LayerBelow
  <2>3. LayerBelow(Peel(a)[1], Peel(b)[1])
    BY <1>4, <2>1, <2>2, PeelIs DEF LayerBelow, TriBelow
  <2>4. Len(Peel(a)) = 1 /\ Len(Peel(b)) = 1
    BY <1>4, <2>1, PeelIs
  <2> QED
    BY <2>3, <2>4 DEF Under
<1>5. CASE Len(a) > 1 /\ Len(b) = 1
  <2> DEFINE c == d - 1
  <2>1. /\ Len(Peel(a)) = Len(a) - 1 /\ \A i \in 1 .. Len(a) - 1 : Peel(a)[i] = a[i]
        /\ Len(Peel(b)) = 1 /\ Peel(b)[1].pointer = "maybe"
        /\ Peel(b)[1].abstract = b[1].abstract
        /\ Peel(a) \in Onions /\ Peel(b) \in Onions
    BY <1>5, PeelIs
  <2>2. c \in Nat /\ Len(Peel(a)) = Len(Peel(b)) + c /\ c + 1 = Len(a) - 1 /\ c + 1 = d
    <3>1. \A m, n : m \in Nat /\ n = 1 /\ m = n + d /\ m > 1
                     => c \in Nat /\ m - 1 = 1 + c /\ c + 1 = m - 1 /\ c + 1 = d
      BY <1>3
    <3> HIDE DEF c
    <3>2. c \in Nat /\ Len(a) - 1 = 1 + c /\ c + 1 = Len(a) - 1 /\ c + 1 = d
      BY <1>1, <1>3, <1>5, <3>1, Zenon
    <3> QED
      BY <2>1, <3>2, Zenon
  <2> HIDE DEF c
  <2>3. \A k \in 1 .. c + 1 : TriBelow(Peel(a)[k].abstract, Peel(b)[1].abstract)
    <3> SUFFICES ASSUME NEW k \in 1 .. c + 1
                 PROVE  TriBelow(Peel(a)[k].abstract, Peel(b)[1].abstract)
      OBVIOUS
    <3>1. k \in 1 .. d + 1 /\ k \in 1 .. Len(a) - 1
      BY <1>3, <2>2
    <3> QED
      BY <1>2, <2>1, <3>1 DEF Parts
  <2>4. c = 0 => LayerBelow(Peel(a)[1], Peel(b)[1])
    BY <2>1, <2>3 DEF LayerBelow, TriBelow
  <2>5. Parts(Peel(a), Peel(b), c)
    BY <2>1, <2>2, <2>3, <2>4 DEF Parts
  <2> QED
    BY <2>1, <2>2, <2>5, UnderFromParts
<1>6. CASE Len(a) > 1 /\ Len(b) > 1
  <2>1. /\ Len(Peel(a)) = Len(a) - 1 /\ \A i \in 1 .. Len(a) - 1 : Peel(a)[i] = a[i]
        /\ Peel(a) \in Onions
    BY <1>6, PeelIs
  <2>2. /\ Len(Peel(b)) = Len(b) - 1 /\ \A i \in 1 .. Len(b) - 1 : Peel(b)[i] = b[i]
        /\ Peel(b) \in Onions
    BY <1>6, PeelIs
  <2>3. Peel(a)[1] = a[1] /\ Peel(b)[1] = b[1]
    BY <1>1, <1>6, <2>1, <2>2
  <2>4. \A k \in 2 .. Len(Peel(b)) : LayerBelow(Peel(a)[k + d], Peel(b)[k])
    <3> SUFFICES ASSUME NEW k \in 2 .. Len(Peel(b))
                 PROVE  LayerBelow(Peel(a)[k + d], Peel(b)[k])
      OBVIOUS
    <3>1. k + d \in 1 .. Len(a) - 1 /\ k \in 2 .. Len(b) /\ k \in 1 .. Len(b) - 1
      BY <1>1, <1>3, <1>6, <2>2
    <3> QED
      BY <1>2, <2>1, <2>2, <3>1 DEF Parts
  <2>5. \A k \in 1 .. d + 1 : TriBelow(Peel(a)[k].abstract, Peel(b)[1].abstract)
    <3> SUFFICES ASSUME NEW k \in 1 .. d + 1
                 PROVE  TriBelow(Peel(a)[k].abstract, Peel(b)[1].abstract)
      OBVIOUS
    <3>1. k \in 1 .. Len(a) - 1
      BY <1>1, <1>3, <1>6
    <3> QED
      BY <1>2, <2>1, <2>3, <3>1 DEF Parts
  <2>6. Len(Peel(a)) = Len(Peel(b)) + d
    BY <1>1, <1>3, <2>1, <2>2
  <2>7. Parts(Peel(a), Peel(b), d)
    BY <1>2, <1>3, <2>3, <2>4, <2>5, <2>6 DEF Parts
  <2> QED
    BY <1>3, <2>1, <2>2, <2>7, UnderFromParts
<1> QED
  BY <1>1, <1>4, <1>5, <1>6, OneOrMore, Zenon

\* A pointer around both keeps the order.
LEMMA WrapMonotone ==
  ASSUME NEW a \in Onions, NEW b \in Onions, Under(a, b)
  PROVE  Under(Wrap(a), Wrap(b))
<1> DEFINE d == Len(a) - Len(b)
<1>1. Len(a) \in Nat \ {0} /\ Len(b) \in Nat \ {0}
  BY DEF Onions
<1>2. Parts(a, b, d)
  BY UnderParts
<1> HIDE DEF d
<1>3. d \in Nat /\ Len(a) = Len(b) + d
  BY <1>2 DEF Parts
<1>4. /\ Len(Wrap(a)) = Len(a) + 1 /\ Wrap(a) \in Onions
      /\ \A i \in 1 .. Len(a) : Wrap(a)[i] = a[i]
      /\ Wrap(a)[Len(a) + 1] = TypeLayer("yes", "no")
  BY WrapIs
<1>5. /\ Len(Wrap(b)) = Len(b) + 1 /\ Wrap(b) \in Onions
      /\ \A i \in 1 .. Len(b) : Wrap(b)[i] = b[i]
      /\ Wrap(b)[Len(b) + 1] = TypeLayer("yes", "no")
  BY WrapIs
<1>6. \A k \in 2 .. Len(Wrap(b)) : LayerBelow(Wrap(a)[k + d], Wrap(b)[k])
  <2> SUFFICES ASSUME NEW k \in 2 .. Len(Wrap(b))
               PROVE  LayerBelow(Wrap(a)[k + d], Wrap(b)[k])
    OBVIOUS
  <2>1. CASE k = Len(b) + 1
    <3>1. k + d = Len(a) + 1
      BY <1>1, <1>3, <2>1
    <3> QED
      BY <1>4, <1>5, <2>1, <3>1 DEF LayerBelow, TriBelow
  <2>2. CASE k # Len(b) + 1
    <3>1. k \in 2 .. Len(b) /\ k \in 1 .. Len(b) /\ k + d \in 1 .. Len(a)
      BY <1>1, <1>3, <1>5, <2>2
    <3> QED
      BY <1>2, <1>4, <1>5, <3>1 DEF Parts
  <2> QED
    BY <2>1, <2>2
<1>7. \A k \in 1 .. d + 1 : TriBelow(Wrap(a)[k].abstract, Wrap(b)[1].abstract)
  <2> SUFFICES ASSUME NEW k \in 1 .. d + 1
               PROVE  TriBelow(Wrap(a)[k].abstract, Wrap(b)[1].abstract)
    OBVIOUS
  <2>1. k \in 1 .. Len(a) /\ 1 \in 1 .. Len(b)
    BY <1>1, <1>3
  <2> QED
    BY <1>2, <1>4, <1>5, <2>1 DEF Parts
<1>8. Wrap(a)[1] = a[1] /\ Wrap(b)[1] = b[1] /\ Len(Wrap(a)) = Len(Wrap(b)) + d
  BY <1>1, <1>3, <1>4, <1>5
<1>9. Parts(Wrap(a), Wrap(b), d)
  BY <1>2, <1>3, <1>6, <1>7, <1>8 DEF Parts
<1> QED
  BY <1>3, <1>4, <1>5, <1>9, UnderFromParts

\* So do the last layers by themselves.
LEMMA CoreMonotone ==
  ASSUME NEW a \in Onions, NEW b \in Onions, Under(a, b)
  PROVE  Under(<<Last(a)>>, <<Last(b)>>)
<1> DEFINE d == Len(a) - Len(b)
<1>1. Len(a) \in Nat \ {0} /\ Len(b) \in Nat \ {0}
  BY DEF Onions
<1>2. Parts(a, b, d)
  BY UnderParts
<1> HIDE DEF d
<1>3. d \in Nat /\ Len(a) = Len(b) + d
  BY <1>2 DEF Parts
<1>4. LayerBelow(a[Len(a)], b[Len(b)])
  <2>1. CASE Len(b) > 1
    <3>1. Len(b) \in 2 .. Len(b)
      BY <1>1, <2>1
    <3> QED
      BY <1>2, <1>3, <3>1 DEF Parts
  <2>2. CASE Len(b) = 1 /\ d # 0
    <3>1. Len(a) \in 1 .. d + 1
      BY <1>1, <1>3, <2>2
    <3> QED
      BY <1>2, <2>2, <3>1 DEF Parts, LayerBelow, TriBelow
  <2>3. CASE Len(b) = 1 /\ d = 0
    <3>1. Len(a) = 1
      BY <1>1, <1>3, <2>3
    <3> QED
      BY <1>2, <2>3, <3>1 DEF Parts
  <2> QED
    BY <1>1, <2>1, <2>2, <2>3, OneOrMore, Zenon
<1> QED
  BY <1>4 DEF Under, Last

\* What an edge carries is an onion, and grows with the type it comes from.
LEMMA CarryIs ==
  ASSUME NEW p, NEW e, e.ty \in EdgeKinds, NEW a \in Onions
  PROVE  /\ Carry(p, e, a) \in Onions
         /\ \A b \in Onions : Under(a, b) => Under(Carry(p, e, a), Carry(p, e, b))
<1>1. CASE e.ty = "load"
  BY <1>1, PeelIs, PeelMonotone DEF Carry
<1>2. CASE e.ty = "store"
  BY <1>2, WrapIs, WrapMonotone DEF Carry
<1>3. CASE e.ty = "uniform"
  BY <1>3, CoreIs, CoreMonotone DEF Carry
<1> QED
  BY <1>1, <1>2, <1>3 DEF EdgeKinds

\* Joining along an edge, as the code computes it.
LEMMA JoinedIs ==
  ASSUME NEW p, NEW e, e.ty \in EdgeKinds, NEW to \in Onions, NEW from \in Onions,
         p.kind[e.to] = "cmp" => e.ty = "uniform" /\ Len(to) = 1
  PROVE  Joined(p, e, to, from) = OnionJoin(to, Carry(p, e, from))
<1>1. CASE e.ty = "load"
  BY <1>1 DEF Joined, Carry
<1>2. CASE e.ty = "store"
  BY <1>2 DEF Joined, Carry
<1>3. CASE e.ty = "uniform" /\ p.kind[e.to] # "cmp"
  BY <1>3 DEF Joined, Carry
<1>4. CASE e.ty = "uniform" /\ p.kind[e.to] = "cmp"
  <2> DEFINE c == <<Last(from)>>
  <2>1. Joined(p, e, to, from) = <<LayerJoin(Last(to), Last(from))>> /\ Carry(p, e, from) = c
    BY <1>4 DEF Joined, Carry
  <2>2. c \in Onions /\ Len(c) = 1 /\ c[1] = Last(from) /\ Last(to) = to[1] /\ Len(to) = 1
    BY <1>4, CoreIs DEF Last
  <2> HIDE DEF c
  <2>3. Len(OnionJoin(to, c)) = 1 /\ OnionJoin(to, c)[1] = LayerJoin(to[1], c[1])
        /\ OnionJoin(to, c) \in Onions
    BY <2>2, JoinLayers
  <2>4. OnionJoin(to, c) = <<LayerJoin(to[1], c[1])>>
    BY <2>3 DEF Onions
  <2> QED
    BY <2>1, <2>2, <2>4
<1> QED
  BY <1>1, <1>2, <1>3, <1>4 DEF EdgeKinds

-----------------------------------------------------------------------------
(***************************************************************************)
(* Edges, and what the preprocessing of a function does to them.           *)
(***************************************************************************)

\* Kinds of values that edges lead to.
Flowing == UniformKinds \cup {"load", "function"}

\* The edges to one user.
LEMMA InInduced ==
  ASSUME NEW p, NEW l, NEW r, NEW e
  PROVE  e \in InducedEdges(p, l, r) <=>
           \/ p.kind[r] \in UniformKinds /\ e = Edge(l, r, "uniform")
           \/ p.kind[r] = "load" /\ e = Edge(l, r, "load")
           \/ p.kind[r] = "store" /\ p.ops[r][1] = l
                /\ \E o \in p.pts[p.ops[r][2]] : e = Edge(l, o, "store")
           \/ p.kind[r] = "ret" /\ e = Edge(l, p.fn[r], "uniform")
<1>1. CASE p.kind[r] \in UniformKinds
  <2>1. p.kind[r] \notin {"load", "store", "ret"}
    BY <1>1 DEF UniformKinds
  <2>2. InducedEdges(p, l, r) = {Edge(l, r, "uniform")}
    BY <1>1, <2>1 DEF InducedEdges
  <2> QED
    BY <1>1, <2>1, <2>2
<1>2. CASE p.kind[r] = "load"
  <2>1. p.kind[r] \notin UniformKinds
    BY <1>2 DEF UniformKinds
  <2>2. InducedEdges(p, l, r) = {Edge(l, r, "load")}
    BY <1>2, <2>1 DEF InducedEdges
  <2> QED
    BY <1>2, <2>1, <2>2
<1>3. CASE p.kind[r] = "store"
  <2>1. p.kind[r] \notin UniformKinds
    BY <1>3 DEF UniformKinds
  <2>2. InducedEdges(p, l, r) =
          {Edge(l, o, "store") : o \in IF p.ops[r][1] = l THEN p.pts[p.ops[r][2]] ELSE {}}
    BY <1>3, <2>1 DEF InducedEdges
  <2> QED
    BY <1>3, <2>1, <2>2
<1>4. CASE p.kind[r] = "ret"
  <2>1. p.kind[r] \notin UniformKinds
    BY <1>4 DEF UniformKinds
  <2>2. InducedEdges(p, l, r) = {Edge(l, p.fn[r], "uniform")}
    BY <1>4, <2>1 DEF InducedEdges
  <2> QED
    BY <1>4, <2>1, <2>2
<1>5. CASE p.kind[r] \notin UniformKinds \cup {"load", "store", "ret"}
  <2>1. InducedEdges(p, l, r) = {}
    BY <1>5 DEF InducedEdges
  <2> QED
    BY <1>5, <2>1
<1> QED
  BY <1>1, <1>2, <1>3, <1>4, <1>5

\* The edges of a value: to users, from a function to its calls, and from
\* arguments to parameters.
LEMMA InEdges ==
  ASSUME NEW p, NEW v, NEW e
  PROVE  e \in Edges(p, v) <=>
           \/ \E u \in Users(p, v) : p.kind[u] # "call" /\ e \in InducedEdges(p, v, u)
           \/ \E c \in DOMAIN p.callee : p.callee[c] = v /\ e = Edge(v, c, "uniform")
           \/ \E c \in DOMAIN p.callee : ~Lamp(p, c) /\ \E i \in DOMAIN p.ops[c] :
                p.ops[c][i] = v /\ e = Edge(v, p.formals[p.callee[c]][i], "uniform")
<1> DEFINE U == UNION {InducedEdges(p, v, u) : u \in {w \in Users(p, v) : p.kind[w] # "call"}}
           F == {Edge(v, c, "uniform") : c \in {d \in DOMAIN p.callee : p.callee[d] = v}}
           A(c) == {Edge(v, p.formals[p.callee[c]][i], "uniform") :
                       i \in {j \in DOMAIN p.ops[c] : p.ops[c][j] = v}}
           P == UNION {A(c) : c \in {d \in DOMAIN p.callee : ~Lamp(p, d) /\ v \in Range(p.ops[d])}}
<1>1. e \in U <=> \E u \in Users(p, v) : p.kind[u] # "call" /\ e \in InducedEdges(p, v, u)
  OBVIOUS
<1>2. e \in F <=> \E c \in DOMAIN p.callee : p.callee[c] = v /\ e = Edge(v, c, "uniform")
  OBVIOUS
<1>3. ASSUME NEW c
      PROVE  e \in A(c) <=> \E i \in DOMAIN p.ops[c] :
                p.ops[c][i] = v /\ e = Edge(v, p.formals[p.callee[c]][i], "uniform")
  OBVIOUS
<1>4. ASSUME NEW c, e \in A(c)
      PROVE  v \in Range(p.ops[c])
  BY <1>3, <1>4 DEF Range
<1>5. Edges(p, v) = (U \cup F) \cup P
  BY DEF Edges
<1> HIDE DEF U, F, A
<1>6. e \in P <=> \E c \in DOMAIN p.callee : ~Lamp(p, c) /\ e \in A(c)
  BY <1>4
<1> QED
  BY <1>1, <1>2, <1>3, <1>5, <1>6

\* Edges lead from the value to values of the program that have a type.
LEMMA EdgeIs ==
  ASSUME NEW p, WellFormed(p), NEW v \in Values(p), NEW e \in Edges(p, v)
  PROVE  /\ e.from = v /\ e.to \in Values(p) /\ e.ty \in EdgeKinds
         /\ p.kind[e.to] \in Flowing
         /\ p.kind[e.to] = "cmp" => e.ty = "uniform"
<1>1. ASSUME NEW u \in Users(p, v), e \in InducedEdges(p, v, u)
      PROVE  /\ e.from = v /\ e.to \in Values(p) /\ e.ty \in EdgeKinds
             /\ p.kind[e.to] \in Flowing
             /\ p.kind[e.to] = "cmp" => e.ty = "uniform"
  <2>1. u \in Values(p)
    BY DEF Users
  <2>2. CASE p.kind[u] \in UniformKinds /\ e = Edge(v, u, "uniform")
    BY <2>1, <2>2 DEF Edge, EdgeKinds, Flowing
  <2>3. CASE p.kind[u] = "load" /\ e = Edge(v, u, "load")
    BY <2>1, <2>3 DEF Edge, EdgeKinds, Flowing
  <2>4. CASE p.kind[u] = "store" /\ \E o \in p.pts[p.ops[u][2]] : e = Edge(v, o, "store")
    <3>1. PICK o \in p.pts[p.ops[u][2]] : e = Edge(v, o, "store")
      BY <2>4
    <3>2. p.ops[u][2] \in DOMAIN p.pts
      BY <2>1, <2>4 DEF WellFormed
    <3>3. o \in Values(p) /\ p.kind[o] \in Objects
      BY <3>2 DEF WellFormed
    <3>4. p.kind[o] \in Flowing /\ p.kind[o] # "cmp"
      BY <3>3 DEF Objects, Flowing, UniformKinds
    <3> QED
      BY <3>1, <3>3, <3>4 DEF Edge, EdgeKinds
  <2>5. CASE p.kind[u] = "ret" /\ e = Edge(v, p.fn[u], "uniform")
    <3>1. p.fn[u] \in Values(p) /\ p.kind[p.fn[u]] = "function"
      BY <2>1, <2>5 DEF WellFormed
    <3> QED
      BY <2>5, <3>1 DEF Edge, EdgeKinds, Flowing
  <2> QED
    BY <1>1, <2>2, <2>3, <2>4, <2>5, InInduced
<1>2. ASSUME NEW c \in DOMAIN p.callee, e = Edge(v, c, "uniform")
      PROVE  /\ e.from = v /\ e.to \in Values(p) /\ e.ty \in EdgeKinds
             /\ p.kind[e.to] \in Flowing
             /\ p.kind[e.to] = "cmp" => e.ty = "uniform"
  <2>1. c \in Values(p) /\ p.kind[c] = "call"
    BY DEF WellFormed
  <2> QED
    BY <1>2, <2>1 DEF Edge, EdgeKinds, Flowing, UniformKinds
<1>3. ASSUME NEW c \in DOMAIN p.callee, ~Lamp(p, c), NEW i \in DOMAIN p.ops[c],
             e = Edge(v, p.formals[p.callee[c]][i], "uniform")
      PROVE  /\ e.from = v /\ e.to \in Values(p) /\ e.ty \in EdgeKinds
             /\ p.kind[e.to] \in Flowing
             /\ p.kind[e.to] = "cmp" => e.ty = "uniform"
  <2> DEFINE g == p.callee[c]
             F == p.formals[g]
  <2>1. /\ c \in Values(p) /\ g \in DOMAIN p.formals
        /\ Len(p.ops[c]) <= Len(F)
    BY <1>3 DEF WellFormed, Lamp
  <2>2. F \in Seq({x \in Values(p) : p.kind[x] = "arg"}) /\ p.ops[c] \in Seq(Values(p))
    BY <2>1 DEF WellFormed
  <2> HIDE DEF F
  <2>3. i \in 1 .. Len(F)
    BY <2>1, <2>2
  <2>4. F[i] \in {x \in Values(p) : p.kind[x] = "arg"}
    BY <2>2, <2>3
  <2> QED
    BY <1>3, <2>4 DEF Edge, EdgeKinds, Flowing, UniformKinds, F
<1> QED
  BY <1>1, <1>2, <1>3, InEdges

\* An edge is what its ends and its kind make it.
LEMMA EdgeShape ==
  ASSUME NEW p, NEW v, NEW e \in Edges(p, v)
  PROVE  e = Edge(v, e.to, e.ty)
<1>1. ASSUME NEW u, e \in InducedEdges(p, v, u)
      PROVE  \E r, t : e = Edge(v, r, t)
  BY <1>1, InInduced
<1>2. \E r, t : e = Edge(v, r, t)
  BY <1>1, InEdges
<1> QED
  BY <1>2 DEF Edge

\* There are finitely many.
LEMMA EdgesFinite ==
  ASSUME NEW p, WellFormed(p), NEW v \in Values(p)
  PROVE  IsFiniteSet(Edges(p, v))
<1> DEFINE S == Values(p) \X EdgeKinds
           T == {Edge(v, x[1], x[2]) : x \in S}
           f == [x \in S |-> Edge(v, x[1], x[2])]
<1>1. IsFiniteSet(Values(p))
  BY DEF WellFormed
<1>2. IsFiniteSet(EdgeKinds)
  <2>1. IsFiniteSet({})
    BY FS_EmptySet
  <2>2. IsFiniteSet({"uniform"})
    BY FS_Singleton
  <2>3. IsFiniteSet({"uniform"} \cup {"load"})
    BY <2>2, FS_AddElement
  <2>4. IsFiniteSet(({"uniform"} \cup {"load"}) \cup {"store"})
    BY <2>3, FS_AddElement
  <2>5. EdgeKinds = ({"uniform"} \cup {"load"}) \cup {"store"}
    BY DEF EdgeKinds
  <2> QED
    BY <2>4, <2>5
<1>3. IsFiniteSet(S)
  BY <1>1, <1>2, FS_Product
<1>4. f \in Surjection(S, T)
  BY DEF Surjection
<1>5. IsFiniteSet(T)
  <2> HIDE DEF S, T, f
  <2> QED
    BY <1>3, <1>4, FS_Surjection
<1>6. Edges(p, v) \subseteq T
  <2> SUFFICES ASSUME NEW e \in Edges(p, v) PROVE e \in T
    OBVIOUS
  <2>1. e.from = v /\ e.to \in Values(p) /\ e.ty \in EdgeKinds
    BY EdgeIs
  <2>2. e = Edge(v, e.to, e.ty)
    BY EdgeShape
  <2>3. <<e.to, e.ty>> \in S
    BY <2>1
  <2> QED
    BY <2>2, <2>3
<1> QED
  BY <1>5, <1>6, FS_Subset

\* A sequence with a length has elements.
LEMMA SomeLen ==
  ASSUME NEW T, NEW s \in Seq(T), NEW n \in Nat \ {0}, Len(s) = n
  PROVE  s # << >> /\ 1 \in DOMAIN s
OBVIOUS

\* The elements behind the first.
LEMMA TailIs ==
  ASSUME NEW T, NEW s \in Seq(T), s # << >>
  PROVE  /\ Tail(s) \in Seq(T)
         /\ \A i \in DOMAIN Tail(s) : i + 1 \in DOMAIN s /\ Tail(s)[i] = s[i + 1]
OBVIOUS

\* What lowering the selects of a function does: to the selects, to the
\* branches it makes, and to nothing else.
LEMMA SelectsLowered ==
  ASSUME NEW p, WellFormed(p), NEW f
  PROVE  LET q == LowerSelects(p, f)
             S == {v \in Values(p) : p.fn[v] = f /\ p.kind[v] = "select"}
         IN  /\ Values(q) = Values(p) /\ DOMAIN q = DOMAIN p /\ DOMAIN q.ops = Values(p)
             /\ \A x \in DOMAIN p : x \notin {"kind", "ops"} => q[x] = p[x]
             /\ \A u \in S : q.kind[u] = "phi" /\ q.ops[u] = Tail(p.ops[u])
             /\ \A u \in Values(p) \ S :
                  \/ q.kind[u] = p.kind[u] /\ q.ops[u] = p.ops[u]
                  \/ /\ p.kind[u] \in {"unborn", "branch"} /\ q.kind[u] = "branch"
                     /\ \E b \in S : p.newbr[b] = u /\ p.fn[u] = p.fn[b] /\ q.ops[u] = <<p.ops[b][1]>>
<1> DEFINE S == {v \in Values(p) : p.fn[v] = f /\ p.kind[v] = "select"}
           K == [v \in Values(p) |-> IF v \in S THEN "phi"
                    ELSE IF \E b \in S : p.newbr[b] = v THEN "branch" ELSE p.kind[v]]
           O == [v \in Values(p) |->
                    IF \E b \in S : p.newbr[b] = v
                    THEN <<p.ops[CHOOSE b \in S : p.newbr[b] = v][1]>>
                    ELSE IF v \in S THEN Tail(p.ops[v]) ELSE p.ops[v]]
           q == LowerSelects(p, f)
<1>1. q = [p EXCEPT !.kind = K, !.ops = O]
  BY DEF LowerSelects, Rewrite
<1>2. {"kind", "fn", "ops", "nest", "callee", "formals", "pts", "lamp", "lowered", "newbr"} \subseteq DOMAIN p
  BY DEF WellFormed
<1>3. ASSUME NEW b \in S, p.newbr[b] \in Values(p)
      PROVE  p.kind[p.newbr[b]] \in {"unborn", "branch"} /\ p.fn[p.newbr[b]] = p.fn[b]
  <2>1. b \in DOMAIN p.newbr \cap Values(p)
    BY DEF WellFormed
  <2> QED
    BY <1>3, <2>1 DEF WellFormed
<1> HIDE DEF K, O, q
<1>4. /\ q.kind = K /\ q.ops = O /\ DOMAIN q = DOMAIN p
      /\ \A x \in DOMAIN p : x \notin {"kind", "ops"} => q[x] = p[x]
  BY <1>1, <1>2
<1>5. Values(q) = Values(p) /\ DOMAIN q.ops = Values(p)
  BY <1>4 DEF Values, K, O
<1>6. ASSUME NEW u \in S
      PROVE  q.kind[u] = "phi" /\ q.ops[u] = Tail(p.ops[u])
  <2>1. \A b \in S : p.newbr[b] # u
    BY <1>3
  <2> QED
    BY <1>4, <2>1 DEF K, O
<1>7. ASSUME NEW u \in Values(p) \ S
      PROVE  \/ q.kind[u] = p.kind[u] /\ q.ops[u] = p.ops[u]
             \/ /\ p.kind[u] \in {"unborn", "branch"} /\ q.kind[u] = "branch"
                /\ \E b \in S : p.newbr[b] = u /\ p.fn[u] = p.fn[b] /\ q.ops[u] = <<p.ops[b][1]>>
  <2>1. CASE \E b \in S : p.newbr[b] = u
    <3> DEFINE b == CHOOSE c \in S : p.newbr[c] = u
    <3>1. b \in S /\ p.newbr[b] = u
      BY <2>1
    <3>2. q.kind[u] = "branch" /\ q.ops[u] = <<p.ops[b][1]>>
      BY <1>4, <2>1 DEF K, O
    <3> HIDE DEF b
    <3> QED
      BY <1>3, <3>1, <3>2
  <2>2. CASE ~(\E b \in S : p.newbr[b] = u)
    BY <1>4, <2>2 DEF K, O
  <2> QED
    BY <2>1, <2>2
<1> HIDE DEF S
<1> QED
  BY <1>4, <1>5, <1>6, <1>7 DEF S, q

\* What lowering the comparisons of a function does.
LEMMA CmpsLowered ==
  ASSUME NEW p, WellFormed(p), NEW f
  PROVE  LET q == LowerCmps(p, f)
             C == {c \in Values(p) : /\ p.fn[c] = f /\ p.kind[c] = "cmp"
                                     /\ \E u \in Users(p, c) : p.kind[u] # "branch"}
         IN  /\ Values(q) = Values(p) /\ DOMAIN q = DOMAIN p /\ DOMAIN q.ops = Values(p)
             /\ \A x \in DOMAIN p : x \notin {"kind", "ops"} => q[x] = p[x]
             /\ \A u \in Values(p) :
                  \/ /\ q.kind[u] = p.kind[u]
                     /\ q.ops[u] = [i \in DOMAIN p.ops[u] |->
                                      IF p.ops[u][i] \in C THEN p.lowered ELSE p.ops[u][i]]
                  \/ /\ p.kind[u] \in {"unborn", "branch"} /\ q.kind[u] = "branch"
                     /\ \E b \in C : p.newbr[b] = u /\ p.fn[u] = p.fn[b] /\ q.ops[u] = <<b>>
<1> DEFINE C == {c \in Values(p) : /\ p.fn[c] = f /\ p.kind[c] = "cmp"
                                   /\ \E u \in Users(p, c) : p.kind[u] # "branch"}
           K == [v \in Values(p) |-> IF v \in {} THEN "phi"
                    ELSE IF \E b \in C : p.newbr[b] = v THEN "branch" ELSE p.kind[v]]
           cut(v) == [i \in DOMAIN p.ops[v] |->
                        IF p.ops[v][i] \in C THEN p.lowered ELSE p.ops[v][i]]
           O == [v \in Values(p) |->
                    IF \E b \in C : p.newbr[b] = v
                    THEN <<CHOOSE b \in C : p.newbr[b] = v>> ELSE cut(v)]
           q == LowerCmps(p, f)
<1>1. q = [p EXCEPT !.kind = K, !.ops = O]
  BY DEF LowerCmps, Rewrite
<1>2. {"kind", "fn", "ops", "nest", "callee", "formals", "pts", "lamp", "lowered", "newbr"} \subseteq DOMAIN p
  BY DEF WellFormed
<1>3. ASSUME NEW b \in C, p.newbr[b] \in Values(p)
      PROVE  p.kind[p.newbr[b]] \in {"unborn", "branch"} /\ p.fn[p.newbr[b]] = p.fn[b]
  <2>1. b \in DOMAIN p.newbr \cap Values(p)
    BY DEF WellFormed
  <2> QED
    BY <1>3, <2>1 DEF WellFormed
<1> HIDE DEF K, O, q
<1>4. /\ q.kind = K /\ q.ops = O /\ DOMAIN q = DOMAIN p
      /\ \A x \in DOMAIN p : x \notin {"kind", "ops"} => q[x] = p[x]
  BY <1>1, <1>2
<1>5. Values(q) = Values(p) /\ DOMAIN q.ops = Values(p)
  BY <1>4 DEF Values, K, O
<1>6. ASSUME NEW u \in Values(p)
      PROVE  \/ q.kind[u] = p.kind[u] /\ q.ops[u] = cut(u)
             \/ /\ p.kind[u] \in {"unborn", "branch"} /\ q.kind[u] = "branch"
                /\ \E b \in C : p.newbr[b] = u /\ p.fn[u] = p.fn[b] /\ q.ops[u] = <<b>>
  <2> HIDE DEF cut, C
  <2>1. CASE \E b \in C : p.newbr[b] = u
    <3> DEFINE b == CHOOSE c \in C : p.newbr[c] = u
    <3>1. b \in C /\ p.newbr[b] = u
      BY <2>1
    <3>2. q.kind[u] = "branch" /\ q.ops[u] = <<b>>
      BY <1>4, <2>1 DEF K, O
    <3> HIDE DEF b
    <3> QED
      BY <1>3, <3>1, <3>2
  <2>2. CASE ~(\E b \in C : p.newbr[b] = u)
    BY <1>4, <2>2 DEF K, O
  <2> QED
    BY <2>1, <2>2
<1> HIDE DEF C
<1> QED
  BY <1>4, <1>5, <1>6 DEF C, q

\* The fields that the preprocessing leaves alone.
SameBut(p, q) ==
  /\ Values(q) = Values(p) /\ DOMAIN q = DOMAIN p /\ DOMAIN q.ops = Values(p)
  /\ q.fn = p.fn /\ q.nest = p.nest /\ q.callee = p.callee /\ q.formals = p.formals
  /\ q.pts = p.pts /\ q.lamp = p.lamp /\ q.lowered = p.lowered /\ q.newbr = p.newbr

\* Programs that differ in kinds and operands agree in the other fields.
LEMMA OthersSame ==
  ASSUME NEW p, WellFormed(p), NEW q,
         Values(q) = Values(p), DOMAIN q = DOMAIN p, DOMAIN q.ops = Values(p),
         \A x \in DOMAIN p : x \notin {"kind", "ops"} => q[x] = p[x]
  PROVE  SameBut(p, q)
<1>1. {"kind", "fn", "ops", "nest", "callee", "formals", "pts", "lamp", "lowered", "newbr"} \subseteq DOMAIN p
  BY DEF WellFormed
<1> QED
  BY <1>1 DEF SameBut

\* A program stays well-formed when operands stay in their functions, and the
\* values that must be of some kind keep theirs.
LEMMA WellFormedKept ==
  ASSUME NEW p, WellFormed(p), NEW q, SameBut(p, q),
         \A v \in Values(p) :
           /\ q.ops[v] \in Seq(Values(p))
           /\ \A o \in Range(q.ops[v]) : p.fn[o] \in {p.fn[v], "none"}
           /\ \/ /\ q.kind[v] = p.kind[v] /\ Len(q.ops[v]) = Len(p.ops[v])
                 /\ p.kind[v] = "store" => q.ops[v][2] = p.ops[v][2]
              \/ p.kind[v] = "select" /\ q.kind[v] = "phi"
              \/ p.kind[v] \in {"unborn", "branch"} /\ q.kind[v] = "branch"
  PROVE  WellFormed(q)
<1>1. ASSUME NEW v \in Values(p)
      PROVE  /\ q.nest[v] \in Nat /\ q.ops[v] \in Seq(Values(q))
             /\ \A o \in Range(q.ops[v]) : q.fn[o] \in {q.fn[v], "none"}
             /\ q.kind[v] = "cmp" => q.nest[v] = 0
             /\ q.kind[v] = "select" => Len(q.ops[v]) = 3
             /\ q.kind[v] = "store" => /\ Len(q.ops[v]) = 2 /\ q.ops[v][2] \in DOMAIN q.pts
                                       /\ q.kind[q.ops[v][2]] # "cmp"
             /\ q.kind[v] = "ret" => q.fn[v] \in Values(q) /\ q.kind[q.fn[v]] = "function"
             /\ q.kind[v] \in {"cmp", "select"} => v \in DOMAIN q.newbr
  <2>1. /\ p.nest[v] \in Nat
        /\ p.kind[v] = "cmp" => p.nest[v] = 0
        /\ p.kind[v] = "select" => Len(p.ops[v]) = 3
        /\ p.kind[v] = "store" => /\ Len(p.ops[v]) = 2 /\ p.ops[v][2] \in DOMAIN p.pts
                                  /\ p.kind[p.ops[v][2]] # "cmp"
        /\ p.kind[v] = "ret" => p.fn[v] \in Values(p) /\ p.kind[p.fn[v]] = "function"
        /\ p.kind[v] \in {"cmp", "select"} => v \in DOMAIN p.newbr
        /\ p.ops[v] \in Seq(Values(p))
    BY DEF WellFormed
  <2>2. CASE q.kind[v] = "store"
    <3>1. p.kind[v] = "store" /\ Len(q.ops[v]) = Len(p.ops[v]) /\ q.ops[v][2] = p.ops[v][2]
      BY <2>2
    <3>2. p.ops[v][2] \in Values(p)
      BY <2>1, <3>1
    <3>3. q.kind[p.ops[v][2]] # "cmp"
      BY <2>1, <3>1, <3>2
    <3> QED
      BY <2>1, <2>2, <3>1, <3>3 DEF SameBut
  <2>3. CASE q.kind[v] = "ret"
    <3>1. p.kind[v] = "ret"
      BY <2>3
    <3>2. p.fn[v] \in Values(p) /\ q.kind[p.fn[v]] = "function"
      BY <2>1, <3>1
    <3> QED
      BY <2>1, <2>3, <3>2 DEF SameBut
  <2>4. CASE q.kind[v] \notin {"store", "ret"}
    <3>1. q.kind[v] \in {"cmp", "select"} => q.kind[v] = p.kind[v] /\ Len(q.ops[v]) = Len(p.ops[v])
      OBVIOUS
    <3> QED
      BY <2>1, <2>4, <3>1 DEF SameBut
  <2> QED
    BY <2>2, <2>3, <2>4
<1>2. ASSUME NEW c \in DOMAIN q.callee
      PROVE  /\ c \in Values(q) /\ q.kind[c] = "call"
             /\ q.callee[c] \notin q.lamp => /\ q.callee[c] \in DOMAIN q.formals
                                            /\ Len(q.ops[c]) <= Len(q.formals[q.callee[c]])
  <2>1. /\ c \in Values(p) /\ p.kind[c] = "call"
        /\ p.callee[c] \notin p.lamp => /\ p.callee[c] \in DOMAIN p.formals
                                       /\ Len(p.ops[c]) <= Len(p.formals[p.callee[c]])
    BY DEF WellFormed, SameBut
  <2>2. q.kind[c] = p.kind[c] /\ Len(q.ops[c]) = Len(p.ops[c])
    BY <2>1
  <2> QED
    BY <2>1, <2>2 DEF SameBut
<1>3. \A g \in DOMAIN q.formals : q.formals[g] \in Seq({v \in Values(q) : q.kind[v] = "arg"})
  <2>1. {v \in Values(p) : p.kind[v] = "arg"} = {v \in Values(q) : q.kind[v] = "arg"}
    BY DEF SameBut
  <2> QED
    BY <2>1 DEF WellFormed, SameBut
<1>4. \A x \in DOMAIN q.pts : q.pts[x] \subseteq {v \in Values(q) : q.kind[v] \in Objects}
  <2>1. {v \in Values(p) : p.kind[v] \in Objects} \subseteq {v \in Values(q) : q.kind[v] \in Objects}
    BY DEF SameBut, Objects
  <2> QED
    BY <2>1 DEF WellFormed, SameBut
<1>5. q.lowered \in Values(q) /\ q.kind[q.lowered] = "const" /\ q.fn[q.lowered] = "none"
  <2>1. p.lowered \in Values(p) /\ p.kind[p.lowered] = "const" /\ p.fn[p.lowered] = "none"
    BY DEF WellFormed
  <2> QED
    BY <2>1 DEF SameBut
<1>6. \A b \in DOMAIN q.newbr \cap Values(q) : q.newbr[b] \in Values(q) =>
          q.kind[q.newbr[b]] \in {"unborn", "branch"} /\ q.fn[q.newbr[b]] = q.fn[b]
  <2> SUFFICES ASSUME NEW b \in DOMAIN p.newbr \cap Values(p), p.newbr[b] \in Values(p)
               PROVE  q.kind[p.newbr[b]] \in {"unborn", "branch"} /\ p.fn[p.newbr[b]] = p.fn[b]
    BY DEF SameBut
  <2>1. p.kind[p.newbr[b]] \in {"unborn", "branch"} /\ p.fn[p.newbr[b]] = p.fn[b]
    BY DEF WellFormed
  <2>2. p.kind[p.newbr[b]] # "select"
    BY <2>1
  <2> QED
    BY <2>1, <2>2
<1>7. /\ {"kind", "fn", "ops", "nest", "callee", "formals", "pts", "lamp", "lowered", "newbr"} \subseteq DOMAIN q
      /\ IsFiniteSet(Values(q))
      /\ DOMAIN q.fn = Values(q) /\ DOMAIN q.ops = Values(q) /\ DOMAIN q.nest = Values(q)
  BY DEF WellFormed, SameBut
<1>8. Values(q) = Values(p)
  BY DEF SameBut
<1> QED
  BY <1>1, <1>2, <1>3, <1>4, <1>5, <1>6, <1>7, <1>8 DEF WellFormed

HasUser(p, u, v) == \E i \in DOMAIN p.ops[u] : p.ops[u][i] = v

\* The users of v are what they were, up to branches.
UsersKept(p, q, v) ==
  \A u \in Values(p) :
    \/ /\ q.kind[u] = p.kind[u] /\ DOMAIN q.ops[u] = DOMAIN p.ops[u]
       /\ \A i \in DOMAIN p.ops[u] : q.ops[u][i] = v <=> p.ops[u][i] = v
       /\ p.kind[u] = "store" => q.ops[u][2] = p.ops[u][2]
    \/ /\ p.kind[u] # "call" /\ ~HasUser(q, u, v)
       /\ HasUser(p, u, v) => p.kind[u] = "branch"

\* Then its edges are, too.
LEMMA EdgesKept ==
  ASSUME NEW p, WellFormed(p), NEW q, WellFormed(q), SameBut(p, q),
         NEW v \in Values(p), UsersKept(p, q, v)
  PROVE  /\ Edges(q, v) = Edges(p, v)
         /\ Unsupported(q, v) => Unsupported(p, v)
<1>1. /\ Values(q) = Values(p) /\ q.fn = p.fn /\ q.callee = p.callee
      /\ q.formals = p.formals /\ q.pts = p.pts /\ q.lamp = p.lamp
  BY DEF SameBut
<1>2. \A u : u \in Users(p, v) <=> u \in Values(p) /\ HasUser(p, u, v)
  BY DEF Users, HasUser
<1>3. \A u : u \in Users(q, v) <=> u \in Values(p) /\ HasUser(q, u, v)
  BY <1>1 DEF Users, HasUser
<1>4. ASSUME NEW u \in Values(p), NEW e
      PROVE  HasUser(q, u, v) /\ q.kind[u] # "call" /\ e \in InducedEdges(q, v, u)
               <=> HasUser(p, u, v) /\ p.kind[u] # "call" /\ e \in InducedEdges(p, v, u)
  <2>1. CASE /\ q.kind[u] = p.kind[u] /\ DOMAIN q.ops[u] = DOMAIN p.ops[u]
             /\ \A i \in DOMAIN p.ops[u] : q.ops[u][i] = v <=> p.ops[u][i] = v
             /\ p.kind[u] = "store" => q.ops[u][2] = p.ops[u][2]
    <3>1. HasUser(q, u, v) <=> HasUser(p, u, v)
      BY <2>1 DEF HasUser
    <3>2. p.kind[u] = "store" => (q.ops[u][1] = v <=> p.ops[u][1] = v)
      <4>1. p.kind[u] = "store" => Len(p.ops[u]) = 2 /\ p.ops[u] \in Seq(Values(p))
        BY DEF WellFormed
      <4>2. p.kind[u] = "store" => 1 \in DOMAIN p.ops[u]
        BY <4>1
      <4> QED
        BY <2>1, <4>2
    <3>3. e \in InducedEdges(q, v, u) <=> e \in InducedEdges(p, v, u)
      BY <1>1, <2>1, <3>2, InInduced
    <3> QED
      BY <2>1, <3>1, <3>3
  <2>2. CASE /\ p.kind[u] # "call" /\ ~HasUser(q, u, v)
             /\ HasUser(p, u, v) => p.kind[u] = "branch"
    <3>1. p.kind[u] = "branch" => e \notin InducedEdges(p, v, u)
      BY InInduced DEF UniformKinds
    <3> QED
      BY <2>2, <3>1
  <2> QED
    BY <2>1, <2>2 DEF UsersKept
<1>5. \A c \in DOMAIN p.callee : /\ Lamp(q, c) <=> Lamp(p, c)
                                /\ DOMAIN q.ops[c] = DOMAIN p.ops[c]
                                /\ \A i \in DOMAIN p.ops[c] : q.ops[c][i] = v <=> p.ops[c][i] = v
  <2> SUFFICES ASSUME NEW c \in DOMAIN p.callee
               PROVE  /\ Lamp(q, c) <=> Lamp(p, c)
                      /\ DOMAIN q.ops[c] = DOMAIN p.ops[c]
                      /\ \A i \in DOMAIN p.ops[c] : q.ops[c][i] = v <=> p.ops[c][i] = v
    OBVIOUS
  <2>1. c \in Values(p) /\ p.kind[c] = "call"
    BY DEF WellFormed
  <2> QED
    BY <1>1, <2>1 DEF UsersKept, Lamp
<1>6. \A e : e \in Edges(q, v) <=> e \in Edges(p, v)
  <2> SUFFICES ASSUME NEW e PROVE e \in Edges(q, v) <=> e \in Edges(p, v)
    OBVIOUS
  <2>1. (\E u \in Users(q, v) : q.kind[u] # "call" /\ e \in InducedEdges(q, v, u))
          <=> \E u \in Users(p, v) : p.kind[u] # "call" /\ e \in InducedEdges(p, v, u)
    BY <1>2, <1>3, <1>4
  <2>2. (\E c \in DOMAIN q.callee : q.callee[c] = v /\ e = Edge(v, c, "uniform"))
          <=> \E c \in DOMAIN p.callee : p.callee[c] = v /\ e = Edge(v, c, "uniform")
    BY <1>1
  <2>3. (\E c \in DOMAIN q.callee : ~Lamp(q, c) /\ \E i \in DOMAIN q.ops[c] :
                q.ops[c][i] = v /\ e = Edge(v, q.formals[q.callee[c]][i], "uniform"))
          <=> \E c \in DOMAIN p.callee : ~Lamp(p, c) /\ \E i \in DOMAIN p.ops[c] :
                p.ops[c][i] = v /\ e = Edge(v, p.formals[p.callee[c]][i], "uniform")
    BY <1>1, <1>5
  <2> QED
    BY <2>1, <2>2, <2>3, InEdges
<1>7. Edges(q, v) = Edges(p, v)
  BY <1>6
<1>8. ASSUME Unsupported(q, v)
      PROVE  Unsupported(p, v)
  <2> DEFINE Fine == UniformKinds \cup IgnoredKinds \cup {"load", "store", "ret", "intrinsic"}
  <2>1. PICK u \in Users(q, v) : q.kind[u] \notin Fine
    BY <1>8 DEF Unsupported
  <2>2. u \in Values(p) /\ HasUser(q, u, v)
    BY <1>3
  <2>3. q.kind[u] = p.kind[u] /\ HasUser(p, u, v)
    BY <2>2 DEF UsersKept, HasUser
  <2> QED
    BY <1>2, <2>1, <2>2, <2>3 DEF Unsupported
<1> QED
  BY <1>7, <1>8

\* Selects of a function make way for phis and branches: the program stays
\* well-formed, no value that carries types changes its kind, and other values
\* whose users are supported keep their edges.
LEMMA SelectsKeep ==
  ASSUME NEW p, WellFormed(p), NEW f
  PROVE  LET q == LowerSelects(p, f)
         IN  /\ WellFormed(q) /\ SameBut(p, q)
             /\ \A v \in Values(p) : p.kind[v] \in Flowing => q.kind[v] = p.kind[v]
             /\ \A v \in Values(p) : q.kind[v] = "cmp" => p.kind[v] = "cmp"
             /\ \A v \in Values(p) : ~Unsupported(p, v) => UsersKept(p, q, v)
<1> DEFINE q == LowerSelects(p, f)
           S == {v \in Values(p) : p.fn[v] = f /\ p.kind[v] = "select"}
<1>1. /\ Values(q) = Values(p) /\ DOMAIN q = DOMAIN p /\ DOMAIN q.ops = Values(p)
      /\ \A x \in DOMAIN p : x \notin {"kind", "ops"} => q[x] = p[x]
  BY SelectsLowered
<1>2. \A u \in S : q.kind[u] = "phi" /\ q.ops[u] = Tail(p.ops[u])
  BY SelectsLowered
<1>3. \A u \in Values(p) \ S :
        \/ q.kind[u] = p.kind[u] /\ q.ops[u] = p.ops[u]
        \/ /\ p.kind[u] \in {"unborn", "branch"} /\ q.kind[u] = "branch"
           /\ \E b \in S : p.fn[u] = p.fn[b] /\ q.ops[u] = <<p.ops[b][1]>>
  BY SelectsLowered
<1> HIDE DEF q
<1>4. SameBut(p, q)
  BY <1>1, OthersSame
<1>5. \A u \in S : /\ u \in Values(p) /\ p.kind[u] = "select"
                   /\ p.ops[u] \in Seq(Values(p)) /\ p.ops[u] # << >> /\ 1 \in DOMAIN p.ops[u]
  <2> SUFFICES ASSUME NEW u \in S
               PROVE  p.ops[u] \in Seq(Values(p)) /\ p.ops[u] # << >> /\ 1 \in DOMAIN p.ops[u]
    OBVIOUS
  <2>1. p.ops[u] \in Seq(Values(p)) /\ Len(p.ops[u]) = 3
    BY DEF WellFormed
  <2>2. 3 \in Nat \ {0}
    OBVIOUS
  <2> QED
    BY <2>1, <2>2, SomeLen, Zenon
<1>6. \A u \in Values(p) : /\ p.ops[u] \in Seq(Values(p))
                           /\ \A o \in Range(p.ops[u]) : p.fn[o] \in {p.fn[u], "none"}
  BY DEF WellFormed
<1>7. \A b \in S : p.ops[b][1] \in Values(p) /\ p.fn[p.ops[b][1]] \in {p.fn[b], "none"}
  BY <1>5, <1>6 DEF Range
<1>8. \A u \in S : \A i \in DOMAIN q.ops[u] :
        i + 1 \in DOMAIN p.ops[u] /\ q.ops[u][i] = p.ops[u][i + 1]
  <2> SUFFICES ASSUME NEW u \in S
               PROVE  \A i \in DOMAIN q.ops[u] :
                        i + 1 \in DOMAIN p.ops[u] /\ q.ops[u][i] = p.ops[u][i + 1]
    OBVIOUS
  <2>1. q.ops[u] = Tail(p.ops[u]) /\ p.ops[u] \in Seq(Values(p)) /\ p.ops[u] # << >>
    BY <1>2, <1>5
  <2> DEFINE t == p.ops[u]
  <2>2. t \in Seq(Values(p)) /\ t # << >>
    BY <2>1
  <2> HIDE DEF t
  <2>3. \A i \in DOMAIN Tail(t) : i + 1 \in DOMAIN t /\ Tail(t)[i] = t[i + 1]
    BY <2>2, TailIs
  <2> QED
    BY <2>1, <2>3 DEF t
<1> HIDE DEF S
<1>9. ASSUME NEW v \in Values(p)
      PROVE  /\ q.ops[v] \in Seq(Values(p))
             /\ \A o \in Range(q.ops[v]) : p.fn[o] \in {p.fn[v], "none"}
             /\ \/ /\ q.kind[v] = p.kind[v] /\ Len(q.ops[v]) = Len(p.ops[v])
                   /\ p.kind[v] = "store" => q.ops[v][2] = p.ops[v][2]
                \/ p.kind[v] = "select" /\ q.kind[v] = "phi"
                \/ p.kind[v] \in {"unborn", "branch"} /\ q.kind[v] = "branch"
  <2>1. CASE v \in S
    <3>1. q.ops[v] \in Seq(Values(p))
      BY <1>2, <1>5, <2>1, TailIs
    <3>2. \A o \in Range(q.ops[v]) : o \in Range(p.ops[v])
      BY <1>8, <2>1 DEF Range
    <3> QED
      BY <1>2, <1>5, <1>6, <2>1, <3>1, <3>2
  <2>2. CASE v \notin S /\ q.kind[v] = p.kind[v] /\ q.ops[v] = p.ops[v]
    BY <1>6, <2>2
  <2>3. CASE /\ p.kind[v] \in {"unborn", "branch"} /\ q.kind[v] = "branch"
             /\ \E b \in S : p.fn[v] = p.fn[b] /\ q.ops[v] = <<p.ops[b][1]>>
    <3>1. PICK b \in S : p.fn[v] = p.fn[b] /\ q.ops[v] = <<p.ops[b][1]>>
      BY <2>3
    <3>2. q.ops[v] \in Seq(Values(p)) /\ \A o \in Range(q.ops[v]) : o = p.ops[b][1]
      BY <1>7, <3>1 DEF Range
    <3> QED
      BY <1>7, <2>3, <3>1, <3>2
  <2> QED
    BY <1>3, <2>1, <2>2, <2>3
<1>10. WellFormed(q)
  BY <1>4, <1>9, WellFormedKept
<1>11. ASSUME NEW v \in Values(p)
       PROVE  /\ p.kind[v] \in Flowing => q.kind[v] = p.kind[v]
              /\ q.kind[v] = "cmp" => p.kind[v] = "cmp"
  BY <1>9 DEF Flowing, UniformKinds
<1>12. ASSUME NEW v \in Values(p), ~Unsupported(p, v)
       PROVE  UsersKept(p, q, v)
  <2>1. ASSUME NEW u \in Values(p), HasUser(p, u, v)
        PROVE  p.kind[u] \notin {"select", "unborn"}
    BY <1>12, <2>1 DEF Unsupported, Users, HasUser, UniformKinds, IgnoredKinds
  <2>2. \A b \in S : p.ops[b][1] # v
    <3> SUFFICES ASSUME NEW b \in S, p.ops[b][1] = v PROVE FALSE
      OBVIOUS
    <3>1. 1 \in DOMAIN p.ops[b]
      BY <1>5
    <3> QED
      BY <1>5, <2>1, <3>1 DEF HasUser
  <2>3. ASSUME NEW u \in S PROVE ~HasUser(p, u, v) /\ ~HasUser(q, u, v) /\ p.kind[u] # "call"
    <3>1. ~HasUser(p, u, v)
      BY <1>5, <2>1
    <3> QED
      BY <1>5, <1>8, <3>1 DEF HasUser
  <2>4. ASSUME NEW u \in Values(p),
               p.kind[u] \in {"unborn", "branch"}, NEW b \in S, q.ops[u] = <<p.ops[b][1]>>
        PROVE  /\ p.kind[u] # "call" /\ ~HasUser(q, u, v)
               /\ HasUser(p, u, v) => p.kind[u] = "branch"
    BY <2>1, <2>2, <2>4 DEF HasUser
  <2> QED
    BY <1>3, <2>3, <2>4 DEF UsersKept
<1> QED
  BY <1>4, <1>10, <1>11, <1>12 DEF q

\* The same of comparisons, but for the values of the function itself: those of
\* its comparisons that are lowered lose their users.
LEMMA CmpsKeep ==
  ASSUME NEW p, WellFormed(p), NEW f
  PROVE  LET q == LowerCmps(p, f)
         IN  /\ WellFormed(q) /\ SameBut(p, q)
             /\ \A v \in Values(p) : p.kind[v] \in Flowing => q.kind[v] = p.kind[v]
             /\ \A v \in Values(p) : q.kind[v] = "cmp" => p.kind[v] = "cmp"
             /\ \A v \in Values(p) :
                  p.fn[v] # f /\ p.kind[v] \in Flowing /\ ~Unsupported(p, v) => UsersKept(p, q, v)
<1> DEFINE q == LowerCmps(p, f)
           C == {c \in Values(p) : /\ p.fn[c] = f /\ p.kind[c] = "cmp"
                                   /\ \E u \in Users(p, c) : p.kind[u] # "branch"}
           cut(u) == [i \in DOMAIN p.ops[u] |->
                        IF p.ops[u][i] \in C THEN p.lowered ELSE p.ops[u][i]]
<1>1. /\ Values(q) = Values(p) /\ DOMAIN q = DOMAIN p /\ DOMAIN q.ops = Values(p)
      /\ \A x \in DOMAIN p : x \notin {"kind", "ops"} => q[x] = p[x]
  BY CmpsLowered
<1>2. \A u \in Values(p) :
        \/ q.kind[u] = p.kind[u] /\ q.ops[u] = cut(u)
        \/ /\ p.kind[u] \in {"unborn", "branch"} /\ q.kind[u] = "branch"
           /\ \E b \in C : p.fn[u] = p.fn[b] /\ q.ops[u] = <<b>>
  BY CmpsLowered
<1>3. \A c \in C : c \in Values(p) /\ p.fn[c] = f /\ p.kind[c] = "cmp"
  OBVIOUS
<1> HIDE DEF q, C
<1>4. SameBut(p, q)
  BY <1>1, OthersSame
<1>5. p.lowered \in Values(p) /\ p.kind[p.lowered] = "const" /\ p.fn[p.lowered] = "none"
  BY DEF WellFormed
<1>6. \A u \in Values(p) : /\ p.ops[u] \in Seq(Values(p))
                           /\ \A o \in Range(p.ops[u]) : p.fn[o] \in {p.fn[u], "none"}
  BY DEF WellFormed
<1>7. ASSUME NEW u \in Values(p)
      PROVE  /\ DOMAIN cut(u) = DOMAIN p.ops[u]
             /\ \A i \in DOMAIN p.ops[u] :
                  \/ cut(u)[i] = p.ops[u][i] /\ p.ops[u][i] \notin C
                  \/ cut(u)[i] = p.lowered /\ p.ops[u][i] \in C
             /\ cut(u) \in Seq(Values(p)) /\ Len(cut(u)) = Len(p.ops[u])
  <2>1. p.ops[u] \in Seq(Values(p))
    BY <1>6
  <2>2. \A i \in DOMAIN p.ops[u] : p.ops[u][i] \in Values(p)
    BY <2>1
  <2>3. DOMAIN p.ops[u] = 1 .. Len(p.ops[u]) /\ Len(p.ops[u]) \in Nat
    BY <2>1
  <2>4. DOMAIN cut(u) = DOMAIN p.ops[u]
    OBVIOUS
  <2>7. ASSUME NEW i \in DOMAIN p.ops[u]
        PROVE  \/ cut(u)[i] = p.ops[u][i] /\ p.ops[u][i] \notin C
               \/ cut(u)[i] = p.lowered /\ p.ops[u][i] \in C
    <3>1. cut(u)[i] = IF p.ops[u][i] \in C THEN p.lowered ELSE p.ops[u][i]
      OBVIOUS
    <3> HIDE DEF cut
    <3> QED
      BY <3>1
  <2>5. cut(u) \in [1 .. Len(p.ops[u]) -> Values(p)]
    BY <1>5, <2>2, <2>3
  <2> HIDE DEF cut
  <2>6. cut(u) \in Seq(Values(p)) /\ Len(cut(u)) = Len(p.ops[u])
    BY <2>3, <2>5
  <2> QED
    BY <2>4, <2>6, <2>7
<1> HIDE DEF cut
<1>8. ASSUME NEW u \in Values(p), p.kind[u] = "store"
      PROVE  cut(u)[2] = p.ops[u][2]
  <2>1. p.kind[p.ops[u][2]] # "cmp" /\ Len(p.ops[u]) = 2
    BY <1>8 DEF WellFormed
  <2>2. 2 \in DOMAIN p.ops[u]
    BY <1>6, <2>1
  <2> QED
    BY <1>3, <1>7, <2>1, <2>2
<1>9. ASSUME NEW v \in Values(p)
      PROVE  /\ q.ops[v] \in Seq(Values(p))
             /\ \A o \in Range(q.ops[v]) : p.fn[o] \in {p.fn[v], "none"}
             /\ \/ /\ q.kind[v] = p.kind[v] /\ Len(q.ops[v]) = Len(p.ops[v])
                   /\ p.kind[v] = "store" => q.ops[v][2] = p.ops[v][2]
                \/ p.kind[v] = "select" /\ q.kind[v] = "phi"
                \/ p.kind[v] \in {"unborn", "branch"} /\ q.kind[v] = "branch"
  <2>1. CASE q.kind[v] = p.kind[v] /\ q.ops[v] = cut(v)
    <3>1. \A o \in Range(cut(v)) : o = p.lowered \/ o \in Range(p.ops[v])
      BY <1>7 DEF Range
    <3> QED
      BY <1>5, <1>6, <1>7, <1>8, <2>1, <3>1
  <2>2. CASE /\ p.kind[v] \in {"unborn", "branch"} /\ q.kind[v] = "branch"
             /\ \E b \in C : p.fn[v] = p.fn[b] /\ q.ops[v] = <<b>>
    <3>1. PICK b \in C : p.fn[v] = p.fn[b] /\ q.ops[v] = <<b>>
      BY <2>2
    <3>2. q.ops[v] \in Seq(Values(p)) /\ \A o \in Range(q.ops[v]) : o = b
      BY <1>3, <3>1 DEF Range
    <3> QED
      BY <2>2, <3>1, <3>2
  <2> QED
    BY <1>2, <2>1, <2>2
<1>10. WellFormed(q)
  BY <1>4, <1>9, WellFormedKept
<1>11. ASSUME NEW v \in Values(p)
       PROVE  /\ p.kind[v] \in Flowing => q.kind[v] = p.kind[v]
              /\ q.kind[v] = "cmp" => p.kind[v] = "cmp"
  BY <1>9 DEF Flowing, UniformKinds
<1>12. ASSUME NEW v \in Values(p), p.fn[v] # f, p.kind[v] \in Flowing, ~Unsupported(p, v)
       PROVE  UsersKept(p, q, v)
  <2>1. v # p.lowered /\ v \notin C
    BY <1>3, <1>5, <1>12 DEF Flowing, UniformKinds
  <2>2. ASSUME NEW u \in Values(p), HasUser(p, u, v)
        PROVE  p.kind[u] # "unborn"
    BY <1>12, <2>2 DEF Unsupported, Users, HasUser, UniformKinds, IgnoredKinds
  <2>3. ASSUME NEW u \in Values(p), q.kind[u] = p.kind[u], q.ops[u] = cut(u)
        PROVE  /\ DOMAIN q.ops[u] = DOMAIN p.ops[u]
               /\ \A i \in DOMAIN p.ops[u] : q.ops[u][i] = v <=> p.ops[u][i] = v
               /\ p.kind[u] = "store" => q.ops[u][2] = p.ops[u][2]
    BY <1>7, <1>8, <2>1, <2>3
  <2>4. ASSUME NEW u \in Values(p), p.kind[u] \in {"unborn", "branch"}, NEW b \in C, q.ops[u] = <<b>>
        PROVE  /\ p.kind[u] # "call" /\ ~HasUser(q, u, v)
               /\ HasUser(p, u, v) => p.kind[u] = "branch"
    BY <2>1, <2>2, <2>4 DEF HasUser
  <2> QED
    BY <1>2, <2>3, <2>4 DEF UsersKept
<1> QED
  BY <1>4, <1>10, <1>11, <1>12 DEF q

\* Preprocessing a function keeps what is known of the others.
LEMMA PrepareKeeps ==
  ASSUME NEW p, WellFormed(p), NEW f
  PROVE  LET q == Prepare(p, f)
         IN  /\ WellFormed(q) /\ SameBut(p, q)
             /\ \A v \in Values(p) : p.kind[v] \in Flowing => q.kind[v] = p.kind[v]
             /\ \A v \in Values(p) : q.kind[v] = "cmp" => p.kind[v] = "cmp"
             /\ \A v \in Values(p) :
                  p.fn[v] # f /\ p.kind[v] \in Flowing /\ ~Unsupported(p, v)
                    => Edges(q, v) = Edges(p, v) /\ ~Unsupported(q, v)
<1> DEFINE m == LowerSelects(p, f)
           q == LowerCmps(m, f)
<1>1. /\ WellFormed(m) /\ SameBut(p, m)
      /\ \A v \in Values(p) : p.kind[v] \in Flowing => m.kind[v] = p.kind[v]
      /\ \A v \in Values(p) : m.kind[v] = "cmp" => p.kind[v] = "cmp"
      /\ \A v \in Values(p) : ~Unsupported(p, v) => UsersKept(p, m, v)
  BY SelectsKeep
<1> HIDE DEF m
<1>2. /\ WellFormed(q) /\ SameBut(m, q)
      /\ \A v \in Values(m) : m.kind[v] \in Flowing => q.kind[v] = m.kind[v]
      /\ \A v \in Values(m) : q.kind[v] = "cmp" => m.kind[v] = "cmp"
      /\ \A v \in Values(m) :
           m.fn[v] # f /\ m.kind[v] \in Flowing /\ ~Unsupported(m, v) => UsersKept(m, q, v)
  BY <1>1, CmpsKeep
<1> HIDE DEF q
<1>3. SameBut(p, q) /\ Values(m) = Values(p) /\ m.fn = p.fn
  BY <1>1, <1>2 DEF SameBut
<1>4. ASSUME NEW v \in Values(p), p.fn[v] # f, p.kind[v] \in Flowing, ~Unsupported(p, v)
      PROVE  Edges(q, v) = Edges(p, v) /\ ~Unsupported(q, v)
  <2>1. Edges(m, v) = Edges(p, v) /\ ~Unsupported(m, v)
    BY <1>1, <1>4, EdgesKept
  <2>2. UsersKept(m, q, v)
    BY <1>1, <1>2, <1>3, <1>4, <2>1
  <2> QED
    BY <1>1, <1>2, <1>3, <2>1, <2>2, EdgesKept
<1>5. Prepare(p, f) = q
  BY DEF Prepare, m, q
<1> QED
  BY <1>1, <1>2, <1>3, <1>4, <1>5

-----------------------------------------------------------------------------
(***************************************************************************)
(* The state of the analysis.                                              *)
(***************************************************************************)

\* The onion of a type that no one has raised.
LEMMA BaseIs ==
  ASSUME NEW n \in Nat
  PROVE  /\ TypeOnion(n) \in Onions /\ Len(TypeOnion(n)) = n + 1
         /\ \A i \in 1 .. n + 1 : TypeOnion(n)[i].abstract = "no"
<1>1. \A i \in 1 .. n + 1 : TypeLayer(IF i = 1 THEN "no" ELSE "yes", "no") \in Layers
  BY LayerType DEF Tri
<1>2. TypeOnion(n) \in [1 .. n + 1 -> Layers]
  BY <1>1 DEF TypeOnion
<1>3. TypeOnion(n) \in Seq(Layers) /\ Len(TypeOnion(n)) = n + 1
  BY <1>2
<1>4. \A i \in 1 .. n + 1 : TypeOnion(n)[i] = TypeLayer(IF i = 1 THEN "no" ELSE "yes", "no")
  BY DEF TypeOnion
<1>5. \A i \in 2 .. n + 1 : TypeOnion(n)[i].pointer # "no"
  BY <1>4, LayerType
<1>6. \A i \in 1 .. n + 1 : TypeOnion(n)[i].abstract = "no"
  BY <1>4, LayerType
<1>7. TypeOnion(n) # << >>
  BY <1>3
<1> QED
  BY <1>3, <1>5, <1>6, <1>7 DEF Onions

\* The onion of a value.
OnionAt(p, t, v) == IF v \in DOMAIN t THEN t[v] ELSE TypeOnion(p.nest[v])

\* The values something was found about.
Moved(p, t) == {v \in DOMAIN t : t[v] # TypeOnion(p.nest[v])}

AnyEdge(p) == [from : Values(p), to : Values(p), ty : EdgeKinds]

\* Types have at most the pointers of LLVM's, and are those or not below them.
TypesFit(p, t) ==
  /\ DOMAIN t \subseteq Values(p)
  /\ \A v \in DOMAIN t : /\ t[v] \in Onions /\ Len(t[v]) <= p.nest[v] + 1
                         /\ t[v] = TypeOnion(p.nest[v]) \/ ~Under(t[v], TypeOnion(p.nest[v]))

\* The onion of a value is one the type map can hold.
LEMMA AtIs ==
  ASSUME NEW p, WellFormed(p), NEW t, TypesFit(p, t), NEW v \in Values(p)
  PROVE  /\ p.nest[v] \in Nat /\ TypeOnion(p.nest[v]) \in Onions
         /\ OnionAt(p, t, v) \in Onions /\ Len(OnionAt(p, t, v)) <= p.nest[v] + 1
         /\ OnionAt(p, t, v) = TypeOnion(p.nest[v]) \/ ~Under(OnionAt(p, t, v), TypeOnion(p.nest[v]))
<1>1. p.nest[v] \in Nat
  BY DEF WellFormed
<1>2. TypeOnion(p.nest[v]) \in Onions /\ Len(TypeOnion(p.nest[v])) = p.nest[v] + 1
  BY <1>1, BaseIs
<1>3. Len(TypeOnion(p.nest[v])) <= p.nest[v] + 1
  BY <1>1, <1>2
<1> QED
  BY <1>1, <1>2, <1>3 DEF OnionAt, TypesFit

\* Edges in the queue are those of values with a type of their own, as the
\* program has them now.
Queued(p, t, wl, fail) ==
  /\ wl \in Seq(AnyEdge(p))
  /\ \A e \in Range(wl) :
       e.from \in DOMAIN t /\ (~fail => e.from \in Moved(p, t) /\ e \in Edges(p, e.from))

\* The functions of these values are preprocessed.
Entered(p, t, prep, fail) == ~fail =>
  \A v \in Moved(p, t) :
    p.fn[v] \in prep \cup {"none"} /\ ~Unsupported(p, v) /\ p.kind[v] \in Flowing

\* What their edges carry has arrived or is in the queue.
Closed(p, t, wl, fail) == ~fail =>
  \A v \in Moved(p, t) : \A e \in Edges(p, v) :
    e \in Range(wl) \/ Under(Carry(p, e, t[v]), OnionAt(p, t, e.to))

\* None of these edges was processed.
Fresh(p, t, wl, fail) == ~fail =>
  \A v \in Moved(p, t) : \A e \in Edges(p, v) : e \in Range(wl)

\* A list of a set has all of it.
LEMMA ListedIs ==
  ASSUME NEW S, IsFiniteSet(S), NEW s \in SetToSeqs(S)
  PROVE  s \in Seq(S) /\ Range(s) = S
<1> DEFINE n == Cardinality(S)
<1>1. n \in Nat
  BY FS_CardinalityType
<1>2. s \in [1 .. n -> S] /\ \A i, j \in 1 .. n : i # j => s[i] # s[j]
  BY DEF SetToSeqs
<1> HIDE DEF n
<1>3. s \in Injection(1 .. n, S)
  BY <1>2 DEF Injection, IsInjective
<1>4. Cardinality(1 .. n) = n
  BY <1>1, FS_Interval
<1>5. s \in Surjection(1 .. n, S)
  BY <1>3, <1>4, FS_Injection DEF n
<1>6. \A x \in S : \E i \in 1 .. n : s[i] = x
  BY <1>5 DEF Surjection
<1>7. s \in Seq(S)
  BY <1>1, <1>2
<1> QED
  BY <1>2, <1>6, <1>7 DEF Range

\* What a concatenated sequence holds.
LEMMA ConcatIs ==
  ASSUME NEW S, NEW r \in Seq(S), NEW s \in Seq(S)
  PROVE  r \o s \in Seq(S) /\ Range(r \o s) = Range(r) \cup Range(s)
<1>1. /\ Len(r) \in Nat /\ Len(s) \in Nat /\ Len(r \o s) = Len(r) + Len(s) /\ r \o s \in Seq(S)
      /\ \A i \in 1 .. Len(r) : (r \o s)[i] = r[i]
      /\ \A i \in 1 .. Len(s) : (r \o s)[i + Len(r)] = s[i]
  OBVIOUS
<1>2. DOMAIN r = 1 .. Len(r) /\ DOMAIN s = 1 .. Len(s) /\ DOMAIN (r \o s) = 1 .. Len(r \o s)
  OBVIOUS
<1>3. ASSUME NEW i \in 1 .. Len(r \o s)
      PROVE  (r \o s)[i] \in Range(r) \cup Range(s)
  <2>1. CASE i <= Len(r)
    BY <1>1, <1>2, <2>1 DEF Range
  <2>2. CASE i > Len(r)
    <3>1. i - Len(r) \in 1 .. Len(s) /\ (i - Len(r)) + Len(r) = i
      BY <1>1, <2>2
    <3> QED
      BY <1>1, <1>2, <3>1 DEF Range
  <2> QED
    BY <1>1, <2>1, <2>2
<1>4. \A i \in 1 .. Len(r) : i \in 1 .. Len(r \o s)
  BY <1>1
<1>5. \A i \in 1 .. Len(s) : i + Len(r) \in 1 .. Len(r \o s)
  BY <1>1
<1>6. Range(r) \subseteq Range(r \o s)
  BY <1>1, <1>2, <1>4 DEF Range
<1>7. Range(s) \subseteq Range(r \o s)
  BY <1>1, <1>2, <1>5 DEF Range
<1>8. Range(r \o s) \subseteq Range(r) \cup Range(s)
  BY <1>2, <1>3 DEF Range
<1> QED
  BY <1>1, <1>6, <1>7, <1>8

\* Preprocessing the function of v: what an onion carries along an edge stays,
\* and so do the edges of values in functions that were preprocessed before.
LEMMA PreparedIs ==
  ASSUME NEW p, WellFormed(p), NEW v \in Values(p), NEW prep
  PROVE  LET q == IF p.fn[v] \in prep \cup {"none"} THEN p ELSE Prepare(p, p.fn[v])
         IN  /\ WellFormed(q) /\ Values(q) = Values(p) /\ q.nest = p.nest /\ q.fn = p.fn
             /\ \A w \in Values(p) : p.kind[w] \in Flowing => q.kind[w] = p.kind[w]
             /\ \A w \in Values(p) :
                  p.fn[w] \in prep \cup {"none"} /\ p.kind[w] \in Flowing /\ ~Unsupported(p, w)
                    => Edges(q, w) = Edges(p, w) /\ ~Unsupported(q, w)
             /\ \A e, o : e.to \in Values(p) => Carry(q, e, o) = Carry(p, e, o)
<1> DEFINE q == IF p.fn[v] \in prep \cup {"none"} THEN p ELSE Prepare(p, p.fn[v])
<1>1. CASE p.fn[v] \in prep \cup {"none"}
  BY <1>1
<1>2. CASE p.fn[v] \notin prep \cup {"none"}
  <2>1. q = Prepare(p, p.fn[v])
    BY <1>2
  <2> HIDE DEF q
  <2>2. /\ WellFormed(q) /\ SameBut(p, q)
        /\ \A w \in Values(p) : p.kind[w] \in Flowing => q.kind[w] = p.kind[w]
        /\ \A w \in Values(p) : q.kind[w] = "cmp" => p.kind[w] = "cmp"
        /\ \A w \in Values(p) :
             p.fn[w] # p.fn[v] /\ p.kind[w] \in Flowing /\ ~Unsupported(p, w)
               => Edges(q, w) = Edges(p, w) /\ ~Unsupported(q, w)
    BY <2>1, PrepareKeeps
  <2>3. \A w \in Values(p) : q.kind[w] = "cmp" <=> p.kind[w] = "cmp"
    BY <2>2 DEF Flowing, UniformKinds
  <2>4. \A e, o : e.to \in Values(p) => Carry(q, e, o) = Carry(p, e, o)
    BY <2>3 DEF Carry
  <2>5. \A w : p.fn[w] \in prep \cup {"none"} => p.fn[w] # p.fn[v]
    BY <1>2
  <2> QED
    BY <2>2, <2>4, <2>5 DEF SameBut, q
<1> QED
  BY <1>1, <1>2

\* The type of v changes to o and its edges are pushed; an edge that leaves the
\* queue for it has brought what it carries, and the type is only raised once
\* edges are processed.
Pushes(p, t, wl, prep, fail, v, o, u, rest, s, q, prep2, fail2) ==
  /\ WellFormed(p) /\ TypesFit(p, t) /\ Queued(p, t, wl, fail)
  /\ Entered(p, t, prep, fail) /\ Closed(p, t, wl, fail)
  /\ v \in Values(p) /\ p.kind[v] \in Flowing
  /\ o \in Onions /\ Len(o) <= p.nest[v] + 1 /\ ~Under(o, TypeOnion(p.nest[v]))
  /\ DOMAIN u = DOMAIN t \cup {v} /\ u[v] = o
  /\ \A w \in DOMAIN t : w # v => u[w] = t[w]
  /\ rest \in Seq(AnyEdge(p)) /\ Range(rest) \subseteq Range(wl)
  /\ Under(OnionAt(p, t, v), o) \/ Fresh(p, t, rest, fail)
  /\ \A e \in Range(wl) : e \in Range(rest) \/ (e.to = v /\ Under(Carry(p, e, t[e.from]), o))
  /\ q = IF p.fn[v] \in prep \cup {"none"} THEN p ELSE Prepare(p, p.fn[v])
  /\ s \in SetToSeqs(Edges(q, v))
  /\ prep2 = prep \cup ({p.fn[v]} \ {"none"})
  /\ fail2 <=> fail \/ Unsupported(q, v)

\* This keeps what is known of the state.
LEMMA PushKeeps ==
  ASSUME NEW p, NEW t, NEW wl, NEW prep, NEW fail, NEW v, NEW o, NEW u, NEW rest, NEW s,
         NEW q, NEW prep2, NEW fail2,
         Pushes(p, t, wl, prep, fail, v, o, u, rest, s, q, prep2, fail2)
  PROVE  /\ WellFormed(q) /\ Values(q) = Values(p) /\ q.nest = p.nest
         /\ \A w \in Values(p) : p.kind[w] = "call" => q.kind[w] = "call"
         /\ TypesFit(q, u) /\ Queued(q, u, rest \o s, fail2)
         /\ Entered(q, u, prep2, fail2) /\ Closed(q, u, rest \o s, fail2)
         /\ Fresh(p, t, rest, fail) => Fresh(q, u, rest \o s, fail2)
<1> USE DEF Pushes
<1>1. /\ WellFormed(q) /\ Values(q) = Values(p) /\ q.nest = p.nest /\ q.fn = p.fn
      /\ \A w \in Values(p) : p.kind[w] \in Flowing => q.kind[w] = p.kind[w]
      /\ \A w \in Values(p) :
           p.fn[w] \in prep \cup {"none"} /\ p.kind[w] \in Flowing /\ ~Unsupported(p, w)
             => Edges(q, w) = Edges(p, w) /\ ~Unsupported(q, w)
      /\ \A e, c : e.to \in Values(p) => Carry(q, e, c) = Carry(p, e, c)
  BY PreparedIs
<1>3. \A w \in Values(p) :
        /\ OnionAt(p, t, w) \in Onions /\ Len(OnionAt(p, t, w)) <= p.nest[w] + 1
        /\ OnionAt(p, t, w) = TypeOnion(p.nest[w]) \/ ~Under(OnionAt(p, t, w), TypeOnion(p.nest[w]))
  BY AtIs
<1>4. TypesFit(q, u)
  <2>0. \A w \in DOMAIN u : w # v => u[w] = OnionAt(p, t, w) /\ w \in Values(p)
    BY DEF OnionAt, TypesFit
  <2>1. \A w \in DOMAIN u :
          /\ u[w] \in Onions /\ Len(u[w]) <= p.nest[w] + 1
          /\ u[w] = TypeOnion(p.nest[w]) \/ ~Under(u[w], TypeOnion(p.nest[w]))
    BY <1>3, <2>0
  <2>2. DOMAIN u \subseteq Values(p)
    BY <2>0
  <2> QED
    BY <1>1, <2>1, <2>2 DEF TypesFit
<1>5. \A w : w \in Moved(q, u) <=> w = v \/ w \in Moved(p, t)
  <2>1. o # TypeOnion(p.nest[v])
    BY UnderOrder
  <2>2. v \in Moved(q, u)
    BY <1>1, <2>1 DEF Moved
  <2>3. ASSUME NEW w, w # v
        PROVE  w \in Moved(q, u) <=> w \in Moved(p, t)
    <3>1. w \in DOMAIN u => (u[w] # TypeOnion(p.nest[w]) <=> w \in DOMAIN t /\ t[w] # TypeOnion(p.nest[w]))
      BY <2>3 DEF OnionAt
    <3> QED
      BY <1>1, <3>1 DEF Moved
  <2> QED
    BY <2>2, <2>3
<1>6. \A w \in DOMAIN t : w # v => u[w] = t[w]
  BY DEF OnionAt
<1>7. ASSUME ~fail, NEW w \in Moved(p, t)
      PROVE  /\ w \in Values(p) /\ Edges(q, w) = Edges(p, w) /\ ~Unsupported(q, w)
             /\ q.kind[w] \in Flowing /\ q.fn[w] \in prep \cup {"none"}
  <2>1. w \in Values(p)
    BY DEF Moved, TypesFit
  <2>2. p.fn[w] \in prep \cup {"none"} /\ ~Unsupported(p, w) /\ p.kind[w] \in Flowing
    BY <1>7 DEF Entered
  <2> QED
    BY <1>1, <2>1, <2>2
<1>8. IsFiniteSet(Edges(q, v)) /\ Edges(q, v) \subseteq AnyEdge(p)
  <2>1. IsFiniteSet(Edges(q, v))
    BY <1>1, EdgesFinite
  <2>2. ASSUME NEW e \in Edges(q, v) PROVE e \in AnyEdge(p)
    <3>1. e.from = v /\ e.to \in Values(p) /\ e.ty \in EdgeKinds
      BY <1>1, EdgeIs
    <3>2. e = Edge(v, e.to, e.ty)
      BY <1>1, EdgeShape
    <3> QED
      BY <3>1, <3>2 DEF Edge, AnyEdge
  <2> QED
    BY <2>1, <2>2
<1>9. s \in Seq(AnyEdge(p)) /\ Range(s) = Edges(q, v)
  <2>1. s \in Seq(Edges(q, v)) /\ Range(s) = Edges(q, v)
    BY <1>8, ListedIs
  <2> QED
    BY <1>8, <2>1
<1>10. rest \o s \in Seq(AnyEdge(p)) /\ Range(rest \o s) = Range(rest) \cup Edges(q, v)
  BY <1>9, ConcatIs
<1>11. AnyEdge(q) = AnyEdge(p)
  BY <1>1 DEF AnyEdge
<1>12. fail => fail2
  OBVIOUS
<1>13. Queued(q, u, rest \o s, fail2)
  <2>1. ASSUME NEW e \in Range(rest)
        PROVE  e.from \in DOMAIN u /\ (~fail2 => e.from \in Moved(q, u) /\ e \in Edges(q, e.from))
    <3>1. e.from \in DOMAIN t /\ (~fail => e.from \in Moved(p, t) /\ e \in Edges(p, e.from))
      BY DEF Queued
    <3> QED
      BY <1>5, <1>7, <1>12, <3>1
  <2>2. ASSUME NEW e \in Edges(q, v)
        PROVE  e.from \in DOMAIN u /\ (~fail2 => e.from \in Moved(q, u) /\ e \in Edges(q, e.from))
    <3>1. e.from = v
      BY <1>1, EdgeIs
    <3> QED
      BY <1>5, <3>1
  <2> QED
    BY <1>10, <1>11, <2>1, <2>2 DEF Queued
<1>14. Entered(q, u, prep2, fail2)
  <2> SUFFICES ASSUME ~fail2, NEW w \in Moved(q, u)
               PROVE  q.fn[w] \in prep2 \cup {"none"} /\ ~Unsupported(q, w) /\ q.kind[w] \in Flowing
    BY DEF Entered
  <2>1. CASE w = v
    BY <1>1, <2>1
  <2>2. CASE w # v
    BY <1>5, <1>7, <1>12, <2>2
  <2> QED
    BY <2>1, <2>2
<1>15. Closed(q, u, rest \o s, fail2)
  <2> SUFFICES ASSUME ~fail2, NEW w \in Moved(q, u), NEW e \in Edges(q, w), e \notin Range(rest \o s)
               PROVE  Under(Carry(q, e, u[w]), OnionAt(q, u, e.to))
    BY DEF Closed
  <2>1. w # v /\ w \in Moved(p, t) /\ ~fail
    BY <1>5, <1>10, <1>12
  <2>2. e \in Edges(p, w) /\ w \in Values(p) /\ w \in DOMAIN t /\ t[w] \in Onions /\ u[w] = t[w]
    BY <1>6, <1>7, <2>1 DEF Moved, TypesFit
  <2>3. e.from = w /\ e.to \in Values(p) /\ e.ty \in EdgeKinds
    BY <2>2, EdgeIs
  <2>4. Carry(q, e, u[w]) = Carry(p, e, t[w]) /\ Carry(p, e, t[w]) \in Onions
    BY <1>1, <2>2, <2>3, CarryIs
  <2>5. CASE e \in Range(wl)
    <3>1. e.to = v /\ Under(Carry(p, e, t[w]), o)
      BY <1>10, <2>3, <2>5
    <3> QED
      BY <2>4, <3>1 DEF OnionAt
  <2>6. CASE e \notin Range(wl)
    <3>1. Under(Carry(p, e, t[w]), OnionAt(p, t, e.to))
      BY <2>1, <2>2, <2>6 DEF Closed
    <3>2. CASE e.to = v
      <4>1. OnionAt(q, u, e.to) = o /\ OnionAt(p, t, v) \in Onions
        BY <1>3, <3>2 DEF OnionAt
      <4>2. Under(OnionAt(p, t, v), o)
        BY <2>1, <2>2, <2>6 DEF Fresh
      <4> QED
        BY <2>4, <3>1, <3>2, <4>1, <4>2, UnderOrder
    <3>3. CASE e.to # v
      <4>1. OnionAt(q, u, e.to) = OnionAt(p, t, e.to)
        BY <1>1, <3>3 DEF OnionAt
      <4> QED
        BY <2>4, <3>1, <4>1
    <3> QED
      BY <3>2, <3>3
  <2> QED
    BY <2>5, <2>6
<1>16. \A w \in Values(p) : p.kind[w] = "call" => q.kind[w] = "call"
  BY <1>1 DEF Flowing, UniformKinds
<1>17. Fresh(p, t, rest, fail) => Fresh(q, u, rest \o s, fail2)
  BY <1>5, <1>7, <1>10, <1>12 DEF Fresh
<1> QED
  BY <1>1, <1>4, <1>13, <1>14, <1>15, <1>16, <1>17

\* The type of a root, before anything flows to it.
RootType(p, r) ==
  IF r.kind = "scalar" THEN MakeAbstract(TypeOnion(p.nest[r.call]))
                       ELSE MakeAbstractPointer(TypeOnion(p.nest[r.call]))

\* An annotated type is an onion of the value's pointers that LLVM's types are
\* not above: the root counts as changed.
LEMMA RootTypeIs ==
  ASSUME NEW p, NEW r, p.nest[r.call] \in Nat
  PROVE  /\ RootType(p, r) \in Onions /\ Len(RootType(p, r)) <= p.nest[r.call] + 1
         /\ ~Under(RootType(p, r), TypeOnion(p.nest[r.call]))
<1> DEFINE n == p.nest[r.call]
           b == TypeOnion(n)
           a == MakeAbstract(b)
           c == MakeAbstractPointer(b)
<1>0. n \in Nat
  OBVIOUS
<1> HIDE DEF n
<1>1. /\ b \in Onions /\ Len(b) = n + 1 /\ n + 1 \in Nat \ {0}
      /\ \A i \in 1 .. n + 1 : b[i].abstract = "no"
  BY <1>0, BaseIs
<1> HIDE DEF b
<1>2. /\ b \in [1 .. n + 1 -> Layers] /\ n \in Nat
      /\ \A i \in 2 .. n + 1 : b[i].pointer # "no"
  BY <1>0, <1>1 DEF Onions
<1>3. ASSUME NEW o \in [1 .. n + 1 -> Layers],
             \A i \in 2 .. n + 1 : o[i].pointer # "no",
             \E i \in 1 .. n + 1 : o[i].abstract # "no"
      PROVE  o \in Onions /\ Len(o) <= n + 1 /\ ~Under(o, b)
  <2>1. o \in Seq(Layers) /\ Len(o) = n + 1 /\ o # << >>
    BY <1>2
  <2>2. o \in Onions
    BY <1>3, <2>1 DEF Onions
  <2>3. ~Under(o, b)
    <3>1. PICK i \in 1 .. n + 1 : o[i].abstract # "no"
      BY <1>3
    <3>2. ~LayerBelow(o[i], b[i])
      BY <1>1, <3>1 DEF LayerBelow, TriBelow
    <3> QED
      BY <1>1, <2>1, <3>2 DEF Under
  <2> QED
    BY <1>2, <2>1, <2>2, <2>3
<1> DEFINE top == [b[n + 1] EXCEPT !.abstract = "yes"]
<1>4. b[n + 1] \in Layers /\ n + 1 \in 1 .. n + 1
  BY <1>2
<1>5. top \in Layers /\ top.abstract = "yes" /\ top.pointer = b[n + 1].pointer
  BY <1>4 DEF Layers, Tri
<1>6. a = [b EXCEPT ![n + 1] = top]
  BY <1>1, <1>2, <1>4 DEF MakeAbstract
<1> HIDE DEF top, a
<1>7. /\ a \in [1 .. n + 1 -> Layers] /\ \A i \in 2 .. n + 1 : a[i].pointer # "no"
      /\ a[n + 1].abstract = "yes"
  BY <1>2, <1>4, <1>5, <1>6
<1> DEFINE yes == [a[n + 1] EXCEPT !.pointer = "yes"]
           low == TypeLayer("maybe", "maybe")
           d == [a EXCEPT ![n + 1] = yes]
<1>8. Len(b) = n + 1 /\ c = [d EXCEPT ![1] = low]
  BY <1>1, <1>4, <1>7 DEF MakeAbstractPointer, a
<1>9. yes \in Layers /\ yes.pointer = "yes"
  <2>1. a[n + 1] \in Layers
    BY <1>4, <1>7
  <2> QED
    BY <2>1 DEF Layers, Tri
<1>10. low \in Layers /\ low.pointer = "maybe" /\ low.abstract = "maybe"
  BY LayerType DEF Tri
<1> HIDE DEF yes, low, c
<1>11. /\ d \in [1 .. n + 1 -> Layers] /\ \A i \in 2 .. n + 1 : d[i].pointer # "no"
  BY <1>4, <1>7, <1>9
<1> HIDE DEF d
<1>12. 1 \in 1 .. n + 1
  BY <1>2
<1>13. /\ c \in [1 .. n + 1 -> Layers] /\ \A i \in 2 .. n + 1 : c[i].pointer # "no"
       /\ c[1].abstract = "maybe"
  BY <1>8, <1>10, <1>11, <1>12
<1>14. a \in Onions /\ Len(a) <= n + 1 /\ ~Under(a, b)
  BY <1>3, <1>4, <1>7
<1>15. c \in Onions /\ Len(c) <= n + 1 /\ ~Under(c, b)
  BY <1>3, <1>12, <1>13
<1> QED
  BY <1>14, <1>15 DEF RootType, a, b, c, n

-----------------------------------------------------------------------------
(***************************************************************************)
(* The inductive invariant.                                                *)
(***************************************************************************)

DfaInv ==
  /\ WellFormed(ir) /\ TypesFit(ir, types)
  /\ Queued(ir, types, worklist, failed)
  /\ Entered(ir, types, prepped, failed)
  /\ Closed(ir, types, worklist, failed)
  /\ toAdd # {} => Fresh(ir, types, worklist, failed)
  /\ \A r \in toAdd : r.call \in Values(ir) \ DOMAIN types /\ ir.kind[r.call] = "call"
  /\ \A r, s \in toAdd : r.call = s.call => r = s
  /\ failed \in BOOLEAN

\* The roots of a program are calls, each of one kind.
LEMMA RootsAre ==
  ASSUME NEW p
  PROVE  \A c \in Roots(p) : c \in Values(p) /\ p.kind[c] = "call"
<1> HIDE DEF CastsOf
<1> QED
  BY DEF Roots, RootsOf

\* The invariant holds at the start, where nothing is known of any value.
LEMMA DfaInitInv == DfaInit => DfaInv
<1> SUFFICES ASSUME DfaInit PROVE DfaInv
  OBVIOUS
<1>1. WellFormed(ir)
  BY ProgramsAssumption DEF DfaInit
<1>2. types = << >> /\ worklist = << >> /\ failed = FALSE
  BY DEF DfaInit
<1>3. DOMAIN types = {} /\ Range(worklist) = {} /\ Moved(ir, types) = {}
  BY <1>2 DEF Range, Moved
<1>4. worklist \in Seq(AnyEdge(ir))
  BY <1>2
<1>5. \A r \in toAdd : r.call \in Roots(ir) /\ r = [call |-> r.call, kind |-> RootKind(ir, r.call)]
  BY DEF DfaInit
<1>6. \A r \in toAdd : r.call \in Values(ir) \ DOMAIN types /\ ir.kind[r.call] = "call"
  BY <1>3, <1>5, RootsAre
<1>7. \A r, s \in toAdd : r.call = s.call => r = s
  BY <1>5
<1>8. TypesFit(ir, types) /\ Queued(ir, types, worklist, failed)
  BY <1>3, <1>4 DEF TypesFit, Queued
<1>9. /\ Entered(ir, types, prepped, failed) /\ Closed(ir, types, worklist, failed)
      /\ Fresh(ir, types, worklist, failed)
  BY <1>3 DEF Entered, Closed, Fresh
<1> QED
  BY <1>1, <1>2, <1>6, <1>7, <1>8, <1>9 DEF DfaInv

\* Looking a value up is looking it up in the current program.
LEMMA GetIs == \A t, v : Get(t, v) = OnionAt(ir, t, v)
BY DEF Get, OnionAt

\* Adding a root gives it its type.
LEMMA AddRootIs ==
  ASSUME DfaInv, NEW r \in toAdd, AddRoot(r)
  PROVE  /\ r.call \in Values(ir) /\ ir.kind[r.call] = "call" /\ r.call \notin DOMAIN types
         /\ types' = [w \in DOMAIN types \cup {r.call} |->
                        IF w = r.call THEN RootType(ir, r) ELSE types[w]]
         /\ toAdd' = toAdd \ {r}
<1>1. r.call \in Values(ir) /\ ir.kind[r.call] = "call" /\ r.call \notin DOMAIN types
  BY DEF DfaInv
<1>2. Get(types, r.call) = TypeOnion(ir.nest[r.call])
  BY <1>1 DEF Get
<1>3. types' = Set(types, r.call, RootType(ir, r))
  BY <1>2 DEF AddRoot, TypesAdd, RootType
<1> QED
  BY <1>1, <1>3 DEF Set, AddRoot

\* Processing an edge joins what it carries to the type it leads to.
LEMMA ProcessIs ==
  ASSUME DfaInv, Process
  PROVE  LET e == Head(worklist)
             o == OnionJoin(OnionAt(ir, types, e.to), Carry(ir, e, types[e.from]))
         IN  /\ ~failed /\ toAdd = {} /\ toAdd' = {}
             /\ e \in Range(worklist) /\ e.from \in Moved(ir, types)
             /\ e \in Edges(ir, e.from) /\ e.from \in Values(ir) /\ e.to \in Values(ir)
             /\ ir.kind[e.to] \in Flowing /\ e.ty \in EdgeKinds
             /\ types[e.from] \in Onions /\ Carry(ir, e, types[e.from]) \in Onions
             /\ types' = [w \in DOMAIN types \cup {e.to} |-> IF w = e.to THEN o ELSE types[w]]
             /\ Tail(worklist) \in Seq(AnyEdge(ir)) /\ Range(Tail(worklist)) \subseteq Range(worklist)
             /\ \A x \in Range(worklist) : x = e \/ x \in Range(Tail(worklist))
             /\ IF o # OnionAt(ir, types, e.to)
                THEN Push(e.to, Tail(worklist))
                ELSE worklist' = Tail(worklist) /\ UNCHANGED <<ir, prepped, failed>>
<1> DEFINE e == Head(worklist)
           to == OnionAt(ir, types, e.to)
           o == OnionJoin(to, Carry(ir, e, types[e.from]))
<1>1. /\ toAdd = {} /\ worklist # << >> /\ ~failed /\ toAdd' = toAdd
  BY DEF Process
<1>2. worklist \in Seq(AnyEdge(ir)) /\ WellFormed(ir) /\ TypesFit(ir, types)
  BY DEF DfaInv, Queued
<1>3. /\ Len(worklist) \in Nat /\ DOMAIN worklist = 1 .. Len(worklist) /\ 1 \in DOMAIN worklist
      /\ e = worklist[1] /\ Tail(worklist) \in Seq(AnyEdge(ir))
      /\ DOMAIN Tail(worklist) = 1 .. Len(worklist) - 1
      /\ \A i \in 1 .. Len(worklist) - 1 : Tail(worklist)[i] = worklist[i + 1]
  BY <1>1, <1>2
<1>4. e \in Range(worklist)
  BY <1>3 DEF Range
<1>5. Range(Tail(worklist)) \subseteq Range(worklist)
  <2>1. \A i \in DOMAIN Tail(worklist) : i + 1 \in DOMAIN worklist /\ Tail(worklist)[i] = worklist[i + 1]
    BY <1>3
  <2> HIDE DEF e
  <2> QED
    BY <2>1 DEF Range
<1>6. \A x \in Range(worklist) : x = e \/ x \in Range(Tail(worklist))
  <2> SUFFICES ASSUME NEW i \in DOMAIN worklist, worklist[i] # e
               PROVE  worklist[i] \in Range(Tail(worklist))
    BY DEF Range
  <2>1. i - 1 \in DOMAIN Tail(worklist) /\ Tail(worklist)[i - 1] = worklist[i]
    BY <1>3
  <2> QED
    BY <2>1 DEF Range
<1> HIDE DEF e
<1>7. e.from \in Moved(ir, types) /\ e \in Edges(ir, e.from)
  BY <1>1, <1>4 DEF DfaInv, Queued
<1>8. /\ e.from \in DOMAIN types /\ e.from \in Values(ir) /\ types[e.from] \in Onions
  BY <1>2, <1>7 DEF Moved, TypesFit
<1>9. /\ e.to \in Values(ir) /\ e.ty \in EdgeKinds /\ ir.kind[e.to] \in Flowing
      /\ ir.kind[e.to] = "cmp" => e.ty = "uniform"
  BY <1>2, <1>7, <1>8, EdgeIs
<1>10. to \in Onions /\ (ir.kind[e.to] = "cmp" => Len(to) = 1)
  <2>1. ir.nest[e.to] \in Nat /\ (ir.kind[e.to] = "cmp" => ir.nest[e.to] = 0)
    BY <1>2, <1>9 DEF WellFormed
  <2>2. to \in Onions /\ Len(to) <= ir.nest[e.to] + 1
    BY <1>2, <1>9, AtIs
  <2> HIDE DEF to
  <2>3. Len(to) \in Nat \ {0}
    BY <2>2 DEF Onions
  <2>4. \A l, n : l \in Nat \ {0} /\ l <= n + 1 /\ n = 0 => l = 1
    OBVIOUS
  <2> QED
    BY <2>1, <2>2, <2>3, <2>4, Zenon
<1>11. Joined(ir, e, to, types[e.from]) = o /\ Carry(ir, e, types[e.from]) \in Onions
  BY <1>8, <1>9, <1>10, JoinedIs, CarryIs
<1>12. Get(types, e.from) = types[e.from] /\ Get(types, e.to) = to
  BY <1>8, GetIs DEF Get
<1>13. /\ types' = Set(Set(types, e.from, types[e.from]), e.to, o)
       /\ IF o # to THEN Push(e.to, Tail(worklist))
          ELSE worklist' = Tail(worklist) /\ UNCHANGED <<ir, prepped, failed>>
  BY <1>11, <1>12 DEF Process, e
<1>14. Set(types, e.from, types[e.from]) = [w \in DOMAIN types |-> types[w]]
  BY <1>8 DEF Set
<1>15. types' = [w \in DOMAIN types \cup {e.to} |-> IF w = e.to THEN o ELSE types[w]]
  <2>1. types' = [w \in DOMAIN types \cup {e.to} |->
                    IF w = e.to THEN o ELSE [x \in DOMAIN types |-> types[x]][w]]
    BY <1>13, <1>14 DEF Set
  <2>2. \A w \in DOMAIN types \cup {e.to} : w # e.to => [x \in DOMAIN types |-> types[x]][w] = types[w]
    OBVIOUS
  <2> HIDE DEF o
  <2> QED
    BY <2>1, <2>2
<1> QED
  BY <1>1, <1>3, <1>4, <1>5, <1>6, <1>7, <1>8, <1>9, <1>11, <1>13, <1>15 DEF e

\* What pushing the edges of v does to the variables.
LEMMA PushIs ==
  ASSUME NEW v, NEW rest, Push(v, rest)
  PROVE  /\ ir' = IF ir.fn[v] \in prepped \cup {"none"} THEN ir ELSE Prepare(ir, ir.fn[v])
         /\ prepped' = prepped \cup ({ir.fn[v]} \ {"none"})
         /\ failed' = (failed \/ Unsupported(ir', v))
         /\ \E s \in SetToSeqs(Edges(ir', v)) : worklist' = rest \o s
BY DEF Push

\* So a root's edges are pushed behind the queue.
LEMMA AddRootPushes ==
  ASSUME DfaInv, NEW r \in toAdd, AddRoot(r)
  PROVE  \E s : /\ Pushes(ir, types, worklist, prepped, failed, r.call, RootType(ir, r), types',
                          worklist, s, ir', prepped', failed')
                /\ worklist' = worklist \o s
<1> DEFINE v == r.call
           o == RootType(ir, r)
<1>1. /\ v \in Values(ir) /\ ir.kind[v] = "call" /\ v \notin DOMAIN types
      /\ types' = [w \in DOMAIN types \cup {v} |-> IF w = v THEN o ELSE types[w]]
  BY AddRootIs
<1>2. Push(v, worklist)
  BY DEF AddRoot
<1>3. /\ ir' = IF ir.fn[v] \in prepped \cup {"none"} THEN ir ELSE Prepare(ir, ir.fn[v])
      /\ prepped' = prepped \cup ({ir.fn[v]} \ {"none"})
      /\ failed' = (failed \/ Unsupported(ir', v))
      /\ \E s \in SetToSeqs(Edges(ir', v)) : worklist' = worklist \o s
  BY <1>2, PushIs
<1>4. PICK s \in SetToSeqs(Edges(ir', v)) : worklist' = worklist \o s
  BY <1>3
<1>5. ir.kind[v] \in Flowing
  BY <1>1 DEF Flowing, UniformKinds
<1>6. o \in Onions /\ Len(o) <= ir.nest[v] + 1 /\ ~Under(o, TypeOnion(ir.nest[v]))
  BY <1>1, RootTypeIs DEF DfaInv, WellFormed
<1>7. WellFormed(ir) /\ TypesFit(ir, types) /\ Queued(ir, types, worklist, failed)
      /\ Entered(ir, types, prepped, failed) /\ Closed(ir, types, worklist, failed)
      /\ Fresh(ir, types, worklist, failed)
  BY DEF DfaInv
<1>8. worklist \in Seq(AnyEdge(ir))
  BY <1>7 DEF Queued
<1> HIDE DEF o, v
<1>9. /\ DOMAIN types' = DOMAIN types \cup {v} /\ types'[v] = o
      /\ \A w \in DOMAIN types : w # v => types'[w] = types[w]
  BY <1>1
<1>10. failed' <=> failed \/ Unsupported(ir', v)
  BY <1>3
<1>11. Pushes(ir, types, worklist, prepped, failed, v, o, types', worklist, s, ir', prepped', failed')
  BY <1>1, <1>3, <1>5, <1>6, <1>7, <1>8, <1>9, <1>10 DEF Pushes
<1> QED
  BY <1>4, <1>11 DEF v, o

\* Adding a root keeps the invariant.
LEMMA AddRootInv ==
  ASSUME DfaInv, NEW r \in toAdd, AddRoot(r)
  PROVE  DfaInv'
<1> DEFINE v == r.call
           o == RootType(ir, r)
<1>1. /\ v \in Values(ir) /\ ir.kind[v] = "call" /\ v \notin DOMAIN types
      /\ types' = [w \in DOMAIN types \cup {v} |-> IF w = v THEN o ELSE types[w]]
      /\ toAdd' = toAdd \ {r}
  BY AddRootIs
<1>2. PICK s : /\ Pushes(ir, types, worklist, prepped, failed, v, o, types',
                         worklist, s, ir', prepped', failed')
               /\ worklist' = worklist \o s
  BY AddRootPushes
<1>3. Fresh(ir, types, worklist, failed) /\ WellFormed(ir)
  BY DEF DfaInv
<1>4. DOMAIN types' = DOMAIN types \cup {v}
  BY <1>1
<1> HIDE DEF o
<1>5. /\ WellFormed(ir') /\ Values(ir') = Values(ir) /\ ir'.nest = ir.nest
      /\ \A w \in Values(ir) : ir.kind[w] = "call" => ir'.kind[w] = "call"
      /\ TypesFit(ir', types') /\ Queued(ir', types', worklist \o s, failed')
      /\ Entered(ir', types', prepped', failed') /\ Closed(ir', types', worklist \o s, failed')
      /\ Fresh(ir', types', worklist \o s, failed')
  BY <1>2, <1>3, PushKeeps
<1>9. \A x \in toAdd' : x.call \in Values(ir') \ DOMAIN types' /\ ir'.kind[x.call] = "call"
  <2> SUFFICES ASSUME NEW x \in toAdd, x # r
               PROVE  x.call \in Values(ir') \ DOMAIN types' /\ ir'.kind[x.call] = "call"
    BY <1>1
  <2>1. x.call \in Values(ir) \ DOMAIN types /\ ir.kind[x.call] = "call" /\ x.call # v
    BY DEF DfaInv
  <2> QED
    BY <1>4, <1>5, <2>1
<1>10. \A x, y \in toAdd' : x.call = y.call => x = y
  BY <1>1 DEF DfaInv
<1>11. failed' \in BOOLEAN
  BY DEF AddRoot, Push
<1> QED
  BY <1>2, <1>5, <1>9, <1>10, <1>11 DEF DfaInv

\* Unless what the edge carries adds nothing.
LEMMA ProcessPushes ==
  ASSUME DfaInv, Process
  PROVE  LET e == Head(worklist)
             o == OnionJoin(OnionAt(ir, types, e.to), Carry(ir, e, types[e.from]))
         IN  /\ OnionAt(ir, types, e.to) \in Onions /\ Under(OnionAt(ir, types, e.to), o)
             /\ o \in Onions /\ Under(Carry(ir, e, types[e.from]), o)
             /\ o # OnionAt(ir, types, e.to) =>
                  \E s : /\ Pushes(ir, types, worklist, prepped, failed, e.to, o, types',
                                   Tail(worklist), s, ir', prepped', failed')
                         /\ worklist' = Tail(worklist) \o s
<1> DEFINE e == Head(worklist)
           v == e.to
           c == Carry(ir, e, types[e.from])
           a == OnionAt(ir, types, v)
           b == TypeOnion(ir.nest[v])
           o == OnionJoin(a, c)
           rest == Tail(worklist)
<1>1. /\ e \in Range(worklist) /\ v \in Values(ir) /\ ir.kind[v] \in Flowing /\ c \in Onions
      /\ types' = [w \in DOMAIN types \cup {v} |-> IF w = v THEN o ELSE types[w]]
      /\ rest \in Seq(AnyEdge(ir)) /\ Range(rest) \subseteq Range(worklist)
      /\ \A x \in Range(worklist) : x = e \/ x \in Range(rest)
      /\ o # a => Push(v, rest)
  BY ProcessIs
<1>2. WellFormed(ir) /\ TypesFit(ir, types) /\ Queued(ir, types, worklist, failed)
      /\ Entered(ir, types, prepped, failed) /\ Closed(ir, types, worklist, failed)
  BY DEF DfaInv
<1>3. /\ ir.nest[v] \in Nat /\ b \in Onions
      /\ a \in Onions /\ Len(a) <= ir.nest[v] + 1 /\ (a = b \/ ~Under(a, b))
  BY <1>1, <1>2, AtIs
<1>4. /\ o \in Onions /\ Len(o) <= Len(a) /\ Under(a, o) /\ Under(c, o)
  BY <1>1, <1>3, JoinIsLeast
<1> HIDE DEF e, v, c, rest, a, b, o
<1>5. Len(o) <= ir.nest[v] + 1
  BY <1>3, <1>4 DEF Onions
<1>6. /\ DOMAIN types' = DOMAIN types \cup {v} /\ types'[v] = o
      /\ \A w \in DOMAIN types : w # v => types'[w] = types[w]
  BY <1>1
<1>7. ASSUME o # a
      PROVE  \E s : /\ Pushes(ir, types, worklist, prepped, failed, v, o, types',
                              rest, s, ir', prepped', failed')
                    /\ worklist' = rest \o s
  <2>1. /\ ir' = IF ir.fn[v] \in prepped \cup {"none"} THEN ir ELSE Prepare(ir, ir.fn[v])
        /\ prepped' = prepped \cup ({ir.fn[v]} \ {"none"})
        /\ failed' = (failed \/ Unsupported(ir', v))
        /\ \E s \in SetToSeqs(Edges(ir', v)) : worklist' = rest \o s
    BY <1>1, <1>7, PushIs
  <2>2. PICK s \in SetToSeqs(Edges(ir', v)) : worklist' = rest \o s
    BY <2>1
  <2>3. ~Under(o, b)
    <3>1. CASE a = b
      BY <1>3, <1>4, <1>7, <3>1, UnderOrder
    <3>2. CASE ~Under(a, b)
      BY <1>3, <1>4, <3>2, UnderOrder
    <3> QED
      BY <1>3, <3>1, <3>2
  <2>4. \A x \in Range(worklist) :
          x \in Range(rest) \/ (x.to = v /\ Under(Carry(ir, x, types[x.from]), o))
    BY <1>1, <1>4 DEF v, c
  <2>5. failed' <=> failed \/ Unsupported(ir', v)
    BY <2>1
  <2>6. Under(OnionAt(ir, types, v), o) /\ ~Under(o, TypeOnion(ir.nest[v]))
    BY <1>4, <2>3 DEF a, b
  <2>7. Pushes(ir, types, worklist, prepped, failed, v, o, types', rest, s, ir', prepped', failed')
    BY <1>1, <1>2, <1>4, <1>5, <1>6, <2>1, <2>4, <2>5, <2>6 DEF Pushes
  <2> QED
    BY <2>2, <2>7
<1> QED
  BY <1>3, <1>4, <1>7 DEF e, v, c, rest, a, o

\* Processing an edge keeps the invariant, whether the type changes or not.
LEMMA ProcessInv ==
  ASSUME DfaInv, Process
  PROVE  DfaInv'
<1> DEFINE e == Head(worklist)
           v == e.to
           c == Carry(ir, e, types[e.from])
           a == OnionAt(ir, types, v)
           o == OnionJoin(a, c)
           rest == Tail(worklist)
<1>1. /\ ~failed /\ toAdd = {} /\ toAdd' = {}
      /\ e \in Range(worklist) /\ e.from \in Moved(ir, types)
      /\ e \in Edges(ir, e.from) /\ e.from \in Values(ir) /\ v \in Values(ir)
      /\ types' = [w \in DOMAIN types \cup {v} |-> IF w = v THEN o ELSE types[w]]
      /\ rest \in Seq(AnyEdge(ir)) /\ Range(rest) \subseteq Range(worklist)
      /\ \A x \in Range(worklist) : x = e \/ x \in Range(rest)
      /\ IF o # a THEN Push(v, rest) ELSE worklist' = rest /\ UNCHANGED <<ir, prepped, failed>>
  BY ProcessIs
<1>2. /\ a \in Onions /\ Under(c, o)
      /\ o # a => \E s : /\ Pushes(ir, types, worklist, prepped, failed, v, o, types',
                                   rest, s, ir', prepped', failed')
                         /\ worklist' = rest \o s
  BY ProcessPushes
<1>3. WellFormed(ir) /\ TypesFit(ir, types) /\ Queued(ir, types, worklist, failed)
      /\ Entered(ir, types, prepped, failed) /\ Closed(ir, types, worklist, failed)
      /\ failed \in BOOLEAN
  BY DEF DfaInv
<1> HIDE DEF e, v, c, rest, a, o
<1>4. CASE o # a
  <2>1. PICK s : /\ Pushes(ir, types, worklist, prepped, failed, v, o, types',
                           rest, s, ir', prepped', failed')
                 /\ worklist' = rest \o s
    BY <1>2, <1>4
  <2>2. /\ WellFormed(ir') /\ TypesFit(ir', types') /\ Queued(ir', types', rest \o s, failed')
        /\ Entered(ir', types', prepped', failed') /\ Closed(ir', types', rest \o s, failed')
    BY <2>1, PushKeeps
  <2>3. failed' \in BOOLEAN
    BY <1>1, <1>4 DEF Push
  <2> QED
    BY <1>1, <2>1, <2>2, <2>3 DEF DfaInv
<1>5. CASE o = a
  <2>1. worklist' = rest /\ UNCHANGED <<ir, prepped, failed>>
    BY <1>1, <1>5
  <2>2. \A w : OnionAt(ir, types', w) = OnionAt(ir, types, w)
    BY <1>1, <1>5 DEF OnionAt, a
  <2>3. \A w \in DOMAIN types : types'[w] = types[w]
    BY <1>1, <2>2 DEF OnionAt
  <2>4. Moved(ir, types') = Moved(ir, types)
    <3>1. \A w \in Moved(ir, types) : w \in Moved(ir, types')
      BY <1>1, <2>3 DEF Moved
    <3>2. \A w \in Moved(ir, types') : w \in Moved(ir, types)
      BY <1>1, <2>2, <2>3 DEF Moved, OnionAt
    <3> QED
      BY <3>1, <3>2
  <2>5. TypesFit(ir, types')
    <3>1. DOMAIN types' \subseteq Values(ir)
      BY <1>1, <1>3 DEF TypesFit
    <3>2. \A w \in DOMAIN types' : types'[w] = OnionAt(ir, types, w)
      BY <2>2 DEF OnionAt
    <3> QED
      BY <1>3, <3>1, <3>2, AtIs DEF TypesFit
  <2>6. Queued(ir, types', rest, failed)
    BY <1>1, <1>3, <2>4 DEF Queued
  <2>7. Entered(ir, types', prepped, failed)
    BY <1>3, <2>4 DEF Entered
  <2>8. Closed(ir, types', rest, failed)
    <3> SUFFICES ASSUME NEW w \in Moved(ir, types), NEW x \in Edges(ir, w), x \notin Range(rest)
                 PROVE  Under(Carry(ir, x, types[w]), OnionAt(ir, types, x.to))
      BY <2>2, <2>3, <2>4 DEF Closed, Moved
    <3>1. CASE x \in Range(worklist)
      <4>1. x = e /\ w \in Values(ir)
        BY <1>1, <1>3, <3>1 DEF Moved, TypesFit
      <4>2. e.from = w
        BY <1>3, <4>1, EdgeIs
      <4> QED
        BY <1>2, <1>5, <4>1, <4>2 DEF a, c, v
    <3>2. CASE x \notin Range(worklist)
      BY <1>1, <1>3, <3>2 DEF Closed
    <3> QED
      BY <3>1, <3>2
  <2> QED
    BY <1>1, <1>3, <2>1, <2>5, <2>6, <2>7, <2>8 DEF DfaInv
<1> QED
  BY <1>4, <1>5

\* Every step keeps the invariant.
LEMMA DfaStepInv == DfaInv /\ [DfaNext]_dfaVars => DfaInv'
<1> SUFFICES ASSUME DfaInv, [DfaNext]_dfaVars
             PROVE  DfaInv'
  OBVIOUS
<1>1. ASSUME NEW r \in toAdd, AddRoot(r)
      PROVE  DfaInv'
  BY <1>1, AddRootInv
<1>2. CASE Process
  BY <1>2, ProcessInv
<1>3. CASE UNCHANGED dfaVars
  BY <1>3 DEF dfaVars, DfaInv
<1> QED
  BY <1>1, <1>2, <1>3 DEF DfaNext

\* The invariant holds in every state of every run on every program.
THEOREM DfaInvariant == DfaSpec => []DfaInv
<1>1. DfaInit => DfaInv
  BY DfaInitInv
<1>2. DfaInv /\ [DfaNext]_dfaVars => DfaInv'
  BY DfaStepInv
<1> QED
  BY <1>1, <1>2, PTL DEF DfaSpec

\* Types are onions of values of the program with at most the pointers of their
\* LLVM types, so the assertion of dfa.hpp:140 never fails (dfa.cpp:69-93).
THEOREM DfaTypeCorrect == DfaSpec => []DfaTypeOK
<1>1. DfaInv => DfaTypeOK
  <2> SUFFICES ASSUME DfaInv PROVE DfaTypeOK
    OBVIOUS
  <2>1. /\ DOMAIN types \subseteq Values(ir)
        /\ \A v \in DOMAIN types : types[v] \in Onions /\ Len(types[v]) <= ir.nest[v] + 1
    BY DEF DfaInv, TypesFit
  <2>2. \A i \in DOMAIN worklist : worklist[i].from \in DOMAIN types
    BY DEF DfaInv, Queued, Range
  <2>3. (\A r \in toAdd : r.call \in Values(ir)) /\ failed \in BOOLEAN
    BY DEF DfaInv
  <2> QED
    BY <2>1, <2>2, <2>3 DEF DfaTypeOK
<1> QED
  BY <1>1, DfaInvariant, PTL

\* What an edge carries adds nothing exactly when it is below the type that is
\* there.
LEMMA JoinedAbsorbs ==
  ASSUME NEW p, WellFormed(p), NEW v \in Values(p), NEW e \in Edges(p, v),
         NEW to \in Onions, Len(to) <= p.nest[e.to] + 1, NEW from \in Onions
  PROVE  Joined(p, e, to, from) = to <=> Under(Carry(p, e, from), to)
<1>1. e.to \in Values(p) /\ e.ty \in EdgeKinds /\ (p.kind[e.to] = "cmp" => e.ty = "uniform")
  BY EdgeIs
<1>2. p.kind[e.to] = "cmp" => Len(to) = 1
  <2>1. p.kind[e.to] = "cmp" => p.nest[e.to] = 0
    BY <1>1 DEF WellFormed
  <2>2. Len(to) \in Nat \ {0}
    BY DEF Onions
  <2>3. \A l, n : l \in Nat \ {0} /\ l <= n + 1 /\ n = 0 => l = 1
    OBVIOUS
  <2> QED
    BY <2>1, <2>2, <2>3, Zenon
<1>3. Joined(p, e, to, from) = OnionJoin(to, Carry(p, e, from))
  BY <1>1, <1>2, JoinedIs
<1>4. Carry(p, e, from) \in Onions
  BY <1>1, CarryIs
<1> QED
  BY <1>3, <1>4, JoinAbsorbs

\* No edge is forgotten, although functions are preprocessed while edges wait:
\* what a value has found has arrived, or is in the queue, wherever the value
\* leads (dfa.cpp:75-86, 270-300).
THEOREM SaturatedAlways == DfaSpec => []Saturated
<1>1. DfaInv => Saturated
  <2> SUFFICES ASSUME DfaInv, ~failed, NEW v \in Changed, NEW e \in Edges(ir, v), e \notin Range(worklist)
               PROVE  Joined(ir, e, Get(types, e.to), types[v]) = Get(types, e.to)
    BY DEF Saturated
  <2>1. v \in Moved(ir, types) /\ v \in DOMAIN types /\ v \in Values(ir) /\ types[v] \in Onions
    BY DEF Changed, Moved, DfaInv, TypesFit
  <2>2. Under(Carry(ir, e, types[v]), OnionAt(ir, types, e.to))
    BY <2>1 DEF DfaInv, Closed
  <2>3. e.to \in Values(ir) /\ WellFormed(ir)
    BY <2>1, EdgeIs DEF DfaInv
  <2>4. OnionAt(ir, types, e.to) \in Onions /\ Len(OnionAt(ir, types, e.to)) <= ir.nest[e.to] + 1
    BY <2>3, AtIs DEF DfaInv
  <2>5. Joined(ir, e, OnionAt(ir, types, e.to), types[v]) = OnionAt(ir, types, e.to)
    BY <2>1, <2>2, <2>3, <2>4, JoinedAbsorbs
  <2> QED
    BY <2>5, GetIs
<1> QED
  BY <1>1, DfaInvariant, PTL

-----------------------------------------------------------------------------
(***************************************************************************)
(* The least solution.                                                     *)
(***************************************************************************)

\* Lowering the selects of a function leaves none there, and users that have a
\* rule or will have one.
LEMMA SelectsSupport ==
  ASSUME NEW p, WellFormed(p), Supportable(p), NEW f
  PROVE  LET q == LowerSelects(p, f)
         IN  /\ Supportable(q)
             /\ \A u \in Values(p) : q.kind[u] = "select" => p.kind[u] = "select" /\ p.fn[u] # f
<1> DEFINE q == LowerSelects(p, f)
           S == {v \in Values(p) : p.fn[v] = f /\ p.kind[v] = "select"}
<1>1. SameBut(p, q)
  BY SelectsKeep
<1>2. \A u \in S : q.kind[u] = "phi"
  BY SelectsLowered
<1>3. \A u \in Values(p) \ S :
        \/ q.kind[u] = p.kind[u] /\ q.ops[u] = p.ops[u]
        \/ p.kind[u] \in {"unborn", "branch"} /\ q.kind[u] = "branch"
  BY SelectsLowered
<1> HIDE DEF q
<1>4. \A u \in Values(p) : q.kind[u] = "select" =>
        p.kind[u] = "select" /\ p.fn[u] # f /\ q.ops[u] = p.ops[u]
  BY <1>2, <1>3
<1>5. \A u \in Values(p) : p.kind[u] = "const" => q.kind[u] = "const"
  BY <1>3
<1>6. ASSUME NEW u \in Values(p), q.ops[u] # << >>
      PROVE  q.kind[u] \in UniformKinds \cup IgnoredKinds \cup {"load", "store", "ret", "intrinsic", "select"}
  BY <1>2, <1>3, <1>6 DEF Supportable, UniformKinds, IgnoredKinds
<1>7. ASSUME NEW u \in Values(p), q.ops[u] # << >>, q.kind[u] = "select",
             NEW o \in Range(q.ops[u]), q.fn[o] = "none"
      PROVE  q.kind[o] = "const"
  <2>1. o \in Range(p.ops[u]) /\ p.ops[u] # << >> /\ p.kind[u] = "select" /\ p.fn[o] = "none"
    BY <1>1, <1>4, <1>7 DEF SameBut
  <2>2. p.kind[o] = "const"
    BY <2>1 DEF Supportable
  <2>3. o \in Values(p)
    BY <2>1 DEF WellFormed, Range
  <2> QED
    BY <1>5, <2>2, <2>3
<1> QED
  BY <1>1, <1>4, <1>6, <1>7 DEF Supportable, SameBut, q

\* So does lowering comparisons.
LEMMA CmpsSupport ==
  ASSUME NEW p, WellFormed(p), Supportable(p), NEW f
  PROVE  LET q == LowerCmps(p, f)
         IN  /\ Supportable(q)
             /\ \A u \in Values(p) : q.kind[u] = "select" => p.kind[u] = "select"
<1> DEFINE q == LowerCmps(p, f)
           C == {c \in Values(p) : /\ p.fn[c] = f /\ p.kind[c] = "cmp"
                                   /\ \E u \in Users(p, c) : p.kind[u] # "branch"}
           cut(u) == [i \in DOMAIN p.ops[u] |->
                        IF p.ops[u][i] \in C THEN p.lowered ELSE p.ops[u][i]]
<1>1. SameBut(p, q)
  BY CmpsKeep
<1>2. \A u \in Values(p) :
        \/ q.kind[u] = p.kind[u] /\ q.ops[u] = cut(u)
        \/ p.kind[u] \in {"unborn", "branch"} /\ q.kind[u] = "branch"
  BY CmpsLowered
<1>3. p.lowered \in Values(p) /\ p.kind[p.lowered] = "const"
  BY DEF WellFormed
<1> HIDE DEF q, C
<1>4. \A u \in Values(p) : /\ q.kind[u] = "select" => p.kind[u] = "select" /\ q.ops[u] = cut(u)
                           /\ p.kind[u] = "const" => q.kind[u] = "const"
  BY <1>2
<1>5. \A u \in Values(p) : p.ops[u] \in Seq(Values(p))
  BY DEF WellFormed
<1>6. \A u \in Values(p) : /\ cut(u) # << >> => p.ops[u] # << >>
                           /\ \A o \in Range(cut(u)) : o = p.lowered \/ o \in Range(p.ops[u])
  <2> SUFFICES ASSUME NEW u \in Values(p)
               PROVE  /\ cut(u) # << >> => p.ops[u] # << >>
                      /\ \A o \in Range(cut(u)) : o = p.lowered \/ o \in Range(p.ops[u])
    OBVIOUS
  <2>1. cut(u) # << >> => p.ops[u] # << >>
    OBVIOUS
  <2>2. \A o \in Range(cut(u)) : o = p.lowered \/ o \in Range(p.ops[u])
    BY DEF Range
  <2> QED
    BY <2>1, <2>2
<1> HIDE DEF cut
<1>7. ASSUME NEW u \in Values(p), q.ops[u] # << >>
      PROVE  q.kind[u] \in UniformKinds \cup IgnoredKinds \cup {"load", "store", "ret", "intrinsic", "select"}
  <2>1. CASE q.kind[u] = "branch"
    BY <2>1 DEF IgnoredKinds
  <2>2. CASE q.kind[u] # "branch"
    <3>1. q.kind[u] = p.kind[u] /\ p.ops[u] # << >>
      BY <1>2, <1>6, <1>7, <2>2
    <3> QED
      BY <3>1 DEF Supportable
  <2> QED
    BY <2>1, <2>2
<1>8. ASSUME NEW u \in Values(p), q.ops[u] # << >>, q.kind[u] = "select",
             NEW o \in Range(q.ops[u]), q.fn[o] = "none"
      PROVE  q.kind[o] = "const"
  <2>1. p.kind[u] = "select" /\ q.ops[u] = cut(u)
    BY <1>4, <1>8
  <2>2. p.ops[u] # << >> /\ (o = p.lowered \/ o \in Range(p.ops[u]))
    BY <1>6, <1>8, <2>1
  <2>3. CASE o = p.lowered
    BY <1>3, <1>4, <2>3
  <2>4. CASE o \in Range(p.ops[u])
    <3>1. o \in Values(p)
      BY <1>5, <2>4 DEF Range
    <3>2. p.fn[o] = "none"
      BY <1>1, <1>8 DEF SameBut
    <3>3. p.kind[o] = "const"
      BY <2>1, <2>2, <2>4, <3>2 DEF Supportable
    <3> QED
      BY <1>4, <3>1, <3>3
  <2> QED
    BY <2>2, <2>3, <2>4
<1> QED
  BY <1>1, <1>4, <1>7, <1>8 DEF Supportable, SameBut, q

\* Functions that were preprocessed have no selects.
SupportInv ==
  /\ ~failed /\ Supportable(ir)
  /\ \A u \in Values(ir) : ir.kind[u] = "select" => ir.fn[u] \notin prepped

\* Pushing a value that types flow to asks for edges that have a rule.
LEMMA PushSupported ==
  ASSUME WellFormed(ir), SupportInv, NEW v \in Values(ir), ir.kind[v] \in Flowing,
         NEW rest, Push(v, rest)
  PROVE  SupportInv'
<1> DEFINE f == ir.fn[v]
<1>1. /\ ir' = IF f \in prepped \cup {"none"} THEN ir ELSE Prepare(ir, f)
      /\ prepped' = prepped \cup ({f} \ {"none"}) /\ failed' = (failed \/ Unsupported(ir', v))
  BY DEF Push
<1>2. /\ WellFormed(ir') /\ Supportable(ir') /\ SameBut(ir, ir') /\ ir'.kind[v] = ir.kind[v]
      /\ \A u \in Values(ir) : ir'.kind[u] = "select" => ir.kind[u] = "select" /\ ir.fn[u] \notin prepped'
  <2>1. CASE f \in prepped \cup {"none"}
    BY <1>1, <2>1 DEF SupportInv, SameBut, WellFormed
  <2>2. CASE f \notin prepped \cup {"none"}
    <3> DEFINE m == LowerSelects(ir, f)
    <3>1. ir' = LowerCmps(m, f)
      BY <1>1, <2>2 DEF Prepare
    <3>2. WellFormed(m) /\ SameBut(ir, m) /\ Supportable(m)
          /\ \A u \in Values(ir) : m.kind[u] = "select" => ir.kind[u] = "select" /\ ir.fn[u] # f
      BY SelectsKeep, SelectsSupport DEF SupportInv
    <3> HIDE DEF m
    <3>3. Supportable(ir') /\ \A u \in Values(m) : ir'.kind[u] = "select" => m.kind[u] = "select"
      BY <3>1, <3>2, CmpsSupport
    <3>4. WellFormed(ir') /\ SameBut(ir, ir') /\ ir'.kind[v] = ir.kind[v]
      BY <1>1, <2>2, PrepareKeeps
    <3> QED
      BY <1>1, <3>2, <3>3, <3>4 DEF SupportInv, SameBut
  <2> QED
    BY <2>1, <2>2
<1>3. ASSUME Unsupported(ir', v)
      PROVE  FALSE
  <2>1. PICK u \in Users(ir', v) :
          ir'.kind[u] \notin UniformKinds \cup IgnoredKinds \cup {"load", "store", "ret", "intrinsic"}
    BY <1>3 DEF Unsupported
  <2>2. u \in Values(ir') /\ v \in Range(ir'.ops[u]) /\ ir'.ops[u] # << >>
    BY DEF Users, Range
  <2>3. ir'.kind[u] = "select"
    BY <1>2, <2>1, <2>2 DEF Supportable
  <2>4. ir'.fn[v] # "none"
    <3>1. ir'.kind[v] # "const"
      BY <1>2 DEF Flowing, UniformKinds
    <3> QED
      BY <1>2, <2>2, <2>3, <3>1 DEF Supportable
  <2>5. ir'.fn[v] = ir'.fn[u]
    BY <1>2, <2>2, <2>4 DEF WellFormed
  <2>6. ir.fn[u] = f /\ f # "none"
    BY <1>2, <2>4, <2>5 DEF SameBut
  <2>7. f \in prepped'
    BY <1>1, <2>6
  <2> QED
    BY <1>2, <2>2, <2>3, <2>6, <2>7 DEF SameBut
<1> QED
  BY <1>1, <1>2, <1>3 DEF SupportInv, SameBut

\* Every step asks for such edges.
LEMMA SupportStep == DfaInv /\ SupportInv /\ [DfaNext]_dfaVars => SupportInv'
<1> SUFFICES ASSUME DfaInv, SupportInv, [DfaNext]_dfaVars
             PROVE  SupportInv'
  OBVIOUS
<1>1. ASSUME NEW r \in toAdd, AddRoot(r)
      PROVE  SupportInv'
  <2>1. r.call \in Values(ir) /\ ir.kind[r.call] \in Flowing /\ WellFormed(ir)
    BY DEF DfaInv, Flowing, UniformKinds
  <2> QED
    BY <1>1, <2>1, PushSupported DEF AddRoot
<1>2. CASE Process
  <2> DEFINE e == Head(worklist)
  <2>1. e.from \in Values(ir) /\ e \in Edges(ir, e.from) /\ WellFormed(ir)
    BY <1>2, ProcessIs DEF DfaInv
  <2>2. e.to \in Values(ir) /\ ir.kind[e.to] \in Flowing
    BY <2>1, EdgeIs
  <2>3. Push(e.to, Tail(worklist)) \/ UNCHANGED <<ir, prepped, failed>>
    BY <1>2 DEF Process
  <2> HIDE DEF e
  <2> QED
    BY <2>1, <2>2, <2>3, PushSupported DEF SupportInv, Supportable
<1>3. CASE UNCHANGED dfaVars
  BY <1>3 DEF dfaVars, SupportInv, Supportable
<1> QED
  BY <1>1, <1>2, <1>3 DEF DfaNext

\* In a program whose users have rules, or are selects of values of their own
\* function, no edge without a rule is asked for (dfa.cpp:195-243).
THEOREM EdgesSupportedAlways == DfaSpec /\ Supportable(ir) => []EdgesSupported
<1>1. DfaInit /\ Supportable(ir) => SupportInv
  BY DEF DfaInit, SupportInv
<1>2. DfaInv /\ SupportInv /\ [DfaNext]_dfaVars => SupportInv'
  BY SupportStep
<1>3. SupportInv => EdgesSupported
  BY DEF SupportInv, EdgesSupported
<1> QED
  BY <1>1, <1>2, <1>3, DfaInvariant, PTL DEF DfaSpec

IsRoot(R, v) == \E r \in R : r.call = v

\* The edges of the values in M are equations: sol is a solution of theirs that
\* is above the types of LLVM, and above those of the roots R.
Solves(p, R, M, sol) ==
  /\ sol \in [Values(p) -> Onions]
  /\ \A v \in Values(p) : ~IsRoot(R, v) => Under(TypeOnion(p.nest[v]), sol[v])
  /\ \A r \in R : Under(RootType(p, r), sol[r.call])
  /\ \A v \in M : sol[v] # TypeOnion(p.nest[v]) =>
       \A e \in Edges(p, v) : Under(Carry(p, e, sol[v]), sol[e.to])

\* Nothing is above any solution.
Least(p, R, t, fail) == ~fail =>
  \A sol : Solves(p, R, Moved(p, t), sol) => \A v \in DOMAIN t : Under(t[v], sol[v])

\* Roots have their types, or will get them, and the others are above LLVM's.
Grounded(p, R, t, add) ==
  /\ \A r \in R : r \in add \/ (r.call \in DOMAIN t /\ Under(RootType(p, r), t[r.call]))
  /\ \A v \in DOMAIN t : ~IsRoot(R, v) => Under(TypeOnion(p.nest[v]), t[v])

\* A step that changes the type of v keeps it the least, if the new type is.
LEMMA PushLeast ==
  ASSUME NEW p, NEW t, NEW wl, NEW prep, NEW fail, NEW v, NEW o, NEW u, NEW rest, NEW s,
         NEW q, NEW prep2, NEW fail2,
         Pushes(p, t, wl, prep, fail, v, o, u, rest, s, q, prep2, fail2),
         NEW R, Least(p, R, t, fail),
         ~fail => \A sol : Solves(p, R, Moved(p, t), sol) /\ (\A w \in DOMAIN t : Under(t[w], sol[w]))
                             => Under(o, sol[v])
  PROVE  Least(q, R, u, fail2)
<1>1. /\ Values(q) = Values(p) /\ q.nest = p.nest
      /\ \A w \in Values(p) :
           p.fn[w] \in prep \cup {"none"} /\ p.kind[w] \in Flowing /\ ~Unsupported(p, w)
             => Edges(q, w) = Edges(p, w)
      /\ \A e, c : e.to \in Values(p) => Carry(q, e, c) = Carry(p, e, c)
  <2>1. /\ WellFormed(p) /\ v \in Values(p)
        /\ q = IF p.fn[v] \in prep \cup {"none"} THEN p ELSE Prepare(p, p.fn[v])
    BY DEF Pushes
  <2> QED
    BY <2>1, PreparedIs
<1>2. /\ WellFormed(p) /\ TypesFit(p, t) /\ Entered(p, t, prep, fail) /\ (fail => fail2)
      /\ DOMAIN u = DOMAIN t \cup {v} /\ u[v] = o
      /\ \A w \in DOMAIN t : w # v => u[w] = t[w]
      /\ o \in Onions /\ ~Under(o, TypeOnion(p.nest[v]))
  BY DEF Pushes
<1> SUFFICES ASSUME ~fail2, NEW sol, Solves(q, R, Moved(q, u), sol), NEW w \in DOMAIN u
             PROVE  Under(u[w], sol[w])
  BY DEF Least
<1>3. Moved(p, t) \subseteq Moved(q, u)
  <2>1. o # TypeOnion(p.nest[v])
    BY <1>2, UnderOrder
  <2> QED
    BY <1>1, <1>2, <2>1 DEF Moved
<1>4. \A x \in Moved(p, t) : x \in Values(p) /\ Edges(q, x) = Edges(p, x)
  BY <1>1, <1>2 DEF Moved, TypesFit, Entered
<1>5. Solves(p, R, Moved(p, t), sol)
  <2>1. \A r : RootType(q, r) = RootType(p, r)
    BY <1>1 DEF RootType
  <2>2. /\ sol \in [Values(p) -> Onions]
        /\ \A x \in Values(p) : ~IsRoot(R, x) => Under(TypeOnion(p.nest[x]), sol[x])
        /\ \A r \in R : Under(RootType(p, r), sol[r.call])
    BY <1>1, <2>1 DEF Solves
  <2>3. ASSUME NEW x \in Moved(p, t), sol[x] # TypeOnion(p.nest[x]), NEW e \in Edges(p, x)
        PROVE  Under(Carry(p, e, sol[x]), sol[e.to])
    <3>1. Under(Carry(q, e, sol[x]), sol[e.to])
      BY <1>1, <1>3, <1>4, <2>3 DEF Solves
    <3>2. e.to \in Values(p)
      BY <1>2, <1>4, EdgeIs
    <3> QED
      BY <1>1, <3>1, <3>2
  <2> QED
    BY <2>2, <2>3 DEF Solves
<1>6. \A x \in DOMAIN t : Under(t[x], sol[x])
  BY <1>2, <1>5 DEF Least
<1>7. Under(o, sol[v])
  BY <1>2, <1>5, <1>6
<1> QED
  BY <1>2, <1>6, <1>7

\* With a given set R of roots.
LeastInv(R) ==
  /\ toAdd \subseteq R
  /\ \A r \in R : r.call \in Values(ir) /\ ir.kind[r.call] = "call"
  /\ \A r, s \in R : r.call = s.call => r = s
  /\ Grounded(ir, R, types, toAdd)
  /\ Least(ir, R, types, failed)

\* OnionAt the start nothing is above any solution.
LEMMA LeastInit == ASSUME NEW R PROVE DfaInit /\ toAdd = R => LeastInv(R)
<1> SUFFICES ASSUME DfaInit, toAdd = R PROVE LeastInv(R)
  OBVIOUS
<1>1. DfaInv
  BY DfaInitInv
<1>2. DOMAIN types = {}
  BY DEF DfaInit
<1>3. Grounded(ir, R, types, toAdd) /\ Least(ir, R, types, failed)
  BY <1>2 DEF Grounded, Least
<1> QED
  BY <1>1, <1>3 DEF LeastInv, DfaInv

\* A root's type is below any solution by the equation of the root.
LEMMA AddRootLeast ==
  ASSUME NEW R, DfaInv, LeastInv(R), NEW r \in toAdd, AddRoot(r)
  PROVE  LeastInv(R)'
<1> DEFINE v == r.call
           o == RootType(ir, r)
<1>1. /\ v \in Values(ir) /\ v \notin DOMAIN types
      /\ types' = [w \in DOMAIN types \cup {v} |-> IF w = v THEN o ELSE types[w]]
      /\ toAdd' = toAdd \ {r}
  BY AddRootIs
<1>2. PICK s : Pushes(ir, types, worklist, prepped, failed, v, o, types',
                      worklist, s, ir', prepped', failed')
  BY AddRootPushes
<1>3. r \in R /\ o \in Onions
  BY <1>2 DEF LeastInv, Pushes
<1>4. Least(ir', R, types', failed')
  <2>1. \A sol : Solves(ir, R, Moved(ir, types), sol) => Under(o, sol[v])
    BY <1>3 DEF Solves
  <2>2. Least(ir, R, types, failed)
    BY DEF LeastInv
  <2> HIDE DEF o, v
  <2> QED
    BY <1>2, <2>1, <2>2, PushLeast
<1>5. /\ Values(ir') = Values(ir) /\ ir'.nest = ir.nest
      /\ \A w \in Values(ir) : ir.kind[w] = "call" => ir'.kind[w] = "call"
  BY <1>2, PushKeeps
<1>6. \A x : RootType(ir', x) = RootType(ir, x)
  BY <1>5 DEF RootType
<1> HIDE DEF o
<1>7. Grounded(ir', R, types', toAdd')
  <2>1. ASSUME NEW x \in R, x \notin toAdd'
        PROVE  x.call \in DOMAIN types' /\ Under(RootType(ir, x), types'[x.call])
    <3>1. CASE x = r
      BY <1>1, <1>3, <3>1, UnderOrder DEF o
    <3>2. CASE x # r
      <4>1. x.call \in DOMAIN types /\ Under(RootType(ir, x), types[x.call])
        BY <1>1, <2>1, <3>2 DEF LeastInv, Grounded
      <4> QED
        BY <1>1, <4>1
    <3> QED
      BY <3>1, <3>2
  <2>2. ASSUME NEW w \in DOMAIN types', ~IsRoot(R, w)
        PROVE  Under(TypeOnion(ir.nest[w]), types'[w])
    <3>1. w # v
      BY <1>3, <2>2 DEF IsRoot
    <3> QED
      BY <1>1, <2>2, <3>1 DEF LeastInv, Grounded
  <2> QED
    BY <1>5, <1>6, <2>1, <2>2 DEF Grounded
<1> QED
  BY <1>1, <1>4, <1>5, <1>7 DEF LeastInv

\* A joined type is, as both parts of the join are: what the edge carries by
\* monotonicity and the equation of the edge.
LEMMA ProcessLeast ==
  ASSUME NEW R, DfaInv, LeastInv(R), Process
  PROVE  LeastInv(R)'
<1> DEFINE e == Head(worklist)
           v == e.to
           c == Carry(ir, e, types[e.from])
           a == OnionAt(ir, types, v)
           o == OnionJoin(a, c)
           rest == Tail(worklist)
<1>1. /\ ~failed /\ toAdd = {} /\ toAdd' = {}
      /\ e.from \in Moved(ir, types) /\ e \in Edges(ir, e.from) /\ e.from \in Values(ir)
      /\ v \in Values(ir) /\ e.ty \in EdgeKinds /\ types[e.from] \in Onions /\ c \in Onions
      /\ types' = [w \in DOMAIN types \cup {v} |-> IF w = v THEN o ELSE types[w]]
      /\ IF o # a THEN Push(v, rest) ELSE worklist' = rest /\ UNCHANGED <<ir, prepped, failed>>
  BY ProcessIs
<1>2. /\ a \in Onions /\ o \in Onions /\ Under(a, o)
      /\ o # a => \E s : Pushes(ir, types, worklist, prepped, failed, v, o, types',
                                rest, s, ir', prepped', failed')
  BY ProcessPushes
<1>3. /\ WellFormed(ir) /\ TypesFit(ir, types) /\ Grounded(ir, R, types, toAdd)
      /\ Least(ir, R, types, failed)
  BY DEF DfaInv, LeastInv
<1>4. ASSUME NEW w \in Values(ir), ~IsRoot(R, w)
      PROVE  Under(TypeOnion(ir.nest[w]), OnionAt(ir, types, w))
  <2>1. TypeOnion(ir.nest[w]) \in Onions
    BY <1>3, AtIs
  <2> QED
    BY <1>3, <1>4, <2>1, UnderOrder DEF OnionAt, Grounded
<1>5. \A w : IsRoot(R, w) => w \in DOMAIN types
  BY <1>1, <1>3 DEF IsRoot, Grounded
<1>6. ASSUME NEW sol, Solves(ir, R, Moved(ir, types), sol),
             \A w \in DOMAIN types : Under(types[w], sol[w])
      PROVE  Under(o, sol[v])
  <2>1. sol[v] \in Onions /\ sol[e.from] \in Onions
    BY <1>1, <1>6 DEF Solves
  <2>2. Under(a, sol[v])
    BY <1>1, <1>5, <1>6 DEF Solves, OnionAt
  <2>3. e.from \in DOMAIN types /\ types[e.from] # TypeOnion(ir.nest[e.from])
    BY <1>1 DEF Moved
  <2>4. Under(types[e.from], sol[e.from]) /\ ~Under(types[e.from], TypeOnion(ir.nest[e.from]))
    BY <1>3, <1>6, <2>3 DEF TypesFit
  <2>5. sol[e.from] # TypeOnion(ir.nest[e.from])
    BY <2>4
  <2>6. Under(Carry(ir, e, sol[e.from]), sol[v])
    BY <1>1, <1>6, <2>5 DEF Solves
  <2>7. Under(c, Carry(ir, e, sol[e.from])) /\ Carry(ir, e, sol[e.from]) \in Onions
    BY <1>1, <2>1, <2>4, CarryIs
  <2> HIDE DEF a, c, v
  <2>8. Under(c, sol[v])
    BY <1>1, <2>1, <2>6, <2>7, UnderOrder
  <2> QED
    BY <1>1, <1>2, <2>1, <2>2, <2>8, JoinIsLeast
<1> HIDE DEF e, v, c, rest, o, a
<1>7. /\ Values(ir') = Values(ir) /\ ir'.nest = ir.nest /\ Least(ir', R, types', failed')
      /\ \A w \in Values(ir) : ir.kind[w] = "call" => ir'.kind[w] = "call"
  <2>1. CASE o # a
    <3>1. PICK s : Pushes(ir, types, worklist, prepped, failed, v, o, types',
                          rest, s, ir', prepped', failed')
      BY <1>2, <2>1
    <3>2. \A sol : Solves(ir, R, Moved(ir, types), sol)
                     /\ (\A w \in DOMAIN types : Under(types[w], sol[w])) => Under(o, sol[v])
      BY <1>6
    <3> QED
      BY <1>3, <3>1, <3>2, PushKeeps, PushLeast
  <2>2. CASE o = a
    <3>1. UNCHANGED <<ir, failed>>
      BY <1>1, <2>2
    <3>2. \A w \in DOMAIN types' : types'[w] = OnionAt(ir, types, w)
      BY <1>1, <2>2 DEF OnionAt, a
    <3>3. Moved(ir, types') = Moved(ir, types)
      BY <1>1, <3>2 DEF Moved, OnionAt
    <3>4. ASSUME NEW sol, Solves(ir, R, Moved(ir, types), sol)
          PROVE  \A w \in DOMAIN types' : Under(types'[w], sol[w])
      <4>1. \A w \in DOMAIN types : Under(types[w], sol[w])
        BY <1>1, <1>3, <3>4 DEF Least
      <4>2. Under(types'[v], sol[v])
        BY <1>1, <1>6, <3>4, <4>1
      <4> QED
        BY <1>1, <4>1, <4>2
    <3> QED
      BY <3>1, <3>3, <3>4 DEF Least
  <2> QED
    BY <2>1, <2>2
<1>8. \A x : RootType(ir', x) = RootType(ir, x)
  BY <1>7 DEF RootType
<1>9. Grounded(ir', R, types', toAdd')
  <2>1. ASSUME NEW x \in R
        PROVE  x.call \in DOMAIN types' /\ Under(RootType(ir, x), types'[x.call])
    <3>1. x.call \in DOMAIN types /\ Under(RootType(ir, x), types[x.call])
      BY <1>1, <1>3 DEF Grounded
    <3>2. CASE x.call = v
      <4>1. RootType(ir, x) \in Onions
        BY <1>1, <1>3, <3>2, AtIs, RootTypeIs
      <4>2. Under(RootType(ir, x), a)
        BY <3>1, <3>2 DEF a, OnionAt
      <4> QED
        BY <1>1, <1>2, <3>2, <4>1, <4>2, UnderOrder
    <3>3. CASE x.call # v
      BY <1>1, <3>1, <3>3
    <3> QED
      BY <3>2, <3>3
  <2>2. ASSUME NEW w \in DOMAIN types', ~IsRoot(R, w)
        PROVE  Under(TypeOnion(ir.nest[w]), types'[w])
    <3>1. CASE w = v
      <4>1. TypeOnion(ir.nest[v]) \in Onions
        BY <1>1, <1>3, AtIs
      <4>2. Under(TypeOnion(ir.nest[v]), a)
        BY <1>1, <1>4, <2>2, <3>1 DEF a
      <4> QED
        BY <1>1, <1>2, <3>1, <4>1, <4>2, UnderOrder
    <3>2. CASE w # v
      BY <1>1, <1>3, <2>2, <3>2 DEF Grounded
    <3> QED
      BY <3>1, <3>2
  <2> QED
    BY <1>7, <1>8, <2>1, <2>2 DEF Grounded
<1> QED
  BY <1>1, <1>7, <1>9 DEF LeastInv

\* No step raises a type above a solution.
LEMMA LeastStep ==
  ASSUME NEW R
  PROVE  DfaInv /\ LeastInv(R) /\ [DfaNext]_dfaVars => LeastInv(R)'
<1> SUFFICES ASSUME DfaInv, LeastInv(R), [DfaNext]_dfaVars
             PROVE  LeastInv(R)'
  OBVIOUS
<1>1. ASSUME NEW r \in toAdd, AddRoot(r)
      PROVE  LeastInv(R)'
  BY <1>1, AddRootLeast
<1>2. CASE Process
  BY <1>2, ProcessLeast
<1>3. CASE UNCHANGED dfaVars
  BY <1>3 DEF dfaVars, LeastInv
<1> QED
  BY <1>1, <1>2, <1>3 DEF DfaNext

\* The order the join gives is the order by layers.
LEMMA BelowIsUnder ==
  ASSUME NEW a \in Onions, NEW b \in Onions
  PROVE  Below(a, b) <=> Under(a, b)
BY JoinAbsorbs, JoinSymmetric DEF Below

\* The equations of a program: types are above LLVM's or, for roots, those of
\* their annotation, and joining along the edges of what is not a plain type of
\* LLVM adds nothing.
Solution(p, R, sol) ==
  /\ sol \in [Values(p) -> Onions]
  /\ \A v \in Values(p) : ~IsRoot(R, v) => Below(TypeOnion(p.nest[v]), sol[v])
  /\ \A r \in R : Below(RootType(p, r), sol[r.call])
  /\ \A v \in Values(p) : sol[v] # TypeOnion(p.nest[v]) =>
       \A e \in Edges(p, v) : Joined(p, e, sol[e.to], sol[v]) = sol[e.to]

\* The equations stated with joins say the same as those stated with the order.
LEMMA SolutionSolves ==
  ASSUME NEW p, WellFormed(p), NEW R, \A r \in R : r.call \in Values(p) /\ p.kind[r.call] # "cmp",
         NEW sol
  PROVE  Solution(p, R, sol) <=> Solves(p, R, Values(p), sol)
<1>1. \A v \in Values(p) : p.nest[v] \in Nat /\ TypeOnion(p.nest[v]) \in Onions
                           /\ Len(TypeOnion(p.nest[v])) = p.nest[v] + 1
  BY BaseIs DEF WellFormed
<1>2. \A r \in R : RootType(p, r) \in Onions
  BY <1>1, RootTypeIs
<1>3. ASSUME sol \in [Values(p) -> Onions],
             \A v \in Values(p) : ~IsRoot(R, v) => Under(TypeOnion(p.nest[v]), sol[v]),
             NEW v \in Values(p), NEW e \in Edges(p, v)
      PROVE  Joined(p, e, sol[e.to], sol[v]) = sol[e.to] <=> Under(Carry(p, e, sol[v]), sol[e.to])
  <2>1. e.to \in Values(p) /\ e.ty \in EdgeKinds /\ (p.kind[e.to] = "cmp" => e.ty = "uniform")
    BY EdgeIs
  <2>2. sol[e.to] \in Onions /\ sol[v] \in Onions
    BY <1>3, <2>1
  <2>3. p.kind[e.to] = "cmp" => Len(sol[e.to]) = 1
    <3> SUFFICES ASSUME p.kind[e.to] = "cmp" PROVE Len(sol[e.to]) = 1
      OBVIOUS
    <3>1. ~IsRoot(R, e.to)
      BY DEF IsRoot
    <3>2. Len(sol[e.to]) <= Len(TypeOnion(p.nest[e.to])) /\ p.nest[e.to] = 0
      BY <1>3, <2>1, <3>1 DEF Under, WellFormed
    <3>3. Len(TypeOnion(p.nest[e.to])) = p.nest[e.to] + 1
      BY <1>1, <2>1
    <3>4. Len(sol[e.to]) \in Nat \ {0}
      BY <2>2 DEF Onions
    <3>5. \A l, m, n : l \in Nat \ {0} /\ l <= m /\ m = n + 1 /\ n = 0 => l = 1
      OBVIOUS
    <3> QED
      BY <3>2, <3>3, <3>4, <3>5, Zenon
  <2>4. Carry(p, e, sol[v]) \in Onions
    BY <2>1, <2>2, CarryIs
  <2>5. Joined(p, e, sol[e.to], sol[v]) = OnionJoin(sol[e.to], Carry(p, e, sol[v]))
    BY <2>1, <2>2, <2>3, JoinedIs
  <2> QED
    BY <2>2, <2>4, <2>5, JoinAbsorbs
<1>4. ASSUME sol \in [Values(p) -> Onions]
      PROVE  /\ \A v \in Values(p) : Below(TypeOnion(p.nest[v]), sol[v]) <=> Under(TypeOnion(p.nest[v]), sol[v])
             /\ \A r \in R : Below(RootType(p, r), sol[r.call]) <=> Under(RootType(p, r), sol[r.call])
  BY <1>1, <1>2, <1>4, BelowIsUnder
<1> QED
  BY <1>3, <1>4 DEF Solution, Solves

\* What the analysis has found when its queue is empty.
Final == [v \in Values(ir) |-> Get(types, v)]

\* It is the least solution of the equations of the program as it is then,
\* whatever the order of the edges and of the preprocessing (dfa.cpp:69-93,
\* 258-300). R are the roots, as gathered before anything is changed.
THEOREM LeastSolution ==
  ASSUME NEW CONSTANT R
  PROVE  DfaSpec /\ toAdd = R =>
           [](DfaDone => /\ Solution(ir, R, Final)
                         /\ \A sol : Solution(ir, R, sol) =>
                              \A v \in Values(ir) : Below(Final[v], sol[v]))
<1>1. DfaInit /\ toAdd = R => LeastInv(R)
  BY LeastInit
<1>2. DfaInv /\ LeastInv(R) /\ [DfaNext]_dfaVars => LeastInv(R)'
  BY LeastStep
<1>3. ASSUME DfaInv, LeastInv(R), DfaDone
      PROVE  /\ Solution(ir, R, Final)
             /\ \A sol : Solution(ir, R, sol) => \A v \in Values(ir) : Below(Final[v], sol[v])
  <2>1. /\ WellFormed(ir) /\ TypesFit(ir, types) /\ Closed(ir, types, worklist, failed)
        /\ Grounded(ir, R, types, toAdd) /\ Least(ir, R, types, failed)
        /\ ~failed /\ toAdd = {} /\ worklist = << >>
    BY <1>3 DEF DfaInv, LeastInv, DfaDone
  <2>2. \A r \in R : r.call \in Values(ir) /\ r.call \in DOMAIN types
                     /\ Under(RootType(ir, r), types[r.call])
    BY <1>3, <2>1 DEF LeastInv, Grounded
  <2>3. \A v \in Values(ir) : Final[v] = OnionAt(ir, types, v)
    BY GetIs DEF Final
  <2>4. Final \in [Values(ir) -> Onions]
    BY <2>1, <2>3, AtIs DEF Final
  <2>5. \A v \in Values(ir) : ~IsRoot(R, v) => Under(TypeOnion(ir.nest[v]), Final[v])
    <3> SUFFICES ASSUME NEW v \in Values(ir), ~IsRoot(R, v)
                 PROVE  Under(TypeOnion(ir.nest[v]), OnionAt(ir, types, v))
      BY <2>3
    <3>1. TypeOnion(ir.nest[v]) \in Onions
      BY <2>1, AtIs
    <3> QED
      BY <2>1, <3>1, UnderOrder DEF OnionAt, Grounded
  <2>6. \A r \in R : Under(RootType(ir, r), Final[r.call])
    BY <2>2, <2>3 DEF OnionAt
  <2>7. ASSUME NEW v \in Values(ir), Final[v] # TypeOnion(ir.nest[v]), NEW e \in Edges(ir, v)
        PROVE  Under(Carry(ir, e, Final[v]), Final[e.to])
    <3>1. v \in Moved(ir, types) /\ Final[v] = types[v]
      BY <2>3, <2>7 DEF OnionAt, Moved
    <3>2. Range(worklist) = {}
      BY <2>1 DEF Range
    <3>3. Under(Carry(ir, e, types[v]), OnionAt(ir, types, e.to))
      BY <2>1, <3>1, <3>2 DEF Closed
    <3>4. e.to \in Values(ir)
      BY <2>1, EdgeIs
    <3> QED
      BY <2>3, <3>1, <3>3, <3>4
  <2> HIDE DEF Final
  <2>8. Solves(ir, R, Values(ir), Final)
    BY <2>4, <2>5, <2>6, <2>7 DEF Solves
  <2>9. \A r \in R : r.call \in Values(ir) /\ ir.kind[r.call] # "cmp"
    BY <1>3 DEF LeastInv
  <2>10. ASSUME NEW sol, Solves(ir, R, Values(ir), sol), NEW v \in Values(ir)
         PROVE  Below(Final[v], sol[v])
    <3>1. Solves(ir, R, Moved(ir, types), sol)
      BY <2>1, <2>10 DEF Solves, Moved, TypesFit
    <3>2. sol[v] \in Onions /\ Final[v] \in Onions
      BY <2>4, <2>10 DEF Solves
    <3>3. CASE v \in DOMAIN types
      BY <2>1, <2>3, <3>1, <3>2, <3>3, BelowIsUnder DEF OnionAt, Least
    <3>4. CASE v \notin DOMAIN types
      <4>1. ~IsRoot(R, v)
        BY <2>2, <3>4 DEF IsRoot
      <4> QED
        BY <2>3, <2>10, <3>2, <3>4, <4>1, BelowIsUnder DEF OnionAt, Solves
    <3> QED
      BY <3>3, <3>4
  <2> QED
    BY <2>1, <2>8, <2>9, <2>10, SolutionSolves
<1> QED
  BY <1>1, <1>2, <1>3, DfaInvariant, PTL DEF DfaSpec
=============================================================================
