---------------------------- MODULE PolicyProofs ----------------------------
(***************************************************************************)
(* Proof that the replacement algorithms implement ReplacementPolicy.      *)
(***************************************************************************)
EXTENDS SimProofs, SequenceTheorems, WellFoundedInduction

(***************************************************************************)
(* The order of the frames.                                                *)
(***************************************************************************)

LEMMA LeastIndex ==
  ASSUME NEW T \in SUBSET Nat, T # {}
  PROVE  \E i \in T : \A j \in T : i <= j
<1>1. PICK i \in T : \A j \in T : ~ (<<j, i>> \in OpToRel(<, Nat))
  BY NatLessThanWellFounded, WFMin
<1>2. \A j \in T : ~(j < i)
  BY <1>1 DEF OpToRel
<1> QED
  BY <1>2

(* The recursive definition of Chain has the one solution that an order    *)
(* of the frames is.                                                       *)
LEMMA ChainIs ==
  ASSUME NEW l, NEW first, InOrder(l, links, Used, first)
  PROVE  Chain(first) = l
<1> DEFINE n == Cardinality(Used)
           Step(f, i) == IF i = 1 THEN first ELSE links.frame_above[f[i - 1]]
           IsChain(f) == f = [i \in 1..n |-> Step(f, i)]
<1>1. n \in Nat
  BY UsedFinite
<1>2. DOMAIN l = 1..n /\ l = [i \in 1..n |-> l[i]]
  BY DEF InOrder
<1>3. \A i \in 1..n : l[i] = Step(l, i)
  <2>1. ASSUME NEW i \in 1..n, i # 1 PROVE l[i] = links.frame_above[l[i - 1]]
    <3>1. \A j \in DOMAIN l : j > 1 => l[j] = links.frame_above[l[j - 1]]
      BY DEF InOrder
    <3>2. i \in DOMAIN l /\ i > 1
      BY <1>2, <2>1
    <3> QED
      BY <3>1, <3>2
  <2>2. 1 \in 1..n => l[1] = first
    <3>1. 1 \in 1..n => Used # {}
      BY <1>2 DEF InOrder
    <3> QED
      BY <3>1 DEF InOrder
  <2> QED
    BY <2>1, <2>2
<1>4. IsChain(l)
  BY <1>2, <1>3
<1>5. ASSUME NEW f, IsChain(f) PROVE f = l
  <2> DEFINE T == {i \in 1..n : f[i] # l[i]}
  <2>1. \A i \in 1..n : f[i] = Step(f, i)
    BY <1>5
  <2>2. ASSUME NEW i \in T, \A j \in T : i <= j PROVE FALSE
    <3>1. i # 1
      BY <1>3, <2>1
    <3>2. i - 1 \in 1..n /\ ~(i <= i - 1)
      BY <1>1, <3>1
    <3>3. i - 1 \notin T
      <4> HIDE DEF T
      <4> QED
        BY <2>2, <3>2
    <3>4. f[i - 1] = l[i - 1]
      BY <3>2, <3>3
    <3> QED
      BY <1>3, <2>1, <3>1, <3>4
  <2>3. T = {}
    <3>1. T \in SUBSET Nat
      OBVIOUS
    <3> HIDE DEF T
    <3> QED
      BY <2>2, <3>1, LeastIndex
  <2>4. \A i \in 1..n : f[i] = l[i]
    BY <2>3
  <2>5. f = [i \in 1..n |-> f[i]]
    BY <1>5
  <2> QED
    BY <1>2, <2>4, <2>5
<1> HIDE DEF IsChain
<1>6. Chain(first) = CHOOSE f : IsChain(f)
  BY DEF Chain, IsChain
<1> QED
  BY <1>4, <1>5, <1>6

(* The two parts of InOrder: every frame once, and each above the one      *)
(* before it.                                                              *)
Lists(l, U) ==
  /\ l \in [1..Cardinality(U) -> U]
  /\ \A f \in U : \E i \in DOMAIN l : l[i] = f
  /\ \A i, j \in DOMAIN l : l[i] = l[j] => i = j
Linked(l, n, q, first) ==
  /\ n > 0 => l[1] = first
  /\ \A i \in 2..n : l[i] = q.frame_above[l[i - 1]]

LEMMA FramesFinite ==
  ASSUME NEW U \in SUBSET Frames
  PROVE  /\ IsFiniteSet(U) /\ Cardinality(U) \in Nat /\ (Cardinality(U) = 0 <=> U = {})
         /\ \A f \in Frames \ U : Cardinality(U \cup {f}) = Cardinality(U) + 1
<1>1. IsFiniteSet(Frames)
  BY SizesAssumption, FS_Interval DEF Frames
<1>2. IsFiniteSet(U)
  BY <1>1, FS_Subset
<1> QED
  BY <1>2, FS_CardinalityType, FS_EmptySet, FS_AddElement

LEMMA OrderParts ==
  ASSUME NEW U \in SUBSET Frames, NEW l, NEW q, NEW first
  PROVE  InOrder(l, q, U, first) <=> Lists(l, U) /\ Linked(l, Cardinality(U), q, first)
<1> DEFINE n == Cardinality(U)
<1>1. n \in Nat /\ (n > 0 <=> U # {})
  BY FramesFinite
<1>2. Lists(l, U) => DOMAIN l = 1..n
  BY DEF Lists
<1> HIDE DEF n
<1>3. 2..n = {i \in 1..n : i > 1}
  BY <1>1
<1>4. InOrder(l, q, U, first) <=>
        /\ Lists(l, U)
        /\ U # {} => l[1] = first
        /\ \A i \in DOMAIN l : i > 1 => l[i] = q.frame_above[l[i - 1]]
  BY DEF InOrder, Lists
<1>5. Linked(l, n, q, first) <=>
        /\ U # {} => l[1] = first
        /\ \A i \in 1..n : i > 1 => l[i] = q.frame_above[l[i - 1]]
  BY <1>1, <1>3 DEF Linked
<1> QED
  BY <1>2, <1>4, <1>5 DEF n

(* A frame is added at the end, or moves there.                            *)
Longer(l, n, f) == [i \in 1..(n + 1) |-> IF i <= n THEN l[i] ELSE f]
Turned(l, n, k) == [i \in 1..n |-> IF i < k THEN l[i] ELSE IF i < n THEN l[i + 1] ELSE l[k]]

LEMMA LongerLists ==
  ASSUME NEW U \in SUBSET Frames, NEW l, Lists(l, U), NEW f \in Frames \ U
  PROVE  Lists(Longer(l, Cardinality(U), f), U \cup {f})
<1>1. PICK n \in Nat : n = Cardinality(U) /\ Cardinality(U \cup {f}) = n + 1
  BY FramesFinite
<1> DEFINE r == Longer(l, n, f)
<1>2. /\ \A i \in 1..n : l[i] \in U
      /\ \A g \in U : \E i \in 1..n : l[i] = g
      /\ \A i, j \in 1..n : l[i] = l[j] => i = j
  BY <1>1 DEF Lists
<1>3. DOMAIN r = 1..(n + 1) /\ r[n + 1] = f /\ \A i \in 1..n : r[i] = l[i] /\ i \in 1..(n + 1)
  BY DEF Longer
<1>4. r \in [1..(n + 1) -> U \cup {f}]
  BY <1>2 DEF Longer
<1> HIDE DEF r
<1>5. \A g \in U \cup {f} : \E i \in 1..(n + 1) : r[i] = g
  BY <1>2, <1>3
<1>6. \A i \in 1..(n + 1) : i \in 1..n \/ i = n + 1
  OBVIOUS
<1>7. \A i, j \in 1..(n + 1) : r[i] = r[j] => i = j
  BY <1>2, <1>3, <1>6
<1> QED
  BY <1>1, <1>3, <1>4, <1>5, <1>7 DEF Lists, r

LEMMA TurnedLists ==
  ASSUME NEW U \in SUBSET Frames, NEW l, Lists(l, U), NEW k \in 1..Cardinality(U)
  PROVE  Lists(Turned(l, Cardinality(U), k), U)
<1>1. PICK n \in Nat : n = Cardinality(U)
  BY FramesFinite
<1> DEFINE r == Turned(l, n, k)
           p(i) == IF i < k THEN i ELSE IF i < n THEN i + 1 ELSE k
<1>2. /\ \A i \in 1..n : l[i] \in U
      /\ \A g \in U : \E i \in 1..n : l[i] = g
      /\ \A i, j \in 1..n : l[i] = l[j] => i = j
  BY <1>1 DEF Lists
<1>3. k \in 1..n
  BY <1>1
<1>4. DOMAIN r = 1..n /\ \A i \in 1..n : r[i] = l[p(i)] /\ p(i) \in 1..n
  BY <1>3 DEF Turned
<1>5. \A i, j \in 1..n : p(i) = p(j) => i = j
  BY <1>3
<1>6. \A i \in 1..n : \E j \in 1..n : p(j) = i
  <2> SUFFICES ASSUME NEW i \in 1..n PROVE \E j \in 1..n : p(j) = i
    OBVIOUS
  <2>1. CASE i < k
    BY <2>1
  <2>2. CASE i = k
    <3>1. n \in 1..n /\ p(n) = k
      BY <1>3
    <3> QED
      BY <2>2, <3>1
  <2>3. CASE i > k
    <3>1. i - 1 \in 1..n /\ p(i - 1) = i
      BY <1>3, <2>3
    <3> QED
      BY <3>1
  <2> QED
    BY <1>3, <2>1, <2>2, <2>3
<1>7. r = [i \in 1..n |-> r[i]]
  BY DEF Turned
<1> HIDE DEF r, p
<1>8. r \in [1..n -> U]
  BY <1>2, <1>4, <1>7
<1>9. \A g \in U : \E i \in 1..n : r[i] = g
  <2> SUFFICES ASSUME NEW g \in U PROVE \E i \in 1..n : r[i] = g
    OBVIOUS
  <2>1. PICK i \in 1..n : l[i] = g
    BY <1>2
  <2>2. PICK j \in 1..n : p(j) = i
    BY <1>6
  <2> QED
    BY <1>4, <2>1, <2>2
<1>10. \A i, j \in 1..n : r[i] = r[j] => i = j
  BY <1>2, <1>4, <1>5
<1> QED
  BY <1>1, <1>4, <1>8, <1>9, <1>10 DEF Lists, r

LEMMA ListFacts ==
  ASSUME NEW U \in SUBSET Frames, NEW l, Lists(l, U)
  PROVE  LET n == Cardinality(U) IN
         /\ n \in Nat /\ (n > 0 <=> U # {}) /\ DOMAIN l = 1..n
         /\ \A i \in 1..n : l[i] \in U
         /\ \A g \in U : \E i \in 1..n : l[i] = g
         /\ \A i, j \in 1..n : l[i] = l[j] => i = j
<1> DEFINE n == Cardinality(U)
<1>1. n \in Nat /\ (n > 0 <=> U # {})
  BY FramesFinite
<1> QED
  BY <1>1 DEF Lists

(***************************************************************************)
(* fifo.                                                                   *)
(***************************************************************************)

(* The frame that was loaded last.                                         *)
Youngest(q) == IF q.youngestf = NULL THEN q.oldestf ELSE q.youngestf
LEMMA LastYoungest ==
  ASSUME NEW U \in SUBSET Frames, U # {}, NEW l, NEW q, FifoInv(q, U), Lists(l, U),
         Linked(l, Cardinality(U), q, q.oldestf)
  PROVE  l[Cardinality(U)] = Youngest(q)
<1>1. PICK n \in Nat \ {0} : n = Cardinality(U)
  BY ListFacts
<1>2. /\ \A i \in 1..n : l[i] \in U
      /\ \A g \in U : \E i \in 1..n : l[i] = g
      /\ \A i, j \in 1..n : l[i] = l[j] => i = j
  BY <1>1, ListFacts
<1>3. CASE q.youngestf = NULL
  BY <1>1, <1>2, <1>3 DEF FifoInv, Youngest
<1>4. CASE q.youngestf # NULL
  <2>1. /\ q.youngestf \in U /\ q.frame_above[q.youngestf] \in {NULL, q.youngestf}
        /\ NULL \notin U
    BY <1>4, NullNoFrame DEF FifoInv
  <2>2. PICK i \in 1..n : l[i] = q.youngestf
    BY <1>2, <2>1
  <2>3. ASSUME i # n PROVE FALSE
    <3>1. i + 1 \in 1..n /\ i + 1 \in 2..n /\ (i + 1) - 1 = i
      BY <2>3
    <3>2. l[i + 1] = q.frame_above[q.youngestf]
      BY <1>1, <2>2, <3>1 DEF Linked
    <3>3. l[i + 1] = l[i]
      BY <1>2, <2>1, <2>2, <3>1, <3>2
    <3> QED
      BY <1>2, <3>1, <3>3
  <2> QED
    BY <1>1, <1>4, <2>2, <2>3 DEF Youngest
<1> QED
  BY <1>3, <1>4

(* The end of a list that has got a new frame above its last one.          *)
LEMMA LongerLinked ==
  ASSUME NEW n \in Nat, NEW l, NEW q, NEW r, NEW first, Linked(l, n, q, first), NEW f,
         \A i \in 1..n : i < n => r.frame_above[l[i]] = q.frame_above[l[i]],
         n > 0 => r.frame_above[l[n]] = f,
         NEW least, least = IF n = 0 THEN f ELSE first
  PROVE  Linked(Longer(l, n, f), n + 1, r, least)
<1> DEFINE m == Longer(l, n, f)
<1>1. m[n + 1] = f /\ \A i \in 1..n : m[i] = l[i]
  BY DEF Longer
<1> HIDE DEF m
<1>2. m[1] = least
  BY <1>1 DEF Linked
<1>3. ASSUME NEW i \in 2..(n + 1) PROVE m[i] = r.frame_above[m[i - 1]]
  <2>1. PICK j \in 1..n : j = i - 1
    BY <1>3
  <2>2. m[j] = l[j]
    BY <1>1, <2>1
  <2>3. CASE i = n + 1
    BY <1>1, <2>1, <2>2, <2>3
  <2>4. CASE i # n + 1
    <3>1. i \in 2..n /\ i \in 1..n /\ j < n
      BY <1>3, <2>1, <2>4
    <3>2. l[i] = q.frame_above[l[j]]
      BY <2>1, <3>1 DEF Linked
    <3> QED
      BY <1>1, <2>1, <2>2, <3>1, <3>2
  <2> QED
    BY <2>3, <2>4
<1> QED
  BY <1>2, <1>3 DEF Linked, m

LEMMA FifoRefOrder ==
  ASSUME NEW U \in SUBSET Frames, NEW l, NEW q \in Links, FifoInv(q, U), NEW f \in Frames,
         InOrder(l, q, U, q.oldestf)
  PROVE  LET r == FifoRef(q, f) IN
         /\ f \in U => InOrder(l, r, U, r.oldestf)
         /\ f \notin U => InOrder(Longer(l, Cardinality(U), f), r, U \cup {f}, r.oldestf)
<1>1. PICK n \in Nat : n = Cardinality(U)
  BY FramesFinite
<1> DEFINE r == FifoRef(q, f)
           y == Youngest(q)
<1>2. Lists(l, U) /\ Linked(l, n, q, q.oldestf)
  BY <1>1, OrderParts
<1>3. /\ n > 0 <=> U # {}
      /\ \A i \in 1..n : l[i] \in U
      /\ \A i, j \in 1..n : l[i] = l[j] => i = j
  BY <1>1, <1>2, ListFacts
<1>4. n > 0 => l[n] = y
  BY <1>1, <1>2, <1>3, LastYoungest
<1>5. \A i \in 1..n : i < n => l[i] # y
  BY <1>3, <1>4
<1>6. q.frame_above \in [Frames -> Pointer] /\ NULL \notin U
  BY NullNoFrame DEF Links
<1>7. /\ q.frame_above[f] # NULL => r = q
      /\ q.frame_above[f] = NULL /\ q.oldestf = NULL =>
           r.oldestf = f /\ r.frame_above = q.frame_above
      /\ q.frame_above[f] = NULL /\ q.oldestf # NULL =>
           r.oldestf = q.oldestf /\ r.frame_above = [q.frame_above EXCEPT ![y] = f]
  BY FifoFields DEF Youngest
<1> HIDE DEF r, y
<1>8. \A i \in 1..n : i < n => r.frame_above[l[i]] = q.frame_above[l[i]]
  <2>1. \A g \in Frames : g # y => r.frame_above[g] = q.frame_above[g]
    BY <1>6, <1>7
  <2> QED
    BY <1>3, <1>5, <2>1
<1>9. f \in U => r.oldestf = q.oldestf
  BY <1>7 DEF FifoInv
<1>10. ASSUME f \in U PROVE InOrder(l, r, U, r.oldestf)
  <2>1. ASSUME NEW i \in 2..n PROVE l[i] = r.frame_above[l[i - 1]]
    <3>1. PICK j \in 1..n : j = i - 1 /\ j < n
      BY <2>1
    <3>2. l[i] = q.frame_above[l[j]]
      BY <1>2, <3>1 DEF Linked
    <3> QED
      BY <1>8, <3>1, <3>2
  <2>2. Linked(l, n, r, r.oldestf)
    BY <1>2, <1>9, <1>10, <2>1 DEF Linked
  <2> QED
    BY <1>1, <1>2, <2>2, OrderParts
<1>11. ASSUME f \notin U PROVE InOrder(Longer(l, n, f), r, U \cup {f}, r.oldestf)
  <2>1. q.frame_above[f] = NULL /\ (q.oldestf = NULL => n = 0)
    BY <1>3, <1>11 DEF FifoInv
  <2>2. n = 0 => q.oldestf = NULL
    BY <1>3 DEF FifoInv
  <2>3. r.oldestf = IF n = 0 THEN f ELSE q.oldestf
    BY <1>7, <2>1, <2>2
  <2>4. n > 0 => r.frame_above[l[n]] = f
    <3> SUFFICES ASSUME n > 0 PROVE r.frame_above[l[n]] = f
      OBVIOUS
    <3>1. l[n] = y /\ y \in Frames
      <4>1. n \in 1..n
        OBVIOUS
      <4> QED
        BY <1>3, <1>4, <4>1
    <3>2. q.oldestf # NULL
      BY <2>1
    <3>3. r.frame_above = [q.frame_above EXCEPT ![y] = f]
      BY <1>7, <2>1, <3>2
    <3> QED
      BY <1>6, <3>1, <3>3
  <2>5. Linked(Longer(l, n, f), n + 1, r, r.oldestf)
    <3>1. PICK first, least : first = q.oldestf /\ least = r.oldestf
      OBVIOUS
    <3>2. Linked(l, n, q, first) /\ least = IF n = 0 THEN f ELSE first
      BY <1>2, <2>3, <3>1
    <3>3. Linked(Longer(l, n, f), n + 1, r, least)
      BY <1>8, <2>4, <3>2, LongerLinked
    <3> QED
      BY <3>1, <3>3
  <2>6. Lists(Longer(l, n, f), U \cup {f}) /\ Cardinality(U \cup {f}) = n + 1
    BY <1>1, <1>2, <1>11, LongerLists, FramesFinite
  <2>7. U \cup {f} \in SUBSET Frames
    OBVIOUS
  <2> QED
    BY <2>5, <2>6, <2>7, OrderParts
<1> QED
  BY <1>1, <1>10, <1>11 DEF r

(* The first frame moves to the end.                                       *)
LEMMA FifoEvictOrder ==
  ASSUME NEW l, NEW q \in Links, FifoInv(q, Frames), q.oldestf # NULL,
         InOrder(l, q, Frames, q.oldestf)
  PROVE  LET r == FifoRef(FifoEvict(q), q.oldestf) IN
         InOrder(Turned(l, Cardinality(Frames), 1), r, Frames, r.oldestf)
<1> DEFINE f == q.oldestf
           e == FifoEvict(q)
           r == FifoRef(e, f)
           y == q.youngestf
<1>1. PICK n \in Nat : n = Cardinality(Frames)
  BY FramesFinite
<1>2. Lists(l, Frames) /\ Linked(l, n, q, f)
  BY <1>1, OrderParts
<1>3. /\ f \in Frames /\ NULL \notin Frames /\ q.frame_above \in [Frames -> Pointer]
  BY NullNoFrame DEF FifoInv, Links
<1>4. /\ n > 0 /\ l[1] = f
      /\ \A i \in 1..n : l[i] \in Frames
      /\ \A i, j \in 1..n : l[i] = l[j] => i = j
  <2>1. n > 0
    BY <1>1, <1>2, <1>3, ListFacts
  <2> QED
    BY <1>1, <1>2, <2>1, ListFacts DEF Linked
<1>5. e \in Links
  BY FifoTypes
<1>6. /\ e.oldestf = q.frame_above[f] /\ e.youngestf = y
      /\ e.frame_above = [q.frame_above EXCEPT ![f] = NULL]
  BY DEF FifoEvict, Links
<1>7. e.frame_above[f] = NULL
  BY <1>3, <1>6
<1>8. y \in {NULL, f} => Frames = {f}
  BY DEF FifoInv
<1>9. l[n] = Youngest(q)
  BY <1>1, <1>2, <1>3, LastYoungest
<1> HIDE DEF e
<1>10. Lists(Turned(l, n, 1), Frames)
  <2>1. 1 \in 1..Cardinality(Frames)
    BY <1>1, <1>4
  <2> QED
    BY <1>1, <1>2, <2>1, TurnedLists
<1> DEFINE m == Turned(l, n, 1)
<1>11. m[n] = f /\ \A i \in 1..n : i < n => m[i] = l[i + 1]
  BY <1>4 DEF Turned
<1> HIDE DEF m
<1>12. CASE Frames = {f}
  <2>1. n = 1
    <3>1. 1 \in 1..n /\ n \in 1..n /\ l[1] = l[n]
      BY <1>4, <1>12
    <3> QED
      BY <1>4, <3>1
  <2>2. r.oldestf = f
    <3>1. q.frame_above[f] \in {NULL, f}
      BY <1>3, <1>12 DEF FifoInv
    <3>2. e.oldestf \in {NULL, f}
      BY <1>6, <3>1
    <3> QED
      BY <1>3, <1>5, <1>7, <3>2, FifoFields
  <2>3. Linked(m, n, r, r.oldestf)
    BY <1>11, <2>1, <2>2 DEF Linked
  <2> QED
    BY <1>1, <1>10, <2>3, OrderParts DEF m, r, e
<1>13. CASE Frames # {f}
  <2>1. y # NULL /\ y \in Frames /\ y # f /\ l[n] = y
    BY <1>8, <1>9, <1>13 DEF FifoInv, Youngest
  <2>2. e.oldestf \in Frames /\ e.oldestf # NULL
    BY <1>3, <1>6, <2>1 DEF FifoInv
  <2>3. r.oldestf = e.oldestf /\ r.frame_above = [e.frame_above EXCEPT ![y] = f]
    BY <1>3, <1>5, <1>6, <1>7, <2>1, <2>2, FifoFields
  <2> HIDE DEF r
  <2>4. \A g \in Frames : r.frame_above[g] =
          IF g = y THEN f ELSE IF g = f THEN NULL ELSE q.frame_above[g]
    BY <1>3, <1>6, <2>3
  <2>5. n > 1
    BY <1>4, <2>1
  <2>6. m[1] = r.oldestf
    <3>1. l[2] = q.frame_above[l[1]]
      BY <1>2, <2>5 DEF Linked
    <3> QED
      BY <1>4, <1>6, <1>11, <2>3, <2>5, <3>1
  <2>7. ASSUME NEW i \in 2..n PROVE m[i] = r.frame_above[m[i - 1]]
    <3>1. PICK j \in 1..n : j = i - 1 /\ j < n /\ i = j + 1
      BY <2>7
    <3>2. i \in 1..n /\ m[j] = l[i] /\ l[i] # f /\ l[i] \in Frames
      BY <1>4, <1>11, <2>7, <3>1
    <3>3. CASE i = n
      BY <1>11, <2>1, <2>4, <3>1, <3>2, <3>3
    <3>4. CASE i # n
      <4>1. i + 1 \in 2..n /\ (i + 1) - 1 = i /\ i < n /\ n \in 1..n
        BY <2>7, <3>4
      <4>2. m[i] = l[i + 1] /\ l[i + 1] = q.frame_above[l[i]]
        BY <1>2, <1>11, <3>2, <4>1 DEF Linked
      <4>3. l[i] # y
        BY <1>4, <2>1, <3>2, <3>4, <4>1
      <4> QED
        BY <2>4, <3>1, <3>2, <4>2, <4>3
    <3> QED
      BY <3>3, <3>4
  <2>8. Linked(m, n, r, r.oldestf)
    BY <2>6, <2>7 DEF Linked
  <2> QED
    BY <1>1, <1>10, <2>8, OrderParts DEF m, r, e
<1> QED
  BY <1>12, <1>13

(***************************************************************************)
(* lru.                                                                    *)
(***************************************************************************)
LEMMA LastTop ==
  ASSUME NEW U \in SUBSET Frames, NEW l, NEW q, LruInv(q, U), q.top_node # NULL,
         Lists(l, U), Linked(l, Cardinality(U), q, q.bottom_node)
  PROVE  l[Cardinality(U)] = q.top_node
<1>1. PICK n \in Nat : n = Cardinality(U)
  BY ListFacts
<1>2. q.top_node \in U /\ q.frame_above[q.top_node] = NULL /\ NULL \notin U
  BY NullNoFrame DEF LruInv
<1>3. PICK i \in 1..n : l[i] = q.top_node
  BY <1>1, <1>2, ListFacts
<1>4. ASSUME i # n PROVE FALSE
  <2>1. i + 1 \in 1..n /\ i + 1 \in 2..n /\ (i + 1) - 1 = i
    BY <1>4
  <2>2. l[i + 1] = NULL
    BY <1>1, <1>2, <1>3, <2>1 DEF Linked
  <2> QED
    BY <1>1, <1>2, <2>1, <2>2, ListFacts
<1> QED
  BY <1>1, <1>3, <1>4

(* A frame moves to the top.                                               *)
LEMMA MovedOrder ==
  ASSUME NEW U \in SUBSET Frames, NEW l, NEW q \in Links, LruInv(q, U), q.top_node # NULL,
         InOrder(l, q, U, q.bottom_node), NEW k \in 1..Cardinality(U),
         l[k] # q.top_node, NEW r, Moved(q, r, l[k])
  PROVE  InOrder(Turned(l, Cardinality(U), k), r, U, r.bottom_node)
<1>1. PICK n \in Nat : n = Cardinality(U)
  BY FramesFinite
<1>2. PICK f \in U : f = l[k]
  BY OrderParts, ListFacts
<1> DEFINE up == q.frame_above[f]
           down == q.frame_below[f]
           top == q.top_node
           bottom == q.bottom_node
           m == Turned(l, n, k)
<1>3. Lists(l, U) /\ Linked(l, n, q, bottom) /\ k \in 1..n
  BY <1>1, OrderParts
<1>4. /\ l[1] = bottom
      /\ \A i \in 1..n : l[i] \in U
      /\ \A i, j \in 1..n : l[i] = l[j] => i = j
  BY <1>1, <1>3, ListFacts DEF Linked
<1>5. top = l[n] /\ k < n
  BY <1>1, <1>2, <1>3, LastTop
<1>6. Lists(m, U)
  BY <1>1, <1>3, TurnedLists
<1>7. /\ m[n] = f /\ \A i \in 1..n : i < k => m[i] = l[i]
      /\ \A i \in 1..n : i >= k /\ i < n => m[i] = l[i + 1]
  BY <1>2, <1>3, <1>5 DEF Turned
<1>8. /\ up = l[k + 1]
      /\ f = bottom <=> k = 1
      /\ k > 1 => down = l[k - 1]
  <2>1. k + 1 \in 2..n /\ (k + 1) - 1 = k
    BY <1>3, <1>5
  <2>2. up = l[k + 1]
    BY <1>2, <1>3, <2>1 DEF Linked
  <2>3. f = bottom <=> k = 1
    BY <1>2, <1>3, <1>4, <1>5
  <2>4. ASSUME k > 1 PROVE down = l[k - 1]
    <3>1. k \in 2..n /\ k - 1 \in 1..n /\ k - 1 # n /\ n \in 1..n
      BY <1>3, <1>5, <2>4
    <3>2. f = q.frame_above[l[k - 1]]
      BY <1>2, <1>3, <3>1 DEF Linked
    <3>3. l[k - 1] \in U /\ l[k - 1] # top
      BY <1>4, <1>5, <3>1
    <3> QED
      BY <3>2, <3>3 DEF LruInv
  <2> QED
    BY <2>2, <2>3, <2>4
<1>9. /\ r.bottom_node = IF f = bottom THEN up ELSE bottom
      /\ \A g \in U : r.frame_above[g] =
           IF g = f THEN NULL ELSE IF g = top THEN f
           ELSE IF f # bottom /\ g = down THEN up ELSE q.frame_above[g]
  BY <1>2 DEF Moved
<1> HIDE DEF m, up, down, top, bottom
<1>10. m[1] = r.bottom_node
  BY <1>3, <1>4, <1>5, <1>7, <1>8, <1>9
<1>11. ASSUME NEW i \in 2..n PROVE m[i] = r.frame_above[m[i - 1]]
  <2>1. PICK j \in 1..n : j = i - 1 /\ j < n /\ i = j + 1
    BY <1>11
  <2>2. i \in 1..n /\ n \in 1..n
    BY <1>11
  <2>3. CASE i < k
    <3>1. m[i] = l[i] /\ m[j] = l[j] /\ l[i] = q.frame_above[l[j]]
      BY <1>3, <1>7, <1>11, <2>1, <2>2, <2>3 DEF Linked
    <3>2. l[j] \in U /\ l[j] # f /\ l[j] # top
      BY <1>2, <1>3, <1>4, <1>5, <2>1, <2>2, <2>3
    <3>3. l[j] # down
      <4>1. k > 1 /\ k - 1 \in 1..n /\ k - 1 # j
        BY <1>3, <2>1, <2>3
      <4> QED
        BY <1>4, <1>8, <4>1
    <3> QED
      BY <1>9, <2>1, <3>1, <3>2, <3>3
  <2>4. CASE i = k
    <3>1. m[i] = up /\ m[j] = down /\ down = l[j] /\ f # bottom
      BY <1>5, <1>7, <1>8, <2>1, <2>2, <2>4
    <3>2. down \in U /\ down # f /\ down # top
      BY <1>2, <1>3, <1>4, <1>5, <2>1, <2>2, <2>4, <3>1
    <3> QED
      BY <1>9, <2>1, <3>1, <3>2
  <2>5. CASE i > k
    <3>1. m[j] = l[i] /\ l[i] \in U /\ l[i] # f
      BY <1>2, <1>3, <1>4, <1>7, <2>1, <2>2, <2>5
    <3>2. CASE i = n
      BY <1>5, <1>7, <1>9, <2>1, <3>1, <3>2
    <3>3. CASE i # n
      <4>1. i + 1 \in 2..n /\ (i + 1) - 1 = i /\ i < n
        BY <2>2, <3>3, <1>11
      <4>2. m[i] = l[i + 1] /\ l[i + 1] = q.frame_above[l[i]]
        BY <1>3, <1>7, <2>2, <2>5, <4>1 DEF Linked
      <4>3. l[i] # top
        BY <1>4, <1>5, <2>2, <4>1
      <4>4. f # bottom => l[i] # down
        <5>1. k > 1 => k - 1 \in 1..n /\ k - 1 # i
          BY <1>3, <2>5
        <5> QED
          BY <1>3, <1>4, <1>8, <2>2, <5>1
      <4> QED
        BY <1>9, <2>1, <3>1, <4>2, <4>3, <4>4
    <3> QED
      BY <3>2, <3>3
  <2> QED
    BY <1>3, <2>3, <2>4, <2>5
<1>12. Linked(m, n, r, r.bottom_node)
  BY <1>10, <1>11 DEF Linked
<1> QED
  BY <1>1, <1>6, <1>12, OrderParts DEF m

LEMMA LruRefMoves ==
  ASSUME NEW U \in SUBSET Frames, NEW q \in Links, LruInv(q, U), NEW f \in U
  PROVE  LET r == LruRef(q, f) IN
         \/ r = q /\ (f = q.top_node \/ U = {f})
         \/ q.top_node # NULL /\ f # q.top_node /\ Moved(q, r, f)
<1>1. NULL \notin U /\ q.bottom_node \in U
  BY NullNoFrame DEF LruInv
<1>2. CASE q.top_node = NULL
  BY <1>1, <1>2 DEF LruRef, LruInv
<1>3. CASE q.top_node # NULL
  <2>1. CASE f = q.top_node
    <3>1. q.frame_above[f] = NULL /\ q.frame_below[f] \in U
      BY <1>3, <2>1 DEF LruInv
    <3> QED
      BY <1>1, <1>3, <2>1, <3>1 DEF LruRef
  <2>2. CASE f # q.top_node /\ f = q.bottom_node
    <3>1. q.frame_above[f] \in U /\ q.frame_below[f] = NULL
      BY <1>3, <2>2 DEF LruInv
    <3>2. LruRef(q, f) = MoveToTop(DropBottom(q), f)
      BY <1>1, <1>3, <3>1 DEF LruRef
    <3> QED
      BY <1>3, <2>2, <3>2, BottomMoved
  <2>3. CASE f # q.top_node /\ f # q.bottom_node
    BY <1>3, <2>3, MiddleMoved
  <2> QED
    BY <2>1, <2>2, <2>3
<1> QED
  BY <1>2, <1>3

(* A frame that is not in the list yet is put above the last one.          *)
Last(q) == IF q.top_node = NULL THEN q.bottom_node ELSE q.top_node
LEMMA LruRefAdds ==
  ASSUME NEW U \in SUBSET Frames, NEW q \in Links, LruInv(q, U), NEW f \in Frames \ U
  PROVE  LET r == LruRef(q, f) IN
         /\ r.bottom_node = IF U = {} THEN f ELSE q.bottom_node
         /\ \A g \in U : r.frame_above[g] = IF g = Last(q) THEN f ELSE q.frame_above[g]
<1> DEFINE r == LruRef(q, f)
<1>1. /\ NULL \notin Frames /\ Unlinked(q, f)
      /\ q.frame_above \in [Frames -> Pointer] /\ q.frame_below \in [Frames -> Pointer]
  BY NullNoFrame DEF Links, LruInv
<1>2. CASE q.bottom_node = NULL
  <2>1. U = {} /\ r.bottom_node = f
    BY <1>2 DEF LruRef, LruInv, Links
  <2> QED
    BY <2>1
<1>3. CASE q.bottom_node # NULL /\ q.top_node = NULL
  <2>1. U = {q.bottom_node} /\ f # q.bottom_node
    BY <1>3 DEF LruInv
  <2>2. /\ r.bottom_node = q.bottom_node
        /\ r.frame_above = [q.frame_above EXCEPT ![q.bottom_node] = f]
    BY <1>3, <2>1 DEF LruRef, Links
  <2> HIDE DEF r
  <2> QED
    BY <1>1, <1>3, <2>1, <2>2 DEF Last, r
<1>4. CASE q.bottom_node # NULL /\ q.top_node # NULL
  <2>1. q.top_node \in U
    BY <1>4 DEF LruInv
  <2>2. r = Push(q, f)
    BY <1>1, <1>4 DEF LruRef, Unlinked
  <2>3. r.bottom_node = q.bottom_node /\ r.frame_above = [q.frame_above EXCEPT ![q.top_node] = f]
    <3>1. q.top_node \in Frames /\ f \in Frames
      BY <2>1
    <3> HIDE DEF r
    <3> QED
      BY <2>2, <3>1, PushFields
  <2> HIDE DEF r
  <2> QED
    BY <1>1, <1>4, <2>1, <2>3 DEF Last, r
<1> QED
  BY <1>2, <1>3, <1>4

(* Where the frame is in the list; of one that is not there, at its end.   *)
Referred(l, U, f, m) ==
  LET n == Cardinality(U) IN
  IF f \in U THEN \E k \in 1..n : l[k] = f /\ m = Turned(l, n, k)
  ELSE m = Longer(l, n, f)

LEMMA LruRefOrder ==
  ASSUME NEW U \in SUBSET Frames, NEW l, NEW q \in Links, LruInv(q, U), NEW f \in Frames,
         InOrder(l, q, U, q.bottom_node)
  PROVE  LET r == LruRef(q, f) IN
         \E m : Referred(l, U, f, m) /\ InOrder(m, r, U \cup {f}, r.bottom_node)
<1> DEFINE r == LruRef(q, f)
<1>1. PICK n \in Nat : n = Cardinality(U)
  BY FramesFinite
<1>2. Lists(l, U) /\ Linked(l, n, q, q.bottom_node)
  BY <1>1, OrderParts
<1>3. /\ n > 0 <=> U # {}
      /\ \A i \in 1..n : l[i] \in U
      /\ \A g \in U : \E i \in 1..n : l[i] = g
      /\ \A i, j \in 1..n : l[i] = l[j] => i = j
      /\ DOMAIN l = 1..n
  BY <1>1, <1>2, ListFacts
<1> HIDE DEF r
<1>4. CASE f \in U
  <2>1. U \cup {f} = U
    BY <1>4
  <2>2. PICK k \in 1..n : l[k] = f
    BY <1>3, <1>4
  <2>3. Referred(l, U, f, Turned(l, n, k))
    BY <1>1, <1>4, <2>2 DEF Referred
  <2>4. CASE r = q /\ (f = q.top_node \/ U = {f})
    <3>1. k = n
      <4>1. n \in 1..n
        BY <2>2
      <4>2. f = q.top_node => l[n] = f
        BY <1>1, <1>2, <1>4, LastTop, NullNoFrame
      <4>3. l[n] = f
        BY <1>3, <2>4, <4>1, <4>2
      <4> QED
        BY <1>3, <2>2, <4>1, <4>3
    <3>2. Turned(l, n, k) = [i \in 1..n |-> l[i]]
      BY <3>1 DEF Turned
    <3>3. l = [i \in 1..n |-> l[i]]
      BY <1>1, <1>2 DEF Lists
    <3> QED
      BY <2>1, <2>3, <2>4, <3>2, <3>3 DEF r
  <2>5. CASE q.top_node # NULL /\ f # q.top_node /\ Moved(q, r, f)
    <3>1. InOrder(Turned(l, n, k), r, U, r.bottom_node)
      BY <1>1, <2>2, <2>5, MovedOrder
    <3> QED
      BY <2>1, <2>3, <3>1 DEF r
  <2> QED
    BY <1>4, <2>4, <2>5, LruRefMoves DEF r
<1>5. CASE f \notin U
  <2>1. /\ r.bottom_node = IF U = {} THEN f ELSE q.bottom_node
        /\ \A g \in U : r.frame_above[g] = IF g = Last(q) THEN f ELSE q.frame_above[g]
    BY <1>5, LruRefAdds DEF r
  <2>2. n > 0 => l[n] = Last(q) /\ n \in 1..n
    <3>1. CASE q.top_node = NULL
      BY <1>3, <3>1 DEF LruInv, Last
    <3>2. CASE q.top_node # NULL
      BY <1>1, <1>2, <3>2, LastTop DEF Last
    <3> QED
      BY <3>1, <3>2
  <2>3. \A i \in 1..n : i < n => r.frame_above[l[i]] = q.frame_above[l[i]]
    <3> SUFFICES ASSUME NEW i \in 1..n, i < n PROVE r.frame_above[l[i]] = q.frame_above[l[i]]
      OBVIOUS
    <3>1. l[i] # Last(q)
      BY <1>3, <2>2
    <3> QED
      BY <1>3, <2>1, <3>1
  <2>4. n > 0 => r.frame_above[l[n]] = f
    <3> SUFFICES ASSUME n > 0 PROVE r.frame_above[l[n]] = f
      OBVIOUS
    <3>1. l[n] = Last(q) /\ l[n] \in U
      BY <1>3, <2>2
    <3> QED
      BY <2>1, <3>1
  <2>5. r.bottom_node = IF n = 0 THEN f ELSE q.bottom_node
    BY <1>3, <2>1
  <2>6. Linked(Longer(l, n, f), n + 1, r, r.bottom_node)
    <3>1. PICK first, least : first = q.bottom_node /\ least = r.bottom_node
      OBVIOUS
    <3>2. Linked(l, n, q, first) /\ least = IF n = 0 THEN f ELSE first
      BY <1>2, <2>5, <3>1
    <3>3. Linked(Longer(l, n, f), n + 1, r, least)
      BY <2>3, <2>4, <3>2, LongerLinked
    <3> QED
      BY <3>1, <3>3
  <2>7. Lists(Longer(l, n, f), U \cup {f}) /\ Cardinality(U \cup {f}) = n + 1
    BY <1>1, <1>2, <1>5, LongerLists, FramesFinite
  <2>8. U \cup {f} \in SUBSET Frames
    OBVIOUS
  <2>9. InOrder(Longer(l, n, f), r, U \cup {f}, r.bottom_node)
    BY <2>6, <2>7, <2>8, OrderParts
  <2> QED
    BY <1>1, <1>5, <2>9 DEF Referred, r
<1> QED
  BY <1>4, <1>5

LEMMA LruEvictOrder ==
  ASSUME NEW l, NEW q \in Links, LruInv(q, Frames),
         q.bottom_node # NULL, q.frame_above[q.bottom_node] # NULL,
         InOrder(l, q, Frames, q.bottom_node)
  PROVE  LET r == LruRef(LruEvict(q), q.bottom_node) IN
         InOrder(Turned(l, Cardinality(Frames), 1), r, Frames, r.bottom_node)
<1>1. PICK n \in Nat : n = Cardinality(Frames)
  BY FramesFinite
<1>2. /\ q.top_node # NULL /\ q.bottom_node # q.top_node
      /\ Moved(q, LruRef(LruEvict(q), q.bottom_node), q.bottom_node)
  BY LruEvictMoves
<1>3. 1 \in 1..Cardinality(Frames) /\ l[1] = q.bottom_node
  <2>1. n > 0
    BY <1>1, OrderParts, ListFacts, Constants
  <2> QED
    BY <1>1, <2>1, OrderParts DEF Linked
<1> QED
  BY <1>2, <1>3, MovedOrder

(***************************************************************************)
(* clock and rand.                                                         *)
(***************************************************************************)
LEMMA Modulo ==
  ASSUME NEW m \in Nat \ {0}, NEW a \in 0..(2 * m - 1)
  PROVE  a % m = IF a < m THEN a ELSE a - m
<1>1. CASE a < m
  BY <1>1
<1>2. CASE ~(a < m)
  <2>1. PICK b \in 0..(m - 1) : a = m + b
    <3>1. a - m \in 0..(m - 1) /\ a = m + (a - m)
      BY <1>2
    <3> QED
      BY <3>1
  <2> QED
    BY <1>2, <2>1
<1> QED
  BY <1>1, <1>2

(* Where the hand is next.                                                 *)
Start(q) == IF q.clock_hand >= memsize THEN 0 ELSE q.clock_hand
LEMMA HandIs ==
  ASSUME NEW q, q.clock_hand \in 0..memsize, NEW j \in 0..memsize
  PROVE  /\ Start(q) \in 0..(memsize - 1)
         /\ Hand(q, j) = IF Start(q) + j < memsize THEN Start(q) + j ELSE Start(q) + j - memsize
<1>1. memsize \in Nat \ {0} /\ Start(q) \in 0..(memsize - 1)
  BY SizesAssumption DEF Start
<1>2. PICK a : a = Start(q) + j
  OBVIOUS
<1>3. a \in 0..(2 * memsize - 1)
  BY <1>1, <1>2
<1>4. Hand(q, j) = a % memsize
  BY <1>2 DEF Hand, Start
<1> QED
  BY <1>1, <1>2, <1>3, <1>4, Modulo

(***************************************************************************)
(* The steps of the simulator keep OrderInv.                               *)
(***************************************************************************)
ChainsAreOrders ==
  \A l, first : InOrder(l, links, Used, first) => Chain(first) = l
LEMMA Chains == ChainsAreOrders
BY ChainIs DEF ChainsAreOrders
LEMMA ChainsNext == ChainsAreOrders'
BY Chains, PTL

LEMMA OrderInit == SimInit => OrderInv
<1> SUFFICES ASSUME SimInit PROVE OrderInv
  OBVIOUS
<1>1. Used = {} /\ Cardinality(Used) = 0
  BY FS_EmptySet DEF SimInit, Init, Used
<1>2. 0..(0 - 1) = {}
  OBVIOUS
<1>3. \A q, first : InOrder([i \in 1..0 |-> 0], q, {}, first)
  BY FS_EmptySet DEF InOrder
<1>4. \A first : InOrder(Chain(first), links, Used, first)
  BY <1>1, <1>3, Chains DEF ChainsAreOrders
<1>5. links.clock_hand = 0
  BY DEF SimInit, NoLinks
<1> QED
  BY <1>1, <1>2, <1>4, <1>5 DEF OrderInv, FrameOrder

(* What a reference to the page in f does to the order.                    *)
OrderOf(q, U, l) ==
  /\ alg = "fifo" => FifoInv(q, U) /\ InOrder(l, q, U, q.oldestf)
  /\ alg = "lru" => LruInv(q, U) /\ InOrder(l, q, U, q.bottom_node)

LEMMA OrderRef ==
  ASSUME NEW q \in Links, NEW U \in SUBSET Frames, NEW f \in Frames, NEW l, alg' = alg,
         OrderOf(q, U, l), links' = RefFcn(q, f), Used' = U \cup {f}
  PROVE  /\ alg = "fifo" =>
              /\ InOrder(FrameOrder', links', Used', links'.oldestf)
              /\ FrameOrder' = IF f \in U THEN l ELSE Longer(l, Cardinality(U), f)
         /\ alg = "lru" =>
              /\ InOrder(FrameOrder', links', Used', links'.bottom_node)
              /\ Referred(l, U, f, FrameOrder')
<1>1. CASE alg = "fifo"
  <2>1. links' = FifoRef(q, f) /\ FrameOrder' = Chain(links.oldestf)'
    BY <1>1 DEF RefFcn, FrameOrder
  <2>2. PICK m : /\ m = IF f \in U THEN l ELSE Longer(l, Cardinality(U), f)
                 /\ InOrder(m, links', Used', links'.oldestf)
    <3>1. f \in U => U \cup {f} = U
      OBVIOUS
    <3>2. FifoInv(q, U) /\ InOrder(l, q, U, q.oldestf)
      BY <1>1 DEF OrderOf
    <3>3. /\ f \in U => InOrder(l, links', U, links'.oldestf)
          /\ f \notin U => InOrder(Longer(l, Cardinality(U), f), links', U \cup {f}, links'.oldestf)
      BY <2>1, <3>2, FifoRefOrder
    <3> QED
      BY <3>1, <3>3
  <2>3. Chain(links.oldestf)' = m
    BY <2>2, ChainsNext DEF ChainsAreOrders
  <2> QED
    BY <1>1, <2>1, <2>2, <2>3
<1>2. CASE alg = "lru"
  <2>1. links' = LruRef(q, f) /\ FrameOrder' = Chain(links.bottom_node)'
    BY <1>2 DEF RefFcn, FrameOrder
  <2>2. PICK m : Referred(l, U, f, m) /\ InOrder(m, links', Used', links'.bottom_node)
    <3>1. LruInv(q, U) /\ InOrder(l, q, U, q.bottom_node)
      BY <1>2 DEF OrderOf
    <3> QED
      BY <2>1, <3>1, LruRefOrder
  <2>3. Chain(links.bottom_node)' = m
    BY <2>2, ChainsNext DEF ChainsAreOrders
  <2> QED
    BY <1>2, <2>1, <2>2, <2>3
<1> QED
  BY <1>1, <1>2

(* And what giving up frame n does to it.                                  *)
LEMMA OrderEvict ==
  ASSUME IInv, LinksInv, Full, ~FollowsNull, NEW n \in Frames, Chooses(n), alg' = alg,
         OrderOf(links, Frames, FrameOrder), links' = RefFcn(LinksAfter, n), Used' = Frames
  PROVE  /\ alg = "fifo" => InOrder(FrameOrder', links', Used', links'.oldestf)
         /\ alg = "lru" => InOrder(FrameOrder', links', Used', links'.bottom_node)
         /\ alg \in {"fifo", "lru"} =>
              FrameOrder' = Turned(FrameOrder, Cardinality(Frames), 1) /\ FrameOrder[1] = n
<1> DEFINE l == FrameOrder
           m == Turned(FrameOrder, Cardinality(Frames), 1)
<1>1. links \in Links /\ 0 \in Frames /\ NULL \notin Frames
  BY IInvParts, Constants, NullNoFrame
<1>2. CASE alg = "fifo"
  <2>1. n = links.oldestf /\ links' = FifoRef(FifoEvict(links), n) /\ n # NULL
        /\ FrameOrder' = Chain(links.oldestf)'
    BY <1>1, <1>2 DEF Chooses, RefFcn, LinksAfter, FrameOrder
  <2>2. FifoInv(links, Frames) /\ InOrder(l, links, Frames, links.oldestf)
    BY <1>2 DEF OrderOf
  <2>3. InOrder(m, links', Used', links'.oldestf)
    BY <1>1, <2>1, <2>2, FifoEvictOrder
  <2>4. Chain(links.oldestf)' = m
    BY <2>3, ChainsNext DEF ChainsAreOrders
  <2>5. l[1] = n
    BY <1>1, <2>1, <2>2 DEF InOrder
  <2> QED
    BY <1>2, <2>1, <2>3, <2>4, <2>5
<1>3. CASE alg = "lru"
  <2>1. n = links.bottom_node /\ links' = LruRef(LruEvict(links), n) /\ n # NULL
        /\ links.frame_above[links.bottom_node] # NULL
        /\ FrameOrder' = Chain(links.bottom_node)'
    BY <1>1, <1>3 DEF Chooses, RefFcn, LinksAfter, FrameOrder, FollowsNull
  <2>2. LruInv(links, Frames) /\ InOrder(l, links, Frames, links.bottom_node)
    BY <1>3 DEF OrderOf
  <2>3. InOrder(m, links', Used', links'.bottom_node)
    BY <1>1, <2>1, <2>2, LruEvictOrder
  <2>4. Chain(links.bottom_node)' = m
    BY <2>3, ChainsNext DEF ChainsAreOrders
  <2>5. l[1] = n
    BY <1>1, <2>1, <2>2 DEF InOrder
  <2> QED
    BY <1>3, <2>1, <2>3, <2>4, <2>5
<1> QED
  BY <1>2, <1>3

(* The page comes into the lowest free frame.                              *)
LEMMA LowestFree ==
  ASSUME IInv, OrderInv, NEW v \in Pages, NEW write \in BOOLEAN, MissFree(v, write)
  PROVE  LET n == Cardinality(Used) IN
         /\ n \in Frames \ Used /\ coremap' = [coremap EXCEPT ![n] = v]
         /\ pte'[v].frame = n /\ Used' = Used \cup {n}
         /\ Used = 0..(n - 1) /\ Used' = 0..n /\ Cardinality(Used') = n + 1
<1>1. MemInv /\ pte \in [Pages -> Entry] /\ physmem \in [Frames -> Page] /\ TypeOK
  BY IInvParts DEF MemInv, TypeOK
<1>2. PICK n \in Nat : n = Cardinality(Used) /\ Used = 0..(n - 1)
  BY UsedFinite DEF OrderInv
<1>10. Used = 0..(n - 1)
  BY <1>2
<1>3. PICK f \in Frames : /\ coremap[f] = NoPage /\ \A g \in 0..(f - 1) : coremap[g] # NoPage
                          /\ Install(v, f, pte, physmem, write, FALSE)
  BY DEF MissFree
<1>4. coremap' = [coremap EXCEPT ![f] = v] /\ pte'[v].frame = f
  <2> DEFINE failed == FALSE
  <2>1. failed \in BOOLEAN /\ Install(v, f, pte, physmem, write, failed)
    BY <1>3
  <2> HIDE DEF failed
  <2> QED
    BY <1>1, <2>1, InstallFacts
<1>5. f = n
  <2>1. f \in Nat /\ f \notin Used
    BY <1>3, SizesAssumption DEF Used, Frames
  <2>2. \A g \in 0..(f - 1) : g \in Frames
    BY <2>1, SizesAssumption DEF Frames
  <2>3. \A g \in 0..(f - 1) : g \in Used
    BY <1>3, <2>2 DEF Used
  <2>4. ~(f < n)
    BY <1>10, <2>1
  <2>5. ~(n < f)
    <3>1. n < f => n \in 0..(f - 1)
      BY <2>1
    <3> QED
      BY <1>10, <2>3, <3>1
  <2> QED
    BY <2>1, <2>4, <2>5
<1>6. Used' = Used \cup {n}
  BY <1>1, <1>4, <1>5, PagesAssumption DEF Used, TypeOK
<1>7. n \notin Used
  BY <1>3, <1>5 DEF Used
<1>8. Used' = 0..n
  BY <1>6, <1>10
<1>9. Cardinality(Used') = n + 1
  <2>1. Cardinality(Used \cup {n}) = Cardinality(Used) + 1
    BY <1>5, <1>7, UsedFrames, FramesFinite
  <2> QED
    BY <1>2, <1>6, <2>1
<1> QED
  BY <1>2, <1>4, <1>5, <1>6, <1>7, <1>8, <1>9

(***************************************************************************)
(* Sequences.                                                              *)
(***************************************************************************)
LEMMA FunctionSeq ==
  ASSUME NEW S, NEW n \in Nat, NEW s \in [1..n -> S]
  PROVE  s \in Seq(S) /\ Len(s) = n
OBVIOUS

LEMMA SeqFunction ==
  ASSUME NEW S, NEW n, NEW s \in Seq(S), Len(s) = n
  PROVE  s \in [1..n -> S] /\ s = [i \in 1..n |-> s[i]]
BY LenProperties

LEMMA AppendIs ==
  ASSUME NEW S, NEW n \in Nat, NEW s \in [1..n -> S], NEW p \in S
  PROVE  Append(s, p) = [i \in 1..(n + 1) |-> IF i <= n THEN s[i] ELSE p]
<1>1. s \in Seq(S) /\ Len(s) = n
  BY FunctionSeq
<1>2. /\ Append(s, p) \in Seq(S) /\ Len(Append(s, p)) = n + 1
      /\ \A i \in 1..n : Append(s, p)[i] = s[i]
      /\ Append(s, p)[n + 1] = p
  BY <1>1, AppendProperties
<1> DEFINE t == Append(s, p)
<1> HIDE DEF t
<1>3. t = [i \in 1..(n + 1) |-> t[i]]
  BY <1>2, SeqFunction DEF t
<1>4. \A i \in 1..(n + 1) : t[i] = IF i <= n THEN s[i] ELSE p
  BY <1>2 DEF t
<1> QED
  BY <1>3, <1>4 DEF t

Without(s, k) == SubSeq(s, 1, k - 1) \o SubSeq(s, k + 1, Len(s))

LEMMA TurnIs ==
  ASSUME NEW S, NEW n \in Nat, NEW s \in [1..n -> S], NEW k \in 1..n, NEW p \in S
  PROVE  Append(Without(s, k), p)
           = [i \in 1..n |-> IF i < k THEN s[i] ELSE IF i < n THEN s[i + 1] ELSE p]
<1>1. \E r \in [1..(n - 1) -> S] :
        /\ r = Without(s, k)
        /\ \A i \in 1..(n - 1) : r[i] = IF i < k THEN s[i] ELSE s[i + 1]
  <2>1. s \in Seq(S) /\ Len(s) = n
    BY FunctionSeq
  <2> DEFINE a == SubSeq(s, 1, k - 1)
             b == SubSeq(s, k + 1, n)
  <2>2. /\ a \in Seq(S) /\ Len(a) = k - 1 /\ \A i \in 1..(k - 1) : a[i] = s[i]
    BY <2>1, SubSeqProperties
  <2>3. /\ b \in Seq(S) /\ Len(b) = n - k /\ \A i \in 1..(n - k) : b[i] = s[i + k]
    BY <2>1, SubSeqProperties
  <2> HIDE DEF a, b
  <2>4. /\ a \o b \in Seq(S) /\ Len(a \o b) = n - 1
        /\ \A i \in 1..(n - 1) : (a \o b)[i] = IF i < k THEN s[i] ELSE s[i + 1]
    <3>1. /\ a \o b \in Seq(S) /\ Len(a \o b) = Len(a) + Len(b)
          /\ \A i \in 1..(Len(a) + Len(b)) :
               (a \o b)[i] = IF i <= Len(a) THEN a[i] ELSE b[i - Len(a)]
      BY <2>2, <2>3, ConcatProperties
    <3>2. ASSUME NEW i \in 1..(n - 1) PROVE (a \o b)[i] = IF i < k THEN s[i] ELSE s[i + 1]
      <4>1. CASE i < k
        BY <2>2, <2>3, <3>1, <4>1
      <4>2. CASE ~(i < k)
        <5>1. i - (k - 1) \in 1..(n - k) /\ (i - (k - 1)) + k = i + 1
          BY <4>2
        <5> QED
          BY <2>2, <2>3, <3>1, <4>2, <5>1
      <4> QED
        BY <4>1, <4>2
    <3>3. Len(a) + Len(b) = n - 1
      BY <2>2, <2>3
    <3>4. a \o b \in Seq(S) /\ Len(a \o b) = n - 1
      BY <3>1, <3>3
    <3> QED
      BY <3>2, <3>4
  <2>5. Without(s, k) = a \o b
    BY <2>1 DEF Without, a, b
  <2>6. a \o b \in [1..(n - 1) -> S]
    BY <2>4, SeqFunction
  <2> QED
    BY <2>4, <2>5, <2>6
<1> PICK r \in [1..(n - 1) -> S] :
        /\ r = Without(s, k)
        /\ \A i \in 1..(n - 1) : r[i] = IF i < k THEN s[i] ELSE s[i + 1]
  BY <1>1
<1>2. n - 1 \in Nat /\ (n - 1) + 1 = n
  OBVIOUS
<1>3. Append(r, p) = [i \in 1..n |-> IF i <= n - 1 THEN r[i] ELSE p]
  BY <1>2, AppendIs
<1>4. \A i \in 1..n : (IF i <= n - 1 THEN r[i] ELSE p)
                        = IF i < k THEN s[i] ELSE IF i < n THEN s[i + 1] ELSE p
  BY <1>1
<1> QED
  BY <1>1, <1>3, <1>4

LEMMA TailIs ==
  ASSUME NEW S, NEW n \in Nat \ {0}, NEW s \in [1..n -> S], NEW p \in S
  PROVE  /\ Head(s) = s[1]
         /\ Append(Tail(s), p) = [i \in 1..n |-> IF i < n THEN s[i + 1] ELSE p]
<1>1. s \in Seq(S) /\ Len(s) = n /\ s # <<>>
  BY FunctionSeq
<1>2. /\ Head(s) = s[1] /\ Tail(s) \in Seq(S) /\ Len(Tail(s)) = n - 1
      /\ \A i \in 1..(n - 1) : Tail(s)[i] = s[i + 1]
  BY <1>1, HeadTailProperties
<1>3. PICK t : t = Tail(s)
  OBVIOUS
<1>4. Append(t, p) = [i \in 1..n |-> IF i <= n - 1 THEN t[i] ELSE p]
  <2>1. n - 1 \in Nat /\ (n - 1) + 1 = n
    OBVIOUS
  <2>2. t \in [1..(n - 1) -> S]
    BY <1>2, <1>3, SeqFunction
  <2> QED
    BY <2>1, <2>2, AppendIs
<1>5. \A i \in 1..n : (IF i <= n - 1 THEN t[i] ELSE p) = IF i < n THEN s[i + 1] ELSE p
  BY <1>2, <1>3
<1> QED
  BY <1>2, <1>3, <1>4, <1>5

(***************************************************************************)
(* What the steps of the simulator do to the order.                        *)
(***************************************************************************)
LEMMA OrderIs ==
  ASSUME LinksInv, OrderInv
  PROVE  OrderOf(links, Used, FrameOrder)
BY DEF LinksInv, OrderInv, OrderOf

LEMMA FramesCount == Cardinality(Frames) = memsize
BY SizesAssumption, FS_Interval DEF Frames

(* A hit moves a frame to the end, for lru, or changes nothing.            *)
LEMMA HitOrder ==
  ASSUME IInv, LinksInv, OrderInv, NEW v \in Pages, NEW write \in BOOLEAN, SimHit(v, write)
  PROVE  LET f == pte[v].frame  n == Cardinality(Used) IN
         /\ OrderInv'
         /\ f \in Used /\ Used' = Used
         /\ alg = "lru" => \E k \in 1..n : FrameOrder[k] = f /\ FrameOrder' = Turned(FrameOrder, n, k)
         /\ alg # "lru" => FrameOrder' = FrameOrder
<1> DEFINE f == pte[v].frame
<1>1. MemInv /\ links \in Links /\ alg' = alg /\ alg \in {"rand", "clock", "fifo", "lru"}
  BY IInvParts, AlgorithmsAssumption DEF SimHit
<1>2. f \in Frames /\ coremap[f] = v /\ coremap' = coremap /\ pte'[v].frame = f
  BY <1>1, HitFacts DEF SimHit
<1>3. f \in Used /\ Used' = Used /\ Used' = Used \cup {f} /\ (Full' <=> Full)
  BY <1>2, PagesAssumption DEF Used, Full
<1>4. links' = RefFcn(links, f)
  BY <1>2 DEF SimHit
<1> HIDE DEF f
<1>5. /\ alg = "fifo" =>
           InOrder(FrameOrder', links', Used', links'.oldestf) /\ FrameOrder' = FrameOrder
      /\ alg = "lru" =>
           /\ InOrder(FrameOrder', links', Used', links'.bottom_node)
           /\ Referred(FrameOrder, Used, f, FrameOrder')
  BY <1>1, <1>2, <1>3, <1>4, UsedFrames, OrderIs, OrderRef
<1>6. alg \notin {"fifo", "lru"} => links' = links /\ FrameOrder' = FrameOrder
  BY <1>1, <1>3, <1>4 DEF RefFcn, FrameOrder
<1>7. OrderInv'
  BY <1>1, <1>3, <1>5, <1>6 DEF OrderInv
<1> QED
  BY <1>3, <1>5, <1>6, <1>7 DEF Referred, f

(* A page that comes into a free frame is the last in the order.           *)
LEMMA FreeOrder ==
  ASSUME IInv, LinksInv, OrderInv, NEW v \in Pages, NEW write \in BOOLEAN,
         SimMissFree(v, write)
  PROVE  LET n == Cardinality(Used) IN
         OrderInv' /\ FrameOrder' = Longer(FrameOrder, n, n)
<1>1. MemInv /\ links \in Links /\ alg' = alg /\ alg \in {"rand", "clock", "fifo", "lru"}
  BY IInvParts, AlgorithmsAssumption DEF SimMissFree
<1>2. PICK n : n = Cardinality(Used)
  OBVIOUS
<1>3. /\ n \in Frames \ Used /\ pte'[v].frame = n /\ Used' = Used \cup {n}
      /\ Used' = 0..n /\ Cardinality(Used') = n + 1
  BY <1>2, LowestFree DEF SimMissFree
<1>4. links' = RefFcn(links, n)
  BY <1>3 DEF SimMissFree
<1>5. /\ alg = "fifo" =>
           /\ InOrder(FrameOrder', links', Used', links'.oldestf)
           /\ FrameOrder' = Longer(FrameOrder, n, n)
      /\ alg = "lru" =>
           /\ InOrder(FrameOrder', links', Used', links'.bottom_node)
           /\ FrameOrder' = Longer(FrameOrder, n, n)
  <2> DEFINE l == Longer(FrameOrder, Cardinality(Used), n)
  <2>1. /\ alg = "fifo" =>
             InOrder(FrameOrder', links', Used', links'.oldestf) /\ FrameOrder' = l
        /\ alg = "lru" =>
             /\ InOrder(FrameOrder', links', Used', links'.bottom_node)
             /\ Referred(FrameOrder, Used, n, FrameOrder')
    <3>1. n \in Frames /\ n \notin Used /\ Used' = Used \cup {n}
      BY <1>3
    <3> QED
      BY <1>1, <1>4, <3>1, UsedFrames, OrderIs, OrderRef
  <2>2. Referred(FrameOrder, Used, n, FrameOrder') => FrameOrder' = l
    BY <1>3 DEF Referred
  <2> QED
    BY <1>2, <2>1, <2>2
<1>6. alg \in {"clock", "rand"} => links' = links
  BY <1>1, <1>4 DEF RefFcn
<1>7. n \in 0..(memsize - 1) /\ n \in Nat
  BY <1>3, SizesAssumption DEF Frames
<1>8. ~Full
  BY <1>3 DEF Full, Used
<1>9. OrderInv'
  <2>1. Used' = 0..(Cardinality(Used') - 1)
    BY <1>3, <1>7
  <2>2. alg = "clock" => links'.clock_hand = 0
    BY <1>6, <1>8 DEF OrderInv
  <2> QED
    BY <1>1, <1>5, <2>1, <2>2 DEF OrderInv
<1>10. CASE alg = "rand"
  <2>1. FrameOrder = [i \in 1..n |-> i - 1] /\ FrameOrder' = [i \in 1..(n + 1) |-> i - 1]
    BY <1>1, <1>2, <1>3, <1>10 DEF FrameOrder
  <2>2. FrameOrder' = Longer(FrameOrder, n, n)
    BY <1>7, <2>1 DEF Longer
  <2> QED
    BY <1>2, <1>9, <2>2
<1>11. CASE alg = "clock"
  <2>1. /\ FrameOrder = [i \in 1..n |-> Hand(links, i - 1)]
        /\ FrameOrder' = [i \in 1..(n + 1) |-> Hand(links, i - 1)]
    BY <1>1, <1>2, <1>3, <1>6, <1>11 DEF FrameOrder
  <2>2. links.clock_hand = 0 /\ memsize \in Nat
    BY <1>8, <1>11, SizesAssumption DEF OrderInv
  <2>3. ASSUME NEW i \in 1..(n + 1) PROVE Hand(links, i - 1) = i - 1
    <3>1. i - 1 \in 0..memsize /\ i - 1 < memsize /\ links.clock_hand \in 0..memsize
      BY <1>7, <2>2
    <3>2. Start(links) = 0
      BY <2>2 DEF Start
    <3> QED
      BY <3>1, <3>2, HandIs
  <2>4. FrameOrder' = Longer(FrameOrder, n, n)
    <3>1. \A i \in 1..n : Hand(links, i - 1) = i - 1
      BY <1>7, <2>3
    <3>2. FrameOrder = [i \in 1..n |-> i - 1] /\ FrameOrder' = [i \in 1..(n + 1) |-> i - 1]
      BY <2>1, <2>3, <3>1
    <3> QED
      BY <1>7, <3>2 DEF Longer
  <2> QED
    BY <1>2, <1>9, <2>4
<1> QED
  BY <1>1, <1>2, <1>5, <1>9, <1>10, <1>11

(***************************************************************************)
(* The round of clock.                                                     *)
(***************************************************************************)
(* The loop of clock_evict ends.                                           *)
LEMMA LapsStop ==
  ASSUME NEW q
  PROVE  ClockLaps(q) \in 0..memsize /\ ClockStops(q, ClockLaps(q))
<1>1. \E k \in 0..memsize : ClockStops(q, k)
  <2>1. memsize \in Nat
    BY SizesAssumption
  <2> DEFINE T == {j \in 0..(memsize - 1) : ~Referenced(Hand(q, j))}
  <2>2. CASE T = {}
    BY <2>1, <2>2 DEF ClockStops, Passed
  <2>3. CASE T # {}
    <3>1. PICK k \in T : \A j \in T : k <= j
      <4>1. T \in SUBSET Nat
        BY <2>1
      <4> QED
        BY <2>3, <4>1, LeastIndex
    <3>2. k \in 0..(memsize - 1) /\ ~Referenced(Hand(q, k))
      OBVIOUS
    <3>3. \A j \in 0..(k - 1) : Referenced(Hand(q, j))
      BY <2>1, <3>1, <3>2
    <3> HIDE DEF T
    <3> QED
      BY <2>1, <3>2, <3>3 DEF ClockStops, Passed
  <2> QED
    BY <2>2, <2>3
<1> QED
  BY <1>1 DEF ClockLaps

(* Where the frame comes from that is the i-th after k were passed.        *)
Round(k, i) == IF i + k <= memsize THEN i + k ELSE i + k - memsize

LEMMA RoundType ==
  ASSUME NEW k \in 0..memsize, NEW i \in 1..memsize
  PROVE  Round(k, i) \in 1..memsize
BY SizesAssumption DEF Round

(* The next round starts behind the victim.                                *)
LEMMA NextRound ==
  ASSUME NEW q \in Links, NEW r, NEW k \in 0..memsize, r.clock_hand = Hand(q, k) + 1
  PROVE  /\ Hand(q, k) = Hand(q, Round(k, 1) - 1)
         /\ \A i \in 1..memsize : i < memsize => Hand(r, i - 1) = Hand(q, Round(k, i + 1) - 1)
         /\ Hand(r, memsize - 1) = Hand(q, k)
<1>1. memsize \in Nat \ {0} /\ q.clock_hand \in 0..memsize
  BY SizesAssumption DEF Links
<1>2. PICK s \in 0..(memsize - 1) : s = Start(q)
  BY <1>1 DEF Start
<1>3. \A j \in 0..memsize : Hand(q, j) = IF s + j < memsize THEN s + j ELSE s + j - memsize
  BY <1>1, <1>2, HandIs
<1>4. PICK c \in 0..(memsize - 1) : c = Hand(q, k)
  BY <1>1, <1>3
<1>5. r.clock_hand \in 0..memsize /\ r.clock_hand = c + 1
  BY <1>1, <1>4
<1>6. Start(r) = IF c + 1 >= memsize THEN 0 ELSE c + 1
  BY <1>5 DEF Start
<1>7. ASSUME NEW j \in 0..memsize
      PROVE  Hand(r, j) = IF Start(r) + j < memsize THEN Start(r) + j ELSE Start(r) + j - memsize
  BY <1>5, HandIs
<1>8. c = IF s + k < memsize THEN s + k ELSE s + k - memsize
  BY <1>3, <1>4
<1>9. Hand(q, k) = Hand(q, Round(k, 1) - 1)
  <2>1. PICK j \in 0..memsize : j = Round(k, 1) - 1
    BY <1>1 DEF Round
  <2>2. Hand(q, j) = c
    BY <1>1, <1>3, <1>8, <2>1 DEF Round
  <2> QED
    BY <1>4, <2>1, <2>2
<1>10. ASSUME NEW i \in 1..memsize, i < memsize
       PROVE  Hand(r, i - 1) = Hand(q, Round(k, i + 1) - 1)
  <2>1. PICK j \in 0..memsize : j = Round(k, i + 1) - 1
    BY <1>1, <1>10 DEF Round
  <2>2. i - 1 \in 0..memsize
    BY <1>1
  <2>3. Hand(r, i - 1) = IF Start(r) + (i - 1) < memsize THEN Start(r) + (i - 1)
                         ELSE Start(r) + (i - 1) - memsize
    BY <1>7, <2>2
  <2>4. Hand(q, j) = IF s + j < memsize THEN s + j ELSE s + j - memsize
    BY <1>3
  <2>5. j = IF i + 1 + k <= memsize THEN i + k ELSE i + k - memsize
    BY <1>1, <2>1 DEF Round
  <2>6. Hand(r, i - 1) = Hand(q, j)
    BY <1>1, <1>6, <1>8, <1>10, <2>3, <2>4, <2>5
  <2> QED
    BY <2>1, <2>6
<1>11. Hand(r, memsize - 1) = Hand(q, k)
  <2>1. memsize - 1 \in 0..memsize
    BY <1>1
  <2> QED
    BY <1>1, <1>4, <1>6, <1>7, <2>1
<1> QED
  BY <1>9, <1>10, <1>11

LEMMA EvictOrder ==
  ASSUME IInv, LinksInv, OrderInv, NEW v \in Pages, NEW write \in BOOLEAN,
         SimMissEvict(v, write)
  PROVE  \E n \in Frames :
           /\ Chooses(n) /\ MissEvict(v, n, TableAfter, write)
           /\ Full /\ ~FollowsNull /\ Full' /\ alg' = alg
           /\ Used = Frames /\ Used' = Frames
           /\ coremap' = [coremap EXCEPT ![n] = v]
           /\ OrderInv'
           /\ alg \in {"fifo", "lru"} =>
                FrameOrder' = Turned(FrameOrder, memsize, 1) /\ FrameOrder[1] = n
           /\ alg = "rand" => FrameOrder' = FrameOrder
           /\ alg = "clock" => links' = ClockEvict(links)
<1>1. MemInv /\ links \in Links /\ alg \in {"rand", "clock", "fifo", "lru"}
  BY IInvParts, AlgorithmsAssumption
<1>2. PICK n \in Frames : Chooses(n) /\ MissEvict(v, FrameOf(n), TableAfter, write)
  BY DEF SimMissEvict
<1>3. Full /\ ~FollowsNull /\ alg' = alg /\ links' = RefFcn(LinksAfter, pte'[v].frame)
  BY DEF SimMissEvict
<1>4. /\ FrameOf(n) = n
      /\ TableAfter \in [Pages -> Entry]
      /\ \A w \in Pages : SameButRef(TableAfter[w], pte[w])
  BY <1>2, <1>3, ChoiceFacts
<1>5. MissEvict(v, n, TableAfter, write)
  BY <1>2, <1>4
<1>6. coremap' = [coremap EXCEPT ![n] = v] /\ pte'[v].frame = n
  BY <1>1, <1>4, <1>5, MissEvictFacts
<1>7. Used = Frames /\ Used' = Frames /\ Full'
  BY <1>1, <1>3, <1>6, PagesAssumption DEF Used, Full, MemInv, TypeOK
<1>8. links' = RefFcn(LinksAfter, n)
  BY <1>3, <1>6
<1>9. /\ alg = "fifo" => InOrder(FrameOrder', links', Used', links'.oldestf)
      /\ alg = "lru" => InOrder(FrameOrder', links', Used', links'.bottom_node)
      /\ alg \in {"fifo", "lru"} =>
           FrameOrder' = Turned(FrameOrder, memsize, 1) /\ FrameOrder[1] = n
  <2>1. OrderOf(links, Frames, FrameOrder)
    BY <1>7, OrderIs
  <2>2. /\ alg = "fifo" => InOrder(FrameOrder', links', Used', links'.oldestf)
        /\ alg = "lru" => InOrder(FrameOrder', links', Used', links'.bottom_node)
        /\ alg \in {"fifo", "lru"} =>
             FrameOrder' = Turned(FrameOrder, Cardinality(Frames), 1) /\ FrameOrder[1] = n
    BY <1>2, <1>3, <1>7, <1>8, <2>1, OrderEvict
  <2> QED
    BY <2>2, FramesCount
<1>10. alg = "rand" => FrameOrder' = FrameOrder
  BY <1>3, <1>7 DEF FrameOrder
<1>11. alg = "clock" => links' = ClockEvict(links)
  BY <1>8 DEF RefFcn, LinksAfter
<1>12. OrderInv'
  <2>1. Used' = 0..(Cardinality(Used') - 1)
    BY <1>7 DEF OrderInv
  <2> QED
    BY <1>3, <1>7, <1>9, <2>1 DEF OrderInv
<1> QED
  BY <1>2, <1>3, <1>5, <1>6, <1>7, <1>9, <1>10, <1>11, <1>12

LEMMA OrderNext == IInv /\ LinksInv /\ OrderInv /\ [Next]_vars => OrderInv'
<1> SUFFICES ASSUME IInv, LinksInv, OrderInv, [Next]_vars PROVE OrderInv'
  OBVIOUS
<1>1. ASSUME NEW v \in Pages, NEW write \in BOOLEAN, SimHit(v, write) PROVE OrderInv'
  BY <1>1, HitOrder
<1>2. ASSUME NEW v \in Pages, NEW write \in BOOLEAN, SimMissFree(v, write) PROVE OrderInv'
  BY <1>2, FreeOrder
<1>3. ASSUME NEW v \in Pages, NEW write \in BOOLEAN, SimMissEvict(v, write) PROVE OrderInv'
  BY <1>3, EvictOrder
<1>4. CASE UNCHANGED vars
  <2>1. FrameOrder' = FrameOrder /\ Used' = Used /\ links' = links /\ alg' = alg
    BY <1>4 DEF vars, ptVars, FrameOrder, Used, Chain, Hand
  <2>2. Full' <=> Full
    BY <1>4 DEF vars, ptVars, Full
  <2> QED
    BY <2>1, <2>2 DEF OrderInv
<1> QED
  BY <1>1, <1>2, <1>3, <1>4 DEF Next

(* The order that the pointers of fifo and lru make up has every frame in  *)
(* use once, for every trace and size of memory.                           *)
THEOREM OrderInvariance == Spec => []OrderInv
<1> QED
  BY OrderInit, OrderNext, Invariance, LinksInvariance, PTL DEF Spec

(***************************************************************************)
(* The pages in the order.                                                 *)
(***************************************************************************)
LEMMA AllOrders ==
  ASSUME IInv, OrderInv
  PROVE  LET n == Cardinality(Used) IN
         Lists(FrameOrder, Used) /\ n \in 0..memsize /\ (Full <=> n = memsize)
<1>1. alg \in {"rand", "clock", "fifo", "lru"} /\ links \in Links /\ memsize \in Nat \ {0}
  BY IInvParts, AlgorithmsAssumption, SizesAssumption
<1>2. PICK n : n = Cardinality(Used)
  OBVIOUS
<1>3. n \in Nat
  BY <1>2, UsedFinite
<1>4. Used = 0..(n - 1)
  BY <1>2 DEF OrderInv
<1>5. n \in 0..memsize
  <2>1. n > 0 => n - 1 \in Frames
    BY <1>3, <1>4, UsedFrames
  <2> QED
    BY <1>1, <1>3, <2>1 DEF Frames
<1>6. Full <=> n = memsize
  <2>1. Full => n - 0 = memsize
    BY <1>2, <1>3, FramesCount DEF Full, Used
  <2>2. n = memsize => Full
    BY <1>4 DEF Frames, Full, Used
  <2> QED
    BY <1>3, <2>1, <2>2
<1>7. alg \in {"fifo", "lru"} => Lists(FrameOrder, Used)
  BY UsedFrames, OrderParts DEF OrderInv
<1>8. CASE alg = "rand"
  <2>1. FrameOrder = [i \in 1..n |-> i - 1]
    BY <1>2, <1>8 DEF FrameOrder
  <2>2. \A f \in 0..(n - 1) : f + 1 \in 1..n /\ (f + 1) - 1 = f
    BY <1>3
  <2>3. Lists(FrameOrder, 0..(n - 1)) <=> Lists(FrameOrder, Used)
    BY <1>4
  <2>4. /\ FrameOrder \in [1..n -> Used] /\ DOMAIN FrameOrder = 1..n
        /\ \A i, j \in 1..n : FrameOrder[i] = FrameOrder[j] => i = j
        /\ \A f \in Used : FrameOrder[f + 1] = f /\ f + 1 \in 1..n
    BY <1>3, <1>4, <2>1, <2>2
  <2>5. Lists(FrameOrder, Used)
    BY <1>2, <2>4 DEF Lists
  <2> QED
    BY <1>2, <1>5, <1>6, <2>5
<1>9. CASE alg = "clock"
  <2>1. FrameOrder = [i \in 1..n |-> Hand(links, i - 1)]
    BY <1>2, <1>9 DEF FrameOrder
  <2>2. links.clock_hand \in 0..memsize /\ (~Full => Start(links) = 0)
    BY <1>1, <1>9 DEF OrderInv, Links, Start
  <2>3. PICK s \in 0..(memsize - 1) : s = Start(links)
    BY <1>1, <2>2 DEF Start
  <2>4. ASSUME NEW i \in 1..n
        PROVE  FrameOrder[i] = IF s + (i - 1) < memsize THEN s + (i - 1)
                               ELSE s + (i - 1) - memsize
    <3>1. i - 1 \in 0..memsize
      BY <1>1, <1>5
    <3>2. Hand(links, i - 1) = IF s + (i - 1) < memsize THEN s + (i - 1)
                               ELSE s + (i - 1) - memsize
      BY <2>2, <2>3, <3>1, HandIs
    <3> QED
      BY <2>1, <3>2
  <2>5. DOMAIN FrameOrder = 1..n /\ FrameOrder = [i \in 1..n |-> FrameOrder[i]]
    BY <2>1
  <2>6. n = memsize \/ s = 0
    BY <1>6, <2>2, <2>3
  <2>7. \A i \in 1..n : FrameOrder[i] \in 0..(n - 1)
    BY <1>1, <1>5, <2>3, <2>4, <2>6
  <2>8. ASSUME NEW f \in 0..(n - 1) PROVE \E i \in 1..n : FrameOrder[i] = f
    <3>1. PICK i : i = IF f >= s THEN f - s + 1 ELSE f - s + 1 + memsize
      OBVIOUS
    <3>2. i \in 1..n
      BY <1>1, <1>5, <2>3, <2>6, <3>1
    <3>3. FrameOrder[i] = f
      BY <1>1, <1>5, <2>3, <2>4, <2>6, <3>1, <3>2
    <3> QED
      BY <3>2, <3>3
  <2>9. \A i, j \in 1..n : FrameOrder[i] = FrameOrder[j] => i = j
    <3> SUFFICES ASSUME NEW i \in 1..n, NEW j \in 1..n, FrameOrder[i] = FrameOrder[j] PROVE i = j
      OBVIOUS
    <3>1. (IF s + (i - 1) < memsize THEN s + (i - 1) ELSE s + (i - 1) - memsize)
            = IF s + (j - 1) < memsize THEN s + (j - 1) ELSE s + (j - 1) - memsize
      BY <2>4
    <3> QED
      BY <1>1, <1>5, <2>3, <3>1
  <2>10. FrameOrder \in [1..n -> Used]
    BY <1>4, <2>5, <2>7
  <2>11. Lists(FrameOrder, Used)
    BY <1>2, <1>4, <2>5, <2>8, <2>9, <2>10 DEF Lists
  <2> QED
    BY <1>2, <1>5, <1>6, <2>11
<1> QED
  BY <1>1, <1>2, <1>5, <1>6, <1>7, <1>8, <1>9

LEMMA PageFacts ==
  ASSUME IInv, OrderInv
  PROVE  LET n == Cardinality(Used) IN
         /\ n \in 0..memsize /\ (Full <=> n = memsize)
         /\ DOMAIN FrameOrder = 1..n /\ DOMAIN PageOrder = 1..n
         /\ \A i \in 1..n : FrameOrder[i] \in Used /\ PageOrder[i] = coremap[FrameOrder[i]]
         /\ \A i, j \in 1..n : FrameOrder[i] = FrameOrder[j] => i = j
         /\ \A f \in Used : \E i \in 1..n : FrameOrder[i] = f
         /\ PageOrder \in [1..n -> Pages] /\ Len(PageOrder) = n
         /\ Policy!Resident = {v \in Pages : pte[v].valid}
<1>1. PICK n : n = Cardinality(Used)
  OBVIOUS
<1>2. n \in 0..memsize /\ (Full <=> n = memsize) /\ Lists(FrameOrder, Used) /\ n \in Nat
  BY <1>1, AllOrders, UsedFinite
<1>3. /\ DOMAIN FrameOrder = 1..n
      /\ \A i \in 1..n : FrameOrder[i] \in Used
      /\ \A g \in Used : \E i \in 1..n : FrameOrder[i] = g
      /\ \A i, j \in 1..n : FrameOrder[i] = FrameOrder[j] => i = j
  BY <1>1, <1>2, UsedFrames, ListFacts
<1>4. PageOrder = [i \in 1..n |-> coremap[FrameOrder[i]]]
  BY <1>3 DEF PageOrder
<1>5. \A f \in Used : coremap[f] \in Pages /\ pte[coremap[f]].valid
  BY PagesAssumption DEF Used, IInv, SimType, TypeOK, TablesInverse
<1>6. PageOrder \in [1..n -> Pages] /\ DOMAIN PageOrder = 1..n
  BY <1>3, <1>4, <1>5
<1>7. Len(PageOrder) = n
  BY <1>2, <1>6, FunctionSeq
<1>8. Policy!Resident = {v \in Pages : pte[v].valid}
  <2>1. Policy!Resident = {PageOrder[i] : i \in 1..n}
    BY <1>6 DEF Policy!Resident, Policy!ToSet
  <2>2. ASSUME NEW v \in Pages, pte[v].valid PROVE \E i \in 1..n : PageOrder[i] = v
    <3>1. pte[v].frame \in Used /\ coremap[pte[v].frame] = v
      BY <2>2, PagesAssumption DEF Used, IInv, SimType, TypeOK, TablesInverse, Entry
    <3> QED
      BY <1>3, <1>4, <3>1
  <2> QED
    BY <1>3, <1>4, <1>5, <2>1, <2>2
<1> QED
  BY <1>1, <1>2, <1>3, <1>4, <1>6, <1>7, <1>8

(***************************************************************************)
(* The reference bits.                                                     *)
(***************************************************************************)
LEMMA AccessMarks ==
  ASSUME NEW v \in Pages, NEW f, NEW t \in [Pages -> Entry], NEW m,
         NEW write \in BOOLEAN, NEW failed, Access(v, f, t, m, write, failed)
  PROVE  pte'[v].ref /\ \A w \in Pages \ {v} : pte'[w] = t[w]
<1>1. pte' = [t EXCEPT ![v] = Touch(t[v], write)]
  BY DEF Access
<1>2. Touch(t[v], write).ref
  <2>1. t[v] \in Entry
    OBVIOUS
  <2> QED
    BY <2>1 DEF Touch, Entry
<1> HIDE DEF Touch
<1> QED
  BY <1>1, <1>2

LEMMA InstallMarks ==
  ASSUME NEW v \in Pages, NEW f \in Frames, NEW t \in [Pages -> Entry], NEW m,
         NEW write \in BOOLEAN, NEW failed, TypeOK, Install(v, f, t, m, write, failed)
  PROVE  pte'[v].ref /\ \A w \in Pages \ {v} : pte'[w] = t[w]
<1> DEFINE first == ~pte[v].onswap
           e == [t[v] EXCEPT !.valid = FALSE, !.ref = FALSE, !.onswap = FALSE,
                             !.dirty = first, !.frame = f]
           s == [t EXCEPT ![v] = e]
           k == IF first THEN [m EXCEPT ![f] = [vaddr |-> v, version |-> 0]] ELSE m
<1>1. Access(v, f, s, k, write, failed)
  BY DEF Install
<1>2. e \in Entry
  <2>1. first \in BOOLEAN /\ t[v] \in Entry
    BY DEF TypeOK, Entry
  <2> HIDE DEF first
  <2> QED
    BY <2>1, EntryUpdates
<1> HIDE DEF e
<1>3. s \in [Pages -> Entry] /\ \A w \in Pages \ {v} : s[w] = t[w]
  BY <1>2
<1> HIDE DEF s, k
<1> QED
  BY <1>1, <1>3, AccessMarks

LEMMA HitMarks ==
  ASSUME IInv, NEW v \in Pages, NEW write \in BOOLEAN, Hit(v, write)
  PROVE  Marked' = Marked \cup {v}
<1>1. MemInv /\ pte \in [Pages -> Entry]
  BY IInvParts DEF MemInv, TypeOK
<1>2. pte'[v].valid
  BY <1>1, HitFacts
<1>3. pte'[v].ref /\ \A w \in Pages \ {v} : pte'[w] = pte[w]
  BY <1>1, AccessMarks DEF Hit
<1> QED
  BY <1>2, <1>3 DEF Marked

LEMMA FreeMarks ==
  ASSUME IInv, NEW v \in Pages, NEW write \in BOOLEAN, MissFree(v, write)
  PROVE  Marked' = Marked \cup {v}
<1>1. MemInv /\ TypeOK /\ pte \in [Pages -> Entry]
  BY IInvParts DEF MemInv, TypeOK
<1>2. pte'[v].valid
  BY <1>1, MissFreeFacts
<1>3. pte'[v].ref /\ \A w \in Pages \ {v} : pte'[w] = pte[w]
  <2>1. PICK f \in Frames : Install(v, f, pte, physmem, write, FALSE)
    BY DEF MissFree
  <2> QED
    BY <1>1, <2>1, InstallMarks
<1> QED
  BY <1>2, <1>3 DEF Marked

LEMMA EvictMarks ==
  ASSUME IInv, NEW v \in Pages, NEW write \in BOOLEAN, NEW f \in Frames,
         NEW t \in [Pages -> Entry], \A w \in Pages : SameButRef(t[w], pte[w]),
         MissEvict(v, f, t, write)
  PROVE  /\ ~pte[v].valid /\ coremap[f] \in Pages \ {v} /\ pte[coremap[f]].valid
         /\ Marked' = ({w \in Pages : pte[w].valid /\ t[w].ref} \cup {v}) \ {coremap[f]}
<1>1. MemInv /\ TypeOK
  BY IInvParts DEF MemInv
<1> DEFINE u == coremap[f]
<1>2. /\ ~pte[v].valid /\ u \in Pages \ {v} /\ pte[u].valid
      /\ \A w \in Pages \ {u, v} : pte'[w] = t[w]
      /\ ~pte'[u].valid /\ pte'[v].valid
  BY <1>1, MissEvictFacts
<1>3. pte'[v].ref
  <2>1. \E r \in Slots \cup {INVALID_SWAP} : \E m, failed :
          Install(v, f, [t EXCEPT ![u] = Evict(t[u], r)], m, write, failed)
    BY DEF MissEvict
  <2> PICK r \in Slots \cup {INVALID_SWAP} : \E m, failed :
          Install(v, f, [t EXCEPT ![u] = Evict(t[u], r)], m, write, failed)
    BY <2>1
  <2> PICK m, failed : Install(v, f, [t EXCEPT ![u] = Evict(t[u], r)], m, write, failed)
    OBVIOUS
  <2>2. Evict(t[u], r) \in Entry
    <3>1. t[u].valid /\ t[u] \in Entry
      BY <1>2 DEF SameButRef
    <3> QED
      BY <3>1, EvictEntry
  <2>3. PICK s : s = [t EXCEPT ![u] = Evict(t[u], r)]
    OBVIOUS
  <2>4. s \in [Pages -> Entry]
    BY <2>2, <2>3
  <2>5. Install(v, f, s, m, write, failed)
    BY <2>3
  <2> QED
    BY <1>1, <2>4, <2>5, InstallMarks
<1>4. \A w \in Pages \ {u, v} : pte'[w].valid = pte[w].valid /\ pte'[w].ref = t[w].ref
  BY <1>2 DEF SameButRef
<1> QED
  BY <1>2, <1>3, <1>4 DEF Marked

(***************************************************************************)
(* Every step of the simulator is one of ReplacementPolicy.                *)
(***************************************************************************)
LEMMA HitsAsPolicy ==
  ASSUME IInv, LinksInv, OrderInv, NEW v \in Pages, NEW write \in BOOLEAN, SimHit(v, write)
  PROVE  Policy!Hit(v)
<1> DEFINE f == pte[v].frame
<1>1. MemInv /\ alg' = alg
  BY IInvParts DEF SimHit
<1>2. f \in Frames /\ coremap[f] = v /\ coremap' = coremap /\ f \in Used
  BY <1>1, HitFacts, HitOrder DEF SimHit
<1>3. Marked' = Marked \cup {v}
  BY HitMarks DEF SimHit
<1>4. PICK n \in Nat : n = Cardinality(Used)
  BY UsedFinite
<1>5. /\ DOMAIN PageOrder = 1..n /\ PageOrder \in [1..n -> Pages]
      /\ \A i \in 1..n : PageOrder[i] = coremap[FrameOrder[i]]
      /\ \A g \in Used : \E i \in 1..n : FrameOrder[i] = g
  BY <1>4, PageFacts
<1>6. CASE alg # "lru"
  <2>1. PageOrder' = PageOrder
    BY <1>2, <1>6, HitOrder DEF PageOrder
  <2>2. PICK i \in 1..n : PageOrder[i] = v
    BY <1>2, <1>5
  <2> QED
    BY <1>3, <1>5, <1>6, <2>1, <2>2 DEF Policy!Hit
<1>7. CASE alg = "lru"
  <2>1. PICK k \in 1..n : FrameOrder[k] = f /\ FrameOrder' = Turned(FrameOrder, n, k)
    BY <1>4, <1>7, HitOrder
  <2>2. PageOrder[k] = v
    BY <1>2, <1>5, <2>1
  <2>3. FrameOrder' = [i \in 1..n |-> IF i < k THEN FrameOrder[i]
                                      ELSE IF i < n THEN FrameOrder[i + 1] ELSE FrameOrder[k]]
    BY <2>1 DEF Turned
  <2>4. PageOrder' = [i \in 1..n |-> coremap[FrameOrder'[i]]]
    BY <1>2, <2>3 DEF PageOrder
  <2>5. \A i \in 1..n : coremap[FrameOrder'[i]] =
          IF i < k THEN PageOrder[i] ELSE IF i < n THEN PageOrder[i + 1] ELSE v
    BY <1>2, <1>5, <2>1, <2>3
  <2>6. PageOrder' = [i \in 1..n |-> IF i < k THEN PageOrder[i]
                                     ELSE IF i < n THEN PageOrder[i + 1] ELSE v]
    BY <2>4, <2>5
  <2>7. PageOrder' = Append(Without(PageOrder, k), v)
    <3>1. PageOrder \in [1..n -> Pages]
      BY <1>5
    <3>2. Append(Without(PageOrder, k), v) =
            [i \in 1..n |-> IF i < k THEN PageOrder[i]
                            ELSE IF i < n THEN PageOrder[i + 1] ELSE v]
      BY <3>1, TurnIs
    <3> QED
      BY <2>6, <3>2
  <2>8. Without(PageOrder, k) = Policy!RemoveAt(PageOrder, k)
    BY DEF Without, Policy!RemoveAt
  <2> QED
    BY <1>3, <1>5, <1>7, <2>2, <2>7, <2>8 DEF Policy!Hit
<1> QED
  BY <1>6, <1>7

LEMMA LoadsAsPolicy ==
  ASSUME IInv, LinksInv, OrderInv, NEW v \in Pages, NEW write \in BOOLEAN,
         SimMissFree(v, write)
  PROVE  Policy!Load(v)
<1>1. PICK n \in Nat : n = Cardinality(Used)
  BY UsedFinite
<1>2. /\ n \in Frames \ Used /\ coremap' = [coremap EXCEPT ![n] = v]
      /\ FrameOrder' = Longer(FrameOrder, n, n)
  BY <1>1, LowestFree, FreeOrder DEF SimMissFree
<1>3. /\ PageOrder \in [1..n -> Pages] /\ Len(PageOrder) = n /\ n < memsize
      /\ \A i \in 1..n : FrameOrder[i] \in Used /\ PageOrder[i] = coremap[FrameOrder[i]]
      /\ Policy!Resident = {w \in Pages : pte[w].valid}
  BY <1>1, <1>2, PageFacts, SizesAssumption DEF Frames
<1>4. v \notin Policy!Resident
  BY <1>3 DEF SimMissFree, MissFree
<1>5. Marked' = Marked \cup {v}
  BY FreeMarks DEF SimMissFree
<1>6. coremap \in [Frames -> Pages \cup {NoPage}]
  BY DEF IInv, SimType, TypeOK
<1>7. FrameOrder' = [i \in 1..(n + 1) |-> IF i <= n THEN FrameOrder[i] ELSE n]
  BY <1>2 DEF Longer
<1>8. PageOrder' = [i \in 1..(n + 1) |-> coremap'[FrameOrder'[i]]]
  BY <1>7 DEF PageOrder
<1>9. \A i \in 1..(n + 1) : coremap'[FrameOrder'[i]] = IF i <= n THEN PageOrder[i] ELSE v
  BY <1>2, <1>3, <1>6, <1>7, UsedFrames
<1>10. PageOrder' = [i \in 1..(n + 1) |-> IF i <= n THEN PageOrder[i] ELSE v]
  BY <1>8, <1>9
<1>11. PageOrder' = Append(PageOrder, v)
  BY <1>3, <1>10, AppendIs
<1> QED
  BY <1>3, <1>4, <1>5, <1>11 DEF Policy!Load

LEMMA RoundIs ==
  ASSUME NEW S, NEW n \in Nat, NEW s \in [1..n -> S], NEW k \in 0..n
  PROVE  SubSeq(s, k + 1, n) \o SubSeq(s, 1, k)
           = [i \in 1..n |-> s[IF i + k <= n THEN i + k ELSE i + k - n]]
<1>1. s \in Seq(S) /\ Len(s) = n
  BY FunctionSeq
<1> DEFINE a == SubSeq(s, k + 1, n)
           b == SubSeq(s, 1, k)
<1>2. /\ a \in Seq(S) /\ Len(a) = n - k /\ \A i \in 1..(n - k) : a[i] = s[i + k]
  BY <1>1, SubSeqProperties
<1>3. /\ b \in Seq(S) /\ Len(b) = k /\ \A i \in 1..k : b[i] = s[i]
  BY <1>1, SubSeqProperties
<1> HIDE DEF a, b
<1>4. /\ a \o b \in Seq(S) /\ Len(a \o b) = Len(a) + Len(b)
      /\ \A i \in 1..(Len(a) + Len(b)) :
           (a \o b)[i] = IF i <= Len(a) THEN a[i] ELSE b[i - Len(a)]
  BY <1>2, <1>3, ConcatProperties
<1>5. ASSUME NEW i \in 1..n
      PROVE  (a \o b)[i] = s[IF i + k <= n THEN i + k ELSE i + k - n]
  <2>1. CASE i <= n - k
    <3>1. i \in 1..(n - k) /\ i + k <= n
      BY <2>1
    <3> QED
      BY <1>2, <1>3, <1>4, <3>1
  <2>2. CASE ~(i <= n - k)
    <3>1. i - (n - k) \in 1..k /\ i - (n - k) = i + k - n /\ ~(i + k <= n)
      BY <2>2
    <3> QED
      BY <1>2, <1>3, <1>4, <2>2, <3>1
  <2> QED
    BY <2>1, <2>2
<1>6. PICK c : c = a \o b
  OBVIOUS
<1>7. c = [i \in 1..n |-> s[IF i + k <= n THEN i + k ELSE i + k - n]]
  <2>1. c \in Seq(S) /\ Len(c) = n
    BY <1>2, <1>3, <1>4, <1>6
  <2>2. c = [i \in 1..n |-> c[i]]
    BY <2>1, SeqFunction
  <2>3. \A i \in 1..n : c[i] = s[IF i + k <= n THEN i + k ELSE i + k - n]
    BY <1>5, <1>6
  <2> QED
    BY <2>2, <2>3
<1> QED
  BY <1>6, <1>7 DEF a, b

(* The order when memory is full, and a page gives up frame n.             *)
FullOrder(n, v) ==
  /\ DOMAIN FrameOrder = 1..memsize
  /\ PageOrder \in [1..memsize -> Pages] /\ Len(PageOrder) = memsize
  /\ \A i \in 1..memsize : FrameOrder[i] \in Frames /\ PageOrder[i] = coremap[FrameOrder[i]]
  /\ \A i, j \in 1..memsize : FrameOrder[i] = FrameOrder[j] => i = j
  /\ \A f \in Frames : \E i \in 1..memsize : FrameOrder[i] = f
  /\ Policy!Resident = {w \in Pages : pte[w].valid}
  /\ coremap \in [Frames -> Pages \cup {NoPage}] /\ coremap' = [coremap EXCEPT ![n] = v]
  /\ coremap[n] # v
  /\ \A f, g \in Frames : coremap[f] = coremap[g] => f = g

LEMMA FullFacts ==
  ASSUME IInv, OrderInv, Full, NEW n \in Frames, NEW v \in Pages, ~pte[v].valid,
         coremap' = [coremap EXCEPT ![n] = v]
  PROVE  FullOrder(n, v)
<1>1. coremap \in [Frames -> Pages \cup {NoPage}]
  BY DEF IInv, SimType, TypeOK
<1>2. \A f \in Frames : pte[coremap[f]].valid /\ pte[coremap[f]].frame = f
  BY DEF IInv, TablesInverse, Full
<1>3. Cardinality(Used) = memsize /\ Used = Frames
  BY PageFacts DEF Full, Used
<1>4. LET m == memsize IN
      /\ DOMAIN FrameOrder = 1..m
      /\ \A i \in 1..m : FrameOrder[i] \in Frames /\ PageOrder[i] = coremap[FrameOrder[i]]
      /\ \A i, j \in 1..m : FrameOrder[i] = FrameOrder[j] => i = j
      /\ \A f \in Frames : \E i \in 1..m : FrameOrder[i] = f
      /\ PageOrder \in [1..m -> Pages] /\ Len(PageOrder) = m
      /\ Policy!Resident = {w \in Pages : pte[w].valid}
  BY <1>3, PageFacts
<1> QED
  BY <1>1, <1>2, <1>4 DEF FullOrder

LEMMA FirstReplaced ==
  ASSUME NEW n \in Frames, NEW v \in Pages, FullOrder(n, v), alg \in {"fifo", "lru"},
         FrameOrder' = Turned(FrameOrder, memsize, 1), FrameOrder[1] = n,
         Marked' = (Marked \cup {v}) \ {coremap[n]}
  PROVE  Policy!ReplaceFirst(v)
<1>1. memsize \in Nat \ {0} /\ PageOrder \in [1..memsize -> Pages]
  BY SizesAssumption DEF FullOrder
<1>2. FrameOrder' = [i \in 1..memsize |-> IF i < memsize THEN FrameOrder[i + 1] ELSE n]
  BY <1>1 DEF Turned
<1>3. PageOrder' = [i \in 1..memsize |-> coremap'[FrameOrder'[i]]]
  BY <1>2 DEF PageOrder
<1>4. \A i \in 1..memsize : coremap'[FrameOrder'[i]] = IF i < memsize THEN PageOrder[i + 1] ELSE v
  <2> TAKE i \in 1..memsize
  <2>1. CASE i < memsize
    <3>1. i + 1 \in 1..memsize /\ 1 \in 1..memsize /\ i + 1 # 1
      BY <1>1, <2>1
    <3>2. FrameOrder[i + 1] \in Frames /\ FrameOrder[i + 1] # n
      BY <3>1 DEF FullOrder
    <3> QED
      BY <1>2, <2>1, <3>1, <3>2 DEF FullOrder
  <2>2. CASE ~(i < memsize)
    BY <1>2, <2>2 DEF FullOrder
  <2> QED
    BY <2>1, <2>2
<1>5. PageOrder' = [i \in 1..memsize |-> IF i < memsize THEN PageOrder[i + 1] ELSE v]
  BY <1>3, <1>4
<1>6. /\ Head(PageOrder) = PageOrder[1]
      /\ Append(Tail(PageOrder), v)
           = [i \in 1..memsize |-> IF i < memsize THEN PageOrder[i + 1] ELSE v]
  BY <1>1, TailIs
<1>7. PageOrder[1] = coremap[n]
  BY <1>1 DEF FullOrder
<1> QED
  BY <1>5, <1>6, <1>7 DEF Policy!ReplaceFirst

LEMMA AnyReplaced ==
  ASSUME NEW n \in Frames, NEW v \in Pages, FullOrder(n, v), alg = "rand",
         FrameOrder' = FrameOrder, Marked' = (Marked \cup {v}) \ {coremap[n]}
  PROVE  Policy!ReplaceAny(v)
<1>1. PICK k \in 1..memsize : FrameOrder[k] = n
  BY DEF FullOrder
<1>2. PageOrder' = [i \in 1..memsize |-> coremap'[FrameOrder[i]]]
  BY DEF PageOrder, FullOrder
<1>3. \A i \in 1..memsize : coremap'[FrameOrder[i]] = IF i = k THEN v ELSE PageOrder[i]
  BY <1>1 DEF FullOrder
<1>4. PageOrder' = [PageOrder EXCEPT ![k] = v]
  BY <1>2, <1>3 DEF FullOrder
<1>5. Policy!ToSet(PageOrder') = {PageOrder'[i] : i \in 1..memsize}
  BY <1>2 DEF Policy!ToSet
<1>6. \A i \in 1..memsize : PageOrder'[i] = IF i = k THEN v ELSE PageOrder[i]
  BY <1>2, <1>3
<1>7. coremap[n] \notin Policy!ToSet(PageOrder')
  BY <1>1, <1>5, <1>6 DEF FullOrder
<1>8. v \in Policy!ToSet(PageOrder')
  BY <1>1, <1>5, <1>6
<1>9. ASSUME NEW w \in Marked, w # coremap[n] PROVE w \in Policy!ToSet(PageOrder')
  <2>1. w \in Policy!Resident
    BY DEF FullOrder, Marked
  <2>2. PICK i \in 1..memsize : PageOrder[i] = w
    BY <2>1 DEF FullOrder, Policy!Resident, Policy!ToSet
  <2>3. i # k
    BY <1>1, <1>9, <2>2 DEF FullOrder
  <2> QED
    BY <1>5, <1>6, <2>2, <2>3
<1>10. Marked' = (Marked \cup {v}) \cap Policy!ToSet(PageOrder')
  BY <1>7, <1>8, <1>9
<1> QED
  BY <1>1, <1>4, <1>10 DEF Policy!ReplaceAny

LEMMA ChanceGiven ==
  ASSUME IInv, NEW n \in Frames, NEW v \in Pages, FullOrder(n, v), alg = "clock",
         ~pte[v].valid,
         alg' = alg, Used = Frames, Used' = Frames, Chooses(n), links' = ClockEvict(links),
         Marked' = ({w \in Pages : pte[w].valid /\ TableAfter[w].ref} \cup {v}) \ {coremap[n]}
  PROVE  Policy!SecondChance(v)
<1> DEFINE k == ClockLaps(links)
           passed == {PageOrder[j] : j \in 1..k}
           turned == SubSeq(PageOrder, k + 1, memsize) \o SubSeq(PageOrder, 1, k)
<1>1. /\ memsize \in Nat \ {0} /\ PageOrder \in [1..memsize -> Pages] /\ links \in Links
      /\ links.clock_hand \in 0..memsize
  BY IInvParts, SizesAssumption DEF FullOrder, Links
<1>2. k \in 0..memsize /\ ClockStops(links, k)
  BY LapsStop
<1>3. n = Hand(links, k) /\ links'.clock_hand = n + 1
  BY <1>1 DEF Chooses, ClockVictim, ClockEvict, Links
<1> HIDE DEF k
<1>4. /\ FrameOrder = [i \in 1..memsize |-> Hand(links, i - 1)]
      /\ FrameOrder' = [i \in 1..memsize |-> Hand(links', i - 1)]
  BY FramesCount DEF FrameOrder
<1>5. /\ n = Hand(links, Round(k, 1) - 1)
      /\ \A i \in 1..memsize : i < memsize =>
           Hand(links', i - 1) = Hand(links, Round(k, i + 1) - 1)
      /\ Hand(links', memsize - 1) = n
  BY <1>1, <1>2, <1>3, NextRound
<1>6. \A i \in 1..memsize : Round(k, i) \in 1..memsize
  BY <1>2, RoundType
<1>7. FrameOrder[Round(k, 1)] = n /\ 1 \in 1..memsize
  BY <1>1, <1>4, <1>5, <1>6
<1>8. turned = [i \in 1..memsize |-> PageOrder[Round(k, i)]]
  <2>1. turned = [i \in 1..memsize |->
                    PageOrder[IF i + k <= memsize THEN i + k ELSE i + k - memsize]]
    <3>1. memsize \in Nat /\ PageOrder \in [1..memsize -> Pages] /\ k \in 0..memsize
      BY <1>1, <1>2
    <3> QED
      BY <3>1, RoundIs
  <2> QED
    BY <2>1 DEF Round
<1>9. turned \in [1..memsize -> Pages]
  BY <1>1, <1>6, <1>8
<1>10. turned[1] = coremap[n]
  <2>1. \A i \in 1..memsize : PageOrder[i] = coremap[FrameOrder[i]]
    BY DEF FullOrder
  <2>2. PageOrder[Round(k, 1)] = coremap[n]
    BY <1>6, <1>7, <2>1
  <2>3. turned[1] = PageOrder[Round(k, 1)]
    <3> HIDE DEF turned
    <3> QED
      BY <1>7, <1>8
  <2> QED
    BY <2>2, <2>3
<1>11. PageOrder' = [i \in 1..memsize |-> coremap'[FrameOrder'[i]]]
  BY <1>4 DEF PageOrder
<1>12. ASSUME NEW i \in 1..memsize
       PROVE  coremap'[FrameOrder'[i]] = IF i < memsize THEN turned[i + 1] ELSE v
  <2>1. CASE i < memsize
    <3>1. i + 1 \in 1..memsize /\ Round(k, i + 1) \in 1..memsize
      BY <1>1, <1>6, <2>1
    <3>2. FrameOrder'[i] = FrameOrder[Round(k, i + 1)]
      BY <1>4, <1>5, <2>1, <3>1
    <3>3. Round(k, i + 1) # Round(k, 1)
      BY <1>1, <1>2, <2>1 DEF Round
    <3>4. FrameOrder[Round(k, i + 1)] # n
      BY <1>6, <1>7, <3>1, <3>3 DEF FullOrder
    <3>5. coremap'[FrameOrder[Round(k, i + 1)]] = PageOrder[Round(k, i + 1)]
      BY <3>1, <3>4 DEF FullOrder
    <3> QED
      BY <1>8, <2>1, <3>1, <3>2, <3>5
  <2>2. CASE ~(i < memsize)
    <3>1. i = memsize
      BY <1>1, <2>2
    <3>2. FrameOrder'[i] = n
      BY <1>4, <1>5, <3>1
    <3> QED
      BY <2>2, <3>2 DEF FullOrder
  <2> QED
    BY <2>1, <2>2
<1> HIDE DEF turned
<1>13. PageOrder' = [i \in 1..memsize |-> IF i < memsize THEN turned[i + 1] ELSE v]
  BY <1>11, <1>12
<1>14. /\ Head(turned) = turned[1]
       /\ Append(Tail(turned), v)
            = [i \in 1..memsize |-> IF i < memsize THEN turned[i + 1] ELSE v]
  BY <1>1, <1>9, TailIs
<1>15. PageOrder' = Append(Tail(turned), v) /\ Head(turned) = coremap[n]
  BY <1>10, <1>13, <1>14
<1>16. ASSUME NEW j \in 0..(memsize - 1)
       PROVE  /\ j + 1 \in 1..memsize /\ PageOrder[j + 1] = coremap[Hand(links, j)]
              /\ PageOrder[j + 1] \in Pages /\ pte[PageOrder[j + 1]].valid
              /\ Referenced(Hand(links, j)) <=> PageOrder[j + 1] \in Marked
  <2>1. j + 1 \in 1..memsize /\ (j + 1) - 1 = j
    BY <1>1
  <2>2. PageOrder[j + 1] = coremap[Hand(links, j)]
    <3>1. FrameOrder[j + 1] = Hand(links, j)
      BY <1>4, <2>1
    <3> QED
      BY <2>1, <3>1 DEF FullOrder
  <2>3. PageOrder[j + 1] \in Policy!Resident
    BY <1>1, <2>1 DEF Policy!Resident, Policy!ToSet
  <2>4. PageOrder[j + 1] \in Pages /\ pte[PageOrder[j + 1]].valid
    BY <2>3 DEF FullOrder
  <2>5. Referenced(Hand(links, j)) <=> PageOrder[j + 1] \in Marked
    BY <2>2, <2>4 DEF Referenced, Marked
  <2> QED
    BY <2>1, <2>2, <2>4, <2>5
<1>17. \A j \in 1..k : j - 1 \in 0..(memsize - 1) /\ j - 1 \in 0..(k - 1) /\ (j - 1) + 1 = j
  BY <1>1, <1>2
<1>18. passed \subseteq Marked
  <2>1. ASSUME NEW j \in 1..k PROVE PageOrder[j] \in Marked
    <3>1. Referenced(Hand(links, j - 1))
      BY <1>2, <1>17 DEF ClockStops, Passed
    <3>2. PageOrder[(j - 1) + 1] \in Marked
      BY <1>16, <1>17, <3>1
    <3> QED
      BY <1>17, <3>2
  <2> QED
    BY <2>1
<1>19. k = memsize \/ PageOrder[k + 1] \notin Marked
  <2>1. k = memsize \/ (k \in 0..(memsize - 1) /\ ~Referenced(Hand(links, k)))
    BY <1>1, <1>2 DEF ClockStops
  <2> QED
    BY <1>16, <2>1
<1>20. {w \in Pages : pte[w].valid /\ TableAfter[w].ref} = Marked \ passed
  <2>1. ASSUME NEW w \in Pages
        PROVE  TableAfter[w].ref <=> pte[w].ref /\ w \notin passed
    <3>1. TableAfter[w] = [pte[w] EXCEPT !.ref =
            pte[w].ref /\ ~\E j \in 0..(k - 1) : coremap[Hand(links, j)] = w]
      BY DEF TableAfter, ClockTable, k
    <3>2. pte[w] \in Entry
      BY DEF IInv, SimType, TypeOK
    <3>3. TableAfter[w].ref = (pte[w].ref /\ ~\E j \in 0..(k - 1) : coremap[Hand(links, j)] = w)
      BY <3>1, <3>2 DEF Entry
    <3>4. (\E j \in 0..(k - 1) : coremap[Hand(links, j)] = w) <=> w \in passed
      <4>1. ASSUME NEW j \in 0..(k - 1), coremap[Hand(links, j)] = w PROVE w \in passed
        <5>1. j \in 0..(memsize - 1) /\ j + 1 \in 1..k
          BY <1>1, <1>2
        <5> QED
          BY <1>16, <4>1, <5>1
      <4>2. ASSUME NEW j \in 1..k, PageOrder[j] = w
            PROVE  \E i \in 0..(k - 1) : coremap[Hand(links, i)] = w
        <5>1. PageOrder[(j - 1) + 1] = coremap[Hand(links, j - 1)]
          BY <1>16, <1>17
        <5> QED
          BY <1>17, <4>2, <5>1
      <4> QED
        BY <4>1, <4>2
    <3> QED
      BY <3>3, <3>4
  <2> HIDE DEF passed
  <2> QED
    BY <2>1 DEF Marked
<1>21. Marked' = (Marked \cup {v}) \ (passed \cup {Head(turned)})
  <2>1. v \notin passed
    BY <1>18 DEF Marked
  <2> HIDE DEF passed
  <2> QED
    BY <1>15, <1>20, <2>1
<1> QED
  BY <1>2, <1>15, <1>18, <1>19, <1>21 DEF Policy!SecondChance, turned

LEMMA ReplacesAsPolicy ==
  ASSUME IInv, LinksInv, OrderInv, NEW v \in Pages, NEW write \in BOOLEAN,
         SimMissEvict(v, write)
  PROVE  Policy!Replace(v) /\ alg' = alg
<1>1. PICK n \in Frames :
        /\ Chooses(n) /\ MissEvict(v, n, TableAfter, write)
        /\ Full /\ ~FollowsNull /\ alg' = alg
        /\ Used = Frames /\ Used' = Frames
        /\ coremap' = [coremap EXCEPT ![n] = v]
        /\ alg \in {"fifo", "lru"} =>
             FrameOrder' = Turned(FrameOrder, memsize, 1) /\ FrameOrder[1] = n
        /\ alg = "rand" => FrameOrder' = FrameOrder
        /\ alg = "clock" => links' = ClockEvict(links)
  BY EvictOrder
<1>2. /\ TableAfter \in [Pages -> Entry]
      /\ \A w \in Pages : SameButRef(TableAfter[w], pte[w])
  BY <1>1, ChoiceFacts
<1>3. /\ ~pte[v].valid
      /\ Marked' = ({w \in Pages : pte[w].valid /\ TableAfter[w].ref} \cup {v}) \ {coremap[n]}
  BY <1>1, <1>2, EvictMarks
<1>4. FullOrder(n, v)
  BY <1>1, <1>3, FullFacts
<1>5. v \notin Policy!Resident /\ Len(PageOrder) = memsize
  BY <1>3, <1>4 DEF FullOrder
<1>6. alg # "clock" => Marked' = (Marked \cup {v}) \ {coremap[n]}
  BY <1>3 DEF TableAfter, Marked
<1>7. CASE alg \in {"fifo", "lru"}
  BY <1>1, <1>4, <1>5, <1>6, <1>7, FirstReplaced DEF Policy!Replace
<1>8. CASE alg = "rand"
  BY <1>1, <1>4, <1>5, <1>6, <1>8, AnyReplaced DEF Policy!Replace
<1>9. CASE alg = "clock"
  BY <1>1, <1>3, <1>4, <1>5, <1>9, ChanceGiven DEF Policy!Replace
<1>10. alg \in {"rand", "clock", "fifo", "lru"}
  BY AlgorithmsAssumption DEF IInv, SimType
<1> QED
  BY <1>1, <1>7, <1>8, <1>9, <1>10

LEMMA PolicyInit == SimInit => Policy!Init
<1> SUFFICES ASSUME SimInit PROVE Policy!Init
  OBVIOUS
<1>1. IInv /\ OrderInv
  BY InitInv, OrderInit
<1>2. Used = {} /\ Cardinality(Used) = 0
  BY FS_EmptySet DEF SimInit, Init, Used
<1>3. PageOrder \in [1..0 -> Pages]
  BY <1>1, <1>2, PageFacts
<1>4. PageOrder = <<>>
  BY <1>3
<1>5. Marked = {}
  BY DEF SimInit, Init, Marked
<1>6. alg \in {"rand", "clock", "fifo", "lru"}
  BY AlgorithmsAssumption DEF SimInit
<1> QED
  BY <1>4, <1>5, <1>6 DEF Policy!Init

LEMMA PolicyNext == IInv /\ LinksInv /\ OrderInv /\ [Next]_vars => [Policy!Next]_(Policy!vars)
<1> SUFFICES ASSUME IInv, LinksInv, OrderInv, [Next]_vars PROVE [Policy!Next]_(Policy!vars)
  OBVIOUS
<1>1. ASSUME NEW v \in Pages, NEW write \in BOOLEAN, SimHit(v, write) PROVE Policy!Next
  BY <1>1, HitsAsPolicy DEF Policy!Next, SimHit
<1>2. ASSUME NEW v \in Pages, NEW write \in BOOLEAN, SimMissFree(v, write) PROVE Policy!Next
  BY <1>2, LoadsAsPolicy DEF Policy!Next, SimMissFree
<1>3. ASSUME NEW v \in Pages, NEW write \in BOOLEAN, SimMissEvict(v, write) PROVE Policy!Next
  BY <1>3, ReplacesAsPolicy DEF Policy!Next
<1>4. CASE UNCHANGED vars
  <2>1. FrameOrder' = FrameOrder /\ coremap' = coremap /\ pte' = pte /\ alg' = alg
    BY <1>4 DEF vars, ptVars, FrameOrder, Used, Chain, Hand
  <2>2. PageOrder' = PageOrder /\ Marked' = Marked
    BY <2>1 DEF PageOrder, Marked
  <2> QED
    BY <2>1, <2>2 DEF Policy!vars
<1> QED
  BY <1>1, <1>2, <1>3, <1>4 DEF Next

(* Whatever the trace and the size of memory: fifo gives up the page that  *)
(* was loaded first, lru the one used least recently, and clock gives      *)
(* second chances in the order of its hand.                                *)
THEOREM PolicyRefinement == Spec => ImplementsPolicy
<1>1. Spec => Policy!Init /\ [][Policy!Next]_(Policy!vars)
  BY PolicyInit, PolicyNext, Invariance, LinksInvariance, OrderInvariance, PTL DEF Spec
<1> QED
  BY <1>1 DEF ImplementsPolicy, Policy!Spec
=============================================================================
