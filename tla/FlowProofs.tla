----------------------------- MODULE FlowProofs -----------------------------
(***************************************************************************)
(* Proof that the intersection implements CarFlow, for every schedule,     *)
(* lane capacity and set of turns.                                         *)
(***************************************************************************)
EXTENDS IntersectionFlow, IntersectionProofs, SequenceTheorems, WellFoundedInduction

USE CapacityAssumption, CarsAssumption

(***************************************************************************)
(* Linked lists: what IsList says is all there is to a list.               *)
(***************************************************************************)

(* The possible contents of a list are the sequences of cars that are not  *)
(* longer than the schedule.                                               *)
LEMMA LinesAreSeqs ==
  \A s : s \in Lines <=> s \in Seq(Cars) /\ Len(s) <= MaxCars
<1>1. ASSUME NEW s \in Lines PROVE s \in Seq(Cars) /\ Len(s) <= MaxCars
  <2>1. PICK n \in 0..MaxCars : s \in [1..n -> Cars]
    BY DEF Lines
  <2>2. s \in Seq(Cars)
    BY <2>1, SeqDef
  <2>3. Len(s) = n
    BY <2>1, <2>2, LenProperties
  <2> QED
    BY <2>2, <2>3
<1>2. ASSUME NEW s \in Seq(Cars), Len(s) <= MaxCars PROVE s \in Lines
  <2>1. Len(s) \in 0..MaxCars /\ s \in [1..Len(s) -> Cars]
    BY <1>2, LenProperties
  <2> QED
    BY <2>1 DEF Lines
<1> QED
  BY <1>1, <1>2

(* A sequence of cars without repetition fits into a line.                 *)
LEMMA DistinctFits ==
  ASSUME NEW s \in Seq(Cars), Distinct(s)
  PROVE  s \in Lines
<1>1. Len(s) \in Nat /\ s \in [1..Len(s) -> Cars] /\ DOMAIN s = 1..Len(s)
  BY LenProperties
<1>2. s \in Injection(1..Len(s), Cars)
  BY <1>1 DEF Distinct, Injection, IsInjective
<1>3. IsFiniteSet(Cars) /\ Cardinality(Cars) = MaxCars
  <2>1. MaxCars \in Nat /\ IsFiniteSet(1..MaxCars)
    BY FS_Interval
  <2>2. Cardinality(1..MaxCars) = IF 1 > MaxCars THEN 0 ELSE MaxCars - 1 + 1
    BY <2>1, FS_Interval
  <2> QED
    BY <2>1, <2>2 DEF Cars
<1>4. Cardinality(1..Len(s)) = Len(s)
  <2>1. Cardinality(1..Len(s)) = IF 1 > Len(s) THEN 0 ELSE Len(s) - 1 + 1
    BY <1>1, FS_Interval
  <2> QED
    BY <1>1, <2>1
<1>5. Cardinality(1..Len(s)) <= Cardinality(Cars)
  BY <1>2, <1>3, FS_Injection
<1> QED
  BY <1>3, <1>4, <1>5, LinesAreSeqs

(* Natural numbers up to a bound: the first at which something is so.      *)
LEMMA FirstIndex ==
  ASSUME NEW n \in Nat, NEW T \in SUBSET (1..n), T # {}
  PROVE  \E x \in T : \A y \in T : x <= y
<1>1. T \subseteq Nat
  OBVIOUS
<1>2. PICK x \in T : \A y \in T : ~ (<<y, x>> \in OpToRel(<, Nat))
  BY <1>1, NatLessThanWellFounded, WFMin
<1>3. \A y \in T : ~(y < x)
  BY <1>1, <1>2 DEF OpToRel
<1> QED
  BY <1>1, <1>3

(* A list holds one thing only.                                            *)
LEMMA ListUnique ==
  ASSUME NEW nx, NEW h, NEW s \in Lines, NEW t \in Lines,
         IsList(nx, h, s), IsList(nx, h, t)
  PROVE  s = t
<1>1. /\ s \in Seq(Cars) /\ Len(s) \in Nat /\ \A i \in 1..Len(s) : s[i] \in Cars
      /\ t \in Seq(Cars) /\ Len(t) \in Nat /\ \A i \in 1..Len(t) : t[i] \in Cars
  BY LinesAreSeqs, LenProperties, ElementOfSeq
<1>2. NULL \notin Cars
  BY DEF Cars, NULL
<1>3. (s = <<>> <=> Len(s) = 0) /\ (t = <<>> <=> Len(t) = 0)
  BY <1>1, EmptySeq
<1>4. s = <<>> <=> t = <<>>
  BY <1>1, <1>2, <1>3 DEF IsList
<1>5. CASE s = <<>>
  BY <1>4, <1>5
<1>6. CASE s # <<>>
  <2> DEFINE m == IF Len(s) <= Len(t) THEN Len(s) ELSE Len(t)
             T == {i \in 1..m : s[i] # t[i]}
  <2>1. m \in Nat /\ m > 0 /\ m <= Len(s) /\ m <= Len(t)
    BY <1>1, <1>3, <1>4, <1>6
  <2>2. s[1] = t[1]
    BY <1>4, <1>6 DEF IsList
  <2>3. T = {}
    <3>1. SUFFICES ASSUME T # {} PROVE FALSE
      OBVIOUS
    <3>2. PICK i \in T : \A j \in T : i <= j
      <4> HIDE DEF m
      <4> QED
        BY <2>1, <3>1, FirstIndex
    <3>3. i \in 1..m /\ i # 1 /\ i - 1 \in 1..m /\ i - 1 \notin T
      BY <2>1, <2>2, <3>2
    <3>4. s[i - 1] = t[i - 1]
      BY <3>3
    <3>5. nx[s[i - 1]] = s[i]
      <4>1. i - 1 \in 1..(Len(s) - 1) /\ (i - 1) + 1 = i
        BY <1>1, <2>1, <3>3
      <4> QED
        BY <1>6, <4>1 DEF IsList
    <3>6. nx[t[i - 1]] = t[i]
      <4>1. i - 1 \in 1..(Len(t) - 1) /\ (i - 1) + 1 = i
        BY <1>1, <2>1, <3>3
      <4> QED
        BY <1>4, <1>6, <4>1 DEF IsList
    <3> QED
      BY <3>2, <3>4, <3>5, <3>6
  <2>4. \A i \in 1..m : s[i] = t[i]
    BY <2>3
  <2>5. Len(s) = Len(t)
    <3>1. ASSUME Len(s) < Len(t) PROVE FALSE
      <4>1. m = Len(s) /\ Len(s) \in 1..(Len(t) - 1) /\ Len(s) + 1 \in 1..Len(t)
        BY <1>1, <1>3, <1>6, <3>1
      <4>2. nx[s[Len(s)]] = NULL
        BY <1>6 DEF IsList
      <4>3. nx[t[Len(s)]] = t[Len(s) + 1]
        BY <1>4, <1>6, <4>1 DEF IsList
      <4> QED
        BY <1>1, <1>2, <2>1, <2>4, <4>1, <4>2, <4>3
    <3>2. ASSUME Len(t) < Len(s) PROVE FALSE
      <4>1. m = Len(t) /\ Len(t) \in 1..(Len(s) - 1) /\ Len(t) + 1 \in 1..Len(s)
        BY <1>1, <1>3, <1>4, <1>6, <3>2
      <4>2. nx[t[Len(t)]] = NULL
        BY <1>4, <1>6 DEF IsList
      <4>3. nx[s[Len(t)]] = s[Len(t) + 1]
        BY <1>6, <4>1 DEF IsList
      <4> QED
        BY <1>1, <1>2, <2>1, <2>4, <4>1, <4>2, <4>3
    <3> QED
      BY <1>1, <3>1, <3>2
  <2> QED
    BY <1>1, <2>4, <2>5, SeqEqual
<1> QED
  BY <1>5, <1>6

(* So ListOf finds it.                                                     *)
LEMMA ListOfIs ==
  ASSUME NEW nx, NEW h, NEW s \in Lines, IsList(nx, h, s)
  PROVE  ListOf(nx, h) = s
<1>1. ListOf(nx, h) \in Lines /\ IsList(nx, h, ListOf(nx, h))
  BY DEF ListOf
<1> QED
  BY <1>1, ListUnique

(* Putting an element in front of a sequence.                              *)
LEMMA ConsSeq ==
  ASSUME NEW S, NEW s \in Seq(S), NEW c \in S
  PROVE  LET t == <<c>> \o s IN
         /\ t \in Seq(S) /\ t # <<>> /\ Len(t) = Len(s) + 1 /\ DOMAIN t = 1..(Len(s) + 1)
         /\ t[1] = c /\ \A i \in 2..(Len(s) + 1) : t[i] = s[i - 1]
         /\ Head(t) = c /\ Tail(t) = s
<1> DEFINE t == <<c>> \o s
<1>1. <<c>> \in Seq(S) /\ Len(<<c>>) = 1 /\ <<c>>[1] = c
  OBVIOUS
<1>2. Len(s) \in Nat /\ DOMAIN s = 1..Len(s)
  BY LenProperties
<1>3. /\ t \in Seq(S) /\ Len(t) = 1 + Len(s)
      /\ \A i \in 1..(1 + Len(s)) : t[i] = IF i <= 1 THEN <<c>>[i] ELSE s[i - 1]
  BY <1>1, ConcatProperties
<1>4. t[1] = c /\ \A i \in 2..(Len(s) + 1) : t[i] = s[i - 1]
  BY <1>1, <1>2, <1>3
<1>5. t # <<>>
  BY <1>2, <1>3, EmptySeq
<1>6. DOMAIN t = 1..(Len(s) + 1)
  BY <1>2, <1>3, LenProperties
<1>7. Head(t) = c
  BY <1>3, <1>4, <1>5
<1>8. Tail(t) = s
  <2> HIDE DEF t
  <2>1. /\ Tail(t) \in Seq(S) /\ Len(Tail(t)) = Len(t) - 1
        /\ \A i \in 1..Len(Tail(t)) : Tail(t)[i] = t[i + 1]
    BY <1>3, <1>5, HeadTailProperties
  <2>2. Len(Tail(t)) = Len(s) /\ \A i \in 1..Len(s) : Tail(t)[i] = s[i]
    BY <1>2, <1>3, <1>4, <2>1
  <2> QED
    BY <2>1, <2>2, SeqEqual
<1> QED
  BY <1>2, <1>3, <1>4, <1>5, <1>6, <1>7, <1>8

(* A sequence is its head in front of its tail.                            *)
LEMMA HeadAndTail ==
  ASSUME NEW S, NEW s \in Seq(S), s # <<>>
  PROVE  /\ s[1] \in S /\ Tail(s) \in Seq(S) /\ s = <<s[1]>> \o Tail(s)
         /\ Len(s) \in Nat \ {0} /\ Len(Tail(s)) = Len(s) - 1
         /\ \A i \in 1..(Len(s) - 1) : Tail(s)[i] = s[i + 1]
<1>1. Len(s) \in Nat \ {0}
  BY EmptySeq
<1>2. s[1] \in S
  BY <1>1, ElementOfSeq
<1>3. /\ Tail(s) \in Seq(S) /\ Len(Tail(s)) = Len(s) - 1
      /\ \A i \in 1..(Len(s) - 1) : Tail(s)[i] = s[i + 1]
  BY HeadTailProperties
<1> DEFINE t == <<s[1]>> \o Tail(s)
<1>4. /\ t \in Seq(S) /\ Len(t) = Len(s)
      /\ t[1] = s[1] /\ \A i \in 2..Len(s) : t[i] = Tail(s)[i - 1]
  BY <1>1, <1>2, <1>3, ConsSeq
<1>5. \A i \in 1..Len(s) : t[i] = s[i]
  <2> HIDE DEF t
  <2>1. ASSUME NEW i \in 2..Len(s) PROVE t[i] = s[i]
    <3>1. i - 1 \in 1..(Len(s) - 1) /\ (i - 1) + 1 = i
      BY <1>1
    <3> QED
      BY <1>3, <1>4, <3>1
  <2> QED
    BY <1>1, <1>4, <2>1
<1>6. t = s
  <2> HIDE DEF t
  <2> QED
    BY <1>4, <1>5, SeqEqual
<1> QED
  BY <1>1, <1>2, <1>3, <1>6

(* A car that is put in front of a list.                                   *)
LEMMA ListPush ==
  ASSUME NEW nx, NEW h, NEW s \in Lines, IsList(nx, h, s), Distinct(s),
         NEW c \in Cars, \A i \in DOMAIN s : s[i] # c, nx[c] = h
  PROVE  <<c>> \o s \in Lines /\ IsList(nx, c, <<c>> \o s) /\ Distinct(<<c>> \o s)
<1>1. s \in Seq(Cars) /\ Len(s) \in Nat /\ DOMAIN s = 1..Len(s)
  BY LinesAreSeqs, LenProperties
<1> DEFINE t == <<c>> \o s
<1>2. /\ t \in Seq(Cars) /\ t # <<>> /\ Len(t) = Len(s) + 1 /\ DOMAIN t = 1..(Len(s) + 1)
      /\ t[1] = c /\ \A i \in 2..(Len(s) + 1) : t[i] = s[i - 1]
  BY <1>1, ConsSeq
<1> HIDE DEF t
<1>3. \A i \in 2..(Len(s) + 1) : i - 1 \in 1..Len(s)
  BY <1>1
<1>4. Distinct(t)
  <2>1. \A i \in 2..(Len(s) + 1) : t[i] # c
    BY <1>1, <1>2, <1>3
  <2>2. \A i, j \in 2..(Len(s) + 1) : i # j => t[i] # t[j]
    <3> TAKE i, j \in 2..(Len(s) + 1)
    <3>1. i - 1 \in DOMAIN s /\ j - 1 \in DOMAIN s /\ (i # j => i - 1 # j - 1)
      BY <1>1, <1>3
    <3> QED
      BY <1>2, <3>1 DEF Distinct
  <2>3. \A i \in DOMAIN t : i = 1 \/ i \in 2..(Len(s) + 1)
    BY <1>1, <1>2
  <2> QED
    BY <1>2, <2>1, <2>2, <2>3 DEF Distinct
<1>5. t \in Lines
  BY <1>2, <1>4, DistinctFits
<1>6. IsList(nx, c, t)
  <2>1. CASE s = <<>>
    <3>1. Len(s) = 0 /\ h = NULL
      BY <2>1 DEF IsList
    <3> QED
      BY <1>2, <3>1 DEF IsList
  <2>2. CASE s # <<>>
    <3>1. Len(s) > 0 /\ h = s[1] /\ nx[s[Len(s)]] = NULL
      BY <1>1, <2>2, EmptySeq DEF IsList
    <3>2. \A i \in 1..(Len(s) - 1) : nx[s[i]] = s[i + 1]
      BY <2>2 DEF IsList
    <3>3. ASSUME NEW i \in 1..(Len(t) - 1) PROVE nx[t[i]] = t[i + 1]
      <4>1. CASE i = 1
        <5>1. 2 \in 2..(Len(s) + 1) /\ t[2] = s[2 - 1]
          BY <1>1, <1>2, <3>1
        <5> QED
          BY <1>2, <3>1, <4>1, <5>1
      <4>2. CASE i # 1
        <5>1. /\ i \in 2..(Len(s) + 1) /\ i + 1 \in 2..(Len(s) + 1) /\ (i + 1) - 1 = i
              /\ i - 1 \in 1..(Len(s) - 1) /\ (i - 1) + 1 = i
          BY <1>1, <1>2, <4>2
        <5>2. t[i] = s[i - 1] /\ t[i + 1] = s[i]
          BY <1>2, <5>1
        <5> QED
          BY <3>2, <5>1, <5>2
      <4> QED
        BY <4>1, <4>2
    <3>4. t[Len(t)] = s[Len(s)]
      <4>1. Len(t) \in 2..(Len(s) + 1) /\ Len(t) - 1 = Len(s)
        BY <1>1, <1>2, <3>1
      <4> QED
        BY <1>2, <4>1
    <3> QED
      BY <1>2, <3>1, <3>3, <3>4 DEF IsList
  <2> QED
    BY <2>1, <2>2
<1> QED
  BY <1>4, <1>5, <1>6 DEF t

(* The first car of a list that is taken off.                              *)
Rest(nx, c, s, t) ==
  /\ s = <<c>> \o t /\ IsList(nx, nx[c], t) /\ Distinct(t)
  /\ \A i \in DOMAIN t : i + 1 \in DOMAIN s /\ t[i] = s[i + 1]
LEMMA ListPop ==
  ASSUME NEW nx, NEW c, c # NULL, NEW s \in Lines, IsList(nx, c, s), Distinct(s)
  PROVE  /\ s # <<>> /\ s[1] = c /\ c \in Cars
         /\ \E t \in Lines : Rest(nx, c, s, t)
<1>1. s # <<>> /\ s[1] = c
  BY DEF IsList
<1>2. s \in Seq(Cars) /\ DOMAIN s = 1..Len(s)
  BY LinesAreSeqs, LenProperties
<1>3. /\ s[1] \in Cars /\ Tail(s) \in Seq(Cars) /\ s = <<s[1]>> \o Tail(s)
      /\ Len(s) \in Nat \ {0} /\ Len(Tail(s)) = Len(s) - 1
      /\ \A i \in 1..(Len(s) - 1) : Tail(s)[i] = s[i + 1]
  BY <1>1, <1>2, HeadAndTail
<1>4. DOMAIN Tail(s) = 1..(Len(s) - 1)
  BY <1>3, LenProperties
<1> DEFINE t == Tail(s)
<1> HIDE DEF t
<1>5. /\ t \in Seq(Cars) /\ Len(t) = Len(s) - 1 /\ DOMAIN t = 1..(Len(s) - 1)
      /\ \A i \in 1..(Len(s) - 1) : t[i] = s[i + 1]
  BY <1>3, <1>4 DEF t
<1>6. Distinct(t)
  <2>1. ASSUME NEW i \in DOMAIN t, NEW j \in DOMAIN t, i # j PROVE t[i] # t[j]
    <3>1. i + 1 \in DOMAIN s /\ j + 1 \in DOMAIN s /\ i + 1 # j + 1
      BY <1>2, <1>3, <1>5, <2>1
    <3> QED
      BY <1>5, <3>1 DEF Distinct
  <2> QED
    BY <2>1 DEF Distinct
<1>7. IsList(nx, nx[c], t)
  <2>1. CASE Len(s) = 1
    <3>1. t = <<>>
      BY <1>5, <2>1, EmptySeq
    <3>2. nx[c] = NULL
      BY <1>1, <2>1 DEF IsList
    <3> QED
      BY <3>1, <3>2 DEF IsList
  <2>2. CASE Len(s) # 1
    <3>1. Len(s) >= 2 /\ 1 \in 1..(Len(s) - 1) /\ Len(t) \in 1..(Len(s) - 1) /\ Len(t) + 1 = Len(s)
      BY <1>3, <1>5, <2>2
    <3>2. nx[c] = s[2] /\ t[1] = s[2]
      BY <1>1, <1>5, <3>1 DEF IsList
    <3>3. nx[t[Len(t)]] = NULL
      BY <1>1, <1>5, <3>1 DEF IsList
    <3>4. ASSUME NEW i \in 1..(Len(t) - 1) PROVE nx[t[i]] = t[i + 1]
      <4>1. i \in 1..(Len(s) - 1) /\ i + 1 \in 1..(Len(s) - 1)
        BY <1>3, <1>5
      <4>2. t[i] = s[i + 1] /\ t[i + 1] = s[(i + 1) + 1]
        BY <1>5, <4>1
      <4> QED
        BY <1>1, <4>1, <4>2 DEF IsList
    <3>5. t # <<>>
      BY <1>5, <3>1, EmptySeq
    <3> QED
      BY <3>2, <3>3, <3>4, <3>5 DEF IsList
  <2> QED
    BY <2>1, <2>2
<1>8. t \in Lines
  BY <1>5, <1>6, DistinctFits
<1>9. \A i \in DOMAIN t : i + 1 \in DOMAIN s /\ t[i] = s[i + 1]
  BY <1>2, <1>3, <1>5
<1> QED
  BY <1>1, <1>3, <1>6, <1>7, <1>8, <1>9 DEF t, Rest

(* A list depends on the next of its own cars only.                        *)
LEMMA ListFrame ==
  ASSUME NEW nx, NEW ny, NEW h, NEW s \in Lines, IsList(nx, h, s),
         \A i \in DOMAIN s : ny[s[i]] = nx[s[i]]
  PROVE  IsList(ny, h, s)
<1>1. s \in Seq(Cars) /\ DOMAIN s = 1..Len(s) /\ Len(s) \in Nat
  BY LinesAreSeqs, LenProperties
<1>2. CASE s = <<>>
  BY <1>2 DEF IsList
<1>3. CASE s # <<>>
  <2>1. Len(s) \in DOMAIN s /\ \A i \in 1..(Len(s) - 1) : i \in DOMAIN s
    BY <1>1, <1>3, EmptySeq
  <2> QED
    BY <1>3, <2>1 DEF IsList
<1> QED
  BY <1>2, <1>3

(***************************************************************************)
(* The ring, read from its head.                                           *)
(***************************************************************************)

(* What is in the ring has left the list of its lane.                      *)
LEMMA SlotLeft ==
  ASSUME IInv, NEW d \in Dir, NEW j \in 1..inBuf[d]
  PROVE  Left(d, Slot(d, j))
<1>1. head[d] \in 0..(Capacity - 1) /\ inBuf[d] \in 0..Capacity
  BY DEF IInv, TypeOK, RingType
<1>2. End(head[d], j - 1) \in Slots(head[d], inBuf[d])
  BY <1>1 DEF End, Slots
<1> QED
  BY <1>2 DEF IInv, RingInv, RingOK, Slot

(* write_to_buf puts the first car of the list behind the others.          *)
LEMMA WriteSlots ==
  ASSUME IInv, NEW d \in Dir, WriteToBuf(d)
  PROVE  /\ inBuf'[d] = inBuf[d] + 1 /\ inBuf[d] \in 0..(Capacity - 1)
         /\ \A j \in 1..inBuf[d] : Slot(d, j)' = Slot(d, j)
         /\ Slot(d, inBuf[d])' = inCars[d]
         /\ \A e \in Dir \ {d} : inBuf'[e] = inBuf[e] /\ \A j : Slot(e, j)' = Slot(e, j)
<1> DEFINE h == head[d]  n == inBuf[d]
<1>1. /\ h \in 0..(Capacity - 1) /\ n \in 0..Capacity /\ inBuf \in [Dir -> 0..Capacity]
      /\ buffer \in [Dir -> [0..(Capacity - 1) -> Cars \cup {NULL}]]
  BY DEF IInv, TypeOK, RingType
<1>2. /\ n # Capacity /\ inBuf' = [inBuf EXCEPT ![d] = @ + 1] /\ head' = head
      /\ buffer' = [buffer EXCEPT ![d][tail[d]] = inCars[d]]
  BY DEF WriteToBuf
<1>3. tail[d] = End(h, n)
  BY DEF IInv, RingInv, RingOK
<1>4. n \in 0..(Capacity - 1) /\ inBuf'[d] = n + 1
  BY <1>1, <1>2
<1>5. End(h, n) \in 0..(Capacity - 1)
  BY <1>1, <1>4, RingWrite
<1>6. \A i \in 0..(n - 1) : End(h, i) # End(h, n) /\ End(h, i) \in 0..(Capacity - 1)
  BY <1>1, <1>4 DEF End
<1>7. /\ buffer'[d][End(h, n)] = inCars[d]
      /\ \A i \in 0..(Capacity - 1) : i # End(h, n) => buffer'[d][i] = buffer[d][i]
  BY <1>1, <1>2, <1>3, <1>5
<1>8. \A j \in 1..n : Slot(d, j)' = Slot(d, j)
  <2>1. ASSUME NEW j \in 1..n PROVE buffer'[d][End(h, j - 1)] = buffer[d][End(h, j - 1)]
    <3>1. j - 1 \in 0..(n - 1)
      BY <1>4
    <3> QED
      BY <1>6, <1>7, <3>1
  <2> QED
    BY <1>2, <2>1 DEF Slot, End
<1>9. Slot(d, inBuf[d])' = inCars[d]
  <2>1. Slot(d, inBuf[d])' = buffer'[d][End(h, inBuf'[d] - 1)]
    BY <1>2 DEF Slot, End
  <2>2. inBuf'[d] - 1 = n
    BY <1>4
  <2> QED
    BY <1>7, <2>1, <2>2
<1>10. \A e \in Dir \ {d} : inBuf'[e] = inBuf[e] /\ buffer'[e] = buffer[e]
  BY <1>1, <1>2
<1>11. \A e \in Dir \ {d} : \A j : Slot(e, j)' = Slot(e, j)
  BY <1>2, <1>10 DEF Slot, End
<1> QED
  BY <1>4, <1>8, <1>9, <1>10, <1>11

(* read_from_buf takes the first car out and moves the others up.          *)
LEMMA ReadSlots ==
  ASSUME IInv, NEW d \in Dir, ReadFromBuf(d)
  PROVE  /\ inBuf[d] \in 1..Capacity /\ inBuf'[d] = inBuf[d] - 1
         /\ cur'[d] = Slot(d, 1)
         /\ \A j \in 1..(inBuf[d] - 1) : Slot(d, j)' = Slot(d, j + 1)
         /\ \A e \in Dir \ {d} : /\ inBuf'[e] = inBuf[e] /\ cur'[e] = cur[e]
                                 /\ \A j : Slot(e, j)' = Slot(e, j)
<1> DEFINE h == head[d]  n == inBuf[d]
<1>1. /\ h \in 0..(Capacity - 1) /\ n \in 0..Capacity /\ inBuf \in [Dir -> 0..Capacity]
      /\ head \in [Dir -> 0..(Capacity - 1)] /\ cur \in [Dir -> Cars \cup {NULL}]
  BY DEF IInv, TypeOK, RingType, CounterType
<1>2. /\ n # 0 /\ inBuf' = [inBuf EXCEPT ![d] = @ - 1] /\ buffer' = buffer
      /\ cur' = [cur EXCEPT ![d] = buffer[d][head[d]]]
      /\ head' = [head EXCEPT ![d] = (@ + 1) % Capacity]
  BY DEF ReadFromBuf, crossRest
<1>3. n \in 1..Capacity /\ inBuf'[d] = n - 1
  BY <1>1, <1>2
<1>4. End(h, 0) = h
  BY <1>1 DEF End
<1>5. cur'[d] = Slot(d, 1)
  BY <1>1, <1>2, <1>4 DEF Slot
<1>6. head'[d] = (h + 1) % Capacity
  BY <1>1, <1>2
<1>7. \A j \in 1..(n - 1) : Slot(d, j)' = Slot(d, j + 1)
  <2>1. ASSUME NEW j \in 1..(n - 1) PROVE Slot(d, j)' = Slot(d, j + 1)
    <3>1. j \in 1..Capacity /\ (j + 1) - 1 = j
      BY <1>3
    <3>2. End((h + 1) % Capacity, j - 1) = End(h, j)
      BY <1>1, <3>1, RingRead
    <3>3. Slot(d, j)' = buffer[d][End(head'[d], j - 1)]
      BY <1>2 DEF Slot, End
    <3>4. Slot(d, j + 1) = buffer[d][End(h, j)]
      BY <3>1 DEF Slot
    <3> QED
      BY <1>6, <3>2, <3>3, <3>4
  <2> QED
    BY <2>1
<1>8. \A e \in Dir \ {d} : inBuf'[e] = inBuf[e] /\ cur'[e] = cur[e] /\ head'[e] = head[e]
  BY <1>1, <1>2
<1>9. \A e \in Dir \ {d} : \A j : Slot(e, j)' = Slot(e, j)
  BY <1>2, <1>8 DEF Slot, End
<1> QED
  BY <1>3, <1>5, <1>7, <1>8, <1>9

(***************************************************************************)
(* The steps that the lists, the rings and the cars in hand notice.        *)
(***************************************************************************)
Quiet ==
  /\ UNCHANGED <<carVars, next, inCars, outCars, buffer, head, inBuf, cur>>
  /\ \A d \in Dir : (Held(d)' <=> Held(d)) /\ (cpc'[d] = "publish" => cpc[d] = "publish")
  /\ main' = "parse" => main = "parse"

LEMMA QuietSteps ==
  ASSUME IInv, [Next]_vars
  PROVE  \/ \E t \in Turns : ParseLine(t[1], t[2])
         \/ \E d \in Dir : WriteToBuf(d) \/ ReadFromBuf(d) \/ LinkCar(d) \/ PublishCar(d)
         \/ Quiet
<1> USE DEF Quiet, Held, vars, setupVars, carVars, bufVars, arriveRest, crossRest
<1>0. cpc \in [Dir -> crossPlaces]
  BY DEF IInv, TypeOK, PlaceType
<1>1. CASE StartThreads
  <2>1. \A d \in Dir : ~Held(d)
    BY <1>1 DEF StartThreads, IInv, PhaseInv
  <2>2. \A d \in Dir : cpc'[d] \in {"free", "lock"}
    BY <1>1 DEF StartThreads
  <2> QED
    BY <1>1, <2>1, <2>2 DEF StartThreads
<1>2. CASE JoinAndVerify \/ Terminated \/ UNCHANGED vars
  BY <1>2 DEF JoinAndVerify, Terminated
<1>3. ASSUME NEW d \in Dir, ArriveLock(d) \/ ArriveWait(d) \/ ArriveSpurious(d) PROVE Quiet
  BY <1>3 DEF ArriveLock, ArriveWait, ArriveSpurious
<1>4. ASSUME NEW d \in Dir, ArriveSignalUnlock(d) PROVE Quiet
  BY <1>0, <1>4 DEF ArriveSignalUnlock, Woken
<1>5. ASSUME NEW d \in Dir, CrossLock(d) \/ CrossWait(d) \/ CrossSpurious(d) \/ FreeBuffer(d)
      PROVE Quiet
  BY <1>0, <1>5 DEF CrossLock, CrossWait, CrossSpurious, FreeBuffer, Woken
<1>6. ASSUME NEW d \in Dir, CrossSignalUnlock(d) \/ AcquireQuad(d) \/ ReleaseQuad(d)
      PROVE Quiet
  BY <1>0, <1>6 DEF CrossSignalUnlock, AcquireQuad, ReleaseQuad
<1> QED
  BY <1>1, <1>2, <1>3, <1>4, <1>5, <1>6 DEF Next, Arrive, Cross

(* Nothing is in the lists of the lanes but cars.                          *)
LEMMA LineOfCars ==
  ASSUME IInv, NEW s \in Lines
  PROVE  /\ s \in Seq(Cars) /\ Len(s) \in Nat /\ DOMAIN s = 1..Len(s)
         /\ \A i \in DOMAIN s : s[i] \in Cars /\ inDir[s[i]] \in Dir
<1>1. s \in Seq(Cars) /\ Len(s) \in Nat /\ DOMAIN s = 1..Len(s)
  BY LinesAreSeqs, LenProperties
<1>2. \A i \in DOMAIN s : s[i] \in Cars
  BY <1>1, ElementOfSeq
<1> QED
  BY <1>1, <1>2 DEF IInv, TypeOK, SetupType

LEMMA EmptyLine == <<>> \in Lines /\ Distinct(<<>>) /\ \A nx : IsList(nx, NULL, <<>>)
<1>1. <<>> \in Seq(Cars) /\ DOMAIN <<>> = {}
  OBVIOUS
<1>2. Distinct(<<>>)
  BY <1>1 DEF Distinct
<1> QED
  BY <1>1, <1>2, DistinctFits DEF IsList

(***************************************************************************)
(* FlowInv is kept, action by action.                                      *)
(***************************************************************************)
LEMMA QuietFlow ==
  ASSUME IInv, FlowInv, Quiet
  PROVE  FlowInv'
<1> USE DEF Quiet, carVars
<1>1. \A d \in Dir : \A j : Slot(d, j)' = Slot(d, j)
  BY DEF Slot, End
<1>2. \A d \in Dir : InListOK(d) => InListOK(d)'
  BY DEF InListOK
<1>3. \A d \in Dir : RingOrder(d) => RingOrder(d)'
  BY <1>1 DEF RingOrder
<1>4. ASSUME NEW d \in Dir, OutListOK(d) PROVE OutListOK(d)'
  <2>1. PICK s \in Lines : /\ IsList(next, outCars[d], s) /\ Distinct(s)
                           /\ \A i \in DOMAIN s : Past(inDir[s[i]], s[i])
    BY <1>4 DEF OutListOK
  <2>2. \A e \in Dir : \A c : Past(e, c) => Past(e, c)'
    BY <1>1 DEF Past
  <2>3. \A i \in DOMAIN s : Past(inDir[s[i]], s[i])'
    <3> TAKE i \in DOMAIN s
    <3>1. PICK f \in Dir : f = inDir[s[i]]
      BY LineOfCars
    <3>2. Past(f, s[i])'
      BY <2>1, <2>2, <3>1
    <3> QED
      BY <3>1, <3>2
  <2>4. (cpc[d] = "publish" => next[cur[d]] = outCars[OutLane(d)])'
    BY <1>4 DEF OutListOK, OutLane
  <2>5. (main = "parse" => outCars[d] = NULL)'
    BY <1>4 DEF OutListOK
  <2>6. IsList(next, outCars[d], s)'
    BY <2>1
  <2> QED
    BY <2>1, <2>3, <2>4, <2>5, <2>6 DEF OutListOK
<1> QED
  BY <1>2, <1>3, <1>4 DEF FlowInv

LEMMA ParseFlow ==
  ASSUME IInv, FlowInv, NEW in \in Dir, NEW to \in Dir, ParseLine(in, to)
  PROVE  FlowInv'
<1> DEFINE car == parsed + 1
<1>1. /\ car \in Cars /\ inDir \in [Cars -> Dir] /\ next \in [Cars -> Cars \cup {NULL}]
      /\ inCars \in [Dir -> Cars \cup {NULL}] /\ parsed \in Nat
  <2>1. /\ inDir \in [Cars -> Dir] /\ next \in [Cars -> Cars \cup {NULL}]
        /\ inCars \in [Dir -> Cars \cup {NULL}] /\ parsed \in 0..MaxCars
    BY DEF IInv, TypeOK, SetupType, ListType
  <2>2. parsed < MaxCars
    BY DEF ParseLine
  <2>3. car \in Cars /\ parsed \in Nat
    BY <2>1, <2>2 DEF Cars
  <2> QED
    BY <2>1, <2>3
<1>2. /\ next' = [next EXCEPT ![car] = inCars[in]] /\ inCars' = [inCars EXCEPT ![in] = car]
      /\ inDir' = [inDir EXCEPT ![car] = in] /\ main = "parse"
      /\ UNCHANGED <<main, buffer, head, inBuf, outCars, cur, cpc>>
  BY DEF ParseLine
<1>3. \A e \in Dir : inBuf[e] = 0 /\ ~Held(e) /\ cpc[e] = "created"
  BY <1>2, EmptyAtStart DEF Held, IInv, PhaseInv
<1>4. \A e \in Dir : inCars[e] < car
  <2>1. \A e \in Dir : inCars[e] <= parsed /\ (inCars[e] \in Cars \/ inCars[e] = NULL)
    BY <1>1 DEF IInv, ListInv, ListOK
  <2> QED
    BY <1>1, <2>1 DEF Cars, NULL
<1> HIDE DEF car
<1>5. ASSUME NEW e \in Dir PROVE InListOK(e)'
  <2>1. PICK s \in Lines :
          /\ IsList(next, inCars[e], s) /\ Distinct(s)
          /\ \A i \in DOMAIN s : inDir[s[i]] = e /\ s[i] <= inCars[e]
    BY DEF FlowInv, InListOK
  <2>2. \A i \in DOMAIN s : s[i] \in Cars
    BY LineOfCars
  <2>3. \A i \in DOMAIN s : s[i] # car /\ s[i] <= car
    <3>1. \A i \in DOMAIN s : s[i] <= inCars[e] /\ s[i] \in Nat /\ inCars[e] \in Nat /\ car \in Nat
      BY <1>1, <2>1, <2>2 DEF Cars, NULL
    <3> QED
      BY <1>4, <3>1
  <2>4. \A i \in DOMAIN s : next'[s[i]] = next[s[i]] /\ inDir'[s[i]] = inDir[s[i]]
    BY <1>1, <1>2, <2>2, <2>3
  <2>5. IsList(next', inCars[e], s)
    BY <2>1, <2>4, ListFrame
  <2>6. CASE e # in
    <3>1. inCars'[e] = inCars[e]
      BY <1>1, <1>2, <2>6
    <3> QED
      BY <2>1, <2>4, <2>5, <3>1 DEF InListOK
  <2>7. CASE e = in
    <3>1. next'[car] = inCars[e] /\ inCars'[e] = car /\ inDir'[car] = e
      BY <1>1, <1>2, <2>7
    <3> DEFINE t == <<car>> \o s
    <3>2. t \in Lines /\ IsList(next', car, t) /\ Distinct(t)
      BY <1>1, <2>1, <2>3, <2>5, <3>1, ListPush
    <3>3. DOMAIN t = 1..(Len(s) + 1) /\ t[1] = car /\ \A i \in 2..(Len(s) + 1) : t[i] = s[i - 1]
      BY <1>1, LineOfCars, ConsSeq
    <3> HIDE DEF t
    <3>4. ASSUME NEW i \in DOMAIN t PROVE inDir'[t[i]] = e /\ t[i] <= car
      <4>1. CASE i = 1
        BY <1>1, <3>1, <3>3, <4>1 DEF Cars
      <4>2. CASE i # 1
        <5>1. i \in 2..(Len(s) + 1) /\ i - 1 \in DOMAIN s
          BY <3>3, <4>2, LineOfCars
        <5> QED
          BY <2>1, <2>3, <2>4, <3>3, <5>1
      <4> QED
        BY <4>1, <4>2
    <3> QED
      BY <3>1, <3>2, <3>4 DEF InListOK
  <2> QED
    BY <2>6, <2>7
<1>6. ASSUME NEW e \in Dir PROVE RingOrder(e)'
  BY <1>2, <1>3 DEF RingOrder, Held
<1>7. ASSUME NEW e \in Dir PROVE OutListOK(e)'
  <2>1. outCars[e] = NULL
    BY <1>2 DEF FlowInv, OutListOK
  <2>2. IsList(next', outCars'[e], <<>>)
    BY <1>2, <2>1, EmptyLine
  <2>3. DOMAIN <<>> = {}
    OBVIOUS
  <2>4. cpc'[e] # "publish" /\ outCars'[e] = NULL
    BY <1>2, <1>3, <2>1
  <2> QED
    BY <2>2, <2>3, <2>4, EmptyLine DEF OutListOK
<1> QED
  BY <1>5, <1>6, <1>7 DEF FlowInv

LEMMA WriteFlow ==
  ASSUME IInv, FlowInv, NEW d \in Dir, WriteToBuf(d)
  PROVE  FlowInv'
<1> DEFINE c == inCars[d]
<1>1. /\ inDir \in [Cars -> Dir] /\ inCars \in [Dir -> Cars \cup {NULL}] /\ inBuf[d] \in Nat
      /\ next \in [Cars -> Cars \cup {NULL}] /\ inBuf \in [Dir -> 0..Capacity]
  BY DEF IInv, TypeOK, SetupType, ListType, RingType
<1>2. /\ inCars' = [inCars EXCEPT ![d] = next[@]]
      /\ UNCHANGED <<next, inDir, outDir, outCars, main, cur, cpc>>
  BY DEF WriteToBuf, arriveRest, setupVars, carVars
<1>3. c \in Cars /\ c \in Pending(d)
  BY ListNotEmpty DEF WriteToBuf, IInv, LoopInv, LoopOK
<1>4. next[c] < c /\ inCars'[d] = next[c] /\ \A e \in Pending(d) : e < c => e <= next[c]
  BY <1>1, <1>2, <1>3 DEF IInv, ListInv, ListOK
<1>5. \A e \in Dir \ {d} : inCars'[e] = inCars[e]
  BY <1>1, <1>2
<1>6. \A e \in Dir : Held(e)' <=> Held(e)
  BY <1>2 DEF Held
<1>7. \A j \in 1..inBuf[d] : c < Slot(d, j) /\ Slot(d, j) \in Cars
  BY SlotLeft DEF Left
<1>8. Held(d) => c < cur[d] /\ cur[d] \in Cars
  BY DEF Held, HasCar, IInv, HandInv, HandOK, Left
<1>9. ASSUME NEW e \in Dir PROVE InListOK(e)'
  <2>1. PICK s \in Lines :
          /\ IsList(next, inCars[e], s) /\ Distinct(s)
          /\ \A i \in DOMAIN s : inDir[s[i]] = e /\ s[i] <= inCars[e]
    BY DEF FlowInv, InListOK
  <2>2. CASE e # d
    BY <1>2, <1>5, <2>1, <2>2 DEF InListOK
  <2>3. CASE e = d
    <3>1. c # NULL
      BY <1>3 DEF Cars, NULL
    <3>2. s # <<>> /\ s[1] = c /\ \E t \in Lines : Rest(next, c, s, t)
      BY <2>1, <2>3, <3>1, ListPop
    <3>4. PICK t \in Lines :
            /\ IsList(next, next[c], t) /\ Distinct(t)
            /\ \A i \in DOMAIN t : i + 1 \in DOMAIN s /\ t[i] = s[i + 1]
      BY <3>2 DEF Rest
    <3>3. ASSUME NEW i \in DOMAIN t
          PROVE  inDir[t[i]] = d /\ t[i] <= next[c]
      <4>1. i + 1 \in DOMAIN s /\ t[i] = s[i + 1] /\ i \in 1..Len(t)
        BY <3>4, LineOfCars
      <4>2. s[i + 1] \in Cars /\ inDir[s[i + 1]] = d /\ s[i + 1] <= c
        BY <2>1, <2>3, <4>1, LineOfCars
      <4>3. s[i + 1] # c
        <5>1. 1 \in DOMAIN s /\ i + 1 # 1
          BY <3>2, <4>1, LineOfCars, EmptySeq
        <5> QED
          BY <2>1, <3>2, <4>1, <5>1 DEF Distinct
      <4>4. s[i + 1] \in Pending(d) /\ s[i + 1] < c
        BY <1>3, <4>2, <4>3 DEF Pending, Cars
      <4> QED
        BY <1>4, <4>1, <4>2, <4>4
    <3> QED
      BY <1>2, <1>4, <2>3, <3>3, <3>4 DEF InListOK
  <2> QED
    BY <2>2, <2>3
<1>10. ASSUME NEW e \in Dir PROVE RingOrder(e)'
  <2>1. CASE e # d
    <3>1. inBuf'[e] = inBuf[e] /\ \A j : Slot(e, j)' = Slot(e, j)
      BY <2>1, WriteSlots
    <3> QED
      BY <1>2, <1>6, <3>1 DEF RingOrder, FlowInv
  <2>2. CASE e = d
    <3>1. /\ inBuf'[d] = inBuf[d] + 1 /\ \A j \in 1..inBuf[d] : Slot(d, j)' = Slot(d, j)
          /\ \A j \in 1..inBuf'[d] : j \in 1..inBuf[d] \/ (j = inBuf[d] + 1 /\ Slot(d, j)' = c)
      <4>1. Slot(d, inBuf[d])' = c /\ inBuf'[d] = inBuf[d] + 1
        BY WriteSlots
      <4>2. ASSUME NEW j, j = inBuf'[d] PROVE Slot(d, j)' = c
        BY <4>1, <4>2 DEF Slot
      <4> QED
        BY <1>1, <4>1, <4>2, WriteSlots
    <3>2. \A i, j \in 1..inBuf'[d] : i < j => Slot(d, j)' < Slot(d, i)'
      <4> TAKE i, j \in 1..inBuf'[d]
      <4> HAVE i < j
      <4>1. i \in 1..inBuf[d]
        BY <1>1, <3>1
      <4>2. CASE j \in 1..inBuf[d]
        BY <3>1, <4>1, <4>2 DEF FlowInv, RingOrder
      <4>3. CASE j = inBuf[d] + 1
        BY <1>1, <1>7, <3>1, <4>1, <4>3
      <4> QED
        BY <3>1, <4>2, <4>3
    <3>3. ASSUME Held(d) PROVE \A i \in 1..inBuf'[d] : Slot(d, i)' < cur'[d]
      BY <1>2, <1>8, <3>1, <3>3 DEF FlowInv, RingOrder
    <3> QED
      BY <1>6, <2>2, <3>2, <3>3 DEF RingOrder
  <2> QED
    BY <2>1, <2>2
<1>11. ASSUME NEW e \in Dir, NEW x \in Cars, Past(e, x) PROVE Past(e, x)'
  <2>1. CASE e # d
    <3>1. inBuf'[e] = inBuf[e] /\ \A j : Slot(e, j)' = Slot(e, j)
      BY <2>1, WriteSlots
    <3> QED
      BY <1>2, <1>5, <1>6, <1>11, <2>1, <3>1 DEF Past
  <2>2. CASE e = d
    <3>1. c < x /\ inCars'[d] < x
      BY <1>1, <1>3, <1>4, <1>11, <2>2 DEF Past, Cars, NULL
    <3>2. \A j \in 1..inBuf'[d] : Slot(d, j)' < x
      <4> TAKE j \in 1..inBuf'[d]
      <4>1. CASE j \in 1..inBuf[d]
        BY <1>11, <2>2, <4>1, WriteSlots DEF Past
      <4>2. CASE j = inBuf[d] + 1
        <5>1. Slot(d, inBuf[d])' = c /\ j = inBuf'[d]
          BY <4>2, WriteSlots
        <5>2. Slot(d, j)' = c
          BY <5>1 DEF Slot
        <5> QED
          BY <3>1, <5>2
      <4> QED
        BY <1>1, <4>1, <4>2, WriteSlots
    <3>3. Held(d)' => cur'[d] < x
      BY <1>2, <1>6, <1>11, <2>2 DEF Past
    <3> QED
      BY <2>2, <3>1, <3>2, <3>3 DEF Past
  <2> QED
    BY <2>1, <2>2
<1>12. ASSUME NEW e \in Dir PROVE OutListOK(e)'
  <2>1. PICK s \in Lines : /\ IsList(next, outCars[e], s) /\ Distinct(s)
                           /\ \A i \in DOMAIN s : Past(inDir[s[i]], s[i])
    BY DEF FlowInv, OutListOK
  <2>2. ASSUME NEW i \in DOMAIN s PROVE Past(inDir[s[i]], s[i])'
    <3>1. PICK f \in Dir : f = inDir[s[i]]
      BY LineOfCars
    <3>2. Past(f, s[i])'
      BY <1>11, <2>1, <3>1, LineOfCars
    <3> QED
      BY <1>2, <3>1, <3>2
  <2>3. (cpc[e] = "publish" => next[cur[e]] = outCars[OutLane(e)])'
    BY <1>2 DEF FlowInv, OutListOK, OutLane
  <2>4. (main = "parse" => outCars[e] = NULL)'
    BY <1>2 DEF FlowInv, OutListOK
  <2>5. IsList(next, outCars[e], s)'
    BY <1>2, <2>1
  <2> QED
    BY <2>1, <2>2, <2>3, <2>4, <2>5 DEF OutListOK
<1> QED
  BY <1>9, <1>10, <1>12 DEF FlowInv

LEMMA ReadFlow ==
  ASSUME IInv, FlowInv, NEW d \in Dir, ReadFromBuf(d)
  PROVE  FlowInv'
<1>1. /\ inBuf[d] \in Nat /\ cpc \in [Dir -> crossPlaces]
      /\ \A e \in Dir : inBuf[e] \in Nat
  BY DEF IInv, TypeOK, RingType, PlaceType
<1>2. /\ UNCHANGED <<next, inDir, outDir, inCars, outCars, main>>
      /\ cpc[d] = "locked" /\ cpc' = [cpc EXCEPT ![d] = "read"]
  BY DEF ReadFromBuf, crossRest, setupVars, carVars
<1>3. \A e \in Dir : e # d => (Held(e)' <=> Held(e)) /\ (cpc'[e] = cpc[e])
  BY <1>1, <1>2 DEF Held
<1>4. ~Held(d) /\ Held(d)' /\ cpc'[d] # "publish"
  BY <1>1, <1>2 DEF Held
<1>5. /\ inBuf[d] >= 1 /\ inBuf'[d] = inBuf[d] - 1 /\ cur'[d] = Slot(d, 1)
      /\ \A j \in 1..inBuf'[d] : Slot(d, j)' = Slot(d, j + 1) /\ j + 1 \in 1..inBuf[d]
      /\ 1 \in 1..inBuf[d]
  BY <1>1, ReadSlots
<1>6. \A e \in Dir : e # d => /\ inBuf'[e] = inBuf[e] /\ cur'[e] = cur[e]
                              /\ \A j : Slot(e, j)' = Slot(e, j)
  BY ReadSlots
<1>7. ASSUME NEW e \in Dir PROVE InListOK(e)'
  BY <1>2 DEF InListOK, FlowInv
<1>8. ASSUME NEW e \in Dir PROVE RingOrder(e)'
  <2>1. CASE e # d
    BY <1>3, <1>6, <2>1 DEF RingOrder, FlowInv
  <2>2. CASE e = d
    <3>1. \A i, j \in 1..inBuf'[d] : i < j => Slot(d, j)' < Slot(d, i)'
      <4> TAKE i, j \in 1..inBuf'[d]
      <4> HAVE i < j
      <4>1. i + 1 < j + 1 /\ i + 1 \in 1..inBuf[d] /\ j + 1 \in 1..inBuf[d]
        BY <1>1, <1>5
      <4> QED
        BY <1>5, <4>1 DEF FlowInv, RingOrder
    <3>2. \A i \in 1..inBuf'[d] : Slot(d, i)' < cur'[d]
      <4> TAKE i \in 1..inBuf'[d]
      <4>1. 1 < i + 1 /\ i + 1 \in 1..inBuf[d]
        BY <1>1, <1>5
      <4> QED
        BY <1>5, <4>1 DEF FlowInv, RingOrder
    <3> QED
      BY <2>2, <3>1, <3>2 DEF RingOrder
  <2> QED
    BY <2>1, <2>2
<1>9. ASSUME NEW e \in Dir, NEW x \in Cars, Past(e, x) PROVE Past(e, x)'
  <2>1. CASE e # d
    BY <1>2, <1>3, <1>6, <1>9, <2>1 DEF Past
  <2>2. CASE e = d
    BY <1>2, <1>4, <1>5, <1>9, <2>2 DEF Past
  <2> QED
    BY <2>1, <2>2
<1>10. ASSUME NEW e \in Dir PROVE OutListOK(e)'
  <2>1. PICK s \in Lines : /\ IsList(next, outCars[e], s) /\ Distinct(s)
                           /\ \A i \in DOMAIN s : Past(inDir[s[i]], s[i])
    BY DEF FlowInv, OutListOK
  <2>2. ASSUME NEW i \in DOMAIN s PROVE Past(inDir[s[i]], s[i])'
    <3>1. PICK f \in Dir : f = inDir[s[i]]
      BY LineOfCars
    <3>2. Past(f, s[i])'
      BY <1>9, <2>1, <3>1, LineOfCars
    <3> QED
      BY <1>2, <3>1, <3>2
  <2>3. (cpc[e] = "publish" => next[cur[e]] = outCars[OutLane(e)])'
    <3>1. CASE e = d
      BY <1>4, <3>1
    <3>2. CASE e # d
      BY <1>2, <1>3, <1>6, <3>2 DEF FlowInv, OutListOK, OutLane
    <3> QED
      BY <3>1, <3>2
  <2>4. (main = "parse" => outCars[e] = NULL)'
    BY <1>2 DEF FlowInv, OutListOK
  <2>5. IsList(next, outCars[e], s)'
    BY <1>2, <2>1
  <2> QED
    BY <2>1, <2>2, <2>3, <2>4, <2>5 DEF OutListOK
<1> QED
  BY <1>7, <1>8, <1>10 DEF FlowInv

(* complete_cross stores into the next of a car that is in no list.        *)
LEMMA HeldCar ==
  ASSUME IInv, FlowInv, NEW d \in Dir, Held(d)
  PROVE  /\ cur[d] \in Cars /\ inDir[cur[d]] = d /\ OutLane(d) \in Dir
         /\ \A e \in Dir : \A s \in Lines :
              (\A i \in DOMAIN s : inDir[s[i]] = e /\ s[i] <= inCars[e])
                => \A i \in DOMAIN s : s[i] # cur[d]
         /\ \A s \in Lines :
              (\A i \in DOMAIN s : Past(inDir[s[i]], s[i])) => \A i \in DOMAIN s : s[i] # cur[d]
         /\ Past(d, cur[d]) <=> FALSE
<1>1. Left(d, cur[d])
  BY DEF Held, HasCar, IInv, HandInv, HandOK
<1>2. cur[d] \in Cars /\ inDir[cur[d]] = d /\ inCars[d] < cur[d]
  BY <1>1 DEF Left
<1>3. OutLane(d) \in Dir
  BY <1>2 DEF OutLane, IInv, TypeOK, SetupType
<1>4. inCars[d] \in Nat /\ cur[d] \in Nat
  BY <1>2 DEF IInv, TypeOK, ListType, Cars, NULL
<1>5. ~Past(d, cur[d])
  BY <1>4 DEF Past
<1>6. \A e \in Dir : \A s \in Lines :
        (\A i \in DOMAIN s : inDir[s[i]] = e /\ s[i] <= inCars[e])
          => \A i \in DOMAIN s : s[i] # cur[d]
  BY <1>2, <1>4
<1>7. \A s \in Lines :
        (\A i \in DOMAIN s : Past(inDir[s[i]], s[i])) => \A i \in DOMAIN s : s[i] # cur[d]
  <2> TAKE s \in Lines
  <2> HAVE \A i \in DOMAIN s : Past(inDir[s[i]], s[i])
  <2> TAKE i \in DOMAIN s
  <2>1. SUFFICES ASSUME s[i] = cur[d] PROVE FALSE
    OBVIOUS
  <2>2. Past(inDir[s[i]], s[i])
    OBVIOUS
  <2>3. Past(d, cur[d])
    BY <1>2, <2>1, <2>2
  <2> QED
    BY <1>5, <2>3
<1> QED
  BY <1>2, <1>3, <1>5, <1>6, <1>7

LEMMA LinkFlow ==
  ASSUME IInv, FlowInv, NEW d \in Dir, LinkCar(d)
  PROVE  FlowInv'
<1>1. /\ next \in [Cars -> Cars \cup {NULL}] /\ cpc \in [Dir -> crossPlaces]
      /\ inDir \in [Cars -> Dir]
  BY DEF IInv, TypeOK, ListType, PlaceType, SetupType
<1>2. /\ UNCHANGED <<inDir, outDir, inCars, outCars, main, cur, inBuf, head, buffer>>
      /\ cpc[d] = "link" /\ cpc' = [cpc EXCEPT ![d] = "publish"]
      /\ next' = [next EXCEPT ![cur[d]] = outCars[OutLane(d)]]
  BY DEF LinkCar, crossRest, setupVars, carVars
<1>3. \A e \in Dir : (Held(e)' <=> Held(e)) /\ (e # d => cpc'[e] = cpc[e])
  BY <1>1, <1>2 DEF Held
<1>4. \A e \in Dir : \A j : Slot(e, j)' = Slot(e, j)
  BY <1>2 DEF Slot, End
<1>5. Held(d)
  BY <1>2 DEF Held
<1>6. /\ cur[d] \in Cars /\ inDir[cur[d]] = d /\ next'[cur[d]] = outCars[OutLane(d)]
      /\ \A c \in Cars : c # cur[d] => next'[c] = next[c]
  BY <1>1, <1>2, <1>5, HeldCar
<1>7. ASSUME NEW e \in Dir PROVE InListOK(e)'
  <2>1. PICK s \in Lines :
          /\ IsList(next, inCars[e], s) /\ Distinct(s)
          /\ \A i \in DOMAIN s : inDir[s[i]] = e /\ s[i] <= inCars[e]
    BY DEF FlowInv, InListOK
  <2>2. \A i \in DOMAIN s : s[i] # cur[d]
    BY <1>5, <2>1, HeldCar
  <2>3. IsList(next', inCars[e], s)
    BY <1>6, <2>1, <2>2, ListFrame, LineOfCars
  <2> QED
    BY <1>2, <2>1, <2>3 DEF InListOK
<1>8. ASSUME NEW e \in Dir PROVE RingOrder(e)'
  BY <1>2, <1>3, <1>4 DEF RingOrder, FlowInv
<1>9. ASSUME NEW e \in Dir, NEW x \in Cars, Past(e, x) PROVE Past(e, x)'
  BY <1>2, <1>3, <1>4, <1>9 DEF Past
<1>10. ASSUME NEW e \in Dir PROVE OutListOK(e)'
  <2>1. PICK s \in Lines : /\ IsList(next, outCars[e], s) /\ Distinct(s)
                           /\ \A i \in DOMAIN s : Past(inDir[s[i]], s[i])
    BY DEF FlowInv, OutListOK
  <2>2. ASSUME NEW i \in DOMAIN s PROVE Past(inDir[s[i]], s[i])'
    <3>1. PICK f \in Dir : f = inDir[s[i]]
      BY LineOfCars
    <3>2. Past(f, s[i])'
      BY <1>9, <2>1, <3>1, LineOfCars
    <3> QED
      BY <1>2, <3>1, <3>2
  <2>3. (cpc[e] = "publish" => next[cur[e]] = outCars[OutLane(e)])'
    <3>1. CASE e = d
      BY <1>2, <1>6, <3>1 DEF OutLane
    <3>2. ASSUME e # d, cpc[e] = "publish" PROVE next'[cur[e]] = outCars[OutLane(e)]
      <4>1. Held(e) /\ cur[e] \in Cars /\ inDir[cur[e]] = e
        BY <3>2, HeldCar DEF Held
      <4>2. cur[e] # cur[d]
        BY <1>6, <3>2, <4>1
      <4> QED
        BY <1>6, <3>2, <4>1, <4>2 DEF FlowInv, OutListOK
    <3> QED
      BY <1>2, <1>3, <3>1, <3>2 DEF OutLane
  <2>4. (main = "parse" => outCars[e] = NULL)'
    BY <1>2 DEF FlowInv, OutListOK
  <2>5. IsList(next, outCars[e], s)'
    <3>1. \A i \in DOMAIN s : s[i] # cur[d]
      BY <1>5, <2>1, HeldCar
    <3>2. IsList(next', outCars[e], s)
      BY <1>6, <2>1, <3>1, ListFrame, LineOfCars
    <3> QED
      BY <1>2, <3>2
  <2> QED
    BY <2>1, <2>2, <2>3, <2>4, <2>5 DEF OutListOK
<1> QED
  BY <1>7, <1>8, <1>10 DEF FlowInv

LEMMA PublishFlow ==
  ASSUME IInv, FlowInv, NEW d \in Dir, PublishCar(d)
  PROVE  FlowInv'
<1> DEFINE o == OutLane(d)
<1>1. /\ next \in [Cars -> Cars \cup {NULL}] /\ cpc \in [Dir -> crossPlaces]
      /\ inDir \in [Cars -> Dir] /\ outCars \in [Dir -> Cars \cup {NULL}]
  BY DEF IInv, TypeOK, ListType, PlaceType, SetupType
<1>2. /\ UNCHANGED <<inDir, outDir, inCars, next, main, cur, inBuf, head, buffer>>
      /\ cpc[d] = "publish" /\ cpc' = [cpc EXCEPT ![d] = "release"]
      /\ outCars' = [outCars EXCEPT ![o] = cur[d]]
  BY DEF PublishCar, crossRest, setupVars, carVars
<1>3. /\ \A e \in Dir : e # d => (Held(e)' <=> Held(e)) /\ cpc'[e] = cpc[e]
      /\ ~Held(d)' /\ cpc'[d] # "publish"
  BY <1>1, <1>2 DEF Held
<1>4. \A e \in Dir : \A j : Slot(e, j)' = Slot(e, j)
  BY <1>2 DEF Slot, End
<1>5. Held(d) /\ next[cur[d]] = outCars[o]
  BY <1>2 DEF Held, FlowInv, OutListOK
<1>6. /\ cur[d] \in Cars /\ inDir[cur[d]] = d /\ o \in Dir
      /\ outCars'[o] = cur[d] /\ \A e \in Dir : e # o => outCars'[e] = outCars[e]
  BY <1>1, <1>2, <1>5, HeldCar
<1>7. ASSUME NEW e \in Dir PROVE InListOK(e)'
  BY <1>2 DEF InListOK, FlowInv
<1>8. ASSUME NEW e \in Dir PROVE RingOrder(e)'
  <2>1. CASE e = d
    BY <1>2, <1>3, <1>4, <2>1 DEF RingOrder, FlowInv
  <2>2. CASE e # d
    BY <1>2, <1>3, <1>4, <2>2 DEF RingOrder, FlowInv
  <2> QED
    BY <2>1, <2>2
<1>9. ASSUME NEW e \in Dir, NEW x \in Cars, Past(e, x) PROVE Past(e, x)'
  <2>1. CASE e = d
    BY <1>2, <1>3, <1>4, <1>9, <2>1 DEF Past
  <2>2. CASE e # d
    BY <1>2, <1>3, <1>4, <1>9, <2>2 DEF Past
  <2> QED
    BY <2>1, <2>2
<1>10. Past(d, cur[d])'
  <2>1. inCars[d] < cur[d]
    BY <1>5 DEF Held, HasCar, IInv, HandInv, HandOK, Left
  <2>2. \A i \in 1..inBuf[d] : Slot(d, i) < cur[d]
    BY <1>5 DEF FlowInv, RingOrder
  <2> QED
    BY <1>2, <1>3, <1>4, <2>1, <2>2 DEF Past
<1>11. ASSUME NEW e \in Dir PROVE OutListOK(e)'
  <2>1. PICK s \in Lines : /\ IsList(next, outCars[e], s) /\ Distinct(s)
                           /\ \A i \in DOMAIN s : Past(inDir[s[i]], s[i])
    BY DEF FlowInv, OutListOK
  <2>2. ASSUME NEW i \in DOMAIN s PROVE Past(inDir[s[i]], s[i])'
    <3>1. PICK f \in Dir : f = inDir[s[i]]
      BY LineOfCars
    <3>2. Past(f, s[i])'
      BY <1>9, <2>1, <3>1, LineOfCars
    <3> QED
      BY <1>2, <3>1, <3>2
  <2>3. (cpc[e] = "publish" => next[cur[e]] = outCars[OutLane(e)])'
    <3>1. CASE e = d
      BY <1>3, <3>1
    <3>2. ASSUME e # d, cpc[e] = "publish" PROVE next[cur[e]] = outCars'[OutLane(e)]
      <4>1. OutLane(e) # o /\ OutLane(e) \in Dir
        BY <1>2, <3>2, InvOutListExclusive, HeldCar DEF OutListExclusive, Crossing, Held
      <4> QED
        BY <1>6, <3>2, <4>1 DEF FlowInv, OutListOK
    <3> QED
      BY <1>2, <1>3, <3>1, <3>2 DEF OutLane
  <2>4. (main = "parse" => outCars[e] = NULL)'
    BY <1>2 DEF IInv, PhaseInv
  <2>5. CASE e # o
    <3>1. IsList(next, outCars[e], s)'
      BY <1>2, <1>6, <2>1, <2>5
    <3> QED
      BY <2>1, <2>2, <2>3, <2>4, <3>1 DEF OutListOK
  <2>6. CASE e = o
    <3>1. \A i \in DOMAIN s : s[i] # cur[d]
      BY <1>5, <2>1, HeldCar
    <3>2. PICK t : t = <<cur[d]>> \o s
      OBVIOUS
    <3>3. t \in Lines /\ IsList(next, cur[d], t) /\ Distinct(t)
      BY <1>5, <1>6, <2>1, <2>6, <3>1, <3>2, ListPush
    <3>4. DOMAIN t = 1..(Len(s) + 1) /\ t[1] = cur[d] /\ \A i \in 2..(Len(s) + 1) : t[i] = s[i - 1]
      BY <1>6, <3>2, LineOfCars, ConsSeq
    <3>5. ASSUME NEW i \in DOMAIN t PROVE Past(inDir[t[i]], t[i])'
      <4>1. CASE i = 1
        BY <1>2, <1>6, <1>10, <3>4, <4>1
      <4>2. CASE i # 1
        <5>1. i \in 2..(Len(s) + 1) /\ i - 1 \in DOMAIN s
          BY <3>4, <4>2, LineOfCars
        <5>2. t[i] = s[i - 1]
          BY <3>4, <5>1
        <5> QED
          BY <2>2, <5>1, <5>2
      <4> QED
        BY <4>1, <4>2
    <3>6. IsList(next, outCars[e], t)'
      BY <1>2, <1>6, <2>6, <3>3
    <3> QED
      BY <2>3, <2>4, <3>3, <3>5, <3>6 DEF OutListOK
  <2> QED
    BY <2>5, <2>6
<1> QED
  BY <1>7, <1>8, <1>11 DEF FlowInv

LEMMA InitFlow == Init => FlowInv
<1> SUFFICES ASSUME Init, NEW d \in Dir PROVE InListOK(d) /\ RingOrder(d) /\ OutListOK(d)
  BY DEF FlowInv
<1>1. inCars[d] = NULL /\ outCars[d] = NULL /\ inBuf[d] = 0 /\ cpc[d] = "created"
  BY DEF Init
<1>2. DOMAIN <<>> = {}
  OBVIOUS
<1> QED
  BY <1>1, <1>2, EmptyLine DEF InListOK, RingOrder, OutListOK, Held

LEMMA NextFlow == IInv /\ FlowInv /\ [Next]_vars => FlowInv'
<1> SUFFICES ASSUME IInv, FlowInv, [Next]_vars PROVE FlowInv'
  OBVIOUS
<1>1. ASSUME NEW t \in Turns, ParseLine(t[1], t[2]) PROVE FlowInv'
  BY <1>1, TurnDirs, ParseFlow
<1> QED
  BY <1>1, QuietSteps, QuietFlow, WriteFlow, ReadFlow, LinkFlow, PublishFlow

(* The cars of a lane stay in the order of the schedule, from its list to  *)
(* the lists they leave by, and complete_cross never cuts or joins a list. *)
THEOREM FlowInvariance == Spec => []FlowInv
<1> QED
  BY InitFlow, NextFlow, Invariance, PTL DEF Spec

(***************************************************************************)
(* The refinement: what each action does to the lines of CarFlow.          *)
(***************************************************************************)

(* The three parts of the line of a lane, and the line it leaves by.       *)
LineParts(d) ==
  /\ InHand(d) \in Seq(Cars)
  /\ Buffered(d) \in Seq(Cars) /\ Len(Buffered(d)) = inBuf[d] /\ inBuf[d] \in Nat
  /\ \A j \in 1..inBuf[d] : Buffered(d)[j] = Slot(d, j)
  /\ ListOf(next, inCars[d]) \in Lines /\ ListOf(next, inCars[d]) \in Seq(Cars)
  /\ IsList(next, inCars[d], ListOf(next, inCars[d])) /\ Distinct(ListOf(next, inCars[d]))
  /\ ListOf(next, outCars[d]) \in Lines /\ ListOf(next, outCars[d]) \in Seq(Cars)
  /\ IsList(next, outCars[d], ListOf(next, outCars[d])) /\ Distinct(ListOf(next, outCars[d]))
AllParts == \A d \in Dir : LineParts(d)

LEMMA Parts == IInv /\ FlowInv => AllParts
<1> SUFFICES ASSUME IInv, FlowInv, NEW d \in Dir PROVE LineParts(d)
  BY DEF AllParts
<1>1. InHand(d) \in Seq(Cars)
  <2>1. CASE Held(d)
    <3>1. cur[d] \in Cars
      BY <2>1, HeldCar
    <3> QED
      BY <2>1, <3>1 DEF InHand
  <2>2. CASE ~Held(d)
    BY <2>2 DEF InHand
  <2> QED
    BY <2>1, <2>2
<1>2. inBuf[d] \in Nat
  BY DEF IInv, TypeOK, RingType
<1>3. \A j \in 1..inBuf[d] : Slot(d, j) \in Cars
  BY SlotLeft DEF Left
<1>4. /\ Buffered(d) \in [1..inBuf[d] -> Cars]
      /\ \A j \in 1..inBuf[d] : Buffered(d)[j] = Slot(d, j)
  BY <1>3 DEF Buffered
<1>5. Buffered(d) \in Seq(Cars)
  BY <1>2, <1>4, SeqDef
<1>6. Len(Buffered(d)) = inBuf[d]
  <2>1. Len(Buffered(d)) \in Nat /\ DOMAIN Buffered(d) = 1..Len(Buffered(d))
    BY <1>5, LenProperties
  <2>2. 1..Len(Buffered(d)) = 1..inBuf[d]
    BY <1>4, <2>1
  <2> QED
    BY <1>2, <2>1, <2>2
<1>7. /\ ListOf(next, inCars[d]) \in Lines /\ IsList(next, inCars[d], ListOf(next, inCars[d]))
      /\ Distinct(ListOf(next, inCars[d]))
  BY ListOfIs DEF FlowInv, InListOK
<1>8. /\ ListOf(next, outCars[d]) \in Lines /\ IsList(next, outCars[d], ListOf(next, outCars[d]))
      /\ Distinct(ListOf(next, outCars[d]))
  <2>1. PICK s \in Lines : IsList(next, outCars[d], s) /\ Distinct(s)
    BY DEF FlowInv, OutListOK
  <2> QED
    BY <2>1, ListOfIs
<1> QED
  BY <1>1, <1>2, <1>4, <1>5, <1>6, <1>7, <1>8, LinesAreSeqs DEF LineParts

LEMMA PartsNext == IInv' /\ FlowInv' => AllParts'
BY Parts, PTL

(* A quiet step leaves every line alone.                                   *)
LEMMA QuietLines ==
  ASSUME Quiet, NEW d \in Dir
  PROVE  Waiting(d)' = Waiting(d) /\ ListOf(next', outCars'[d]) = ListOf(next, outCars[d])
<1>1. (Held(d)' <=> Held(d)) /\ cur' = cur
  BY DEF Quiet
<1>2. InHand(d)' = InHand(d)
  BY <1>1 DEF InHand
<1>3. Buffered(d)' = Buffered(d)
  BY DEF Quiet, Buffered, Slot, End
<1>4. UNCHANGED <<next, inCars, outCars>>
  BY DEF Quiet
<1> QED
  BY <1>2, <1>3, <1>4 DEF Waiting

(* write_to_buf moves a car from the list to the ring, at the same place   *)
(* of the line.                                                            *)
LEMMA WriteLines ==
  ASSUME IInv, FlowInv, IInv', FlowInv', NEW d \in Dir, WriteToBuf(d), NEW e \in Dir
  PROVE  Waiting(e)' = Waiting(e) /\ ListOf(next', outCars'[e]) = ListOf(next, outCars[e])
<1>1. /\ inCars' = [inCars EXCEPT ![d] = next[@]]
      /\ UNCHANGED <<next, outCars, cur, cpc>>
  BY DEF WriteToBuf, arriveRest
<1>2. inCars \in [Dir -> Cars \cup {NULL}] /\ inCars[d] \in Cars
  BY ListNotEmpty DEF WriteToBuf, IInv, LoopInv, LoopOK, TypeOK, ListType
<1>3. InHand(e)' = InHand(e)
  BY <1>1 DEF InHand, Held
<1>4. LineParts(e) /\ LineParts(e)'
  BY Parts, PartsNext DEF AllParts
<1>5. CASE e # d
  <2>1. inBuf'[e] = inBuf[e] /\ \A j : Slot(e, j)' = Slot(e, j)
    BY <1>5, WriteSlots
  <2>2. Buffered(e)' = Buffered(e)
    BY <2>1 DEF Buffered
  <2>3. inCars'[e] = inCars[e]
    BY <1>1, <1>2, <1>5
  <2> QED
    BY <1>1, <1>3, <2>2, <2>3 DEF Waiting
<1>6. CASE e = d
  <2> DEFINE c == inCars[d]  H == InHand(d)  B == Buffered(d)
  <2>1. H \in Seq(Cars) /\ B \in Seq(Cars) /\ Len(B) = inBuf[d] /\ inBuf[d] \in Nat
    BY <1>4, <1>6 DEF LineParts
  <2>2. Buffered(d)' = Append(B, c)
    <3>1. /\ Append(B, c) \in Seq(Cars) /\ Len(Append(B, c)) = inBuf[d] + 1
          /\ \A j \in 1..inBuf[d] : Append(B, c)[j] = B[j]
          /\ Append(B, c)[inBuf[d] + 1] = c
      BY <1>2, <2>1, AppendProperties
    <3>2. /\ Buffered(d)' \in Seq(Cars) /\ Len(Buffered(d)') = inBuf'[d]
          /\ \A j \in 1..inBuf'[d] : (Buffered(d)')[j] = Slot(d, j)'
      BY <1>4, <1>6 DEF LineParts
    <3>3. inBuf'[d] = inBuf[d] + 1 /\ \A j \in 1..inBuf[d] : Slot(d, j)' = B[j]
      BY <1>4, <1>6, WriteSlots DEF LineParts
    <3>4. Slot(d, inBuf[d])' = c
      BY WriteSlots
    <3>5. ASSUME NEW j, j = inBuf'[d] PROVE Slot(d, j)' = c
      BY <3>4, <3>5 DEF Slot
    <3>6. \A j \in 1..(inBuf[d] + 1) : j \in 1..inBuf[d] \/ j = inBuf[d] + 1
      BY <2>1
    <3> QED
      BY <3>1, <3>2, <3>3, <3>5, <3>6, SeqEqual
  <2>3. PICK t \in Lines : ListOf(next, c) = <<c>> \o t /\ IsList(next, next[c], t)
    <3>1. PICK s : s = ListOf(next, c)
      OBVIOUS
    <3>2. s \in Lines /\ IsList(next, c, s) /\ Distinct(s)
      BY <1>4, <1>6, <3>1 DEF LineParts
    <3>3. c # NULL
      BY <1>2 DEF Cars, NULL
    <3>4. PICK t \in Lines : Rest(next, c, s, t)
      BY <3>2, <3>3, ListPop
    <3> QED
      BY <3>1, <3>4 DEF Rest
  <2>4. ListOf(next', inCars'[d]) = t
    <3>1. inCars'[d] = next[c] /\ next' = next
      BY <1>1, <1>2
    <3> QED
      BY <2>3, <3>1, ListOfIs
  <2> HIDE DEF c, H, B
  <2>5. /\ <<c>> \in Seq(Cars) /\ t \in Seq(Cars) /\ Append(B, c) = B \o <<c>>
        /\ B \o <<c>> \in Seq(Cars) /\ H \o B \in Seq(Cars)
    BY <1>2, <2>1, LinesAreSeqs, AppendIsConcat, ConcatProperties DEF c
  <2>6. (H \o Append(B, c)) \o t = (H \o B) \o (<<c>> \o t)
    <3>1. H \o (B \o <<c>>) = (H \o B) \o <<c>>
      BY <2>1, <2>5, ConcatAssociative
    <3>2. ((H \o B) \o <<c>>) \o t = (H \o B) \o (<<c>> \o t)
      BY <2>5, ConcatAssociative
    <3> QED
      BY <2>5, <3>1, <3>2
  <2>7. Waiting(d)' = (InHand(d)' \o Buffered(d)') \o ListOf(next', inCars'[d])
    BY DEF Waiting
  <2>8. Waiting(d) = (H \o B) \o (<<c>> \o t)
    BY <2>3 DEF Waiting, H, B, c
  <2>9. InHand(d)' = H
    BY <1>3, <1>6 DEF H
  <2>10. Waiting(d)' = Waiting(d)
    BY <2>2, <2>4, <2>6, <2>7, <2>8, <2>9
  <2> QED
    BY <1>1, <1>6, <2>10
<1> QED
  BY <1>5, <1>6

(* read_from_buf takes the first of the ring into hand.                    *)
LEMMA ReadLines ==
  ASSUME IInv, FlowInv, IInv', FlowInv', NEW d \in Dir, ReadFromBuf(d), NEW e \in Dir
  PROVE  Waiting(e)' = Waiting(e) /\ ListOf(next', outCars'[e]) = ListOf(next, outCars[e])
<1>1. /\ UNCHANGED <<next, outCars, inCars>> /\ cpc[d] = "locked"
      /\ cpc' = [cpc EXCEPT ![d] = "read"] /\ cpc \in [Dir -> crossPlaces]
  BY DEF ReadFromBuf, crossRest, IInv, TypeOK, PlaceType
<1>2. LineParts(e) /\ LineParts(e)'
  BY Parts, PartsNext DEF AllParts
<1>3. CASE e # d
  <2>1. inBuf'[e] = inBuf[e] /\ cur'[e] = cur[e] /\ \A j : Slot(e, j)' = Slot(e, j)
    BY <1>3, ReadSlots
  <2>2. Buffered(e)' = Buffered(e)
    BY <2>1 DEF Buffered
  <2>3. InHand(e)' = InHand(e)
    BY <1>1, <1>3, <2>1 DEF InHand, Held
  <2> QED
    BY <1>1, <2>2, <2>3 DEF Waiting
<1>4. CASE e = d
  <2> DEFINE B == Buffered(d)
  <2>1. /\ B \in Seq(Cars) /\ Len(B) = inBuf[d] /\ inBuf[d] \in Nat
        /\ \A j \in 1..inBuf[d] : B[j] = Slot(d, j)
    BY <1>2, <1>4 DEF LineParts
  <2>2. /\ inBuf[d] \in 1..Capacity /\ inBuf'[d] = inBuf[d] - 1 /\ cur'[d] = Slot(d, 1)
        /\ \A j \in 1..(inBuf[d] - 1) : Slot(d, j)' = Slot(d, j + 1)
    BY ReadSlots
  <2>3. B # <<>> /\ cur'[d] = B[1]
    BY <2>1, <2>2, EmptySeq
  <2>4. Buffered(d)' = Tail(B)
    <3> HIDE DEF B
    <3>1. /\ Tail(B) \in Seq(Cars) /\ Len(Tail(B)) = inBuf[d] - 1
          /\ \A j \in 1..(inBuf[d] - 1) : Tail(B)[j] = B[j + 1]
      BY <2>1, <2>3, HeadAndTail
    <3>2. /\ Buffered(d)' \in Seq(Cars) /\ Len(Buffered(d)') = inBuf'[d]
          /\ \A j \in 1..inBuf'[d] : (Buffered(d)')[j] = Slot(d, j)'
      BY <1>2, <1>4 DEF LineParts
    <3>3. ASSUME NEW j \in 1..(inBuf[d] - 1) PROVE (Buffered(d)')[j] = Tail(B)[j]
      <4>1. j + 1 \in 1..inBuf[d]
        BY <2>1
      <4> QED
        BY <2>1, <2>2, <3>1, <3>2, <4>1
    <3> QED
      BY <2>2, <3>1, <3>2, <3>3, SeqEqual
  <2>5. InHand(d) = <<>> /\ InHand(d)' = <<cur'[d]>>
    BY <1>1 DEF InHand, Held
  <2> HIDE DEF B
  <2>6. InHand(d) \o B = B
    BY <2>1, <2>5, ConcatEmptySeq
  <2>7. InHand(d)' \o Buffered(d)' = B
    BY <2>1, <2>3, <2>4, <2>5, HeadAndTail
  <2>8. Waiting(d)' = (InHand(d)' \o Buffered(d)') \o ListOf(next', inCars'[d])
    BY DEF Waiting
  <2>9. Waiting(d)' = Waiting(d)
    BY <1>1, <2>6, <2>7, <2>8 DEF Waiting, B
  <2> QED
    BY <1>1, <1>4, <2>9
<1> QED
  BY <1>3, <1>4

(* The store into the next of the crossing car changes no line.            *)
LEMMA LinkLines ==
  ASSUME IInv, FlowInv, NEW d \in Dir, LinkCar(d), NEW e \in Dir
  PROVE  Waiting(e)' = Waiting(e) /\ ListOf(next', outCars'[e]) = ListOf(next, outCars[e])
<1>1. /\ UNCHANGED <<inCars, outCars, cur, inBuf, head, buffer>>
      /\ cpc[d] = "link" /\ cpc' = [cpc EXCEPT ![d] = "publish"]
      /\ next' = [next EXCEPT ![cur[d]] = outCars[OutLane(d)]]
      /\ next \in [Cars -> Cars \cup {NULL}] /\ cpc \in [Dir -> crossPlaces]
  BY DEF LinkCar, crossRest, IInv, TypeOK, ListType, PlaceType
<1>2. InHand(e)' = InHand(e)
  BY <1>1 DEF InHand, Held
<1>3. Buffered(e)' = Buffered(e)
  BY <1>1 DEF Buffered, Slot, End
<1>4. Held(d) /\ \A c \in Cars : c # cur[d] => next'[c] = next[c]
  BY <1>1 DEF Held
<1>5. ListOf(next', inCars[e]) = ListOf(next, inCars[e])
  <2>1. PICK s \in Lines :
          /\ IsList(next, inCars[e], s)
          /\ \A i \in DOMAIN s : inDir[s[i]] = e /\ s[i] <= inCars[e]
    BY DEF FlowInv, InListOK
  <2>2. \A i \in DOMAIN s : s[i] # cur[d]
    BY <1>4, <2>1, HeldCar
  <2>3. IsList(next', inCars[e], s)
    BY <1>4, <2>1, <2>2, ListFrame, LineOfCars
  <2> QED
    BY <2>1, <2>3, ListOfIs
<1>6. ListOf(next', outCars[e]) = ListOf(next, outCars[e])
  <2>1. PICK s \in Lines : /\ IsList(next, outCars[e], s)
                           /\ \A i \in DOMAIN s : Past(inDir[s[i]], s[i])
    BY DEF FlowInv, OutListOK
  <2>2. \A i \in DOMAIN s : s[i] # cur[d]
    BY <1>4, <2>1, HeldCar
  <2>3. IsList(next', outCars[e], s)
    BY <1>4, <2>1, <2>2, ListFrame, LineOfCars
  <2> QED
    BY <2>1, <2>3, ListOfIs
<1> QED
  BY <1>1, <1>2, <1>3, <1>5, <1>6 DEF Waiting

(* A line of the schedule puts its car behind nobody: in front of the      *)
(* list of its lane, whose ring is empty and whose car_cross has no car.   *)
LEMMA ParseLines ==
  ASSUME IInv, FlowInv, NEW in \in Dir, NEW to \in Dir, ParseLine(in, to), NEW e \in Dir
  PROVE  /\ Waiting(e)' = IF e = in THEN <<parsed + 1>> \o Waiting(e) ELSE Waiting(e)
         /\ ListOf(next', outCars'[e]) = ListOf(next, outCars[e])
<1> DEFINE car == parsed + 1
<1>1. /\ car \in Cars /\ inDir \in [Cars -> Dir] /\ next \in [Cars -> Cars \cup {NULL}]
      /\ inCars \in [Dir -> Cars \cup {NULL}] /\ parsed \in Nat
  <2>1. /\ inDir \in [Cars -> Dir] /\ next \in [Cars -> Cars \cup {NULL}]
        /\ inCars \in [Dir -> Cars \cup {NULL}] /\ parsed \in 0..MaxCars
    BY DEF IInv, TypeOK, SetupType, ListType
  <2>2. parsed < MaxCars
    BY DEF ParseLine
  <2>3. car \in Cars /\ parsed \in Nat
    BY <2>1, <2>2 DEF Cars
  <2> QED
    BY <2>1, <2>3
<1>2. /\ next' = [next EXCEPT ![car] = inCars[in]] /\ inCars' = [inCars EXCEPT ![in] = car]
      /\ main = "parse"
      /\ UNCHANGED <<main, buffer, head, inBuf, outCars, cur, cpc>>
  BY DEF ParseLine
<1>3. inBuf[e] = 0 /\ ~Held(e)
  BY <1>2, EmptyAtStart DEF Held, IInv, PhaseInv
<1>4. InHand(e) = <<>> /\ InHand(e)' = <<>>
  BY <1>2, <1>3 DEF InHand, Held
<1>5. Buffered(e) = <<>> /\ Buffered(e)' = <<>>
  BY <1>2, <1>3 DEF Buffered
<1>6. \A s \in Lines : Waiting(e) = s <=> ListOf(next, inCars[e]) = s
  <2>1. LineParts(e)
    BY Parts DEF AllParts
  <2> QED
    BY <1>4, <1>5, <2>1, ConcatEmptySeq DEF Waiting, LineParts
<1>7. \A s \in Lines : ListOf(next', inCars'[e]) = s => Waiting(e)' = s
  <2> TAKE s \in Lines
  <2> HAVE ListOf(next', inCars'[e]) = s
  <2>1. Waiting(e)' = (InHand(e)' \o Buffered(e)') \o ListOf(next', inCars'[e])
    BY DEF Waiting
  <2>2. s \in Seq(Cars) /\ <<>> \in Seq(Cars)
    BY LinesAreSeqs
  <2>3. <<>> \o <<>> = <<>> /\ <<>> \o s = s
    BY <2>2, ConcatEmptySeq
  <2> QED
    BY <1>4, <1>5, <2>1, <2>3
<1>8. inCars[e] <= parsed
  BY DEF IInv, ListInv, ListOK
<1>9. PICK s \in Lines :
        /\ IsList(next, inCars[e], s) /\ Distinct(s)
        /\ \A i \in DOMAIN s : inDir[s[i]] = e /\ s[i] <= inCars[e]
  BY DEF FlowInv, InListOK
<1> HIDE DEF car
<1>10. \A i \in DOMAIN s : s[i] # car /\ s[i] \in Cars
  BY <1>1, <1>8, <1>9, LineOfCars DEF Cars, NULL, car
<1>11. IsList(next', inCars[e], s)
  BY <1>1, <1>2, <1>9, <1>10, ListFrame
<1>12. Waiting(e) = s
  BY <1>6, <1>9, ListOfIs
<1>13. ListOf(next', outCars'[e]) = ListOf(next, outCars[e])
  <2>1. outCars[e] = NULL /\ outCars'[e] = NULL
    BY <1>2 DEF FlowInv, OutListOK
  <2> QED
    BY <2>1, EmptyLine, ListOfIs
<1>14. CASE e # in
  <2>1. inCars'[e] = inCars[e]
    BY <1>1, <1>2, <1>14
  <2>2. ListOf(next', inCars'[e]) = s
    BY <1>9, <1>11, <2>1, ListOfIs
  <2> QED
    BY <1>7, <1>9, <1>12, <1>13, <1>14, <2>2
<1>15. CASE e = in
  <2>1. inCars'[e] = car /\ next'[car] = inCars[e]
    BY <1>1, <1>2, <1>15
  <2>2. <<car>> \o s \in Lines /\ IsList(next', car, <<car>> \o s)
    BY <1>1, <1>9, <1>10, <1>11, <2>1, ListPush
  <2>3. ListOf(next', inCars'[e]) = <<car>> \o s
    BY <2>1, <2>2, ListOfIs
  <2> QED
    BY <1>7, <1>12, <1>13, <1>15, <2>2, <2>3 DEF car
<1> QED
  BY <1>14, <1>15

(* The turns read so far.                                                  *)
LEMMA TurnsSeq ==
  ASSUME IInv
  PROVE  TurnsRead \in Seq(Dir \X Dir) /\ Len(TurnsRead) = parsed
<1>1. parsed \in 0..MaxCars /\ inDir \in [Cars -> Dir] /\ outDir \in [Cars -> Dir]
  BY DEF IInv, TypeOK, SetupType
<1>2. TurnsRead \in [1..parsed -> Dir \X Dir]
  BY <1>1 DEF TurnsRead, Cars
<1>3. TurnsRead \in Seq(Dir \X Dir)
  BY <1>1, <1>2, SeqDef
<1>4. Len(TurnsRead) \in Nat /\ DOMAIN TurnsRead = 1..Len(TurnsRead)
  BY <1>3, LenProperties
<1>5. parsed \in Nat /\ 1..Len(TurnsRead) = 1..parsed
  BY <1>1, <1>2, <1>4
<1>6. \A m, n \in Nat : 1..m = 1..n => m = n
  OBVIOUS
<1> QED
  BY <1>3, <1>4, <1>5, <1>6

LEMMA TurnsSeqNext == IInv' => (TurnsRead \in Seq(Dir \X Dir) /\ Len(TurnsRead) = parsed)'
BY TurnsSeq, PTL

LEMMA ParseTurns ==
  ASSUME IInv, IInv', NEW in \in Dir, NEW to \in Dir, ParseLine(in, to)
  PROVE  TurnsRead' = Append(TurnsRead, <<in, to>>)
<1>1. /\ parsed \in 0..MaxCars /\ inDir \in [Cars -> Dir] /\ outDir \in [Cars -> Dir]
      /\ parsed < MaxCars /\ parsed' = parsed + 1
      /\ inDir' = [inDir EXCEPT ![parsed + 1] = in]
      /\ outDir' = [outDir EXCEPT ![parsed + 1] = to]
  BY DEF IInv, TypeOK, SetupType, ParseLine
<1>2. TurnsRead \in Seq(Dir \X Dir) /\ Len(TurnsRead) = parsed
  BY TurnsSeq
<1>3. TurnsRead' \in Seq(Dir \X Dir) /\ Len(TurnsRead') = parsed + 1
  BY <1>1, TurnsSeqNext
<1>4. PICK t : t = <<in, to>>
  OBVIOUS
<1>5. /\ Append(TurnsRead, t) \in Seq(Dir \X Dir)
      /\ Len(Append(TurnsRead, t)) = parsed + 1
      /\ \A i \in 1..parsed : Append(TurnsRead, t)[i] = TurnsRead[i]
      /\ Append(TurnsRead, t)[parsed + 1] = t
  BY <1>2, <1>4, AppendProperties
<1>6. ASSUME NEW i \in 1..(parsed + 1)
      PROVE  TurnsRead'[i] = Append(TurnsRead, t)[i]
  <2>1. TurnsRead'[i] = <<inDir'[i], outDir'[i]>>
    BY <1>1 DEF TurnsRead
  <2>2. CASE i = parsed + 1
    <3>1. i \in Cars
      BY <1>1, <2>2 DEF Cars
    <3> QED
      BY <1>1, <1>4, <1>5, <2>1, <2>2, <3>1
  <2>3. CASE i # parsed + 1
    <3>1. i \in 1..parsed /\ i \in Cars
      BY <1>1, <2>3 DEF Cars
    <3>2. TurnsRead[i] = <<inDir[i], outDir[i]>>
      BY <3>1 DEF TurnsRead
    <3>3. inDir'[i] = inDir[i] /\ outDir'[i] = outDir[i]
      BY <1>1, <2>3, <3>1
    <3> QED
      BY <1>5, <2>1, <3>1, <3>2, <3>3
  <2> QED
    BY <2>2, <2>3
<1> QED
  BY <1>3, <1>4, <1>5, <1>6, SeqEqual

(* complete_cross takes the first car of the line and makes it the first   *)
(* of the lane it leaves by.                                               *)
LEMMA PublishLines ==
  ASSUME IInv, FlowInv, NEW d \in Dir, PublishCar(d)
  PROVE  /\ Waiting(d) # <<>> /\ Head(Waiting(d)) = cur[d]
         /\ TurnsRead[cur[d]][2] = OutLane(d) /\ OutLane(d) \in Dir
         /\ \A e \in Dir :
              /\ Waiting(e)' = IF e = d THEN Tail(Waiting(e)) ELSE Waiting(e)
              /\ ListOf(next', outCars'[e])
                   = IF e = OutLane(d) THEN <<cur[d]>> \o ListOf(next, outCars[e])
                     ELSE ListOf(next, outCars[e])
<1> DEFINE o == OutLane(d)
<1>1. outCars \in [Dir -> Cars \cup {NULL}] /\ cpc \in [Dir -> crossPlaces]
  BY DEF IInv, TypeOK, ListType, PlaceType
<1>2. /\ UNCHANGED <<next, inCars, buffer, head, inBuf, cur, carVars, main>>
      /\ cpc[d] = "publish" /\ cpc' = [cpc EXCEPT ![d] = "release"]
      /\ outCars' = [outCars EXCEPT ![o] = cur[d]]
  BY DEF PublishCar, crossRest, setupVars, carVars
<1>3. Held(d) /\ next[cur[d]] = outCars[o]
  BY <1>2 DEF Held, FlowInv, OutListOK
<1>4. /\ cur[d] \in Cars /\ o \in Dir
      /\ outCars'[o] = cur[d] /\ \A e \in Dir : e # o => outCars'[e] = outCars[e]
  BY <1>1, <1>2, <1>3, HeldCar
<1>5. \A e \in Dir : LineParts(e)
  BY Parts DEF AllParts
<1>6. TurnsRead[cur[d]][2] = o
  <2>1. cur[d] \in 1..parsed
    BY <1>2, <1>4 DEF IInv, HandInv, HandOK, HasCar, Left, TypeOK, SetupType, Cars
  <2> QED
    BY <2>1 DEF TurnsRead, OutLane
<1>7. \A e \in Dir : Buffered(e)' = Buffered(e)
  BY <1>2 DEF Buffered, Slot, End
<1>8. /\ InHand(d) = <<cur[d]>> /\ InHand(d)' = <<>>
      /\ \A e \in Dir : e # d => InHand(e)' = InHand(e)
  BY <1>1, <1>2, <1>3 DEF InHand, Held
<1> DEFINE B == Buffered(d)  L == ListOf(next, inCars[d])
<1>9. B \in Seq(Cars) /\ L \in Seq(Cars) /\ B \o L \in Seq(Cars) /\ <<cur[d]>> \in Seq(Cars)
  BY <1>4, <1>5, ConcatProperties DEF LineParts
<1>10. Waiting(d) = <<cur[d]>> \o (B \o L)
  <2>1. Waiting(d) = (<<cur[d]>> \o B) \o L
    BY <1>8 DEF Waiting
  <2> HIDE DEF B, L
  <2> QED
    BY <1>9, <2>1, ConcatAssociative
<1>11. Waiting(d)' = B \o L
  <2>1. Waiting(d)' = (InHand(d)' \o Buffered(d)') \o ListOf(next', inCars'[d])
    BY DEF Waiting
  <2>2. ListOf(next', inCars'[d]) = L /\ Buffered(d)' = B
    BY <1>2, <1>7
  <2> HIDE DEF B, L
  <2>3. <<>> \o B = B
    BY <1>9, ConcatEmptySeq
  <2> QED
    BY <1>8, <2>1, <2>2, <2>3
<1>12. Waiting(d) # <<>> /\ Head(Waiting(d)) = cur[d] /\ Tail(Waiting(d)) = B \o L
  <2> HIDE DEF B, L
  <2> QED
    BY <1>4, <1>9, <1>10, ConsSeq
<1>13. ASSUME NEW e \in Dir, e # d PROVE Waiting(e)' = Waiting(e)
  BY <1>2, <1>7, <1>8, <1>13 DEF Waiting
<1>14. ASSUME NEW e \in Dir
       PROVE  ListOf(next', outCars'[e])
                = IF e = o THEN <<cur[d]>> \o ListOf(next, outCars[e])
                  ELSE ListOf(next, outCars[e])
  <2>1. CASE e # o
    BY <1>2, <1>4, <2>1
  <2>2. CASE e = o
    <3>1. PICK s \in Lines : /\ IsList(next, outCars[e], s) /\ Distinct(s)
                             /\ \A i \in DOMAIN s : Past(inDir[s[i]], s[i])
      BY DEF FlowInv, OutListOK
    <3>2. \A i \in DOMAIN s : s[i] # cur[d]
      BY <1>3, <3>1, HeldCar
    <3>3. <<cur[d]>> \o s \in Lines /\ IsList(next, cur[d], <<cur[d]>> \o s)
      BY <1>3, <1>4, <2>2, <3>1, <3>2, ListPush
    <3>4. ListOf(next, outCars[e]) = s /\ ListOf(next, cur[d]) = <<cur[d]>> \o s
      BY <3>1, <3>3, ListOfIs
    <3> QED
      BY <1>2, <1>4, <2>2, <3>4
  <2> QED
    BY <2>1, <2>2
<1> QED
  BY <1>4, <1>6, <1>11, <1>12, <1>13, <1>14

(* Nobody waits when all threads have left their loops.                    *)
LEMMA DoneLines ==
  ASSUME IInv, FlowInv, NEW d \in Dir, apc[d] = "done", cpc[d] = "done"
  PROVE  Waiting(d) = <<>>
<1>1. ai[d] = inc[d] /\ ci[d] = inc[d] /\ inBuf[d] = Produced(d) - Consumed(d)
  BY DEF IInv, LoopInv, LoopOK
<1>2. inc[d] \in Nat /\ inCars[d] \in Cars \cup {NULL}
  BY DEF IInv, TypeOK, SetupType, ListType
<1>3. Produced(d) = inc[d] /\ Consumed(d) = inc[d] /\ inBuf[d] = 0
  BY <1>1, <1>2 DEF Produced, Consumed
<1>4. inCars[d] = NULL
  <2>1. SUFFICES ASSUME inCars[d] \in Cars PROVE FALSE
    BY <1>2
  <2>2. inDir[inCars[d]] = d /\ Cardinality(Pending(d)) = 0
    BY <1>2, <1>3, <2>1 DEF IInv, ListInv, ListOK, Cars, NULL
  <2>3. IsFiniteSet(1..inCars[d])
    BY <2>1, FS_Interval DEF Cars
  <2>4. IsFiniteSet(Pending(d))
    BY <2>3, FS_Subset DEF Pending
  <2>5. inCars[d] \in Pending(d)
    BY <2>1, <2>2 DEF Pending, Cars
  <2> QED
    BY <2>2, <2>4, <2>5, FS_EmptySet
<1>5. InHand(d) = <<>>
  BY DEF InHand, Held
<1>6. Buffered(d) = <<>>
  BY <1>3 DEF Buffered
<1>7. ListOf(next, inCars[d]) = <<>>
  BY <1>4, EmptyLine, ListOfIs
<1> QED
  BY <1>5, <1>6, <1>7 DEF Waiting

(***************************************************************************)
(* Every step of the intersection is a step of CarFlow or none.            *)
(***************************************************************************)
WaitingLines == [d \in Dir |-> Waiting(d)]
OutLists     == [d \in Dir |-> ListOf(next, outCars[d])]
LinesSame    == \A d \in Dir : /\ Waiting(d)' = Waiting(d)
                               /\ ListOf(next', outCars'[d]) = ListOf(next, outCars[d])

LEMMA FlowSame ==
  ASSUME LinesSame
  PROVE  WaitingLines' = WaitingLines /\ OutLists' = OutLists
BY DEF LinesSame, WaitingLines, OutLists

LEMMA FlowInit == Init => Flow!Init
<1> SUFFICES ASSUME Init PROVE Flow!Init
  OBVIOUS
<1>1. ASSUME NEW d \in Dir PROVE Waiting(d) = <<>> /\ ListOf(next, outCars[d]) = <<>>
  <2>1. inCars[d] = NULL /\ outCars[d] = NULL /\ inBuf[d] = 0 /\ cpc[d] = "created"
    BY DEF Init
  <2>2. ListOf(next, inCars[d]) = <<>> /\ ListOf(next, outCars[d]) = <<>>
    BY <2>1, EmptyLine, ListOfIs
  <2>3. InHand(d) = <<>> /\ Buffered(d) = <<>>
    BY <2>1 DEF InHand, Held, Buffered
  <2> QED
    BY <2>2, <2>3 DEF Waiting
<1>2. main = "parse" /\ TurnsRead = <<>>
  BY DEF Init, TurnsRead
<1> QED
  BY <1>1, <1>2 DEF Flow!Init, Flow!Dir, Dir

LEMMA OtherSteps ==
  ASSUME [Next]_vars, ~(\E t \in Turns : ParseLine(t[1], t[2])), ~StartThreads, ~JoinAndVerify
  PROVE  UNCHANGED <<main, parsed, carVars>>
BY ZenonT(60) DEF Next, Terminated, Arrive, Cross,
     ArriveLock, ArriveWait, WriteToBuf, ArriveSignalUnlock, ArriveSpurious, CrossLock,
     CrossWait, ReadFromBuf, CrossSignalUnlock, AcquireQuad, LinkCar, PublishCar,
     ReleaseQuad, FreeBuffer, CrossSpurious, vars, setupVars, arriveRest, crossRest

LEMMA FlowStep ==
  ASSUME IInv, FlowInv, IInv', FlowInv', [Next]_vars
  PROVE  [Flow!Next]_(Flow!flowVars)
<1> USE DEF Flow!Dir, Dir
<1>1. ASSUME NEW t \in Turns, ParseLine(t[1], t[2]) PROVE Flow!Line(t)
  <2>1. t[1] \in Dir /\ t[2] \in Dir /\ t = <<t[1], t[2]>>
    <3>1. t \in Dir \X Dir
      BY TurnsAssumption
    <3> QED
      BY <3>1
  <2>2. main = "parse" /\ main' = main /\ parsed < MaxCars
    BY <1>1 DEF ParseLine
  <2>3. /\ TurnsRead' = Append(TurnsRead, t) /\ Len(TurnsRead) = parsed
        /\ Len(TurnsRead') = parsed + 1
    <3>1. Len(TurnsRead') = parsed'
      BY TurnsSeqNext
    <3> QED
      BY <1>1, <2>1, <3>1, ParseTurns, TurnsSeq DEF ParseLine
  <2>4. ASSUME NEW e \in Dir
        PROVE  /\ Waiting(e)' = IF e = t[1] THEN <<Len(TurnsRead')>> \o Waiting(e) ELSE Waiting(e)
               /\ ListOf(next', outCars'[e]) = ListOf(next, outCars[e])
    BY <1>1, <2>1, <2>3, ParseLines
  <2>5. OutLists' = OutLists
    BY <2>4 DEF OutLists
  <2>6. WaitingLines' = [WaitingLines EXCEPT ![t[1]] = <<Len(TurnsRead')>> \o @]
    BY <2>1, <2>4 DEF WaitingLines
  <2> QED
    BY <2>2, <2>3, <2>5, <2>6 DEF Flow!Line, OutLists, WaitingLines
<1>2. CASE StartThreads
  <2>1. Quiet
    BY <1>2 DEF StartThreads, Quiet, bufVars, carVars, Held, IInv, PhaseInv
  <2>2. WaitingLines' = WaitingLines /\ OutLists' = OutLists
    BY <2>1, QuietLines, FlowSame DEF LinesSame
  <2>3. TurnsRead' = TurnsRead /\ main = "parse" /\ main' = "run"
    BY <1>2 DEF StartThreads, TurnsRead, carVars
  <2>4. Flow!Open
    BY <2>2, <2>3 DEF Flow!Open, OutLists, WaitingLines
  <2> QED
    BY <2>4 DEF Flow!Next
<1>3. CASE JoinAndVerify
  <2>1. Quiet
    BY <1>3 DEF JoinAndVerify, Quiet, bufVars, carVars, Held
  <2>2. WaitingLines' = WaitingLines /\ OutLists' = OutLists
    BY <2>1, QuietLines, FlowSame DEF LinesSame
  <2>3. TurnsRead' = TurnsRead /\ main = "run" /\ main' = "done"
    BY <1>3 DEF JoinAndVerify, TurnsRead, carVars
  <2>4. \A d \in Dir : WaitingLines[d] = <<>>
    BY <1>3, DoneLines DEF JoinAndVerify, WaitingLines
  <2>5. Flow!Close
    BY <2>2, <2>3, <2>4 DEF Flow!Close, OutLists, WaitingLines
  <2> QED
    BY <2>5 DEF Flow!Next
<1>4. ASSUME NEW d \in Dir, PublishCar(d) PROVE Flow!CrossOver(d)
  <2>1. main = "run" /\ main' = main /\ TurnsRead' = TurnsRead
    <3>1. cpc[d] = "publish" /\ UNCHANGED <<main, parsed, inDir, outDir>>
      BY <1>4 DEF PublishCar, crossRest, setupVars, carVars
    <3>2. main = "run"
      BY <3>1 DEF IInv, PhaseInv, TypeOK, SetupType
    <3> QED
      BY <3>1, <3>2 DEF TurnsRead
  <2>2. PICK c : c = cur[d]
    OBVIOUS
  <2>3. PICK o : o = OutLane(d)
    OBVIOUS
  <2>4. /\ WaitingLines[d] # <<>> /\ Head(WaitingLines[d]) = c
        /\ TurnsRead[c][2] = o /\ o \in Dir
    BY <1>4, <2>2, <2>3, PublishLines DEF WaitingLines
  <2>5. WaitingLines' = [WaitingLines EXCEPT ![d] = Tail(@)]
    BY <1>4, PublishLines DEF WaitingLines
  <2>6. OutLists' = [OutLists EXCEPT ![o] = <<c>> \o @]
    BY <1>4, <2>2, <2>3, <2>4, PublishLines DEF OutLists
  <2> QED
    BY <2>1, <2>4, <2>5, <2>6 DEF Flow!CrossOver, OutLists, WaitingLines
<1>5. ASSUME LinesSame, main' = main, TurnsRead' = TurnsRead PROVE UNCHANGED Flow!flowVars
  BY <1>5, FlowSame DEF Flow!flowVars, OutLists, WaitingLines

<1>6. CASE /\ ~(\E t \in Turns : ParseLine(t[1], t[2])) /\ ~StartThreads /\ ~JoinAndVerify
           /\ \A d \in Dir : ~PublishCar(d)
  <2>1. UNCHANGED <<main, parsed, carVars>>
    BY <1>6, OtherSteps
  <2>2. TurnsRead' = TurnsRead
    BY <2>1 DEF TurnsRead, carVars
  <2>3. LinesSame
    <3>1. CASE Quiet
      BY <3>1, QuietLines DEF LinesSame
    <3>2. ASSUME NEW d \in Dir, WriteToBuf(d) PROVE LinesSame
      BY <3>2, WriteLines DEF LinesSame
    <3>3. ASSUME NEW d \in Dir, ReadFromBuf(d) PROVE LinesSame
      BY <3>3, ReadLines DEF LinesSame
    <3>4. ASSUME NEW d \in Dir, LinkCar(d) PROVE LinesSame
      BY <3>4, LinkLines DEF LinesSame
    <3> QED
      BY <1>6, <3>1, <3>2, <3>3, <3>4, QuietSteps
  <2> QED
    BY <1>5, <2>1, <2>2, <2>3
<1> QED
  BY <1>1, <1>2, <1>3, <1>4, <1>6 DEF Flow!Next

(* No car is lost, duplicated or overtaken in its lane, every car leaves   *)
(* by the lane of its out_dir (cars.c:281-287), and main returns only when *)
(* nobody waits: the threads, locks and rings implement CarFlow.           *)
THEOREM FlowRefinement == Spec => ImplementsCarFlow
<1>1. IInv /\ FlowInv /\ IInv' /\ FlowInv' /\ [Next]_vars => [Flow!Next]_(Flow!flowVars)
  BY FlowStep
<1> QED
  BY <1>1, FlowInit, Invariance, FlowInvariance, PTL DEF Spec, ImplementsCarFlow, Flow!Spec
=============================================================================
