-------------------------- MODULE IntersectionFlow --------------------------
(***************************************************************************)
(* The intersection implements CarFlow.  A car waits while it is in the    *)
(* in_cars list, in the ring buffer, or held by a car_cross thread that    *)
(* has not yet made it the head of an out_cars list; the lists are read by *)
(* following next, as verify() of A2/traffic.c does.                       *)
(***************************************************************************)
EXTENDS IntersectionInv

(* s is what the list that begins with h holds, when nx is what the next   *)
(* of every car is.  No car is in it twice, or the list would not end.     *)
Lines == UNION {[1..n -> Cars] : n \in 0..MaxCars}
IsList(nx, h, s) ==
  IF s = <<>> THEN h = NULL
  ELSE /\ h = s[1] /\ nx[s[Len(s)]] = NULL
       /\ \A i \in 1..(Len(s) - 1) : nx[s[i]] = s[i + 1]
ListOf(nx, h) == CHOOSE s \in Lines : IsList(nx, h, s)

(* The j-th car in the ring, counted from the one to be read first.        *)
Slot(d, j) == buffer[d][End(head[d], j - 1)]
Buffered(d) == [j \in 1..inBuf[d] |-> Slot(d, j)]

Held(d) == cpc[d] \in {"read", "quads", "link", "publish"}
InHand(d) == IF Held(d) THEN <<cur[d]>> ELSE <<>>

TurnsRead == [n \in 1..parsed |-> <<inDir[n], outDir[n]>>]
Waiting(d) == (InHand(d) \o Buffered(d)) \o ListOf(next, inCars[d])

Flow == INSTANCE CarFlow WITH
  phase   <- main,
  turn    <- TurnsRead,
  waiting <- [d \in Dir |-> Waiting(d)],
  out     <- [d \in Dir |-> ListOf(next, outCars[d])]

(* Every step of the threads is a step of CarFlow or none: no car is lost, *)
(* duplicated or overtaken in its lane, it leaves by the lane of its       *)
(* out_dir, and main returns only when all have crossed.                   *)
ImplementsCarFlow == Flow!Spec

(***************************************************************************)
(* The inductive invariant behind it, on top of IInv.  Cars leave a lane   *)
(* in descending order, so what is still in the list is less than what is  *)
(* in the ring, that less than the car in hand, and that less than every   *)
(* car of the lane that is in an out_cars list already.                    *)
(***************************************************************************)
Distinct(s) == \A i, j \in DOMAIN s : i # j => s[i] # s[j]

InListOK(d) ==
  \E s \in Lines : /\ IsList(next, inCars[d], s) /\ Distinct(s)
                   /\ \A i \in DOMAIN s : inDir[s[i]] = d /\ s[i] <= inCars[d]

RingOrder(d) ==
  /\ \A i, j \in 1..inBuf[d] : i < j => Slot(d, j) < Slot(d, i)
  /\ Held(d) => \A i \in 1..inBuf[d] : Slot(d, i) < cur[d]

Past(d, c) ==
  /\ inCars[d] < c /\ \A i \in 1..inBuf[d] : Slot(d, i) < c
  /\ Held(d) => cur[d] < c

OutListOK(d) ==
  /\ \E s \in Lines : /\ IsList(next, outCars[d], s) /\ Distinct(s)
                      /\ \A i \in DOMAIN s : Past(inDir[s[i]], s[i])
  /\ cpc[d] = "publish" => next[cur[d]] = outCars[OutLane(d)]
  /\ main = "parse" => outCars[d] = NULL

FlowInv == \A d \in Dir : InListOK(d) /\ RingOrder(d) /\ OutListOK(d)
=============================================================================
