--------------------------- MODULE IntersectionInv ---------------------------
(***************************************************************************)
(* The inductive invariant of the intersection: what every thread may rely *)
(* on at each place of its loop.  Its parts are what keeps the properties  *)
(* of module Intersection true from one step to the next.                  *)
(***************************************************************************)
EXTENDS Intersection, FiniteSets

(* No thread runs before the schedule is parsed or after main returned.    *)
PhaseInv ==
  \A d \in Dir :
    /\ main = "parse" => /\ apc[d] = "created" /\ cpc[d] = "created"
                         /\ ai[d] = 0 /\ ci[d] = 0
    /\ main # "parse" => apc[d] # "created" /\ cpc[d] # "created"
    /\ main = "done" => apc[d] = "done" /\ cpc[d] = "done"

HasCar == {"read", "quads", "link", "publish", "release"}

(* The loop counters, against the number of cars of the lane.              *)
LoopOK(d) ==
  /\ apc[d] \in {"lock", "locked", "wait", "written"} => ai[d] < inc[d]
  /\ apc[d] = "done" => ai[d] = inc[d]
  /\ cpc[d] \in {"lock", "locked", "wait"} \cup HasCar => ci[d] < inc[d]
  /\ cpc[d] \in {"free", "done"} => ci[d] = inc[d]
  /\ inBuf[d] = Produced(d) - Consumed(d)
  /\ apc[d] = "written" => inBuf[d] > 0
  /\ freed[d] => cpc[d] = "done"
LoopInv == \A d \in Dir : LoopOK(d)

(* The mutexes each thread holds, by its place.                            *)
ArriveHolds(d) == IF apc[d] \in {"locked", "written"} THEN {LaneLock(d)} ELSE {}
PathLocks(d, from, to) == {PathLock(d, i) : i \in from..to}
CrossHolds(d) ==
  CASE cpc[d] \in {"locked", "read"}   -> {LaneLock(d)}
    [] cpc[d] = "quads"                -> PathLocks(d, 0, k[d] - 1)
    [] cpc[d] \in {"link", "publish"}  -> PathLocks(d, 0, NumQuads(d) - 1)
    [] cpc[d] = "release"              -> PathLocks(d, k[d], NumQuads(d) - 1)
    [] OTHER                           -> {}
LockOK(d) ==
  \A m \in Mutexes :
    /\ owner[m] = <<"arrive", d>> <=> m \in ArriveHolds(d)
    /\ owner[m] = <<"cross", d>>  <=> m \in CrossHolds(d)
LockInv == \A d \in Dir : LockOK(d)

(* The in_cars list of a lane holds the lane's cars up to its head, in     *)
(* descending order, and they are the cars still to be produced: all of    *)
(* the lane's cars while the schedule is read.                             *)
Pending(d) == {c \in 1..inCars[d] : inDir[c] = d}
ListOK(d) ==
  /\ inCars[d] <= parsed
  /\ inCars[d] # NULL => inDir[inCars[d]] = d
  /\ Cardinality(Pending(d)) = inc[d] - Produced(d)
  /\ main = "parse" => \A c \in 1..parsed : inDir[c] = d => c <= inCars[d]
  /\ \A c \in Pending(d) :
       /\ next[c] < c
       /\ next[c] # NULL => inDir[next[c]] = d
       /\ \A e \in Pending(d) : e < c => e <= next[c]
ListInv == \A d \in Dir : ListOK(d)

(* A car of the lane, read from the schedule, that has left the list.      *)
Left(d, c) == c \in Cars /\ c <= parsed /\ inDir[c] = d /\ inCars[d] < c

(* The ring with n cars from slot h: where it ends, which slots it uses.   *)
End(h, n)   == IF h + n < Capacity THEN h + n ELSE h + n - Capacity
Slots(h, n) == {j \in 0..(Capacity - 1) : \/ h <= j /\ j < h + n
                                          \/ j < h + n - Capacity}

(* head, tail and in_buf agree, and every slot in use holds such a car.    *)
RingOK(d) ==
  /\ tail[d] = End(head[d], inBuf[d])
  /\ \A j \in Slots(head[d], inBuf[d]) : Left(d, buffer[d][j])
RingInv == \A d \in Dir : RingOK(d)

(* So is crossing_car, while car_cross has one; k is inside its path.      *)
HandOK(d) ==
  /\ cpc[d] \in HasCar => Left(d, cur[d])
  /\ cpc[d] \in {"quads", "release"} => k[d] < NumQuads(d)
  /\ cpc[d] \in {"link", "publish"} => k[d] = 0
HandInv == \A d \in Dir : HandOK(d)

IInv ==
  /\ TypeOK /\ PhaseInv /\ LoopInv /\ LockInv
  /\ ListInv /\ RingInv /\ HandInv /\ NoLostWakeup

(* What is left of the comment at cars.c:260-261: a thread that takes the  *)
(* locks of its path, or crosses, holds the lock of no lane but NORTH,     *)
(* which is quadrant 4.  That one it may hold whichever lane it is from.   *)
OnlyNorthHeldUp ==
  \A d, e \in Dir :
    /\ cpc[d] \in {"quads", "link", "publish", "release"}
    /\ owner[LaneLock(e)] = <<"cross", d>>
    => /\ e = NORTH
       /\ \E i \in 0..(NumQuads(d) - 1) : PathLock(d, i) = Quad(4)

(***************************************************************************)
(* Why the program ends: as long as main waits for its threads one of them *)
(* can go on, and they have only so many steps to make.                    *)
(***************************************************************************)

(* A bound on the steps that are left: of a thread until the end of the    *)
(* round it is in, where one that wakes up goes back two places; of a      *)
(* lane, with five and seventeen for every round to come; and of all.      *)
ArriveLeft(d) ==
  CASE apc[d] = "created" -> 4
    [] apc[d] = "lock"    -> 3
    [] apc[d] = "locked"  -> 2
    [] apc[d] \in {"wait", "written"} -> 1
    [] apc[d] = "done"    -> 0
CrossLeft(d) ==
  CASE cpc[d] = "created" -> 17
    [] cpc[d] = "lock"    -> 16
    [] cpc[d] = "locked"  -> 15
    [] cpc[d] \in {"wait", "read"} -> 14
    [] cpc[d] = "quads"   -> 11 - k[d]
    [] cpc[d] = "link"    -> 6
    [] cpc[d] = "publish" -> 5
    [] cpc[d] = "release" -> 4 - k[d]
    [] cpc[d] = "free"    -> 1
    [] cpc[d] = "done"    -> 0
LaneLeft(d) ==
  5 * (inc[d] - ai[d]) + ArriveLeft(d) + 17 * (inc[d] - ci[d]) + CrossLeft(d)
MainLeft == CASE main = "parse" -> 2 [] main = "run" -> 1 [] main = "done" -> 0
StepsLeft ==
  23 * (MaxCars - parsed) + 3 * (MaxSpurious - spurious) + MainLeft
    + LaneLeft(NORTH) + LaneLeft(WEST) + LaneLeft(SOUTH) + LaneLeft(EAST)

(* Every step of the program is one of those that are left: no thread goes *)
(* round its loops, to sleep or back to a lock, without getting on.        *)
StepsRunOut == [][StepsLeft' < StepsLeft]_vars
=============================================================================
