---------------------------- MODULE Intersection ----------------------------
(***************************************************************************)
(* The four-way intersection of A2: parse_schedule builds one linked list  *)
(* of cars per lane; for every lane a car_arrive thread moves cars from    *)
(* that list into a ring buffer and a car_cross thread takes them out,     *)
(* locks the quadrants of the car's path, and pushes the car on the list   *)
(* of the lane it leaves by.  One action per step between two points where *)
(* another thread may interfere.                                           *)
(***************************************************************************)
EXTENDS Roads

CONSTANTS
  MaxCars,      \* most lines in the schedule file
  Capacity,     \* LANE_LENGTH
  Turns,        \* the (in, out) pairs a schedule line may have
  MaxSpurious,  \* bound on spurious wake-ups of pthread_cond_wait
  NoThread      \* the owner of a free mutex

Cars    == 1..MaxCars
NULL    == 0
Threads == {"arrive", "cross"} \X Dir

ASSUME CapacityAssumption == Capacity \in Nat \ {0}
ASSUME CarsAssumption     == MaxCars \in Nat
ASSUME TurnsAssumption    == Turns \subseteq Dir \X Dir
ASSUME SpuriousAssumption == MaxSpurious \in Nat
ASSUME NoThreadAssumption == NoThread \notin Threads

VARIABLES
  main,     \* where main() is: "parse", "run" (threads started), "done"
  parsed,   \* schedule lines read so far; car number n is line n
  inDir, outDir, next,              \* struct car
  inCars, outCars, inc, passed,     \* struct lane
  buffer, head, tail, inBuf,        \* ... its ring buffer
  freed,    \* free(l->buffer) has been called
  owner,    \* the thread that holds each mutex
  apc, ai,  \* car_arrive of each lane: place, loop counter
  cpc, ci,  \* car_cross of each lane: place, loop counter
  cur,      \* crossing_car
  k,        \* loop counter of set_isection_locks
  spurious  \* spurious wake-ups so far

carVars   == <<inDir, outDir>>
setupVars == <<main, parsed, carVars, inc>>
bufVars   == <<inCars, buffer, head, tail, inBuf>>
vars == <<setupVars, bufVars, next, outCars, passed, freed, owner,
          apc, ai, cpc, ci, cur, k, spurious>>

arrivePlaces == {"created", "lock", "locked", "wait", "written", "done"}
crossPlaces  == {"created", "lock", "locked", "wait", "read", "quads", "link",
                 "publish", "release", "free", "done"}

SetupType ==
  /\ main \in {"parse", "run", "done"} /\ parsed \in 0..MaxCars
  /\ inDir \in [Cars -> Dir] /\ outDir \in [Cars -> Dir]
  /\ inc \in [Dir -> Nat]
ListType ==
  /\ next \in [Cars -> Cars \cup {NULL}]
  /\ inCars \in [Dir -> Cars \cup {NULL}] /\ outCars \in [Dir -> Cars \cup {NULL}]
  /\ passed \in [Dir -> Nat]
RingType ==
  /\ buffer \in [Dir -> [0..(Capacity - 1) -> Cars \cup {NULL}]]
  /\ head \in [Dir -> 0..(Capacity - 1)] /\ tail \in [Dir -> 0..(Capacity - 1)]
  /\ inBuf \in [Dir -> 0..Capacity] /\ freed \in [Dir -> BOOLEAN]
PlaceType ==
  /\ apc \in [Dir -> arrivePlaces] /\ cpc \in [Dir -> crossPlaces]
  /\ owner \in [Mutexes -> Threads \cup {NoThread}]
CounterType ==
  /\ ai \in [Dir -> Nat] /\ ci \in [Dir -> Nat] /\ k \in [Dir -> 0..4]
  /\ cur \in [Dir -> Cars \cup {NULL}] /\ spurious \in 0..MaxSpurious
TypeOK == SetupType /\ ListType /\ RingType /\ PlaceType /\ CounterType

(***************************************************************************)
(* main: init_intersection, parse_schedule, the creation of the threads.   *)
(***************************************************************************)
Init ==
  /\ main = "parse" /\ parsed = 0
  /\ inDir = [c \in Cars |-> NORTH] /\ outDir = [c \in Cars |-> NORTH]
  /\ next = [c \in Cars |-> NULL]
  /\ inCars = [d \in Dir |-> NULL] /\ outCars = [d \in Dir |-> NULL]
  /\ inc = [d \in Dir |-> 0] /\ passed = [d \in Dir |-> 0]
  /\ buffer = [d \in Dir |-> [i \in 0..(Capacity - 1) |-> NULL]]
  /\ head = [d \in Dir |-> 0] /\ tail = [d \in Dir |-> 0]
  /\ inBuf = [d \in Dir |-> 0]
  /\ freed = [d \in Dir |-> FALSE]
  /\ owner = [m \in Mutexes |-> NoThread]
  /\ apc = [d \in Dir |-> "created"] /\ ai = [d \in Dir |-> 0]
  /\ cpc = [d \in Dir |-> "created"] /\ ci = [d \in Dir |-> 0]
  /\ cur = [d \in Dir |-> NULL] /\ k = [d \in Dir |-> 0]
  /\ spurious = 0

(* One line of the schedule: the car goes to the head of its lane's list.  *)
ParseLine(in, out) ==
  /\ main = "parse" /\ parsed < MaxCars
  /\ LET car == parsed + 1 IN
       /\ inDir'  = [inDir EXCEPT ![car] = in]
       /\ outDir' = [outDir EXCEPT ![car] = out]
       /\ next'   = [next EXCEPT ![car] = inCars[in]]
       /\ inCars' = [inCars EXCEPT ![in] = car]
       /\ parsed' = car
  /\ inc' = [inc EXCEPT ![in] = @ + 1]
  /\ UNCHANGED <<main, buffer, head, tail, inBuf, outCars, passed, freed, owner,
                 apc, ai, cpc, ci, cur, k, spurious>>

(* The schedule may end at any line.  A lane without cars skips its loops. *)
StartThreads ==
  /\ main = "parse"
  /\ main' = "run"
  /\ apc' = [d \in Dir |-> IF inc[d] = 0 THEN "done" ELSE "lock"]
  /\ cpc' = [d \in Dir |-> IF inc[d] = 0 THEN "free" ELSE "lock"]
  /\ UNCHANGED <<parsed, carVars, inc, bufVars, next, outCars, passed, freed,
                 owner, ai, ci, cur, k, spurious>>

(* Both join loops end; verify() prints the lists and main returns.        *)
JoinAndVerify ==
  /\ main = "run"
  /\ \A d \in Dir : apc[d] = "done" /\ cpc[d] = "done"
  /\ main' = "done"
  /\ UNCHANGED <<parsed, carVars, inc, bufVars, next, outCars, passed, freed,
                 owner, apc, ai, cpc, ci, cur, k, spurious>>

(***************************************************************************)
(* pthread mutexes and condition variables.                                *)
(***************************************************************************)
Acquire(m, t) == owner[m] = NoThread /\ owner' = [owner EXCEPT ![m] = t]
Release(m)    == owner' = [owner EXCEPT ![m] = NoThread]

(* Seeded bug: pthread_cond_signal wakes nobody.                           *)
WokenNever(pc) == pc

(* Each condition variable of a lane has one possible waiter.  A woken     *)
(* thread takes the mutex again and goes back to the test of its loop.     *)
Woken(pc) == IF pc = "wait" THEN "lock" ELSE pc

(***************************************************************************)
(* car_arrive                                                              *)
(***************************************************************************)
arriveRest == <<setupVars, next, outCars, passed, freed, ci, cur, k>>

ArriveLock(d) ==
  /\ apc[d] = "lock"
  /\ Acquire(LaneLock(d), <<"arrive", d>>)
  /\ apc' = [apc EXCEPT ![d] = "locked"]
  /\ UNCHANGED <<arriveRest, bufVars, ai, cpc, spurious>>

ArriveWait(d) ==
  /\ apc[d] = "locked" /\ inBuf[d] = Capacity
  /\ Release(LaneLock(d))
  /\ apc' = [apc EXCEPT ![d] = "wait"]
  /\ UNCHANGED <<arriveRest, bufVars, ai, cpc, spurious>>

WriteToBuf(d) ==
  /\ apc[d] = "locked" /\ inBuf[d] # Capacity
  /\ buffer' = [buffer EXCEPT ![d][tail[d]] = inCars[d]]
  /\ inBuf'  = [inBuf EXCEPT ![d] = @ + 1]
  /\ inCars' = [inCars EXCEPT ![d] = next[@]]
  /\ tail'   = [tail EXCEPT ![d] = (@ + 1) % Capacity]
  /\ apc' = [apc EXCEPT ![d] = "written"]
  /\ UNCHANGED <<arriveRest, head, owner, ai, cpc, spurious>>

ArriveSignalUnlock(d) ==
  /\ apc[d] = "written"
  /\ cpc' = [cpc EXCEPT ![d] = Woken(@)]
  /\ Release(LaneLock(d))
  /\ ai' = [ai EXCEPT ![d] = @ + 1]
  /\ apc' = [apc EXCEPT ![d] = IF ai[d] + 1 < inc[d] THEN "lock" ELSE "done"]
  /\ UNCHANGED <<arriveRest, bufVars, spurious>>

ArriveSpurious(d) ==
  /\ apc[d] = "wait" /\ spurious < MaxSpurious
  /\ apc' = [apc EXCEPT ![d] = Woken(@)]
  /\ spurious' = spurious + 1
  /\ UNCHANGED <<arriveRest, bufVars, owner, ai, cpc>>

Arrive(d) == ArriveLock(d) \/ ArriveWait(d) \/ WriteToBuf(d) \/ ArriveSignalUnlock(d)

(***************************************************************************)
(* car_cross                                                               *)
(***************************************************************************)
crossRest == <<setupVars, inCars, buffer, tail, ai>>

(* Seeded bugs: the path taken in descending order; the car pushed on the  *)
(* list of its own lane.                                                   *)
PathLockDown(d, i) ==
  Quad(ComputePath(inDir[cur[d]], outDir[cur[d]])
         [ComputeTurn(inDir[cur[d]], outDir[cur[d]]) - i])
OutLaneOwn(d) == d

(* The path of the car that is crossing, and its i-th mutex (from 0).      *)
Path(d)       == ComputePath(inDir[cur[d]], outDir[cur[d]])
NumQuads(d)   == ComputeTurn(inDir[cur[d]], outDir[cur[d]])
PathLock(d, i) == Quad(Path(d)[i + 1])
OutLane(d)    == outDir[cur[d]]

(* Seeded bug: the consumer looks at the ring without the lane's lock.     *)
CrossLockNone(d) ==
  /\ cpc[d] = "lock"
  /\ cpc' = [cpc EXCEPT ![d] = "locked"]
  /\ UNCHANGED <<crossRest, head, inBuf, next, outCars, passed, freed, owner, apc, ci,
                 cur, k, spurious>>

CrossLock(d) ==
  /\ cpc[d] = "lock"
  /\ Acquire(LaneLock(d), <<"cross", d>>)
  /\ cpc' = [cpc EXCEPT ![d] = "locked"]
  /\ UNCHANGED <<crossRest, head, inBuf, next, outCars, passed, freed, apc, ci, cur,
                 k, spurious>>

CrossWait(d) ==
  /\ cpc[d] = "locked" /\ inBuf[d] = 0
  /\ Release(LaneLock(d))
  /\ cpc' = [cpc EXCEPT ![d] = "wait"]
  /\ UNCHANGED <<crossRest, head, inBuf, next, outCars, passed, freed, apc, ci, cur,
                 k, spurious>>

(* Seeded bugs: in_buf-- forgotten after read_from_buf; "if" in place of   *)
(* "while" around the wait, and no test in read_from_buf.                  *)
ReadFromBufKeep(d) ==
  /\ cpc[d] = "locked" /\ inBuf[d] # 0
  /\ cur'  = [cur EXCEPT ![d] = buffer[d][head[d]]]
  /\ head' = [head EXCEPT ![d] = (@ + 1) % Capacity]
  /\ cpc' = [cpc EXCEPT ![d] = "read"]
  /\ UNCHANGED <<crossRest, inBuf, next, outCars, passed, freed, owner, apc, ci, k,
                 spurious>>
ReadFromBufBlind(d) ==
  /\ cpc[d] = "locked"
  /\ cur'   = [cur EXCEPT ![d] = buffer[d][head[d]]]
  /\ head'  = [head EXCEPT ![d] = (@ + 1) % Capacity]
  /\ inBuf' = [inBuf EXCEPT ![d] = @ - 1]
  /\ cpc' = [cpc EXCEPT ![d] = "read"]
  /\ UNCHANGED <<crossRest, next, outCars, passed, freed, owner, apc, ci, k,
                 spurious>>

(* read_from_buf and l->in_buf--.  It cannot return NULL: in_buf was just   *)
(* tested under the lock, so the exit for that case is never taken.        *)
ReadFromBuf(d) ==
  /\ cpc[d] = "locked" /\ inBuf[d] # 0
  /\ cur'   = [cur EXCEPT ![d] = buffer[d][head[d]]]
  /\ head'  = [head EXCEPT ![d] = (@ + 1) % Capacity]
  /\ inBuf' = [inBuf EXCEPT ![d] = @ - 1]
  /\ cpc' = [cpc EXCEPT ![d] = "read"]
  /\ UNCHANGED <<crossRest, next, outCars, passed, freed, owner, apc, ci, k,
                 spurious>>

(* Seeded bug: the producer is not signalled.                              *)
CrossUnlockOnly(d) ==
  /\ cpc[d] = "read"
  /\ Release(LaneLock(d))
  /\ k' = [k EXCEPT ![d] = 0]
  /\ cpc' = [cpc EXCEPT ![d] = "quads"]
  /\ UNCHANGED <<crossRest, head, inBuf, next, outCars, passed, freed, apc, ci, cur,
                 spurious>>

CrossSignalUnlock(d) ==
  /\ cpc[d] = "read"
  /\ apc' = [apc EXCEPT ![d] = Woken(@)]
  /\ Release(LaneLock(d))
  /\ k' = [k EXCEPT ![d] = 0]
  /\ cpc' = [cpc EXCEPT ![d] = "quads"]
  /\ UNCHANGED <<crossRest, head, inBuf, next, outCars, passed, freed, ci, cur,
                 spurious>>

(* Seeded bug: the last quadrant of the path is left out.                  *)
LastQuadEarly(d) == k[d] + 2 >= NumQuads(d)

(* The loop of set_isection_locks ends with the iteration at hand.         *)
LastQuad(d) == k[d] + 1 >= NumQuads(d)

(* One iteration of set_isection_locks(.., LOCK); the last one goes on.    *)
AcquireQuad(d) ==
  /\ cpc[d] = "quads"
  /\ Acquire(PathLock(d, k[d]), <<"cross", d>>)
  /\ k'   = [k EXCEPT ![d] = IF LastQuad(d) THEN 0 ELSE @ + 1]
  /\ cpc' = [cpc EXCEPT ![d] = IF LastQuad(d) THEN "link" ELSE @]
  /\ UNCHANGED <<crossRest, head, inBuf, next, outCars, passed, freed, apc, ci, cur,
                 spurious>>

(* complete_cross, its two stores: car->next, then the head of the list.   *)
LinkCar(d) ==
  /\ cpc[d] = "link"
  /\ next' = [next EXCEPT ![cur[d]] = outCars[OutLane(d)]]
  /\ cpc' = [cpc EXCEPT ![d] = "publish"]
  /\ UNCHANGED <<crossRest, head, inBuf, outCars, passed, freed, owner, apc, ci, cur,
                 k, spurious>>

PublishCar(d) ==
  /\ cpc[d] = "publish"
  /\ outCars' = [outCars EXCEPT ![OutLane(d)] = cur[d]]
  /\ passed' = [passed EXCEPT ![d] = @ + 1]
  /\ cpc' = [cpc EXCEPT ![d] = "release"]
  /\ UNCHANGED <<crossRest, head, inBuf, next, freed, owner, apc, ci, cur, k,
                 spurious>>

(* Seeded bug: car_cross leaves its loop one car early.                    *)
ReleaseQuadShort(d) ==
  /\ cpc[d] = "release"
  /\ Release(PathLock(d, k[d]))
  /\ k'   = [k EXCEPT ![d] = IF LastQuad(d) THEN 0 ELSE @ + 1]
  /\ ci'  = [ci EXCEPT ![d] = IF LastQuad(d) THEN @ + 1 ELSE @]
  /\ cpc' = [cpc EXCEPT ![d] = IF ~LastQuad(d) THEN @
                               ELSE IF ci[d] + 2 < inc[d] THEN "lock" ELSE "free"]
  /\ UNCHANGED <<crossRest, head, inBuf, next, outCars, passed, freed, apc, cur,
                 spurious>>

(* One iteration of set_isection_locks(.., UNLOCK), in the same order; the *)
(* last one ends the iteration of car_cross.                               *)
ReleaseQuad(d) ==
  /\ cpc[d] = "release"
  /\ Release(PathLock(d, k[d]))
  /\ k'   = [k EXCEPT ![d] = IF LastQuad(d) THEN 0 ELSE @ + 1]
  /\ ci'  = [ci EXCEPT ![d] = IF LastQuad(d) THEN @ + 1 ELSE @]
  /\ cpc' = [cpc EXCEPT ![d] = IF ~LastQuad(d) THEN @
                               ELSE IF ci[d] + 1 < inc[d] THEN "lock" ELSE "free"]
  /\ UNCHANGED <<crossRest, head, inBuf, next, outCars, passed, freed, apc, cur,
                 spurious>>

FreeBuffer(d) ==
  /\ cpc[d] = "free"
  /\ freed' = [freed EXCEPT ![d] = TRUE]
  /\ cpc' = [cpc EXCEPT ![d] = "done"]
  /\ UNCHANGED <<crossRest, head, inBuf, next, outCars, passed, owner, apc, ci, cur,
                 k, spurious>>

CrossSpurious(d) ==
  /\ cpc[d] = "wait" /\ spurious < MaxSpurious
  /\ cpc' = [cpc EXCEPT ![d] = Woken(@)]
  /\ spurious' = spurious + 1
  /\ UNCHANGED <<crossRest, head, inBuf, next, outCars, passed, freed, owner, apc, ci,
                 cur, k>>

Cross(d) ==
  \/ CrossLock(d) \/ CrossWait(d) \/ ReadFromBuf(d) \/ CrossSignalUnlock(d)
  \/ AcquireQuad(d) \/ LinkCar(d) \/ PublishCar(d) \/ ReleaseQuad(d) \/ FreeBuffer(d)

(***************************************************************************)
(* The whole program.  A returned main stays returned.                     *)
(***************************************************************************)
Terminated == main = "done" /\ UNCHANGED vars

Next ==
  \/ \E t \in Turns : ParseLine(t[1], t[2])
  \/ StartThreads
  \/ \E d \in Dir : \/ Arrive(d) \/ ArriveSpurious(d)
                    \/ Cross(d) \/ CrossSpurious(d)
  \/ JoinAndVerify
  \/ Terminated

(* main and every runnable thread are scheduled again and again; nothing   *)
(* obliges the input to have another line or a wait to return unsignalled. *)
Fairness ==
  /\ WF_vars(StartThreads) /\ WF_vars(JoinAndVerify)
  /\ \A d \in Dir : WF_vars(Arrive(d)) /\ WF_vars(Cross(d))

Spec     == Init /\ [][Next]_vars
FairSpec == Spec /\ Fairness

-----------------------------------------------------------------------------
(***************************************************************************)
(* Properties.                                                             *)
(***************************************************************************)
Crossing(d)  == cpc[d] \in {"link", "publish"}
PathQuads(d) == {Path(d)[i] : i \in 1..NumQuads(d)}

(* Two cars whose paths share a quadrant are never both in the             *)
(* intersection (cars.c:269-284).                                          *)
PathExclusive ==
  \A d, e \in Dir : d # e /\ Crossing(d) /\ Crossing(e)
                      => PathQuads(d) \cap PathQuads(e) = {}

(* complete_cross takes no lock of the list it changes: that two crossing  *)
(* threads never push on one out_cars list, losing a car, rests on every   *)
(* path to a lane passing through that lane's quadrant (cars.c:276).       *)
OutListExclusive ==
  \A d, e \in Dir : d # e /\ Crossing(d) /\ Crossing(e) => OutLane(d) # OutLane(e)

(* The mutex a thread is about to take, if any.                            *)
Wants(t) ==
  LET d == t[2] IN
  IF t[1] = "arrive" THEN IF apc[d] = "lock" THEN {LaneLock(d)} ELSE {}
  ELSE CASE cpc[d] = "lock"  -> {LaneLock(d)}
         [] cpc[d] = "quads" -> {PathLock(d, k[d])}
         [] OTHER            -> {}

(* A thread holds only mutexes of a lower address than the one it waits    *)
(* for, so no circle of threads can wait for each other.  The order        *)
(* 1 > 2 > 3 > 4 of traffic.h:78 is this order, and it still is one when   *)
(* quadrant 4 is the lock of lanes[NORTH].                                 *)
LockOrder ==
  \A t \in Threads : \A m \in Wants(t) : \A h \in Mutexes : owner[h] = t => h < m

(* The next step of the thread waits neither for a mutex nor for a signal. *)
ArriveReady(d) ==
  \/ apc[d] \in {"locked", "written"}
  \/ apc[d] = "lock" /\ owner[LaneLock(d)] = NoThread
CrossReady(d) ==
  \/ cpc[d] \in {"locked", "read", "link", "publish", "release", "free"}
  \/ cpc[d] = "lock" /\ owner[LaneLock(d)] = NoThread
  \/ cpc[d] = "quads" /\ owner[PathLock(d, k[d])] = NoThread

(* Never do all threads that have not returned wait for each other, be it  *)
(* for mutexes or for signals (cars.c:149, 202, 249).                      *)
NoDeadlock ==
  main = "run" => \/ \A d \in Dir : apc[d] = "done" /\ cpc[d] = "done"
                  \/ \E d \in Dir : ArriveReady(d) \/ CrossReady(d)

(* car_cross frees the ring buffer (cars.c:296) only when car_arrive of    *)
(* the lane will never store into it again.                                *)
NoUseAfterFree == \A d \in Dir : freed[d] => apc[d] = "done"

(* A thread sleeps on a condition variable only while what it waits for    *)
(* does not hold, or its partner holds the lane and is about to signal     *)
(* (cars.c:195-202 and 245-262).                                           *)
NoLostWakeup ==
  \A d \in Dir :
    /\ apc[d] = "wait" => inBuf[d] = Capacity \/ cpc[d] = "read"
    /\ cpc[d] = "wait" => inBuf[d] = 0 \/ apc[d] = "written"

(* head, tail and in_buf describe one circular interval: the slots the     *)
(* consumer will read are those the producer filled (cars.c:105-133).      *)
BufferCoherent == \A d \in Dir : tail[d] = (head[d] + inBuf[d]) % Capacity

(* Every trip of the two loops moves one car, so the ring holds what was   *)
(* produced and not yet consumed, and neither thread outruns inc.          *)
Produced(d) == ai[d] + (IF apc[d] = "written" THEN 1 ELSE 0)
Consumed(d) == ci[d] + (IF cpc[d] \in {"read", "quads", "link", "publish", "release"}
                          THEN 1 ELSE 0)
CountsAgree ==
  /\ BufferCoherent
  /\ \A d \in Dir : /\ inBuf[d] = Produced(d) - Consumed(d)
                     /\ Produced(d) <= inc[d]

(* While the threads run, the list and the ring of a lane change only when *)
(* one of that lane's own threads holds the lane's lock.                   *)
LaneDataGuarded ==
  [][ \A d \in Dir :
        /\ main = "run"
        /\ <<inCars[d], buffer[d], head[d], tail[d], inBuf[d]>>
             # <<inCars[d], buffer[d], head[d], tail[d], inBuf[d]>>'
        => owner[LaneLock(d)] \in {<<"arrive", d>>, <<"cross", d>>} ]_vars

(* cars.c:260-261: once the consumer has released the lane's lock, "the    *)
(* producer can continue it's work, while the consumer attempts to acquire *)
(* quad locks".  Not so for a NORTH car whose path has quadrant 4.         *)
ProducerNotBlockedByCrossing ==
  \A d \in Dir : cpc[d] \in {"quads", "link", "publish", "release"}
                   => owner[LaneLock(d)] # <<"cross", d>>

(* The program ends: every car of every lane crosses and both joins of     *)
(* main succeed (no deadlock, no missed signal).                           *)
Termination == <>(main = "done")
=============================================================================
