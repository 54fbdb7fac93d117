------------------------- MODULE IntersectionProofs -------------------------
(***************************************************************************)
(* The safety properties of the intersection, for every schedule length,   *)
(* lane capacity and set of turns.                                         *)
(***************************************************************************)
EXTENDS IntersectionInv, FiniteSetTheorems, TLAPS

(***************************************************************************)
(* The paths of cars.c.                                                    *)
(***************************************************************************)
(* The quadrant in front of lane d: every car that leaves by d passes it.  *)
ExitQuad(d) == d + 1

(* The table of build_path_array, row by row.                              *)
LEMMA PathTable ==
  /\ \A in \in Dir : BuildPath(in, 4) = <<1, 2, 3, 4>>
  /\ BuildPath(0, 1) = <<2>> /\ BuildPath(0, 2) = <<2, 3>> /\ BuildPath(0, 3) = <<2, 3, 4>>
  /\ BuildPath(1, 1) = <<3>> /\ BuildPath(1, 2) = <<3, 4>> /\ BuildPath(1, 3) = <<1, 3, 4>>
  /\ BuildPath(2, 1) = <<4>> /\ BuildPath(2, 2) = <<1, 4>> /\ BuildPath(2, 3) = <<1, 2, 4>>
  /\ BuildPath(3, 1) = <<1>> /\ BuildPath(3, 2) = <<1, 2>> /\ BuildPath(3, 3) = <<1, 2, 3>>
BY DEF BuildPath, NORTH, WEST, SOUTH, EAST, U_TURN, RIGHT_TURN, LEFT_TURN, NO_TURN

(* compute_turn, row by row.                                               *)
LEMMA TurnTable ==
  /\ ComputeTurn(0, 0) = 4 /\ ComputeTurn(0, 1) = 1
  /\ ComputeTurn(0, 2) = 2 /\ ComputeTurn(0, 3) = 3
  /\ ComputeTurn(1, 0) = 3 /\ ComputeTurn(1, 1) = 4
  /\ ComputeTurn(1, 2) = 1 /\ ComputeTurn(1, 3) = 2
  /\ ComputeTurn(2, 0) = 2 /\ ComputeTurn(2, 1) = 3
  /\ ComputeTurn(2, 2) = 4 /\ ComputeTurn(2, 3) = 1
  /\ ComputeTurn(3, 0) = 1 /\ ComputeTurn(3, 1) = 2
  /\ ComputeTurn(3, 2) = 3 /\ ComputeTurn(3, 3) = 4
BY DEF ComputeTurn, U_TURN, RIGHT_TURN, LEFT_TURN, NO_TURN

(* Every path has as many quadrants as its turn says, all of them 1 to 4,  *)
(* in strictly increasing order (the order of the locks, cars.c:308-398).  *)
LEMMA PathShape ==
  ASSUME NEW in \in Dir, NEW out \in Dir
  PROVE  /\ ComputeTurn(in, out) \in 1..4
         /\ \A i \in 1..ComputeTurn(in, out) : ComputePath(in, out)[i] \in 1..4
         /\ \A i, j \in 1..ComputeTurn(in, out) :
              i < j => ComputePath(in, out)[i] < ComputePath(in, out)[j]
<1>1. out = 0 \/ out = 1 \/ out = 2 \/ out = 3
  BY DEF Dir
<1>2. CASE in = 0
  BY <1>1, <1>2, PathTable, TurnTable DEF ComputePath
<1>3. CASE in = 1
  BY <1>1, <1>3, PathTable, TurnTable DEF ComputePath
<1>4. CASE in = 2
  BY <1>1, <1>4, PathTable, TurnTable DEF ComputePath
<1>5. CASE in = 3
  BY <1>1, <1>5, PathTable, TurnTable DEF ComputePath
<1> QED
  BY <1>2, <1>3, <1>4, <1>5 DEF Dir

(* Every path to a lane holds the quadrant in front of that lane.          *)
LEMMA PathHasExit ==
  ASSUME NEW in \in Dir, NEW out \in Dir
  PROVE  \E i \in 1..ComputeTurn(in, out) : ComputePath(in, out)[i] = ExitQuad(out)
<1>1. out = 0 \/ out = 1 \/ out = 2 \/ out = 3
  BY DEF Dir
<1>2. CASE in = 0
  BY <1>1, <1>2, PathTable, TurnTable DEF ComputePath, ExitQuad
<1>3. CASE in = 1
  BY <1>1, <1>3, PathTable, TurnTable DEF ComputePath, ExitQuad
<1>4. CASE in = 2
  BY <1>1, <1>4, PathTable, TurnTable DEF ComputePath, ExitQuad
<1>5. CASE in = 3
  BY <1>1, <1>5, PathTable, TurnTable DEF ComputePath, ExitQuad
<1> QED
  BY <1>2, <1>3, <1>4, <1>5 DEF Dir

(***************************************************************************)
(* The intersection.                                                       *)
(***************************************************************************)
USE CapacityAssumption, CarsAssumption, TurnsAssumption, SpuriousAssumption,
    NoThreadAssumption

(* A line of the schedule names two directions.                            *)
LEMMA TurnDirs == \A t \in Turns : t[1] \in Dir /\ t[2] \in Dir
OBVIOUS

(* What set_isection_locks needs of the crossing car's path.               *)
LEMMA PathFacts ==
  ASSUME TypeOK, NEW d \in Dir, cur[d] \in Cars
  PROVE  /\ NumQuads(d) \in 1..4
         /\ \A i \in 0..(NumQuads(d) - 1) : PathLock(d, i) \in 1..4
         /\ \A i, j \in 0..(NumQuads(d) - 1) : i < j => PathLock(d, i) < PathLock(d, j)
<1>1. inDir[cur[d]] \in Dir /\ outDir[cur[d]] \in Dir
  BY DEF TypeOK, SetupType
<1> QED
  BY <1>1, PathShape DEF NumQuads, PathLock, Path, Quad

(* A consumer that has a car has one of its own lane, with a proper path.  *)
LEMMA HandFacts ==
  ASSUME IInv, NEW d \in Dir, cpc[d] \in HasCar
  PROVE  /\ cur[d] \in Cars /\ NumQuads(d) \in 1..4
         /\ OutLane(d) \in Dir
<1>1. cur[d] \in Cars
  BY DEF IInv, HandInv, HandOK, Left
<1> QED
  BY <1>1, PathFacts DEF IInv, OutLane, TypeOK, SetupType

(* Inside the two loops of set_isection_locks the counter is in range.     *)
LEMMA QuadIndex ==
  ASSUME IInv, NEW d \in Dir, cpc[d] \in {"quads", "release"}
  PROVE  k[d] \in Nat /\ k[d] < NumQuads(d) /\ NumQuads(d) \in 1..4
<1>1. k[d] \in Nat
  BY DEF IInv, TypeOK, CounterType
<1>2. k[d] < NumQuads(d)
  BY DEF IInv, HandInv, HandOK
<1> QED
  BY <1>1, <1>2, HandFacts DEF HasCar

(* A producer that may write has a car to write.                           *)
LEMMA ListNotEmpty ==
  ASSUME IInv, NEW d \in Dir, ai[d] < inc[d], apc[d] # "written"
  PROVE  inCars[d] \in Cars /\ inDir[inCars[d]] = d /\ inCars[d] \in Pending(d)
<1>1. Cardinality(Pending(d)) # 0
  BY DEF IInv, ListInv, ListOK, Produced, TypeOK, SetupType, CounterType
<1>2. inCars[d] # NULL
  <2>1. SUFFICES ASSUME inCars[d] = NULL PROVE Pending(d) = {}
    BY <1>1, FS_EmptySet
  <2> QED
    BY <2>1 DEF Pending, NULL
<1>3. inCars[d] \in Cars /\ inDir[inCars[d]] = d
  BY <1>2 DEF IInv, ListInv, ListOK, TypeOK, ListType
<1> QED
  BY <1>3 DEF Pending, Cars

(* Types are preserved.                                                    *)
LEMMA TypeNext ==
  ASSUME IInv, [Next]_vars
  PROVE  TypeOK'
<1> USE DEF IInv, TypeOK, setupVars, carVars, bufVars
<1>1. ASSUME NEW t \in Turns, ParseLine(t[1], t[2]) PROVE TypeOK'
  <2>1. parsed' \in 0..MaxCars /\ parsed' \in Cars
    BY <1>1 DEF ParseLine, Cars, SetupType
  <2>2. inDir' \in [Cars -> Dir] /\ outDir' \in [Cars -> Dir]
    BY <1>1, TurnDirs DEF ParseLine, SetupType
  <2>3. inc' \in [Dir -> Nat]
    BY <1>1, TurnDirs DEF ParseLine, SetupType
  <2>4. next' \in [Cars -> Cars \cup {NULL}] /\ inCars' \in [Dir -> Cars \cup {NULL}]
    BY <1>1, <2>1, TurnDirs DEF ParseLine, ListType
  <2> QED
    BY <1>1, <2>1, <2>2, <2>3, <2>4 DEF SetupType, ListType, RingType, PlaceType,
        CounterType, ParseLine
<1>2. CASE StartThreads
  <2>1. apc' \in [Dir -> arrivePlaces] /\ cpc' \in [Dir -> crossPlaces]
    BY <1>2 DEF StartThreads, arrivePlaces, crossPlaces
  <2> QED
    BY <1>2, <2>1 DEF SetupType, ListType, RingType, PlaceType,
        CounterType, StartThreads
<1>3. ASSUME NEW d \in Dir, ArriveLock(d) PROVE TypeOK'
  <2>1. owner' \in [Mutexes -> Threads \cup {NoThread}]
    BY <1>3 DEF ArriveLock, PlaceType, Acquire, Release, Threads
  <2>2. apc' \in [Dir -> arrivePlaces]
    BY <1>3 DEF ArriveLock, PlaceType, Woken, arrivePlaces
  <2> QED
    BY <1>3, <2>1, <2>2 DEF SetupType, ListType, RingType, PlaceType,
        CounterType, ArriveLock, arriveRest
<1>4. ASSUME NEW d \in Dir, ArriveWait(d) PROVE TypeOK'
  <2>1. owner' \in [Mutexes -> Threads \cup {NoThread}]
    BY <1>4 DEF ArriveWait, PlaceType, Acquire, Release, Threads
  <2>2. apc' \in [Dir -> arrivePlaces]
    BY <1>4 DEF ArriveWait, PlaceType, Woken, arrivePlaces
  <2> QED
    BY <1>4, <2>1, <2>2 DEF SetupType, ListType, RingType, PlaceType,
        CounterType, ArriveWait, arriveRest
<1>5. ASSUME NEW d \in Dir, WriteToBuf(d) PROVE TypeOK'
  <2>1. inCars[d] \in Cars
    BY <1>5, ListNotEmpty DEF WriteToBuf, LoopInv, LoopOK, ListType
  <2>2. inBuf[d] \in 0..Capacity /\ inBuf[d] # Capacity
    BY <1>5 DEF WriteToBuf, RingType
  <2>3. inBuf[d] + 1 \in 0..Capacity
    BY <1>5, <2>2 DEF RingType
  <2>4. inBuf' \in [Dir -> 0..Capacity]
    BY <1>5, <2>3 DEF WriteToBuf, RingType
  <2>5. tail[d] \in Nat
    BY <1>5 DEF RingType
  <2>6. (tail[d] + 1) % Capacity \in 0..(Capacity - 1)
    BY <1>5, <2>5 DEF RingType
  <2>7. tail' \in [Dir -> 0..(Capacity - 1)]
    BY <1>5, <2>6 DEF WriteToBuf, RingType
  <2>8. inCars' \in [Dir -> Cars \cup {NULL}]
    BY <1>5, <2>1 DEF WriteToBuf, ListType
  <2>9. buffer' \in [Dir -> [0..(Capacity - 1) -> Cars \cup {NULL}]]
    BY <1>5 DEF WriteToBuf, ListType, RingType
  <2>10. apc' \in [Dir -> arrivePlaces]
    BY <1>5 DEF WriteToBuf, PlaceType, Woken, arrivePlaces
  <2> QED
    BY <1>5, <2>1, <2>2, <2>3, <2>4, <2>5, <2>6, <2>7, <2>8, <2>9, <2>10 DEF SetupType, ListType, RingType, PlaceType,
        CounterType, WriteToBuf, arriveRest
<1>6. ASSUME NEW d \in Dir, ArriveSignalUnlock(d) PROVE TypeOK'
  <2>1. owner' \in [Mutexes -> Threads \cup {NoThread}]
    BY <1>6 DEF ArriveSignalUnlock, PlaceType, Acquire, Release, Threads
  <2>2. apc' \in [Dir -> arrivePlaces]
    BY <1>6 DEF ArriveSignalUnlock, PlaceType, Woken, arrivePlaces
  <2>3. cpc' \in [Dir -> crossPlaces]
    BY <1>6 DEF ArriveSignalUnlock, PlaceType, Woken, crossPlaces
  <2>4. ai' \in [Dir -> Nat]
    BY <1>6 DEF ArriveSignalUnlock, CounterType
  <2> QED
    BY <1>6, <2>1, <2>2, <2>3, <2>4 DEF SetupType, ListType, RingType, PlaceType,
        CounterType, ArriveSignalUnlock, arriveRest
<1>7. ASSUME NEW d \in Dir, ArriveSpurious(d) PROVE TypeOK'
  <2>1. apc' \in [Dir -> arrivePlaces]
    BY <1>7 DEF ArriveSpurious, PlaceType, Woken, arrivePlaces
  <2>2. spurious' \in 0..MaxSpurious
    BY <1>7 DEF ArriveSpurious, CounterType
  <2> QED
    BY <1>7, <2>1, <2>2 DEF SetupType, ListType, RingType, PlaceType,
        CounterType, ArriveSpurious, arriveRest
<1>8. ASSUME NEW d \in Dir, CrossLock(d) PROVE TypeOK'
  <2>1. owner' \in [Mutexes -> Threads \cup {NoThread}]
    BY <1>8 DEF CrossLock, PlaceType, Acquire, Release, Threads
  <2>2. cpc' \in [Dir -> crossPlaces]
    BY <1>8 DEF CrossLock, PlaceType, Woken, crossPlaces
  <2> QED
    BY <1>8, <2>1, <2>2 DEF SetupType, ListType, RingType, PlaceType,
        CounterType, CrossLock, crossRest
<1>9. ASSUME NEW d \in Dir, CrossWait(d) PROVE TypeOK'
  <2>1. owner' \in [Mutexes -> Threads \cup {NoThread}]
    BY <1>9 DEF CrossWait, PlaceType, Acquire, Release, Threads
  <2>2. cpc' \in [Dir -> crossPlaces]
    BY <1>9 DEF CrossWait, PlaceType, Woken, crossPlaces
  <2> QED
    BY <1>9, <2>1, <2>2 DEF SetupType, ListType, RingType, PlaceType,
        CounterType, CrossWait, crossRest
<1>10. ASSUME NEW d \in Dir, ReadFromBuf(d) PROVE TypeOK'
  <2>1. cpc' \in [Dir -> crossPlaces]
    BY <1>10 DEF ReadFromBuf, PlaceType, Woken, crossPlaces
  <2>2. head' \in [Dir -> 0..(Capacity - 1)] /\ inBuf' \in [Dir -> 0..Capacity]
    BY <1>10 DEF ReadFromBuf, RingType
  <2>3. cur' \in [Dir -> Cars \cup {NULL}]
    BY <1>10 DEF ReadFromBuf, RingType, CounterType
  <2> QED
    BY <1>10, <2>1, <2>2, <2>3 DEF SetupType, ListType, RingType, PlaceType,
        CounterType, ReadFromBuf, crossRest
<1>11. ASSUME NEW d \in Dir, CrossSignalUnlock(d) PROVE TypeOK'
  <2>1. owner' \in [Mutexes -> Threads \cup {NoThread}]
    BY <1>11 DEF CrossSignalUnlock, PlaceType, Acquire, Release, Threads
  <2>2. apc' \in [Dir -> arrivePlaces]
    BY <1>11 DEF CrossSignalUnlock, PlaceType, Woken, arrivePlaces
  <2>3. cpc' \in [Dir -> crossPlaces]
    BY <1>11 DEF CrossSignalUnlock, PlaceType, Woken, crossPlaces
  <2>4. k' \in [Dir -> 0..4]
    BY <1>11 DEF CrossSignalUnlock, CounterType
  <2> QED
    BY <1>11, <2>1, <2>2, <2>3, <2>4 DEF SetupType, ListType, RingType, PlaceType,
        CounterType, CrossSignalUnlock, crossRest
<1>12. ASSUME NEW d \in Dir, AcquireQuad(d) PROVE TypeOK'
  <2>1. owner' \in [Mutexes -> Threads \cup {NoThread}]
    BY <1>12 DEF AcquireQuad, PlaceType, Acquire, Release, Threads
  <2>2. k[d] \in Nat /\ k[d] < NumQuads(d) /\ NumQuads(d) \in 1..4
    BY <1>12, QuadIndex DEF AcquireQuad
  <2>3. k[d] + 1 \in 0..4 \/ LastQuad(d)
    BY <1>12, <2>2 DEF LastQuad
  <2>4. k' \in [Dir -> 0..4]
    BY <1>12, <2>3 DEF AcquireQuad, CounterType
  <2>5. cpc' \in [Dir -> crossPlaces]
    BY <1>12 DEF AcquireQuad, PlaceType, Woken, crossPlaces
  <2> QED
    BY <1>12, <2>1, <2>2, <2>3, <2>4, <2>5 DEF SetupType, ListType, RingType, PlaceType,
        CounterType, AcquireQuad, crossRest
<1>13. ASSUME NEW d \in Dir, LinkCar(d) PROVE TypeOK'
  <2>1. next' \in [Cars -> Cars \cup {NULL}]
    BY <1>13, HandFacts DEF LinkCar, HasCar, ListType
  <2>2. cpc' \in [Dir -> crossPlaces]
    BY <1>13 DEF LinkCar, PlaceType, Woken, crossPlaces
  <2> QED
    BY <1>13, <2>1, <2>2 DEF SetupType, ListType, RingType, PlaceType,
        CounterType, LinkCar, crossRest
<1>14. ASSUME NEW d \in Dir, PublishCar(d) PROVE TypeOK'
  <2>1. outCars' \in [Dir -> Cars \cup {NULL}]
    BY <1>14 DEF PublishCar, CounterType, ListType
  <2>2. passed' \in [Dir -> Nat]
    BY <1>14 DEF PublishCar, ListType
  <2>3. cpc' \in [Dir -> crossPlaces]
    BY <1>14 DEF PublishCar, PlaceType, Woken, crossPlaces
  <2> QED
    BY <1>14, <2>1, <2>2, <2>3 DEF SetupType, ListType, RingType, PlaceType,
        CounterType, PublishCar, crossRest
<1>15. ASSUME NEW d \in Dir, ReleaseQuad(d) PROVE TypeOK'
  <2>1. owner' \in [Mutexes -> Threads \cup {NoThread}]
    BY <1>15 DEF ReleaseQuad, PlaceType, Acquire, Release, Threads
  <2>2. k[d] \in Nat /\ k[d] < NumQuads(d) /\ NumQuads(d) \in 1..4
    BY <1>15, QuadIndex DEF ReleaseQuad
  <2>3. k[d] + 1 \in 0..4 \/ LastQuad(d)
    BY <1>15, <2>2 DEF LastQuad
  <2>4. k' \in [Dir -> 0..4]
    BY <1>15, <2>3 DEF ReleaseQuad, CounterType
  <2>5. cpc' \in [Dir -> crossPlaces]
    BY <1>15 DEF ReleaseQuad, PlaceType, Woken, crossPlaces
  <2>6. ci' \in [Dir -> Nat]
    BY <1>15 DEF ReleaseQuad, CounterType
  <2> QED
    BY <1>15, <2>1, <2>2, <2>3, <2>4, <2>5, <2>6 DEF SetupType, ListType, RingType, PlaceType,
        CounterType, ReleaseQuad, crossRest
<1>16. ASSUME NEW d \in Dir, FreeBuffer(d) PROVE TypeOK'
  <2>1. freed' \in [Dir -> BOOLEAN]
    BY <1>16 DEF FreeBuffer, RingType
  <2>2. cpc' \in [Dir -> crossPlaces]
    BY <1>16 DEF FreeBuffer, PlaceType, Woken, crossPlaces
  <2> QED
    BY <1>16, <2>1, <2>2 DEF SetupType, ListType, RingType, PlaceType,
        CounterType, FreeBuffer, crossRest
<1>17. ASSUME NEW d \in Dir, CrossSpurious(d) PROVE TypeOK'
  <2>1. cpc' \in [Dir -> crossPlaces]
    BY <1>17 DEF CrossSpurious, PlaceType, Woken, crossPlaces
  <2>2. spurious' \in 0..MaxSpurious
    BY <1>17 DEF CrossSpurious, CounterType
  <2> QED
    BY <1>17, <2>1, <2>2 DEF SetupType, ListType, RingType, PlaceType,
        CounterType, CrossSpurious, crossRest
<1>18. CASE JoinAndVerify
  BY <1>18 DEF JoinAndVerify, SetupType, ListType, RingType, PlaceType,
        CounterType
<1>19. CASE UNCHANGED vars
  BY <1>19 DEF vars, SetupType, ListType, RingType, PlaceType,
        CounterType
<1> QED
  BY <1>1, <1>2, <1>3, <1>4, <1>5, <1>6, <1>7, <1>8, <1>9, <1>10, <1>11, <1>12, <1>13, <1>14, <1>15, <1>16, <1>17, <1>18, <1>19
  DEF Next, Arrive, Cross, Terminated

(* No thread is created twice, none runs during parsing.                   *)
LEMMA PhaseNext ==
  ASSUME IInv, [Next]_vars
  PROVE  PhaseInv'
<1> USE DEF IInv, PhaseInv, TypeOK, PlaceType, CounterType, setupVars, Woken
<1>1. ASSUME NEW t \in Turns, ParseLine(t[1], t[2]) PROVE PhaseInv'
  BY <1>1 DEF ParseLine
<1>2. CASE StartThreads
  BY <1>2 DEF StartThreads
<1>3. ASSUME NEW d \in Dir, ArriveLock(d) PROVE PhaseInv'
  BY <1>3 DEF ArriveLock, arriveRest
<1>4. ASSUME NEW d \in Dir, ArriveWait(d) PROVE PhaseInv'
  BY <1>4 DEF ArriveWait, arriveRest
<1>5. ASSUME NEW d \in Dir, WriteToBuf(d) PROVE PhaseInv'
  BY <1>5 DEF WriteToBuf, arriveRest
<1>6. ASSUME NEW d \in Dir, ArriveSignalUnlock(d) PROVE PhaseInv'
  BY <1>6 DEF ArriveSignalUnlock, arriveRest
<1>7. ASSUME NEW d \in Dir, ArriveSpurious(d) PROVE PhaseInv'
  BY <1>7 DEF ArriveSpurious, arriveRest
<1>8. ASSUME NEW d \in Dir, CrossLock(d) PROVE PhaseInv'
  BY <1>8 DEF CrossLock, crossRest
<1>9. ASSUME NEW d \in Dir, CrossWait(d) PROVE PhaseInv'
  BY <1>9 DEF CrossWait, crossRest
<1>10. ASSUME NEW d \in Dir, ReadFromBuf(d) PROVE PhaseInv'
  BY <1>10 DEF ReadFromBuf, crossRest
<1>11. ASSUME NEW d \in Dir, CrossSignalUnlock(d) PROVE PhaseInv'
  BY <1>11 DEF CrossSignalUnlock, crossRest
<1>12. ASSUME NEW d \in Dir, AcquireQuad(d) PROVE PhaseInv'
  BY <1>12 DEF AcquireQuad, crossRest
<1>13. ASSUME NEW d \in Dir, LinkCar(d) PROVE PhaseInv'
  BY <1>13 DEF LinkCar, crossRest
<1>14. ASSUME NEW d \in Dir, PublishCar(d) PROVE PhaseInv'
  BY <1>14 DEF PublishCar, crossRest
<1>15. ASSUME NEW d \in Dir, ReleaseQuad(d) PROVE PhaseInv'
  BY <1>15 DEF ReleaseQuad, crossRest
<1>16. ASSUME NEW d \in Dir, FreeBuffer(d) PROVE PhaseInv'
  BY <1>16 DEF FreeBuffer, crossRest
<1>17. ASSUME NEW d \in Dir, CrossSpurious(d) PROVE PhaseInv'
  BY <1>17 DEF CrossSpurious, crossRest
<1>18. CASE JoinAndVerify
  BY <1>18 DEF JoinAndVerify
<1>19. CASE UNCHANGED vars
  BY <1>19 DEF vars
<1> QED
  BY <1>1, <1>2, <1>3, <1>4, <1>5, <1>6, <1>7, <1>8, <1>9, <1>10, <1>11, <1>12, <1>13, <1>14, <1>15, <1>16, <1>17, <1>18, <1>19
  DEF Next, Arrive, Cross, Terminated

(* Every signal reaches the thread that may be asleep.                     *)
LEMMA WakeupNext ==
  ASSUME IInv, [Next]_vars
  PROVE  NoLostWakeup'
<1> USE DEF IInv, NoLostWakeup, LoopInv, LoopOK, TypeOK, RingType, PlaceType, setupVars, bufVars, Woken
<1>1. ASSUME NEW t \in Turns, ParseLine(t[1], t[2]) PROVE NoLostWakeup'
  BY <1>1 DEF ParseLine
<1>2. CASE StartThreads
  BY <1>2 DEF StartThreads
<1>3. ASSUME NEW d \in Dir, ArriveLock(d) PROVE NoLostWakeup'
  BY <1>3 DEF ArriveLock, arriveRest
<1>4. ASSUME NEW d \in Dir, ArriveWait(d) PROVE NoLostWakeup'
  BY <1>4 DEF ArriveWait, arriveRest
<1>5. ASSUME NEW d \in Dir, WriteToBuf(d) PROVE NoLostWakeup'
  BY <1>5 DEF WriteToBuf, arriveRest
<1>6. ASSUME NEW d \in Dir, ArriveSignalUnlock(d) PROVE NoLostWakeup'
  BY <1>6 DEF ArriveSignalUnlock, arriveRest
<1>7. ASSUME NEW d \in Dir, ArriveSpurious(d) PROVE NoLostWakeup'
  BY <1>7 DEF ArriveSpurious, arriveRest
<1>8. ASSUME NEW d \in Dir, CrossLock(d) PROVE NoLostWakeup'
  BY <1>8 DEF CrossLock, crossRest
<1>9. ASSUME NEW d \in Dir, CrossWait(d) PROVE NoLostWakeup'
  BY <1>9 DEF CrossWait, crossRest
<1>10. ASSUME NEW d \in Dir, ReadFromBuf(d) PROVE NoLostWakeup'
  BY <1>10 DEF ReadFromBuf, crossRest
<1>11. ASSUME NEW d \in Dir, CrossSignalUnlock(d) PROVE NoLostWakeup'
  BY <1>11 DEF CrossSignalUnlock, crossRest
<1>12. ASSUME NEW d \in Dir, AcquireQuad(d) PROVE NoLostWakeup'
  BY <1>12 DEF AcquireQuad, crossRest
<1>13. ASSUME NEW d \in Dir, LinkCar(d) PROVE NoLostWakeup'
  BY <1>13 DEF LinkCar, crossRest
<1>14. ASSUME NEW d \in Dir, PublishCar(d) PROVE NoLostWakeup'
  BY <1>14 DEF PublishCar, crossRest
<1>15. ASSUME NEW d \in Dir, ReleaseQuad(d) PROVE NoLostWakeup'
  BY <1>15 DEF ReleaseQuad, crossRest
<1>16. ASSUME NEW d \in Dir, FreeBuffer(d) PROVE NoLostWakeup'
  BY <1>16 DEF FreeBuffer, crossRest
<1>17. ASSUME NEW d \in Dir, CrossSpurious(d) PROVE NoLostWakeup'
  BY <1>17 DEF CrossSpurious, crossRest
<1>18. CASE JoinAndVerify
  BY <1>18 DEF JoinAndVerify
<1>19. CASE UNCHANGED vars
  BY <1>19 DEF vars
<1> QED
  BY <1>1, <1>2, <1>3, <1>4, <1>5, <1>6, <1>7, <1>8, <1>9, <1>10, <1>11, <1>12, <1>13, <1>14, <1>15, <1>16, <1>17, <1>18, <1>19
  DEF Next, Arrive, Cross, Terminated

(* A car that has left its list stays out of it: the list only shrinks.    *)
LEMMA LeftStays ==
  ASSUME IInv, [Next]_vars, main # "parse", NEW e \in Dir, NEW c, Left(e, c)
  PROVE  Left(e, c)'
<1> USE DEF Left
<1>1. ASSUME NEW d \in Dir, WriteToBuf(d) PROVE Left(e, c)'
  <2>1. inCars[d] \in Pending(d) /\ inCars[d] \in Cars
    BY <1>1, ListNotEmpty DEF WriteToBuf, IInv, LoopInv, LoopOK
  <2>2. next[inCars[d]] < inCars[d] /\ next[inCars[d]] \in Cars \cup {NULL}
    BY <2>1 DEF IInv, ListInv, ListOK, TypeOK, ListType
  <2>3. inCars' = [inCars EXCEPT ![d] = next[@]] /\ inDir' = inDir /\ parsed' = parsed
    BY <1>1 DEF WriteToBuf, arriveRest, setupVars, carVars
  <2>4. inCars'[e] = IF e = d THEN next[inCars[d]] ELSE inCars[e]
    BY <2>3 DEF IInv, TypeOK, ListType
  <2> QED
    BY <2>1, <2>2, <2>3, <2>4 DEF IInv, TypeOK, ListType, Cars, NULL
<1>2. ASSUME inCars' = inCars, inDir' = inDir, parsed' = parsed PROVE Left(e, c)'
  BY <1>2
<1>3. (\E d \in Dir : WriteToBuf(d)) \/ (inCars' = inCars /\ inDir' = inDir /\ parsed' = parsed)
  BY ZenonT(60) DEF Next, ParseLine, StartThreads, JoinAndVerify, Terminated, Arrive, Cross,
         ArriveLock, ArriveWait, ArriveSignalUnlock, ArriveSpurious, CrossLock,
         CrossWait, ReadFromBuf, CrossSignalUnlock, AcquireQuad, LinkCar, PublishCar,
         ReleaseQuad, FreeBuffer, CrossSpurious, vars, setupVars, carVars, bufVars,
         arriveRest, crossRest
<1> QED
  BY <1>1, <1>2, <1>3

(* The car in hand and the position in its path.                           *)
(* The two threads of a lane never hold its lock together.                 *)
LEMMA LaneExclusive ==
  ASSUME IInv, NEW d \in Dir
  PROVE  ~(apc[d] \in {"locked", "written"} /\ cpc[d] \in {"locked", "read"})
<1>1. LaneLock(d) \in Mutexes
  BY DEF LaneLock, Mutexes, Dir
<1>2. LockOK(d)
  BY DEF IInv, LockInv
<1>3. apc[d] \in {"locked", "written"} => owner[LaneLock(d)] = <<"arrive", d>>
  <2>1. owner[LaneLock(d)] = <<"arrive", d>> <=> LaneLock(d) \in ArriveHolds(d)
    BY <1>1, <1>2 DEF LockOK
  <2> QED
    BY <2>1 DEF ArriveHolds
<1>4. cpc[d] \in {"locked", "read"} => owner[LaneLock(d)] = <<"cross", d>>
  <2>1. owner[LaneLock(d)] = <<"cross", d>> <=> LaneLock(d) \in CrossHolds(d)
    BY <1>1, <1>2 DEF LockOK
  <2> QED
    BY <2>1 DEF CrossHolds
<1>5. <<"arrive", d>> # <<"cross", d>>
  OBVIOUS
<1> QED
  BY <1>3, <1>4, <1>5

(* The ring of a lane is empty until the threads start.                    *)
LEMMA EmptyAtStart ==
  ASSUME IInv, main = "parse", NEW d \in Dir
  PROVE  inBuf[d] = 0
<1>1. Produced(d) = 0
  BY DEF IInv, PhaseInv, Produced
<1>2. Consumed(d) = 0
  BY DEF IInv, PhaseInv, Consumed
<1> QED
  BY <1>1, <1>2 DEF IInv, LoopInv, LoopOK

(* Index arithmetic of write_to_buf: the tail moves to the end of a ring   *)
(* that has one more slot, the old tail.                                   *)
LEMMA RingWrite ==
  ASSUME NEW h \in 0..(Capacity - 1), NEW n \in 0..(Capacity - 1)
  PROVE  /\ End(h, n) \in 0..(Capacity - 1)
         /\ (End(h, n) + 1) % Capacity = End(h, n + 1)
         /\ Slots(h, n + 1) \subseteq Slots(h, n) \cup {End(h, n)}
<1>1. Capacity \in Nat \ {0} /\ h \in Nat /\ n \in Nat /\ h < Capacity /\ n < Capacity
  OBVIOUS
<1>2. End(h, n) \in 0..(Capacity - 1)
  BY <1>1 DEF End
<1>3. (End(h, n) + 1) % Capacity = End(h, n + 1)
  <2>1. CASE End(h, n) + 1 < Capacity
    <3>1. (End(h, n) + 1) % Capacity = End(h, n) + 1
      BY <1>1, <1>2, <2>1
    <3> QED
      BY <1>1, <2>1, <3>1 DEF End
  <2>2. CASE End(h, n) + 1 = Capacity
    <3>1. (End(h, n) + 1) % Capacity = 0
      BY <1>1, <2>2
    <3> QED
      BY <1>1, <2>2, <3>1 DEF End
  <2> QED
    BY <1>1, <1>2, <2>1, <2>2
<1>4. Slots(h, n + 1) \subseteq Slots(h, n) \cup {End(h, n)}
  BY <1>1 DEF Slots, End
<1> QED
  BY <1>2, <1>3, <1>4

(* Index arithmetic of read_from_buf: the first slot in use is head, and   *)
(* the ring that starts after it ends at the same place.                   *)
LEMMA RingRead ==
  ASSUME NEW h \in 0..(Capacity - 1), NEW n \in 1..Capacity
  PROVE  /\ h \in Slots(h, n)
         /\ End((h + 1) % Capacity, n - 1) = End(h, n)
         /\ Slots((h + 1) % Capacity, n - 1) \subseteq Slots(h, n)
<1>1. Capacity \in Nat \ {0} /\ h \in Nat /\ n \in Nat \ {0} /\ h < Capacity /\ n <= Capacity
  OBVIOUS
<1>2. h \in Slots(h, n)
  BY <1>1 DEF Slots
<1>3. CASE h + 1 < Capacity
  <2>1. (h + 1) % Capacity = h + 1
    BY <1>1, <1>3
  <2> QED
    BY <1>1, <1>2, <2>1 DEF End, Slots
<1>4. CASE h + 1 = Capacity
  <2>1. (h + 1) % Capacity = 0
    BY <1>1, <1>4
  <2> QED
    BY <1>1, <1>2, <1>4, <2>1 DEF End, Slots
<1> QED
  BY <1>1, <1>3, <1>4

LEMMA HandNext ==
  ASSUME IInv, [Next]_vars, NEW e \in Dir
  PROVE  HandOK(e)'
<1> USE DEF IInv, HandInv, HandOK, PhaseInv, TypeOK, PlaceType, CounterType, setupVars, carVars, HasCar, Woken, NumQuads, Path
<1>1. ASSUME NEW t \in Turns, ParseLine(t[1], t[2]) PROVE HandOK(e)'
  BY <1>1, LeftStays DEF ParseLine
<1>2. CASE StartThreads
  BY <1>2, LeftStays DEF StartThreads
<1>3. ASSUME NEW d \in Dir, ArriveLock(d) PROVE HandOK(e)'
  BY <1>3, LeftStays DEF ArriveLock, arriveRest
<1>4. ASSUME NEW d \in Dir, ArriveWait(d) PROVE HandOK(e)'
  BY <1>4, LeftStays DEF ArriveWait, arriveRest
<1>5. ASSUME NEW d \in Dir, WriteToBuf(d) PROVE HandOK(e)'
  BY <1>5, LeftStays DEF WriteToBuf, arriveRest
<1>6. ASSUME NEW d \in Dir, ArriveSignalUnlock(d) PROVE HandOK(e)'
  BY <1>6, LeftStays DEF ArriveSignalUnlock, arriveRest
<1>7. ASSUME NEW d \in Dir, ArriveSpurious(d) PROVE HandOK(e)'
  BY <1>7, LeftStays DEF ArriveSpurious, arriveRest
<1>8. ASSUME NEW d \in Dir, CrossLock(d) PROVE HandOK(e)'
  BY <1>8, LeftStays DEF CrossLock, crossRest
<1>9. ASSUME NEW d \in Dir, CrossWait(d) PROVE HandOK(e)'
  BY <1>9, LeftStays DEF CrossWait, crossRest
<1>10. ASSUME NEW d \in Dir, ReadFromBuf(d) PROVE HandOK(e)'
  <2>1. main # "parse" /\ inBuf[d] > 0 /\ head[d] \in 0..(Capacity - 1)
    BY <1>10, SMTT(60) DEF ReadFromBuf, RingType, PhaseInv
  <2>2. head[d] \in Slots(head[d], inBuf[d])
    BY <2>1, RingRead DEF RingType
  <2>3. PICK c : c = buffer[d][head[d]] /\ Left(d, c)
    BY <2>1, <2>2 DEF RingInv, RingOK
  <2>4. Left(d, c)' /\ cur'[d] = c
    BY <1>10, <2>1, <2>3, LeftStays DEF ReadFromBuf
  <2> QED
    BY <1>10, <2>1, <2>4, LeftStays DEF ReadFromBuf, crossRest
<1>11. ASSUME NEW d \in Dir, CrossSignalUnlock(d) PROVE HandOK(e)'
  <2>1. /\ main # "parse" /\ UNCHANGED <<inDir, outDir, cur>>
        /\ cpc[d] \in HasCar /\ NumQuads(d) \in 1..4
    BY <1>11, HandFacts DEF CrossSignalUnlock, crossRest, PhaseInv
  <2>2. /\ cpc' = [cpc EXCEPT ![d] = cpc'[d]]
        /\ k' = [k EXCEPT ![d] = k'[d]]
    BY <1>11 DEF CrossSignalUnlock
  <2>3. /\ cpc'[d] \in {"quads", "release"} => k'[d] < NumQuads(d)
        /\ cpc'[d] \in {"link", "publish"} => k'[d] = 0
    BY <1>11, <2>1 DEF CrossSignalUnlock, LastQuad
  <2>4. Left(e, cur[e])' \/ cpc[e] \notin HasCar
    BY <2>1, LeftStays DEF Left
  <2>5. NumQuads(e)' = NumQuads(e)
    BY <2>1
  <2>6. CASE e = d
    BY <2>1, <2>3, <2>4, <2>5, <2>6
  <2>7. CASE e # d
    BY <2>1, <2>2, <2>4, <2>5, <2>7
  <2> QED
    BY <2>6, <2>7
<1>12. ASSUME NEW d \in Dir, AcquireQuad(d) PROVE HandOK(e)'
  <2>1. /\ main # "parse" /\ UNCHANGED <<inDir, outDir, cur>>
        /\ cpc[d] \in HasCar /\ NumQuads(d) \in 1..4
    BY <1>12, HandFacts DEF AcquireQuad, crossRest, PhaseInv
  <2>2. /\ cpc' = [cpc EXCEPT ![d] = cpc'[d]]
        /\ k' = [k EXCEPT ![d] = k'[d]]
    BY <1>12 DEF AcquireQuad
  <2>3. /\ cpc'[d] \in {"quads", "release"} => k'[d] < NumQuads(d)
        /\ cpc'[d] \in {"link", "publish"} => k'[d] = 0
    BY <1>12, <2>1, QuadIndex DEF AcquireQuad, LastQuad
  <2>4. Left(e, cur[e])' \/ cpc[e] \notin HasCar
    BY <2>1, LeftStays DEF Left
  <2>5. NumQuads(e)' = NumQuads(e)
    BY <2>1
  <2>6. CASE e = d
    BY <2>1, <2>3, <2>4, <2>5, <2>6
  <2>7. CASE e # d
    BY <2>1, <2>2, <2>4, <2>5, <2>7
  <2> QED
    BY <2>6, <2>7
<1>13. ASSUME NEW d \in Dir, LinkCar(d) PROVE HandOK(e)'
  BY <1>13, LeftStays DEF LinkCar, crossRest
<1>14. ASSUME NEW d \in Dir, PublishCar(d) PROVE HandOK(e)'
  <2>1. /\ main # "parse" /\ UNCHANGED <<inDir, outDir, cur>>
        /\ cpc[d] \in HasCar /\ NumQuads(d) \in 1..4
    BY <1>14, HandFacts DEF PublishCar, crossRest, PhaseInv
  <2>2. /\ cpc' = [cpc EXCEPT ![d] = cpc'[d]]
        /\ k' = [k EXCEPT ![d] = k'[d]]
    BY <1>14 DEF PublishCar
  <2>3. /\ cpc'[d] \in {"quads", "release"} => k'[d] < NumQuads(d)
        /\ cpc'[d] \in {"link", "publish"} => k'[d] = 0
    BY <1>14, <2>1 DEF PublishCar, LastQuad
  <2>4. Left(e, cur[e])' \/ cpc[e] \notin HasCar
    BY <2>1, LeftStays DEF Left
  <2>5. NumQuads(e)' = NumQuads(e)
    BY <2>1
  <2>6. CASE e = d
    BY <2>1, <2>3, <2>4, <2>5, <2>6
  <2>7. CASE e # d
    BY <2>1, <2>2, <2>4, <2>5, <2>7
  <2> QED
    BY <2>6, <2>7
<1>15. ASSUME NEW d \in Dir, ReleaseQuad(d) PROVE HandOK(e)'
  <2>1. /\ main # "parse" /\ UNCHANGED <<inDir, outDir, cur>>
        /\ cpc[d] \in HasCar /\ NumQuads(d) \in 1..4
    BY <1>15, HandFacts DEF ReleaseQuad, crossRest, PhaseInv
  <2>2. /\ cpc' = [cpc EXCEPT ![d] = cpc'[d]]
        /\ k' = [k EXCEPT ![d] = k'[d]]
    BY <1>15 DEF ReleaseQuad
  <2>3. /\ cpc'[d] \in {"quads", "release"} => k'[d] < NumQuads(d)
        /\ cpc'[d] \in {"link", "publish"} => k'[d] = 0
    BY <1>15, <2>1, QuadIndex DEF ReleaseQuad, LastQuad
  <2>4. Left(e, cur[e])' \/ cpc[e] \notin HasCar
    BY <2>1, LeftStays DEF Left
  <2>5. NumQuads(e)' = NumQuads(e)
    BY <2>1
  <2>6. CASE e = d
    BY <2>1, <2>3, <2>4, <2>5, <2>6
  <2>7. CASE e # d
    BY <2>1, <2>2, <2>4, <2>5, <2>7
  <2> QED
    BY <2>6, <2>7
<1>16. ASSUME NEW d \in Dir, FreeBuffer(d) PROVE HandOK(e)'
  BY <1>16, LeftStays DEF FreeBuffer, crossRest
<1>17. ASSUME NEW d \in Dir, CrossSpurious(d) PROVE HandOK(e)'
  BY <1>17, LeftStays DEF CrossSpurious, crossRest
<1>18. CASE JoinAndVerify
  BY <1>18, LeftStays DEF JoinAndVerify
<1>19. CASE UNCHANGED vars
  BY <1>19, LeftStays DEF vars
<1> QED
  BY <1>1, <1>2, <1>3, <1>4, <1>5, <1>6, <1>7, <1>8, <1>9, <1>10, <1>11, <1>12, <1>13, <1>14, <1>15, <1>16, <1>17, <1>18, <1>19
  DEF Next, Arrive, Cross, Terminated

(* The number of cars in the buffer, from the counters of the loops.       *)
LEMMA LaneCounts ==
  ASSUME IInv, NEW d \in Dir
  PROVE  /\ Produced(d) \in Nat /\ Consumed(d) \in Nat
         /\ inBuf[d] = Produced(d) - Consumed(d)
<1>1. ai[d] \in Nat /\ ci[d] \in Nat
  BY DEF IInv, TypeOK, CounterType
<1>2. inBuf[d] = Produced(d) - Consumed(d)
  BY DEF IInv, LoopInv, LoopOK
<1> QED
  BY <1>1, <1>2 DEF Produced, Consumed

(* The counters of the two loops of a lane.                                *)
LEMMA LoopNext ==
  ASSUME IInv, [Next]_vars, NEW e \in Dir
  PROVE  LoopOK(e)'
<1> USE DEF IInv, LoopInv, LoopOK, PhaseInv, TypeOK, SetupType, RingType, PlaceType, CounterType, setupVars, carVars, bufVars, HasCar, Woken
<1>1. ASSUME NEW t \in Turns, ParseLine(t[1], t[2]) PROVE LoopOK(e)'
  BY <1>1 DEF ParseLine, Produced, Consumed
<1>2. CASE StartThreads
  BY <1>2 DEF StartThreads, Produced, Consumed
<1>3. ASSUME NEW d \in Dir, ArriveLock(d) PROVE LoopOK(e)'
  BY <1>3 DEF ArriveLock, arriveRest, Produced, Consumed
<1>4. ASSUME NEW d \in Dir, ArriveWait(d) PROVE LoopOK(e)'
  BY <1>4 DEF ArriveWait, arriveRest, Produced, Consumed
<1>5. ASSUME NEW d \in Dir, WriteToBuf(d) PROVE LoopOK(e)'
  <2>1. inBuf[d] \in Nat /\ inBuf'[d] = inBuf[d] + 1
    BY <1>5 DEF WriteToBuf
  <2>2. Produced(d)' = Produced(d) + 1 /\ Consumed(d)' = Consumed(d)
    BY <1>5 DEF WriteToBuf, arriveRest, Produced, Consumed
  <2>3. CASE e = d
    <3>1. /\ UNCHANGED <<ai, ci, cpc, inc, freed>>
          /\ apc[d] = "locked" /\ apc'[d] = "written"
      BY <1>5 DEF WriteToBuf, arriveRest
    <3>2. inBuf'[d] = Produced(d)' - Consumed(d)' /\ inBuf'[d] > 0
      <4>1. /\ Produced(d) \in Nat /\ Consumed(d) \in Nat
            /\ inBuf[d] = Produced(d) - Consumed(d)
        BY LaneCounts
      <4> HIDE DEF IInv, LoopInv, LoopOK, PhaseInv, TypeOK, SetupType, RingType, PlaceType,
                   CounterType, setupVars, carVars, bufVars, HasCar, Woken
      <4> QED
        BY <2>1, <2>2, <4>1
    <3> QED
      BY <2>3, <3>1, <3>2
  <2>4. CASE e # d
    BY <1>5, <2>4 DEF WriteToBuf, arriveRest, Produced, Consumed
  <2> QED
    BY <2>3, <2>4
<1>6. ASSUME NEW d \in Dir, ArriveSignalUnlock(d) PROVE LoopOK(e)'
  BY <1>6, SMTT(60) DEF ArriveSignalUnlock, arriveRest, Produced, Consumed
<1>7. ASSUME NEW d \in Dir, ArriveSpurious(d) PROVE LoopOK(e)'
  BY <1>7 DEF ArriveSpurious, arriveRest, Produced, Consumed
<1>8. ASSUME NEW d \in Dir, CrossLock(d) PROVE LoopOK(e)'
  BY <1>8 DEF CrossLock, crossRest, Produced, Consumed
<1>9. ASSUME NEW d \in Dir, CrossWait(d) PROVE LoopOK(e)'
  BY <1>9 DEF CrossWait, crossRest, Produced, Consumed
<1>10. ASSUME NEW d \in Dir, ReadFromBuf(d) PROVE LoopOK(e)'
  <2>1. inBuf[d] \in Nat /\ inBuf'[d] = inBuf[d] - 1
    BY <1>10 DEF ReadFromBuf
  <2>2. Produced(d)' = Produced(d) /\ Consumed(d)' = Consumed(d) + 1
    BY <1>10 DEF ReadFromBuf, crossRest, Produced, Consumed
  <2>3. apc[d] # "written"
    BY <1>10, LaneExclusive DEF ReadFromBuf
  <2>4. CASE e = d
    <3>1. /\ UNCHANGED <<ai, ci, apc, inc, freed>>
          /\ cpc[d] = "locked" /\ cpc'[d] = "read"
      BY <1>10 DEF ReadFromBuf, crossRest
    <3>2. inBuf'[d] = Produced(d)' - Consumed(d)'
      <4>1. /\ Produced(d) \in Nat /\ Consumed(d) \in Nat
            /\ inBuf[d] = Produced(d) - Consumed(d)
        BY LaneCounts
      <4> HIDE DEF IInv, LoopInv, LoopOK, PhaseInv, TypeOK, SetupType, RingType, PlaceType,
                   CounterType, setupVars, carVars, bufVars, HasCar, Woken
      <4> QED
        BY <2>1, <2>2, <4>1
    <3> QED
      BY <2>3, <2>4, <3>1, <3>2
  <2>5. CASE e # d
    BY <1>10, <2>5 DEF ReadFromBuf, crossRest, Produced, Consumed
  <2> QED
    BY <2>4, <2>5
<1>11. ASSUME NEW d \in Dir, CrossSignalUnlock(d) PROVE LoopOK(e)'
  BY <1>11 DEF CrossSignalUnlock, crossRest, Produced, Consumed
<1>12. ASSUME NEW d \in Dir, AcquireQuad(d) PROVE LoopOK(e)'
  BY <1>12 DEF AcquireQuad, crossRest, Produced, Consumed
<1>13. ASSUME NEW d \in Dir, LinkCar(d) PROVE LoopOK(e)'
  BY <1>13 DEF LinkCar, crossRest, Produced, Consumed
<1>14. ASSUME NEW d \in Dir, PublishCar(d) PROVE LoopOK(e)'
  BY <1>14 DEF PublishCar, crossRest, Produced, Consumed
<1>15. ASSUME NEW d \in Dir, ReleaseQuad(d) PROVE LoopOK(e)'
  BY <1>15 DEF ReleaseQuad, crossRest, Produced, Consumed
<1>16. ASSUME NEW d \in Dir, FreeBuffer(d) PROVE LoopOK(e)'
  BY <1>16 DEF FreeBuffer, crossRest, Produced, Consumed
<1>17. ASSUME NEW d \in Dir, CrossSpurious(d) PROVE LoopOK(e)'
  BY <1>17 DEF CrossSpurious, crossRest, Produced, Consumed
<1>18. CASE JoinAndVerify
  BY <1>18 DEF JoinAndVerify, Produced, Consumed
<1>19. CASE UNCHANGED vars
  BY <1>19 DEF vars, Produced, Consumed
<1> QED
  BY <1>1, <1>2, <1>3, <1>4, <1>5, <1>6, <1>7, <1>8, <1>9, <1>10, <1>11, <1>12, <1>13, <1>14, <1>15, <1>16, <1>17, <1>18, <1>19
  DEF Next, Arrive, Cross, Terminated

(* What is between head and tail.                                          *)
LEMMA RingNext ==
  ASSUME IInv, [Next]_vars, NEW e \in Dir
  PROVE  RingOK(e)'
<1> USE DEF IInv, PhaseInv, TypeOK, SetupType, RingType, PlaceType, setupVars, carVars, bufVars
<1>1. ASSUME NEW t \in Turns, ParseLine(t[1], t[2]) PROVE RingOK(e)'
  <2>1. inBuf[e] = 0 /\ head[e] \in 0..(Capacity - 1)
    BY <1>1, EmptyAtStart DEF ParseLine
  <2>2. UNCHANGED <<head, tail, inBuf, buffer>> /\ RingOK(e)
    BY <1>1 DEF ParseLine, RingInv
  <2> QED
    BY <2>1, <2>2, SMTT(60) DEF RingOK, Slots
<1>2. CASE StartThreads
  BY <1>2 DEF StartThreads, Left, RingInv, RingOK
<1>3. ASSUME NEW d \in Dir, ArriveLock(d) PROVE RingOK(e)'
  BY <1>3, LeftStays DEF ArriveLock, arriveRest, RingInv, RingOK
<1>4. ASSUME NEW d \in Dir, ArriveWait(d) PROVE RingOK(e)'
  BY <1>4, LeftStays DEF ArriveWait, arriveRest, RingInv, RingOK
<1>5. ASSUME NEW d \in Dir, WriteToBuf(d) PROVE RingOK(e)'
  <2>1. main # "parse"
    BY <1>5 DEF WriteToBuf, PhaseInv
  <2>2. CASE e # d
    <3>1. UNCHANGED <<head[e], tail[e], inBuf[e], buffer[e]>>
      BY <1>5, <2>2 DEF WriteToBuf, arriveRest
    <3> QED
      BY <2>1, <3>1, LeftStays DEF RingInv, RingOK
  <2>3. CASE e = d
    <3>1. /\ head'[d] = head[d] /\ inBuf'[d] = inBuf[d] + 1
          /\ tail'[d] = (tail[d] + 1) % Capacity
          /\ buffer'[d] = [buffer[d] EXCEPT ![tail[d]] = inCars[d]]
          /\ head[d] \in 0..(Capacity - 1) /\ inBuf[d] \in 0..(Capacity - 1)
          /\ DOMAIN buffer[d] = 0..(Capacity - 1) /\ tail[d] = End(head[d], inBuf[d])
      BY <1>5 DEF WriteToBuf, RingInv, RingOK
    <3>2. PICK c : c = inCars[d]
      OBVIOUS
    <3>3. Left(d, c)'
      <4>1. c \in Pending(d) /\ c \in Cars /\ inDir[c] = d
        BY <1>5, <3>2, ListNotEmpty DEF WriteToBuf, LoopInv, LoopOK
      <4>2. next[c] < c /\ c <= parsed
        BY <3>2, <4>1 DEF ListInv, ListOK
      <4>3. inCars'[d] = next[c] /\ inDir'[c] = d /\ parsed' = parsed
        BY <1>5, <3>2, <4>1 DEF WriteToBuf, arriveRest, ListType
      <4> QED
        BY <4>1, <4>2, <4>3 DEF Left
    <3>4. ASSUME NEW j \in Slots(head[d], inBuf[d] + 1) PROVE Left(d, buffer[d][j])'
      <4>1. CASE j = tail[d]
        <5>1. buffer'[d][j] = c
          BY <3>1, <3>2, <4>1, RingWrite
        <5> QED
          BY <3>3, <5>1 DEF Left
      <4>2. CASE j # tail[d]
        <5>1. PICK b : b = buffer[d][j]
          OBVIOUS
        <5>2. j \in Slots(head[d], inBuf[d])
          <6>1. Slots(head[d], inBuf[d] + 1)
                  \subseteq Slots(head[d], inBuf[d]) \cup {End(head[d], inBuf[d])}
            BY <3>1, RingWrite
          <6> QED
            BY <3>1, <4>2, <6>1
        <5>3. Left(d, b)'
          BY <2>1, <5>1, <5>2, LeftStays DEF RingInv, RingOK
        <5>4. buffer'[d][j] = b
          BY <3>1, <4>2, <5>1, <5>2 DEF Slots
        <5> QED
          BY <5>3, <5>4 DEF Left
      <4> QED
        BY <4>1, <4>2
    <3>5. tail'[d] = End(head'[d], inBuf'[d])
      BY <3>1, RingWrite
    <3> QED
      BY <2>3, <3>1, <3>4, <3>5 DEF RingOK
  <2> QED
    BY <2>2, <2>3
<1>6. ASSUME NEW d \in Dir, ArriveSignalUnlock(d) PROVE RingOK(e)'
  BY <1>6, LeftStays DEF ArriveSignalUnlock, arriveRest, RingInv, RingOK
<1>7. ASSUME NEW d \in Dir, ArriveSpurious(d) PROVE RingOK(e)'
  BY <1>7, LeftStays DEF ArriveSpurious, arriveRest, RingInv, RingOK
<1>8. ASSUME NEW d \in Dir, CrossLock(d) PROVE RingOK(e)'
  BY <1>8, LeftStays DEF CrossLock, crossRest, RingInv, RingOK
<1>9. ASSUME NEW d \in Dir, CrossWait(d) PROVE RingOK(e)'
  BY <1>9, LeftStays DEF CrossWait, crossRest, RingInv, RingOK
<1>10. ASSUME NEW d \in Dir, ReadFromBuf(d) PROVE RingOK(e)'
  <2>1. main # "parse"
    BY <1>10 DEF ReadFromBuf, PhaseInv
  <2>2. CASE e # d
    <3>1. UNCHANGED <<head[e], tail[e], inBuf[e], buffer[e]>>
      BY <1>10, <2>2 DEF ReadFromBuf, crossRest
    <3> QED
      BY <2>1, <3>1, LeftStays DEF RingInv, RingOK
  <2>3. CASE e = d
    <3>1. /\ head[d] \in 0..(Capacity - 1) /\ inBuf[d] \in 1..Capacity
      BY <1>10 DEF ReadFromBuf
    <3>2. /\ head'[d] = (head[d] + 1) % Capacity
          /\ tail'[d] = tail[d] /\ buffer'[d] = buffer[d] /\ inBuf'[d] = inBuf[d] - 1
      BY <1>10 DEF ReadFromBuf, crossRest
    <3>3. ASSUME NEW j \in Slots((head[d] + 1) % Capacity, inBuf[d] - 1)
          PROVE  Left(d, buffer[d][j])'
      <4>1. j \in Slots(head[d], inBuf[d])
        BY <3>1, RingRead
      <4>2. PICK b : b = buffer[d][j]
        OBVIOUS
      <4>3. Left(d, b)'
        BY <2>1, <4>1, <4>2, LeftStays DEF RingInv, RingOK
      <4> QED
        BY <3>2, <4>2, <4>3 DEF Left
    <3>4. tail'[d] = End(head'[d], inBuf'[d])
      BY <3>1, <3>2, RingRead DEF RingInv, RingOK
    <3> QED
      BY <2>3, <3>2, <3>3, <3>4 DEF RingOK
  <2> QED
    BY <2>2, <2>3
<1>11. ASSUME NEW d \in Dir, CrossSignalUnlock(d) PROVE RingOK(e)'
  BY <1>11, LeftStays DEF CrossSignalUnlock, crossRest, RingInv, RingOK
<1>12. ASSUME NEW d \in Dir, AcquireQuad(d) PROVE RingOK(e)'
  BY <1>12, LeftStays DEF AcquireQuad, crossRest, RingInv, RingOK
<1>13. ASSUME NEW d \in Dir, LinkCar(d) PROVE RingOK(e)'
  BY <1>13, LeftStays DEF LinkCar, crossRest, RingInv, RingOK
<1>14. ASSUME NEW d \in Dir, PublishCar(d) PROVE RingOK(e)'
  BY <1>14, LeftStays DEF PublishCar, crossRest, RingInv, RingOK
<1>15. ASSUME NEW d \in Dir, ReleaseQuad(d) PROVE RingOK(e)'
  BY <1>15, LeftStays DEF ReleaseQuad, crossRest, RingInv, RingOK
<1>16. ASSUME NEW d \in Dir, FreeBuffer(d) PROVE RingOK(e)'
  BY <1>16, LeftStays DEF FreeBuffer, crossRest, RingInv, RingOK
<1>17. ASSUME NEW d \in Dir, CrossSpurious(d) PROVE RingOK(e)'
  BY <1>17, LeftStays DEF CrossSpurious, crossRest, RingInv, RingOK
<1>18. CASE JoinAndVerify
  BY <1>18, LeftStays DEF JoinAndVerify, RingInv, RingOK
<1>19. CASE UNCHANGED vars
  BY <1>19 DEF vars, Left, RingInv, RingOK
<1> QED
  BY <1>1, <1>2, <1>3, <1>4, <1>5, <1>6, <1>7, <1>8, <1>9, <1>10, <1>11, <1>12, <1>13, <1>14, <1>15, <1>16, <1>17, <1>18, <1>19
  DEF Next, Arrive, Cross, Terminated

(* What a thread holds depends on its place, its car and its counter only. *)
LEMMA HoldsFrame ==
  ASSUME NEW e \in Dir,
         UNCHANGED <<apc[e], cpc[e], cur[e], k[e], inDir, outDir>>
  PROVE  ArriveHolds(e)' = ArriveHolds(e) /\ CrossHolds(e)' = CrossHolds(e)
BY DEF ArriveHolds, CrossHolds, PathLocks, PathLock, Path, NumQuads

(* The three ways a step changes the mutexes: not at all, ...              *)
LEMMA LockKeep ==
  ASSUME IInv, UNCHANGED owner, NEW e \in Dir,
         ArriveHolds(e)' = ArriveHolds(e), CrossHolds(e)' = CrossHolds(e)
  PROVE  LockOK(e)'
BY DEF IInv, LockInv, LockOK

(* ... thread t takes a free mutex, or releases one that it holds; in both *)
(* cases what the other threads hold stays the same.                       *)
LEMMA LockTake ==
  ASSUME IInv, NEW m \in Mutexes, NEW t \in Threads, Acquire(m, t), NEW e \in Dir,
         IF t = <<"arrive", e>> THEN ArriveHolds(e)' = ArriveHolds(e) \cup {m}
                                ELSE ArriveHolds(e)' = ArriveHolds(e),
         IF t = <<"cross", e>>  THEN CrossHolds(e)' = CrossHolds(e) \cup {m}
                                ELSE CrossHolds(e)' = CrossHolds(e)
  PROVE  LockOK(e)'
<1>1. LockOK(e)
  BY DEF IInv, LockInv
<1>2. <<"arrive", e>> \in Threads /\ <<"cross", e>> \in Threads
  BY DEF Threads
<1>3. owner \in [Mutexes -> Threads \cup {NoThread}]
  BY DEF IInv, TypeOK, PlaceType
<1>4. ASSUME NEW n \in Mutexes
      PROVE  /\ owner'[n] = <<"arrive", e>> <=> n \in ArriveHolds(e)'
             /\ owner'[n] = <<"cross", e>>  <=> n \in CrossHolds(e)'
  <2>1. CASE n = m
    BY <1>1, <1>2, <1>3, <2>1 DEF Acquire, LockOK
  <2>2. CASE n # m
    BY <1>1, <1>3, <2>2 DEF Acquire, LockOK
  <2> QED
    BY <2>1, <2>2
<1> QED
  BY <1>4 DEF LockOK

LEMMA LockGive ==
  ASSUME IInv, NEW m \in Mutexes, NEW t \in Threads, Release(m), owner[m] = t,
         NEW e \in Dir,
         IF t = <<"arrive", e>> THEN ArriveHolds(e)' = ArriveHolds(e) \ {m}
                                ELSE ArriveHolds(e)' = ArriveHolds(e),
         IF t = <<"cross", e>>  THEN CrossHolds(e)' = CrossHolds(e) \ {m}
                                ELSE CrossHolds(e)' = CrossHolds(e)
  PROVE  LockOK(e)'
<1>1. LockOK(e)
  BY DEF IInv, LockInv
<1>2. <<"arrive", e>> \in Threads /\ <<"cross", e>> \in Threads
  BY DEF Threads
<1>3. owner \in [Mutexes -> Threads \cup {NoThread}]
  BY DEF IInv, TypeOK, PlaceType
<1>4. ASSUME NEW n \in Mutexes
      PROVE  /\ owner'[n] = <<"arrive", e>> <=> n \in ArriveHolds(e)'
             /\ owner'[n] = <<"cross", e>>  <=> n \in CrossHolds(e)'
  <2>1. CASE n = m
    BY <1>1, <1>2, <1>3, <2>1 DEF Release, LockOK
  <2>2. CASE n # m
    BY <1>1, <1>3, <2>2 DEF Release, LockOK
  <2> QED
    BY <2>1, <2>2
<1> QED
  BY <1>4 DEF LockOK

(* Each mutex is held by the thread whose place says so, and by no other.  *)
LEMMA LaneHeld ==
  ASSUME IInv, NEW d \in Dir
  PROVE  /\ apc[d] \in {"locked", "written"} => owner[LaneLock(d)] = <<"arrive", d>>
         /\ cpc[d] \in {"locked", "read"} => owner[LaneLock(d)] = <<"cross", d>>
<1>1. LaneLock(d) \in Mutexes
  BY DEF LaneLock, Mutexes, Dir
<1>2. LockOK(d)
  BY DEF IInv, LockInv
<1> QED
  BY <1>1, <1>2 DEF LockOK, ArriveHolds, CrossHolds

LEMMA LockNext ==
  ASSUME IInv, [Next]_vars, NEW e \in Dir
  PROVE  LockOK(e)'
<1> USE DEF IInv, TypeOK, setupVars, carVars, bufVars
<1>1. ASSUME NEW t \in Turns, ParseLine(t[1], t[2]) PROVE LockOK(e)'
  BY <1>1, LockKeep DEF ParseLine, PhaseInv, ArriveHolds, CrossHolds
<1>2. CASE StartThreads
  <2>1. /\ apc'[e] \in {"lock", "done"} /\ cpc'[e] \in {"lock", "free"}
        /\ apc[e] = "created" /\ cpc[e] = "created"
    BY <1>2 DEF StartThreads, PhaseInv
  <2> QED
    BY <1>2, <2>1, LockKeep DEF StartThreads, ArriveHolds, CrossHolds
<1>3. ASSUME NEW d \in Dir, ArriveLock(d) PROVE LockOK(e)'
  <2> DEFINE m == LaneLock(d)
             t == <<"arrive", d>>
  <2>1. m \in Mutexes /\ t \in Threads
    BY DEF LaneLock, Mutexes, Threads, Dir
  <2>2. Acquire(m, t)
    BY <1>3 DEF ArriveLock
  <2>3. CASE e = d
    <3>1. ArriveHolds(e)' = ArriveHolds(e) \cup {m}
      BY <1>3, <2>3 DEF ArriveLock, arriveRest, ArriveHolds, PathLocks, PlaceType, CounterType
    <3>2. CrossHolds(e)' = CrossHolds(e)
      BY <1>3, <2>3 DEF ArriveLock, arriveRest, Woken, CrossHolds, PathLocks, PathLock, Path,
                       NumQuads, PlaceType
    <3> HIDE DEF m
    <3> QED
      BY <2>1, <2>2, <2>3, <3>1, <3>2, LockTake
  <2>4. CASE e # d
    <3>1. ArriveHolds(e)' = ArriveHolds(e) /\ CrossHolds(e)' = CrossHolds(e)
      BY <1>3, <2>4, HoldsFrame DEF ArriveLock, arriveRest, PlaceType, CounterType
    <3>2. t # <<"arrive", e>> /\ t # <<"cross", e>>
      BY <2>4
    <3> HIDE DEF m, t
    <3> QED
      BY <2>1, <2>2, <3>1, <3>2, LockTake
  <2> QED
    BY <2>3, <2>4
<1>4. ASSUME NEW d \in Dir, ArriveWait(d) PROVE LockOK(e)'
  <2> DEFINE m == LaneLock(d)
             t == <<"arrive", d>>
  <2>1. m \in Mutexes /\ t \in Threads
    BY DEF LaneLock, Mutexes, Threads, Dir
  <2>2. Release(m) /\ owner[m] = t
    BY <1>4, <2>1, LaneHeld DEF ArriveWait
  <2>3. CASE e = d
    <3>1. ArriveHolds(e)' = ArriveHolds(e) \ {m}
      BY <1>4, <2>3 DEF ArriveWait, arriveRest, ArriveHolds, PathLocks, PlaceType, CounterType
    <3>2. CrossHolds(e)' = CrossHolds(e)
      BY <1>4, <2>3 DEF ArriveWait, arriveRest, Woken, CrossHolds, PathLocks, PathLock, Path,
                       NumQuads, PlaceType
    <3> HIDE DEF m
    <3> QED
      BY <2>1, <2>2, <2>3, <3>1, <3>2, LockGive
  <2>4. CASE e # d
    <3>1. ArriveHolds(e)' = ArriveHolds(e) /\ CrossHolds(e)' = CrossHolds(e)
      BY <1>4, <2>4, HoldsFrame DEF ArriveWait, arriveRest, PlaceType, CounterType
    <3>2. t # <<"arrive", e>> /\ t # <<"cross", e>>
      BY <2>4
    <3> HIDE DEF m, t
    <3> QED
      BY <2>1, <2>2, <3>1, <3>2, LockGive
  <2> QED
    BY <2>3, <2>4
<1>5. ASSUME NEW d \in Dir, WriteToBuf(d) PROVE LockOK(e)'
  <2>1. ArriveHolds(e)' = ArriveHolds(e) /\ CrossHolds(e)' = CrossHolds(e)
    <3>1. CASE e = d
      BY <1>5, <3>1 DEF WriteToBuf, arriveRest, Woken, ArriveHolds, CrossHolds, PathLocks,
                       PathLock, Path, NumQuads, PlaceType
    <3>2. CASE e # d
      BY <1>5, <3>2, HoldsFrame DEF WriteToBuf, arriveRest, PlaceType, CounterType
    <3> QED
      BY <3>1, <3>2
  <2> QED
    BY <1>5, <2>1, LockKeep DEF WriteToBuf, arriveRest
<1>6. ASSUME NEW d \in Dir, ArriveSignalUnlock(d) PROVE LockOK(e)'
  <2> DEFINE m == LaneLock(d)
             t == <<"arrive", d>>
  <2>1. m \in Mutexes /\ t \in Threads
    BY DEF LaneLock, Mutexes, Threads, Dir
  <2>2. Release(m) /\ owner[m] = t
    BY <1>6, <2>1, LaneHeld DEF ArriveSignalUnlock
  <2>3. CASE e = d
    <3>1. ArriveHolds(e)' = ArriveHolds(e) \ {m}
      BY <1>6, <2>3 DEF ArriveSignalUnlock, arriveRest, ArriveHolds, PathLocks, PlaceType, CounterType
    <3>2. CrossHolds(e)' = CrossHolds(e)
      BY <1>6, <2>3 DEF ArriveSignalUnlock, arriveRest, Woken, CrossHolds, PathLocks, PathLock, Path,
                       NumQuads, PlaceType
    <3> HIDE DEF m
    <3> QED
      BY <2>1, <2>2, <2>3, <3>1, <3>2, LockGive
  <2>4. CASE e # d
    <3>1. ArriveHolds(e)' = ArriveHolds(e) /\ CrossHolds(e)' = CrossHolds(e)
      BY <1>6, <2>4, HoldsFrame DEF ArriveSignalUnlock, arriveRest, PlaceType, CounterType
    <3>2. t # <<"arrive", e>> /\ t # <<"cross", e>>
      BY <2>4
    <3> HIDE DEF m, t
    <3> QED
      BY <2>1, <2>2, <3>1, <3>2, LockGive
  <2> QED
    BY <2>3, <2>4
<1>7. ASSUME NEW d \in Dir, ArriveSpurious(d) PROVE LockOK(e)'
  <2>1. ArriveHolds(e)' = ArriveHolds(e) /\ CrossHolds(e)' = CrossHolds(e)
    <3>1. CASE e = d
      BY <1>7, <3>1 DEF ArriveSpurious, arriveRest, Woken, ArriveHolds, CrossHolds, PathLocks,
                       PathLock, Path, NumQuads, PlaceType
    <3>2. CASE e # d
      BY <1>7, <3>2, HoldsFrame DEF ArriveSpurious, arriveRest, PlaceType, CounterType
    <3> QED
      BY <3>1, <3>2
  <2> QED
    BY <1>7, <2>1, LockKeep DEF ArriveSpurious, arriveRest
<1>8. ASSUME NEW d \in Dir, CrossLock(d) PROVE LockOK(e)'
  <2> DEFINE m == LaneLock(d)
             t == <<"cross", d>>
  <2>1. m \in Mutexes /\ t \in Threads
    BY DEF LaneLock, Mutexes, Threads, Dir
  <2>2. Acquire(m, t)
    BY <1>8 DEF CrossLock
  <2>3. CASE e = d
    <3>1. CrossHolds(e)' = CrossHolds(e) \cup {m}
      BY <1>8, <2>3 DEF CrossLock, crossRest, CrossHolds, PathLocks, PlaceType, CounterType
    <3>2. ArriveHolds(e)' = ArriveHolds(e)
      BY <1>8, <2>3 DEF CrossLock, crossRest, Woken, ArriveHolds, PathLocks, PathLock, Path,
                       NumQuads, PlaceType
    <3> HIDE DEF m
    <3> QED
      BY <2>1, <2>2, <2>3, <3>1, <3>2, LockTake
  <2>4. CASE e # d
    <3>1. ArriveHolds(e)' = ArriveHolds(e) /\ CrossHolds(e)' = CrossHolds(e)
      BY <1>8, <2>4, HoldsFrame DEF CrossLock, crossRest, PlaceType, CounterType
    <3>2. t # <<"arrive", e>> /\ t # <<"cross", e>>
      BY <2>4
    <3> HIDE DEF m, t
    <3> QED
      BY <2>1, <2>2, <3>1, <3>2, LockTake
  <2> QED
    BY <2>3, <2>4
<1>9. ASSUME NEW d \in Dir, CrossWait(d) PROVE LockOK(e)'
  <2> DEFINE m == LaneLock(d)
             t == <<"cross", d>>
  <2>1. m \in Mutexes /\ t \in Threads
    BY DEF LaneLock, Mutexes, Threads, Dir
  <2>2. Release(m) /\ owner[m] = t
    BY <1>9, <2>1, LaneHeld DEF CrossWait
  <2>3. CASE e = d
    <3>1. CrossHolds(e)' = CrossHolds(e) \ {m}
      BY <1>9, <2>3 DEF CrossWait, crossRest, CrossHolds, PathLocks, PlaceType, CounterType
    <3>2. ArriveHolds(e)' = ArriveHolds(e)
      BY <1>9, <2>3 DEF CrossWait, crossRest, Woken, ArriveHolds, PathLocks, PathLock, Path,
                       NumQuads, PlaceType
    <3> HIDE DEF m
    <3> QED
      BY <2>1, <2>2, <2>3, <3>1, <3>2, LockGive
  <2>4. CASE e # d
    <3>1. ArriveHolds(e)' = ArriveHolds(e) /\ CrossHolds(e)' = CrossHolds(e)
      BY <1>9, <2>4, HoldsFrame DEF CrossWait, crossRest, PlaceType, CounterType
    <3>2. t # <<"arrive", e>> /\ t # <<"cross", e>>
      BY <2>4
    <3> HIDE DEF m, t
    <3> QED
      BY <2>1, <2>2, <3>1, <3>2, LockGive
  <2> QED
    BY <2>3, <2>4
<1>10. ASSUME NEW d \in Dir, ReadFromBuf(d) PROVE LockOK(e)'
  <2>1. ArriveHolds(e)' = ArriveHolds(e) /\ CrossHolds(e)' = CrossHolds(e)
    <3>1. CASE e = d
      BY <1>10, <3>1 DEF ReadFromBuf, crossRest, Woken, ArriveHolds, CrossHolds, PathLocks,
                       PathLock, Path, NumQuads, PlaceType
    <3>2. CASE e # d
      BY <1>10, <3>2, HoldsFrame DEF ReadFromBuf, crossRest, PlaceType, CounterType
    <3> QED
      BY <3>1, <3>2
  <2> QED
    BY <1>10, <2>1, LockKeep DEF ReadFromBuf, crossRest
<1>11. ASSUME NEW d \in Dir, CrossSignalUnlock(d) PROVE LockOK(e)'
  <2> DEFINE m == LaneLock(d)
             t == <<"cross", d>>
  <2>1. m \in Mutexes /\ t \in Threads
    BY DEF LaneLock, Mutexes, Threads, Dir
  <2>2. Release(m) /\ owner[m] = t
    BY <1>11, <2>1, LaneHeld DEF CrossSignalUnlock
  <2>3. CASE e = d
    <3>1. CrossHolds(e)' = CrossHolds(e) \ {m}
      BY <1>11, <2>3 DEF CrossSignalUnlock, crossRest, CrossHolds, PathLocks, PlaceType, CounterType
    <3>2. ArriveHolds(e)' = ArriveHolds(e)
      BY <1>11, <2>3 DEF CrossSignalUnlock, crossRest, Woken, ArriveHolds, PathLocks, PathLock, Path,
                       NumQuads, PlaceType
    <3> HIDE DEF m
    <3> QED
      BY <2>1, <2>2, <2>3, <3>1, <3>2, LockGive
  <2>4. CASE e # d
    <3>1. ArriveHolds(e)' = ArriveHolds(e) /\ CrossHolds(e)' = CrossHolds(e)
      BY <1>11, <2>4, HoldsFrame DEF CrossSignalUnlock, crossRest, PlaceType, CounterType
    <3>2. t # <<"arrive", e>> /\ t # <<"cross", e>>
      BY <2>4
    <3> HIDE DEF m, t
    <3> QED
      BY <2>1, <2>2, <3>1, <3>2, LockGive
  <2> QED
    BY <2>3, <2>4
<1>12. ASSUME NEW d \in Dir, AcquireQuad(d) PROVE LockOK(e)'
  <2> DEFINE m == PathLock(d, k[d])
             t == <<"cross", d>>
  <2>1. m \in Mutexes /\ t \in Threads
    <3>1. k[d] \in 0..(NumQuads(d) - 1) /\ NumQuads(d) \in 1..4 /\ cur[d] \in Cars
      BY <1>12, QuadIndex, HandFacts DEF AcquireQuad, HasCar
    <3> QED
      BY <3>1, PathFacts DEF Mutexes, Threads
  <2>2. Acquire(m, t)
    BY <1>12 DEF AcquireQuad
  <2>3. CASE e = d
    <3>1. CrossHolds(e)' = CrossHolds(e) \cup {m}
      <4>1. /\ k[d] \in 0..(NumQuads(d) - 1) /\ NumQuads(d) \in 1..4
            /\ NumQuads(d)' = NumQuads(d) /\ \A i : PathLock(d, i)' = PathLock(d, i)
        BY <1>12, QuadIndex DEF AcquireQuad, crossRest, PathLock, Path, NumQuads
      <4>2. CrossHolds(d) = PathLocks(d, 0, k[d] - 1)
        BY <1>12 DEF AcquireQuad, CrossHolds
      <4>3. CrossHolds(d)' = PathLocks(d, 0, k[d])
        <5>1. CASE LastQuad(d)
          <6>1. cpc'[d] = "link" /\ k[d] = NumQuads(d) - 1
            BY <1>12, <4>1, <5>1 DEF AcquireQuad, LastQuad, PlaceType
          <6> QED
            BY <4>1, <6>1 DEF CrossHolds, PathLocks
        <5>2. CASE ~LastQuad(d)
          <6>1. cpc'[d] = "quads" /\ k'[d] = k[d] + 1
            BY <1>12, <5>2 DEF AcquireQuad, PlaceType, CounterType
          <6> QED
            BY <4>1, <6>1 DEF CrossHolds, PathLocks
        <5> QED
          BY <5>1, <5>2
      <4>4. PathLocks(d, 0, k[d]) = PathLocks(d, 0, k[d] - 1) \cup {m}
        BY <4>1 DEF PathLocks
      <4> QED
        BY <2>3, <4>2, <4>3, <4>4
    <3>2. ArriveHolds(e)' = ArriveHolds(e)
      BY <1>12, <2>3 DEF AcquireQuad, crossRest, Woken, ArriveHolds, PathLocks, PathLock, Path,
                       NumQuads, PlaceType
    <3> HIDE DEF m
    <3> QED
      BY <2>1, <2>2, <2>3, <3>1, <3>2, LockTake
  <2>4. CASE e # d
    <3>1. ArriveHolds(e)' = ArriveHolds(e) /\ CrossHolds(e)' = CrossHolds(e)
      BY <1>12, <2>4, HoldsFrame DEF AcquireQuad, crossRest, PlaceType, CounterType
    <3>2. t # <<"arrive", e>> /\ t # <<"cross", e>>
      BY <2>4
    <3> HIDE DEF m, t
    <3> QED
      BY <2>1, <2>2, <3>1, <3>2, LockTake
  <2> QED
    BY <2>3, <2>4
<1>13. ASSUME NEW d \in Dir, LinkCar(d) PROVE LockOK(e)'
  <2>1. ArriveHolds(e)' = ArriveHolds(e) /\ CrossHolds(e)' = CrossHolds(e)
    <3>1. CASE e = d
      BY <1>13, <3>1 DEF LinkCar, crossRest, Woken, ArriveHolds, CrossHolds, PathLocks,
                       PathLock, Path, NumQuads, PlaceType
    <3>2. CASE e # d
      BY <1>13, <3>2, HoldsFrame DEF LinkCar, crossRest, PlaceType, CounterType
    <3> QED
      BY <3>1, <3>2
  <2> QED
    BY <1>13, <2>1, LockKeep DEF LinkCar, crossRest
<1>14. ASSUME NEW d \in Dir, PublishCar(d) PROVE LockOK(e)'
  <2>1. ArriveHolds(e)' = ArriveHolds(e) /\ CrossHolds(e)' = CrossHolds(e)
    <3>1. CASE e = d
      <4>1. /\ cpc[d] = "publish" /\ cpc'[d] = "release" /\ k[d] = 0
            /\ UNCHANGED <<apc, k, cur, inDir, outDir>>
        BY <1>14 DEF PublishCar, crossRest, PlaceType, HandInv, HandOK
      <4> QED
        BY <3>1, <4>1 DEF ArriveHolds, CrossHolds, PathLocks, PathLock, Path, NumQuads
    <3>2. CASE e # d
      BY <1>14, <3>2, HoldsFrame DEF PublishCar, crossRest, PlaceType, CounterType
    <3> QED
      BY <3>1, <3>2
  <2> QED
    BY <1>14, <2>1, LockKeep DEF PublishCar, crossRest
<1>15. ASSUME NEW d \in Dir, ReleaseQuad(d) PROVE LockOK(e)'
  <2> DEFINE m == PathLock(d, k[d])
             t == <<"cross", d>>
  <2>1. m \in Mutexes /\ t \in Threads
    <3>1. k[d] \in 0..(NumQuads(d) - 1) /\ NumQuads(d) \in 1..4 /\ cur[d] \in Cars
      BY <1>15, QuadIndex, HandFacts DEF ReleaseQuad, HasCar
    <3> QED
      BY <3>1, PathFacts DEF Mutexes, Threads
  <2>2. Release(m) /\ owner[m] = t
    <3>1. k[d] \in 0..(NumQuads(d) - 1) /\ LockOK(d)
      BY <1>15, QuadIndex DEF ReleaseQuad, LockInv
    <3>2. m \in CrossHolds(d)
      BY <1>15, <3>1 DEF ReleaseQuad, CrossHolds, PathLocks
    <3> QED
      BY <1>15, <2>1, <3>1, <3>2 DEF ReleaseQuad, LockOK
  <2>3. CASE e = d
    <3>1. CrossHolds(e)' = CrossHolds(e) \ {m}
      <4>1. /\ k[d] \in 0..(NumQuads(d) - 1) /\ NumQuads(d) \in 1..4
            /\ NumQuads(d)' = NumQuads(d) /\ \A i : PathLock(d, i)' = PathLock(d, i)
        BY <1>15, QuadIndex DEF ReleaseQuad, crossRest, PathLock, Path, NumQuads
      <4>2. CrossHolds(d) = PathLocks(d, k[d], NumQuads(d) - 1)
        BY <1>15 DEF ReleaseQuad, CrossHolds
      <4>3. CrossHolds(d)' = PathLocks(d, k[d] + 1, NumQuads(d) - 1)
        <5>1. CASE LastQuad(d)
          <6>1. cpc'[d] \in {"lock", "free"} /\ k[d] = NumQuads(d) - 1
            BY <1>15, <4>1, <5>1 DEF ReleaseQuad, LastQuad, PlaceType
          <6>2. CrossHolds(d)' = {}
            BY <6>1 DEF CrossHolds
          <6> QED
            BY <4>1, <6>1, <6>2 DEF PathLocks
        <5>2. CASE ~LastQuad(d)
          <6>1. cpc'[d] = "release" /\ k'[d] = k[d] + 1
            BY <1>15, <5>2 DEF ReleaseQuad, PlaceType, CounterType
          <6> QED
            BY <4>1, <6>1 DEF CrossHolds, PathLocks
        <5> QED
          BY <5>1, <5>2
      <4>4. PathLocks(d, k[d] + 1, NumQuads(d) - 1) = PathLocks(d, k[d], NumQuads(d) - 1) \ {m}
        <5>1. \A i \in (k[d] + 1)..(NumQuads(d) - 1) : PathLock(d, i) > m /\ m \in 1..4
          BY <1>15, <4>1, PathFacts, HandFacts DEF ReleaseQuad, HasCar
        <5>2. \A i \in (k[d] + 1)..(NumQuads(d) - 1) : PathLock(d, i) # m
          BY <1>15, <4>1, <5>1, PathFacts, HandFacts DEF ReleaseQuad, HasCar
        <5>3. \A i \in k[d]..(NumQuads(d) - 1) : i = k[d] \/ i \in (k[d] + 1)..(NumQuads(d) - 1)
          BY <4>1
        <5> QED
          BY <4>1, <5>2, <5>3 DEF PathLocks
      <4> QED
        BY <2>3, <4>2, <4>3, <4>4
    <3>2. ArriveHolds(e)' = ArriveHolds(e)
      BY <1>15, <2>3 DEF ReleaseQuad, crossRest, Woken, ArriveHolds, PathLocks, PathLock, Path,
                       NumQuads, PlaceType
    <3> HIDE DEF m
    <3> QED
      BY <2>1, <2>2, <2>3, <3>1, <3>2, LockGive
  <2>4. CASE e # d
    <3>1. ArriveHolds(e)' = ArriveHolds(e) /\ CrossHolds(e)' = CrossHolds(e)
      BY <1>15, <2>4, HoldsFrame DEF ReleaseQuad, crossRest, PlaceType, CounterType
    <3>2. t # <<"arrive", e>> /\ t # <<"cross", e>>
      BY <2>4
    <3> HIDE DEF m, t
    <3> QED
      BY <2>1, <2>2, <3>1, <3>2, LockGive
  <2> QED
    BY <2>3, <2>4
<1>16. ASSUME NEW d \in Dir, FreeBuffer(d) PROVE LockOK(e)'
  <2>1. ArriveHolds(e)' = ArriveHolds(e) /\ CrossHolds(e)' = CrossHolds(e)
    <3>1. CASE e = d
      BY <1>16, <3>1 DEF FreeBuffer, crossRest, Woken, ArriveHolds, CrossHolds, PathLocks,
                       PathLock, Path, NumQuads, PlaceType
    <3>2. CASE e # d
      BY <1>16, <3>2, HoldsFrame DEF FreeBuffer, crossRest, PlaceType, CounterType
    <3> QED
      BY <3>1, <3>2
  <2> QED
    BY <1>16, <2>1, LockKeep DEF FreeBuffer, crossRest
<1>17. ASSUME NEW d \in Dir, CrossSpurious(d) PROVE LockOK(e)'
  <2>1. ArriveHolds(e)' = ArriveHolds(e) /\ CrossHolds(e)' = CrossHolds(e)
    <3>1. CASE e = d
      BY <1>17, <3>1 DEF CrossSpurious, crossRest, Woken, ArriveHolds, CrossHolds, PathLocks,
                       PathLock, Path, NumQuads, PlaceType
    <3>2. CASE e # d
      BY <1>17, <3>2, HoldsFrame DEF CrossSpurious, crossRest, PlaceType, CounterType
    <3> QED
      BY <3>1, <3>2
  <2> QED
    BY <1>17, <2>1, LockKeep DEF CrossSpurious, crossRest
<1>18. CASE JoinAndVerify
  BY <1>18, HoldsFrame, LockKeep DEF JoinAndVerify
<1>19. CASE UNCHANGED vars
  BY <1>19, HoldsFrame, LockKeep DEF vars
<1> QED
  BY <1>1, <1>2, <1>3, <1>4, <1>5, <1>6, <1>7, <1>8, <1>9, <1>10, <1>11, <1>12, <1>13,
     <1>14, <1>15, <1>16, <1>17, <1>18, <1>19
  DEF Next, Arrive, Cross, Terminated

(* The pending cars are finitely many.                                     *)
LEMMA PendingFinite ==
  ASSUME IInv, NEW d \in Dir
  PROVE  IsFiniteSet(Pending(d)) /\ Cardinality(Pending(d)) \in Nat
<1>1. inCars[d] \in Int
  BY DEF IInv, TypeOK, ListType, Cars, NULL
<1>2. IsFiniteSet(1..inCars[d])
  BY <1>1, FS_Interval
<1>3. IsFiniteSet(Pending(d))
  BY <1>2, FS_Subset DEF Pending
<1> QED
  BY <1>3, FS_CardinalityType

(* A step that leaves a lane's list and its counters alone.                *)
LEMMA ListKeep ==
  ASSUME IInv, NEW e \in Dir, UNCHANGED <<inCars[e], inDir, inc, parsed>>,
         main' = "parse" => main = "parse",
         Produced(e)' = Produced(e), \A c \in Pending(e) : next'[c] = next[c]
  PROVE  ListOK(e)'
<1>1. Pending(e)' = Pending(e)
  BY DEF Pending
<1>2. ListOK(e)
  BY DEF IInv, ListInv
<1>3. \A c \in Pending(e) : /\ next[c] < c
                            /\ next[c] # NULL => inDir[next[c]] = e
                            /\ \A b \in Pending(e) : b < c => b <= next[c]
  BY <1>2 DEF ListOK
<1> QED
  BY <1>1, <1>2, <1>3 DEF ListOK

(* The lists of the lanes: built by ParseLine, consumed by WriteToBuf.     *)
LEMMA ListNext ==
  ASSUME IInv, [Next]_vars, NEW e \in Dir
  PROVE  ListOK(e)'
<1> USE DEF IInv, TypeOK, setupVars, carVars, bufVars
<1>1. ASSUME NEW t \in Turns, ParseLine(t[1], t[2]) PROVE ListOK(e)'
  <2> DEFINE car == parsed + 1
  <2>1. /\ t[1] \in Dir /\ parsed \in Nat /\ car \in Cars
        /\ inDir' = [inDir EXCEPT ![car] = t[1]] /\ next' = [next EXCEPT ![car] = inCars[t[1]]]
        /\ inCars' = [inCars EXCEPT ![t[1]] = car] /\ parsed' = car
        /\ inc' = [inc EXCEPT ![t[1]] = @ + 1] /\ UNCHANGED <<apc, ai>>
    BY <1>1, TurnDirs DEF ParseLine, SetupType, Cars
  <2>2. /\ ListOK(e) /\ inCars[e] \in 0..parsed /\ Pending(e) \subseteq 1..parsed
        /\ Produced(e) = 0 /\ Produced(e)' = 0
    <3>1. ListOK(e) /\ inCars[e] \in Nat
      BY DEF ListInv, ListType, Cars, NULL
    <3>2. inCars[e] \in 0..parsed
      BY <2>1, <3>1 DEF ListOK
    <3>3. Pending(e) \subseteq 1..parsed
      BY <2>1, <3>2 DEF Pending
    <3>4. Produced(e) = 0 /\ Produced(e)' = 0
      BY <1>1, <2>1 DEF PhaseInv, Produced, ParseLine
    <3> QED
      BY <3>1, <3>2, <3>3, <3>4
  <2>3. \A c \in 1..parsed : inDir'[c] = inDir[c] /\ next'[c] = next[c]
    BY <2>1 DEF SetupType, ListType, Cars
  <2>4. \A c \in Pending(e) : /\ next[c] < c
                              /\ next[c] # NULL => inDir[next[c]] = e
                              /\ \A b \in Pending(e) : b < c => b <= next[c]
    BY <2>2 DEF ListOK
  <2>5. \A c \in Pending(e) : next[c] \in 0..parsed
    BY <2>1, <2>2, <2>4 DEF ListType, Cars, NULL
  <2>6. CASE e = t[1]
    <3>1. /\ inCars'[e] = car /\ inDir'[car] = e /\ next'[car] = inCars[e]
          /\ inc'[e] = inc[e] + 1
      BY <2>1, <2>6 DEF SetupType, ListType
    <3>2. Pending(e)' = Pending(e) \cup {car}
      <4>1. \A c \in 1..car : inDir'[c] = e => c = car \/ c <= inCars[e]
        <5>1. ASSUME NEW c \in 1..parsed, inDir[c] = e PROVE c <= inCars[e]
          BY <1>1, <2>2, <5>1 DEF ParseLine, ListOK
        <5> QED
          BY <2>1, <2>3, <5>1
      <4> QED
        BY <2>1, <2>2, <2>3, <3>1, <4>1 DEF Pending
    <3>3. Cardinality(Pending(e)') = Cardinality(Pending(e)) + 1
      <4>1. car \notin Pending(e)
        BY <2>1, <2>2
      <4> QED
        BY <3>2, <4>1, PendingFinite, FS_AddElement
    <3>4. ASSUME NEW c \in Pending(e)'
          PROVE  /\ next'[c] < c
                 /\ next'[c] # NULL => inDir'[next'[c]] = e
                 /\ \A b \in Pending(e)' : b < c => b <= next'[c]
      <4>1. CASE c = car
        BY <2>1, <2>2, <2>3, <3>1, <3>2, <4>1 DEF ListOK, Pending, NULL
      <4>2. CASE c \in Pending(e)
        BY <2>1, <2>2, <2>3, <2>4, <2>5, <3>2, <4>2 DEF NULL
      <4> QED
        BY <3>2, <4>1, <4>2
    <3>5. Cardinality(Pending(e)') = inc'[e] - Produced(e)'
      BY <2>1, <2>2, <3>1, <3>3 DEF ListOK, SetupType
    <3>6. \A c \in 1..parsed' : inDir'[c] = e => c <= inCars'[e]
      BY <2>1, <3>1
    <3> QED
      BY <2>1, <3>1, <3>4, <3>5, <3>6 DEF ListOK
  <2>7. CASE e # t[1]
    <3>1. inCars'[e] = inCars[e] /\ inc'[e] = inc[e]
      BY <2>1, <2>7 DEF SetupType, ListType
    <3>2. Pending(e)' = Pending(e)
      BY <2>1, <2>2, <2>3, <3>1 DEF Pending
    <3>3. \A c \in Pending(e) : /\ next'[c] < c
                                /\ next'[c] # NULL => inDir'[next'[c]] = e
                                /\ \A b \in Pending(e) : b < c => b <= next'[c]
      BY <2>1, <2>2, <2>3, <2>4, <2>5 DEF NULL
    <3>4. inCars'[e] # NULL => inDir'[inCars'[e]] = e
      BY <2>1, <2>2, <2>3, <3>1 DEF ListOK, NULL
    <3>5. \A c \in 1..parsed' : inDir'[c] = e => c <= inCars'[e]
      <4>1. \A c \in 1..parsed : inDir[c] = e => c <= inCars[e]
        BY <1>1, <2>2 DEF ParseLine, ListOK
      <4>2. inDir'[car] # e
        BY <2>1, <2>7 DEF SetupType
      <4> QED
        BY <2>1, <2>3, <3>1, <4>1, <4>2
    <3> QED
      BY <2>1, <2>2, <3>1, <3>2, <3>3, <3>4, <3>5 DEF ListOK
  <2> QED
    BY <2>6, <2>7
<1>2. CASE StartThreads
  BY <1>2, ListKeep DEF StartThreads, PhaseInv, Produced
<1>3. ASSUME NEW d \in Dir, WriteToBuf(d) PROVE ListOK(e)'
  <2>1. /\ inCars[d] \in Cars /\ inDir[inCars[d]] = d /\ inCars[d] \in Pending(d)
        /\ ai[d] < inc[d] /\ ai[d] \in Nat
    BY <1>3, ListNotEmpty DEF WriteToBuf, LoopInv, LoopOK, CounterType
  <2>2. /\ inCars' = [inCars EXCEPT ![d] = next[@]] /\ apc' = [apc EXCEPT ![d] = "written"]
        /\ apc[d] = "locked" /\ UNCHANGED <<main, parsed, inDir, next, inc, ai>>
    BY <1>3 DEF WriteToBuf, arriveRest
  <2>3. CASE e # d
    BY <2>2, <2>3, ListKeep DEF ListType, PlaceType, Produced
  <2>4. CASE e = d
    <3> DEFINE first == inCars[d]
    <3>1. /\ inCars'[d] = next[first] /\ Produced(d)' = Produced(d) + 1
          /\ Produced(d) \in Nat /\ inc[d] \in Nat /\ next[first] \in Nat
          /\ first \in Nat /\ parsed \in Nat
      <4>1. inCars'[d] = next[first] /\ next[first] \in Nat /\ first \in Nat
        BY <2>1, <2>2 DEF ListType, Cars, NULL
      <4>2. Produced(d)' = Produced(d) + 1 /\ Produced(d) \in Nat
        BY <2>1, <2>2 DEF PlaceType, Produced
      <4>3. inc[d] \in Nat /\ parsed \in Nat
        BY DEF SetupType
      <4> QED
        BY <4>1, <4>2, <4>3
    <3>2. /\ ListOK(d) /\ next[first] < first
          /\ next[first] # NULL => inDir[next[first]] = d
          /\ \A b \in Pending(d) : b < first => b <= next[first]
      BY <2>1 DEF ListInv, ListOK
    <3>3. Pending(d)' = Pending(d) \ {first}
      BY <2>1, <2>2, <3>1, <3>2 DEF Pending
    <3>4. Cardinality(Pending(d)') = Cardinality(Pending(d)) - 1
      <4>1. IsFiniteSet(Pending(d))
        BY PendingFinite
      <4> QED
        BY <2>1, <3>3, <4>1, FS_RemoveElement, ZenonT(60)
    <3>5. \A c \in Pending(d) : /\ next[c] < c
                                /\ next[c] # NULL => inDir[next[c]] = d
                                /\ \A b \in Pending(d) : b < c => b <= next[c]
      BY <3>2 DEF ListOK
    <3>6. Cardinality(Pending(d)') = inc[d] - Produced(d)'
      BY <3>1, <3>2, <3>4 DEF ListOK
    <3>7. next[first] <= parsed /\ main' # "parse"
      BY <1>3, <3>1, <3>2 DEF ListOK, PhaseInv, WriteToBuf, arriveRest
    <3> QED
      BY <2>2, <2>4, <3>1, <3>2, <3>3, <3>5, <3>6, <3>7 DEF ListOK
  <2> QED
    BY <2>3, <2>4
<1>4. ASSUME NEW d \in Dir, ArriveSignalUnlock(d) PROVE ListOK(e)'
  <2>1. Produced(e)' = Produced(e)
    BY <1>4 DEF ArriveSignalUnlock, PlaceType, CounterType, Produced
  <2> QED
    BY <1>4, <2>1, ListKeep DEF ArriveSignalUnlock, arriveRest
<1>5. ASSUME NEW d \in Dir, LinkCar(d) PROVE ListOK(e)'
  <2>1. Left(d, cur[d])
    BY <1>5 DEF LinkCar, HandInv, HandOK, HasCar
  <2>2. cur[d] \notin Pending(e)
    <3>1. cur[d] \in Nat /\ inCars[d] \in Nat
      BY <2>1 DEF Left, ListType, Cars, NULL
    <3> QED
      BY <2>1, <3>1 DEF Left, Pending
  <2>3. \A c \in Pending(e) : next'[c] = next[c]
    BY <1>5, <2>2 DEF LinkCar, ListType
  <2> QED
    BY <1>5, <2>3, ListKeep DEF LinkCar, crossRest, Produced
<1>6. ASSUME UNCHANGED <<inCars, inDir, inc, parsed, next, ai>>,
             main' = "parse" => main = "parse",
             \A d \in Dir : apc'[d] = "written" <=> apc[d] = "written"
      PROVE  ListOK(e)'
  BY <1>6, ListKeep DEF Produced
<1>7. \/ \E t \in Turns : ParseLine(t[1], t[2])
      \/ StartThreads
      \/ \E d \in Dir : WriteToBuf(d) \/ ArriveSignalUnlock(d) \/ LinkCar(d)
      \/ /\ UNCHANGED <<inCars, inDir, inc, parsed, next, ai>>
         /\ main' = "parse" => main = "parse"
         /\ \A d \in Dir : apc'[d] = "written" <=> apc[d] = "written"
  <2> DEFINE Q == /\ UNCHANGED <<inCars, inDir, inc, parsed, next, ai>>
                  /\ main' = "parse" => main = "parse"
                  /\ \A d \in Dir : apc'[d] = "written" <=> apc[d] = "written"
  <2>1. ASSUME NEW d \in Dir, ArriveLock(d) \/ ArriveWait(d) \/ ArriveSpurious(d) PROVE Q
    BY <2>1 DEF ArriveLock, ArriveWait, ArriveSpurious, arriveRest, Woken, PlaceType
  <2>2. ASSUME NEW d \in Dir, CrossSignalUnlock(d) PROVE Q
    BY <2>2 DEF CrossSignalUnlock, crossRest, Woken, PlaceType
  <2>3. ASSUME NEW d \in Dir, Cross(d) \/ CrossSpurious(d), ~CrossSignalUnlock(d), ~LinkCar(d)
        PROVE  Q
    BY <2>3 DEF Cross, CrossLock, CrossWait, ReadFromBuf, AcquireQuad, PublishCar,
                ReleaseQuad, FreeBuffer, CrossSpurious, crossRest
  <2>4. ASSUME JoinAndVerify \/ UNCHANGED vars PROVE Q
    BY <2>4 DEF JoinAndVerify, vars
  <2> QED
    BY <2>1, <2>2, <2>3, <2>4 DEF Next, Terminated, Arrive
<1> QED
  BY <1>1, <1>2, <1>3, <1>4, <1>5, <1>6, <1>7

(* The invariant holds initially, and every step keeps it.                 *)
LEMMA InitInv == Init => IInv
<1> SUFFICES ASSUME Init PROVE IInv
  OBVIOUS
<1>1. TypeOK
  BY DEF Init, TypeOK, SetupType, ListType, RingType, PlaceType, CounterType, Dir, NORTH,
         arrivePlaces, crossPlaces, Mutexes, NULL
<1>2. PhaseInv /\ LoopInv /\ NoLostWakeup /\ HandInv
  BY DEF Init, PhaseInv, LoopInv, LoopOK, Produced, Consumed, NoLostWakeup, HandInv,
         HandOK, HasCar
<1>3. LockInv
  <2>1. \A d \in Dir : <<"arrive", d>> \in Threads /\ <<"cross", d>> \in Threads
    BY DEF Threads
  <2>2. \A m \in Mutexes, d \in Dir : owner[m] # <<"arrive", d>> /\ owner[m] # <<"cross", d>>
    BY <2>1 DEF Init
  <2> QED
    BY <2>2 DEF Init, LockInv, LockOK, ArriveHolds, CrossHolds
<1>4. ListInv
  <2>1. ASSUME NEW d \in Dir PROVE ListOK(d)
    <3>1. Pending(d) = {}
      BY DEF Init, Pending, NULL
    <3> QED
      BY <3>1, FS_EmptySet DEF Init, ListOK, Produced, NULL
  <2> QED
    BY <2>1 DEF ListInv
<1>5. RingInv
  BY DEF Init, RingInv, RingOK, End, Slots
<1> QED
  BY <1>1, <1>2, <1>3, <1>4, <1>5 DEF IInv

LEMMA NextInv == IInv /\ [Next]_vars => IInv'
BY TypeNext, PhaseNext, WakeupNext, HandNext, LoopNext, RingNext, LockNext, ListNext
   DEF IInv, HandInv, LoopInv, RingInv, LockInv, ListInv

(* The inductive invariant is an invariant of the specification.           *)
THEOREM Invariance == Spec => []IInv
BY InitInv, NextInv, PTL DEF Spec

(* Every variable keeps its type; in particular car_arrive never follows   *)
(* the next of a NULL car and car_cross never takes an empty slot.         *)
THEOREM TypeCorrect == Spec => []TypeOK
<1>1. IInv => TypeOK
  BY DEF IInv
<1> QED
  BY <1>1, Invariance, PTL

(* No sleeping thread has missed the signal it waits for.                  *)
THEOREM WakeupCorrect == Spec => []NoLostWakeup
<1>1. IInv => NoLostWakeup
  BY DEF IInv
<1> QED
  BY <1>1, Invariance, PTL

(* The ring buffer is freed only after the producer's last store.          *)
THEOREM FreeCorrect == Spec => []NoUseAfterFree
<1>1. ASSUME IInv, NEW d \in Dir, freed[d] PROVE apc[d] = "done"
  <2>1. LoopOK(d) /\ cpc[d] = "done" /\ ci[d] = inc[d]
    BY <1>1 DEF IInv, LoopInv, LoopOK
  <2>2. Consumed(d) = inc[d] /\ inc[d] \in Nat /\ inBuf[d] \in Nat /\ ai[d] \in Nat
    BY <1>1, <2>1 DEF IInv, Consumed, TypeOK, SetupType, RingType, CounterType
  <2>3. inBuf[d] = Produced(d) - Consumed(d) /\ (apc[d] = "written" => inBuf[d] > 0)
    BY <2>1 DEF LoopOK
  <2>4. apc[d] \in {"lock", "locked", "wait", "written"} => Produced(d) - inc[d] < 0
                                                          \/ apc[d] = "written"
    BY <2>1, <2>2 DEF LoopOK, Produced
  <2>5. apc[d] # "written"
    BY <2>1, <2>2, <2>3 DEF LoopOK, Produced
  <2>6. apc[d] \in arrivePlaces /\ apc[d] # "created"
    <3>1. main # "parse"
      BY <1>1, <2>1 DEF IInv, PhaseInv
    <3> QED
      BY <1>1, <3>1 DEF IInv, PhaseInv, TypeOK, PlaceType
  <2> QED
    BY <2>2, <2>3, <2>4, <2>5, <2>6 DEF arrivePlaces
<1>2. IInv => NoUseAfterFree
  BY <1>1 DEF NoUseAfterFree
<1> QED
  BY <1>2, Invariance, PTL

(* head, tail and in_buf always describe the same interval of the ring.    *)
LEMMA InvBufferCoherent == IInv => BufferCoherent
<1>1. ASSUME IInv, NEW d \in Dir PROVE tail[d] = (head[d] + inBuf[d]) % Capacity
  <2>1. head[d] \in 0..(Capacity - 1) /\ inBuf[d] \in 0..Capacity
    BY <1>1 DEF IInv, TypeOK, RingType
  <2>2. tail[d] = End(head[d], inBuf[d])
    BY <1>1 DEF IInv, RingInv, RingOK
  <2>3. CASE head[d] + inBuf[d] < Capacity
    <3> DEFINE x == head[d] + inBuf[d]
    <3>1. x \in 0..(Capacity - 1)
      BY <2>1, <2>3
    <3>2. End(head[d], inBuf[d]) = x
      BY <2>3 DEF End
    <3> HIDE DEF x
    <3>3. x % Capacity = x
      BY <3>1
    <3> QED
      BY <2>2, <3>2, <3>3 DEF x
  <2>4. CASE ~(head[d] + inBuf[d] < Capacity)
    <3> DEFINE r == head[d] + inBuf[d] - Capacity
    <3>1. r \in 0..(Capacity - 1) /\ head[d] + inBuf[d] = Capacity + r
      BY <2>1, <2>4
    <3>2. (Capacity + r) % Capacity = r
      BY <3>1
    <3> QED
      BY <2>2, <2>4, <3>1, <3>2 DEF End
  <2> QED
    BY <2>3, <2>4
<1> QED
  BY <1>1 DEF BufferCoherent

(* What one thread produced and the other did not consume is in the ring,  *)
(* the interval of which the two ends and in_buf agree on.                 *)
THEOREM CountsCorrect == Spec => []CountsAgree
<1>1. ASSUME IInv, NEW d \in Dir PROVE inBuf[d] = Produced(d) - Consumed(d)
                                       /\ Produced(d) <= inc[d]
  <2>1. LoopOK(d) /\ ai[d] \in Nat /\ inc[d] \in Nat /\ apc[d] \in arrivePlaces
    BY <1>1 DEF IInv, LoopInv, TypeOK, SetupType, CounterType, PlaceType
  <2>2. apc[d] = "created" => ai[d] = 0
    BY <1>1 DEF IInv, PhaseInv
  <2>3. Produced(d) <= inc[d]
    BY <2>1, <2>2 DEF LoopOK, Produced, arrivePlaces
  <2> QED
    BY <2>1, <2>3 DEF LoopOK
<1>2. IInv => CountsAgree
  BY <1>1, InvBufferCoherent DEF CountsAgree
<1> QED
  BY <1>2, Invariance, PTL

(* Cars whose paths share a quadrant never cross together.                 *)
LEMMA InvPathExclusive == IInv => PathExclusive
<1> SUFFICES ASSUME IInv, NEW d \in Dir, NEW e \in Dir, d # e, Crossing(d), Crossing(e),
                    NEW q \in PathQuads(d), q \in PathQuads(e)
             PROVE  FALSE
  BY DEF PathExclusive
<1>1. ASSUME NEW f \in Dir, Crossing(f), q \in PathQuads(f)
      PROVE  q \in Mutexes /\ owner[q] = <<"cross", f>>
  <2>1. PICK i \in 1..NumQuads(f) : q = Path(f)[i]
    BY <1>1 DEF PathQuads
  <2>2. cur[f] \in Cars /\ NumQuads(f) \in 1..4 /\ LockOK(f)
    BY <1>1, HandFacts DEF Crossing, HasCar, IInv, LockInv
  <2>3. i - 1 \in 0..(NumQuads(f) - 1) /\ q = PathLock(f, i - 1)
    BY <2>1, <2>2 DEF PathLock, Quad
  <2>4. q \in Mutexes
    <3>1. PathLock(f, i - 1) \in 1..4
      BY <2>2, <2>3, PathFacts DEF IInv
    <3> QED
      BY <2>3, <3>1 DEF Mutexes
  <2>5. q \in CrossHolds(f)
    BY <1>1, <2>3 DEF Crossing, CrossHolds, PathLocks
  <2> QED
    BY <2>2, <2>4, <2>5 DEF LockOK
<1>2. owner[q] = <<"cross", d>> /\ owner[q] = <<"cross", e>>
  BY <1>1
<1> QED
  BY <1>2

(* All paths to a lane share that lane's exit quadrant.                    *)
LEMMA InvOutListExclusive == IInv => OutListExclusive
<1> SUFFICES ASSUME IInv, NEW d \in Dir, NEW e \in Dir, d # e, Crossing(d), Crossing(e),
                    OutLane(d) = OutLane(e)
             PROVE  FALSE
  BY DEF OutListExclusive
<1>1. ASSUME NEW f \in Dir, Crossing(f) PROVE ExitQuad(OutLane(f)) \in PathQuads(f)
  <2>1. cur[f] \in Cars /\ inDir[cur[f]] \in Dir /\ outDir[cur[f]] \in Dir
    BY <1>1, HandFacts DEF Crossing, HasCar, IInv, TypeOK, SetupType
  <2> QED
    BY <2>1, PathHasExit DEF PathQuads, Path, NumQuads, OutLane
<1>2. PathQuads(d) \cap PathQuads(e) = {}
  BY InvPathExclusive DEF PathExclusive
<1> QED
  BY <1>1, <1>2

THEOREM PathExclusion == Spec => []PathExclusive
BY InvPathExclusive, Invariance, PTL

(* No two threads ever push on the same out_cars list.                     *)
THEOREM OutListExclusion == Spec => []OutListExclusive
BY InvOutListExclusive, Invariance, PTL

(* A waiting thread holds only mutexes below the one it waits for, with    *)
(* quadrant 4 and the NORTH lane sharing one mutex.                        *)
LEMMA InvLockOrder == IInv => LockOrder
<1> SUFFICES ASSUME IInv, NEW t \in Threads, NEW m \in Wants(t), NEW h \in Mutexes,
                    owner[h] = t
             PROVE  h < m
  BY DEF LockOrder
<1>1. PICK d \in Dir : t = <<"arrive", d>> \/ t = <<"cross", d>>
  BY DEF Threads
<1>2. LockOK(d)
  BY DEF IInv, LockInv
<1>3. CASE t = <<"arrive", d>>
  <2>1. apc[d] = "lock"
    BY <1>3 DEF Wants
  <2>2. h \in ArriveHolds(d)
    BY <1>2, <1>3 DEF LockOK
  <2> QED
    BY <2>1, <2>2 DEF ArriveHolds
<1>4. CASE t = <<"cross", d>>
  <2>1. h \in CrossHolds(d)
    BY <1>2, <1>4 DEF LockOK
  <2>2. cpc[d] \in {"lock", "quads"} /\ (cpc[d] = "quads" => m = PathLock(d, k[d]))
    BY <1>4 DEF Wants
  <2>3. CASE cpc[d] = "lock"
    BY <2>1, <2>3 DEF CrossHolds
  <2>4. CASE cpc[d] = "quads"
    <3>1. PICK i \in 0..(k[d] - 1) : h = PathLock(d, i)
      BY <2>1, <2>4 DEF CrossHolds, PathLocks
    <3>2. k[d] \in Nat /\ k[d] < NumQuads(d) /\ NumQuads(d) \in 1..4 /\ cur[d] \in Cars
      BY <2>4, QuadIndex, HandFacts DEF HasCar
    <3>3. i \in 0..(NumQuads(d) - 1) /\ k[d] \in 0..(NumQuads(d) - 1) /\ i < k[d]
      BY <3>1, <3>2
    <3> QED
      BY <2>2, <2>4, <3>1, <3>2, <3>3, PathFacts DEF IInv
  <2> QED
    BY <2>2, <2>3, <2>4
<1> QED
  BY <1>1, <1>3, <1>4

THEOREM LockOrdering == Spec => []LockOrder
BY InvLockOrder, Invariance, PTL

(* Only a holder of the lane's mutex changes the lane's list and ring.     *)
THEOREM LaneDataProtected == Spec => LaneDataGuarded
<1> DEFINE Guarded == \A d \in Dir :
      /\ main = "run"
      /\ <<inCars[d], buffer[d], head[d], tail[d], inBuf[d]>>
           # <<inCars[d], buffer[d], head[d], tail[d], inBuf[d]>>'
      => owner[LaneLock(d)] \in {<<"arrive", d>>, <<"cross", d>>}
<1>1. ASSUME IInv, [Next]_vars PROVE Guarded
  <2> SUFFICES ASSUME NEW d \in Dir, main = "run",
                      ~ UNCHANGED <<inCars[d], buffer[d], head[d], tail[d], inBuf[d]>>
               PROVE  owner[LaneLock(d)] \in {<<"arrive", d>>, <<"cross", d>>}
    OBVIOUS
  <2>1. \/ \E e \in Dir : WriteToBuf(e) \/ ReadFromBuf(e)
        \/ UNCHANGED <<inCars, buffer, head, tail, inBuf>>
    BY <1>1, ZenonT(60) DEF Next, ParseLine, StartThreads, JoinAndVerify, Terminated, Arrive, Cross,
         ArriveLock, ArriveWait, ArriveSignalUnlock, ArriveSpurious, CrossLock,
         CrossWait, CrossSignalUnlock, AcquireQuad, LinkCar, PublishCar,
         ReleaseQuad, FreeBuffer, CrossSpurious, vars, setupVars, carVars, bufVars,
         arriveRest, crossRest
  <2>2. PICK e \in Dir : WriteToBuf(e) \/ ReadFromBuf(e)
    BY <2>1
  <2>3. e = d
    BY <1>1, <2>2 DEF WriteToBuf, ReadFromBuf, crossRest, IInv, TypeOK, ListType, RingType
  <2>4. apc[d] = "locked" \/ cpc[d] = "locked"
    BY <2>2, <2>3 DEF WriteToBuf, ReadFromBuf
  <2> QED
    BY <1>1, <2>4, LaneHeld
<1>2. IInv /\ [Next]_vars => [Guarded]_vars
  BY <1>1
<1>3. Spec => [][Guarded]_vars
  BY <1>2, Invariance, PTL DEF Spec
<1> QED
  BY <1>3 DEF LaneDataGuarded

(***************************************************************************)
(* Why the program ends.                                                   *)
(***************************************************************************)

(* The thread that waits for the mutex with the greatest address waits for *)
(* one that can go on.                                                     *)
LEMMA HolderReady ==
  ASSUME IInv, NEW m \in Mutexes, owner[m] # NoThread
  PROVE  \E d \in Dir : \/ ArriveReady(d) \/ CrossReady(d)
                        \/ cpc[d] = "quads" /\ PathLock(d, k[d]) \in Mutexes /\ m < PathLock(d, k[d])
<1>1. PICK d \in Dir : owner[m] = <<"arrive", d>> \/ owner[m] = <<"cross", d>>
  BY DEF IInv, TypeOK, PlaceType, Threads
<1>2. LockOK(d)
  BY DEF IInv, LockInv
<1>3. CASE owner[m] = <<"arrive", d>>
  <2>1. m \in ArriveHolds(d)
    BY <1>2, <1>3 DEF LockOK
  <2>2. ArriveReady(d)
    BY <2>1 DEF ArriveHolds, ArriveReady
  <2> QED
    BY <1>1, <2>2
<1>4. CASE owner[m] = <<"cross", d>>
  <2>1. m \in CrossHolds(d)
    BY <1>2, <1>4 DEF LockOK
  <2>2. cpc[d] \in {"locked", "read", "quads", "link", "publish", "release"}
    BY <2>1 DEF CrossHolds
  <2>3. CASE cpc[d] = "quads"
    <3>1. <<"cross", d>> \in Threads /\ PathLock(d, k[d]) \in Wants(<<"cross", d>>)
      BY <2>3 DEF Threads, Wants
    <3>2. m < PathLock(d, k[d])
      BY <1>4, <3>1, InvLockOrder DEF LockOrder
    <3>3. PathLock(d, k[d]) \in 1..4
      <4>1. cur[d] \in Cars /\ k[d] \in 0..(NumQuads(d) - 1)
        BY <2>3, HandFacts, QuadIndex DEF HasCar
      <4> QED
        BY <4>1, PathFacts DEF IInv
    <3> QED
      BY <2>3, <3>2, <3>3 DEF Mutexes
  <2>4. CASE cpc[d] # "quads"
    <3>1. CrossReady(d)
      BY <2>2, <2>4 DEF CrossReady
    <3> QED
      BY <1>1, <3>1
  <2> QED
    BY <2>3, <2>4
<1> QED
  BY <1>1, <1>3, <1>4

(* So a mutex that is held is held by, or by way of, one that can.         *)
LEMMA HeldMutex ==
  ASSUME IInv, NEW m \in Mutexes, owner[m] # NoThread
  PROVE  \E d \in Dir : ArriveReady(d) \/ CrossReady(d)
<1> DEFINE Free == \A d \in Dir : ~ArriveReady(d) /\ ~CrossReady(d)
           Held == {n \in Mutexes : owner[n] # NoThread}
<1>1. ASSUME Free, NEW n \in Held PROVE \E l \in Held : n < l
  <2>1. PICK d \in Dir : cpc[d] = "quads" /\ PathLock(d, k[d]) \in Mutexes /\ n < PathLock(d, k[d])
    BY <1>1, HolderReady
  <2>2. owner[PathLock(d, k[d])] # NoThread
    BY <1>1, <2>1 DEF CrossReady
  <2> QED
    BY <2>1, <2>2
<1>2. ASSUME Free PROVE FALSE
  <2>1. Held \subseteq 0..7 /\ m \in Held
    BY DEF Mutexes
  <2>2. \A n \in Held : \E l \in Held : n < l
    BY <1>1, <1>2
  <2> HIDE DEF Held
  <2>3. 7 \notin Held
    BY <2>1, <2>2
  <2>4. 6 \notin Held
    BY <2>1, <2>2, <2>3
  <2>5. 5 \notin Held
    BY <2>1, <2>2, <2>3, <2>4
  <2>6. 4 \notin Held
    BY <2>1, <2>2, <2>3, <2>4, <2>5
  <2>7. 3 \notin Held
    BY <2>1, <2>2, <2>3, <2>4, <2>5, <2>6
  <2>8. 2 \notin Held
    BY <2>1, <2>2, <2>3, <2>4, <2>5, <2>6, <2>7
  <2>9. 1 \notin Held
    BY <2>1, <2>2, <2>3, <2>4, <2>5, <2>6, <2>7, <2>8
  <2>10. 0 \notin Held
    BY <2>1, <2>2, <2>3, <2>4, <2>5, <2>6, <2>7, <2>8, <2>9
  <2> QED
    BY <2>1, <2>3, <2>4, <2>5, <2>6, <2>7, <2>8, <2>9, <2>10
<1> QED
  BY <1>2

(* Two threads of a lane that wait for no mutex do not both sleep, nor     *)
(* does one whose partner has returned.                                    *)
LEMMA LaneAwake ==
  ASSUME IInv, NEW d \in Dir, main = "run", ~ArriveReady(d), ~CrossReady(d),
         apc[d] # "lock", cpc[d] \notin {"lock", "quads"}
  PROVE  apc[d] = "done" /\ cpc[d] = "done"
<1>1. apc[d] \in {"wait", "done"} /\ cpc[d] \in {"wait", "done"}
  BY DEF IInv, PhaseInv, TypeOK, PlaceType, arrivePlaces, crossPlaces, ArriveReady, CrossReady
<1>2. ai[d] \in Nat /\ ci[d] \in Nat /\ inc[d] \in Nat /\ Capacity \in Nat \ {0}
  BY CapacityAssumption DEF IInv, TypeOK, SetupType, CounterType
<1>3. /\ apc[d] = "wait" => inBuf[d] = Capacity /\ ai[d] < inc[d]
      /\ apc[d] = "done" => ai[d] = inc[d]
      /\ cpc[d] = "wait" => inBuf[d] = 0 /\ ci[d] < inc[d]
      /\ cpc[d] = "done" => ci[d] = inc[d]
      /\ inBuf[d] = ai[d] - ci[d]
  <2>1. LoopOK(d) /\ Produced(d) = ai[d] /\ Consumed(d) = ci[d]
    BY <1>1, <1>2 DEF IInv, LoopInv, Produced, Consumed
  <2> QED
    BY <1>1, <2>1 DEF IInv, NoLostWakeup, LoopOK
<1> QED
  BY <1>1, <1>2, <1>3

(* For every schedule, capacity and set of turns: as long as a thread has  *)
(* not returned, one is ready to make its next step.                       *)
THEOREM DeadlockFree == Spec => []NoDeadlock
<1>1. IInv => NoDeadlock
  <2> SUFFICES ASSUME IInv, main = "run", \A d \in Dir : ~ArriveReady(d) /\ ~CrossReady(d),
                      NEW d \in Dir
               PROVE  apc[d] = "done" /\ cpc[d] = "done"
    BY DEF NoDeadlock
  <2>1. \A m \in Mutexes : owner[m] = NoThread
    BY HeldMutex
  <2>2. apc[d] # "lock" /\ cpc[d] # "lock"
    <3>1. LaneLock(d) \in Mutexes
      BY DEF LaneLock, Mutexes, Dir
    <3> QED
      BY <2>1, <3>1 DEF ArriveReady, CrossReady
  <2>3. cpc[d] # "quads"
    <3> SUFFICES ASSUME cpc[d] = "quads" PROVE FALSE
      OBVIOUS
    <3>1. cur[d] \in Cars /\ k[d] \in 0..(NumQuads(d) - 1)
      BY HandFacts, QuadIndex DEF HasCar
    <3>2. PathLock(d, k[d]) \in 1..4
      BY <3>1, PathFacts DEF IInv
    <3> QED
      BY <2>1, <3>2 DEF CrossReady, Mutexes
  <2> QED
    BY <2>2, <2>3, LaneAwake
<1> QED
  BY <1>1, Invariance, PTL

(* What a lane has left is a number.                                       *)
LEMMA LaneNumber ==
  ASSUME IInv, NEW d \in Dir
  PROVE  /\ ArriveLeft(d) \in 0..4 /\ CrossLeft(d) \in 0..17
         /\ LaneLeft(d) \in Nat
<1>1. apc[d] \in arrivePlaces /\ cpc[d] \in crossPlaces /\ k[d] \in 0..4
  BY DEF IInv, TypeOK, PlaceType, CounterType
<1>2. ArriveLeft(d) \in 0..4
  BY <1>1 DEF ArriveLeft, arrivePlaces
<1>3. CrossLeft(d) \in 0..17
  BY <1>1 DEF CrossLeft, crossPlaces
<1>4. /\ inc[d] \in Nat /\ ai[d] \in Nat /\ ci[d] \in Nat
      /\ ai[d] <= inc[d] /\ ci[d] <= inc[d]
  <2>1. inc[d] \in Nat /\ ai[d] \in Nat /\ ci[d] \in Nat
    BY DEF IInv, TypeOK, SetupType, CounterType
  <2>2. LoopOK(d) /\ (main = "parse" => ai[d] = 0 /\ ci[d] = 0)
        /\ (main # "parse" => apc[d] # "created" /\ cpc[d] # "created")
    BY DEF IInv, LoopInv, PhaseInv
  <2> QED
    BY <1>1, <2>1, <2>2 DEF LoopOK, arrivePlaces, crossPlaces, HasCar
<1> QED
  BY <1>2, <1>3, <1>4 DEF LaneLeft

LaneNumbers ==
  \A d \in Dir : ArriveLeft(d) \in 0..4 /\ CrossLeft(d) \in 0..17 /\ LaneLeft(d) \in Nat
LEMMA AllNumbers == IInv => LaneNumbers
BY LaneNumber DEF LaneNumbers
LEMMA AllNumbersNext == IInv' => LaneNumbers'
BY AllNumbers, PTL
LEMMA LaneNumberNext ==
  ASSUME IInv', NEW d \in Dir
  PROVE  ArriveLeft(d)' \in 0..4 /\ CrossLeft(d)' \in 0..17 /\ LaneLeft(d)' \in Nat
BY AllNumbersNext DEF LaneNumbers

(* If one lane has less left then, but for main and the input, so has the  *)
(* program.                                                                *)
Others(d) == \A e \in Dir \ {d} : LaneLeft(e)' = LaneLeft(e)
LEMMA LaneSum ==
  ASSUME IInv, IInv', NEW d \in Dir, Others(d), NEW n \in Int, LaneLeft(d)' = LaneLeft(d) + n
  PROVE  LaneLeft(0)' + LaneLeft(1)' + LaneLeft(2)' + LaneLeft(3)'
           = LaneLeft(0) + LaneLeft(1) + LaneLeft(2) + LaneLeft(3) + n
<1>1. \A e \in Dir : LaneLeft(e) \in Int /\ LaneLeft(e)' \in Int
  BY LaneNumber, LaneNumberNext
<1>2. d \in {0, 1, 2, 3} /\ 0 \in Dir /\ 1 \in Dir /\ 2 \in Dir /\ 3 \in Dir
  BY DEF Dir
<1>3. PICK a, b, c, e : a = LaneLeft(0) /\ b = LaneLeft(1) /\ c = LaneLeft(2) /\ e = LaneLeft(3)
  OBVIOUS
<1> HIDE DEF LaneLeft
<1>4. \A e1 \in Dir : e1 # d => LaneLeft(e1)' = LaneLeft(e1)
  BY DEF Others
<1>5. CASE d = 0
  BY <1>1, <1>2, <1>4, <1>5
<1>6. CASE d = 1
  BY <1>1, <1>2, <1>4, <1>6
<1>7. CASE d = 2
  BY <1>1, <1>2, <1>4, <1>7
<1>8. CASE d = 3
  BY <1>1, <1>2, <1>4, <1>8
<1> QED
  BY <1>2, <1>5, <1>6, <1>7, <1>8

LEMMA LaneSame ==
  ASSUME NEW e \in Dir, UNCHANGED <<inc[e], ai[e], ci[e], apc[e], cpc[e], k[e]>>
  PROVE  LaneLeft(e)' = LaneLeft(e)
BY DEF LaneLeft, ArriveLeft, CrossLeft

(* The loop counters and places of the other lanes stay.                   *)
LEMMA OneLane ==
  ASSUME IInv, NEW d \in Dir, Arrive(d) \/ ArriveSpurious(d) \/ Cross(d) \/ CrossSpurious(d)
  PROVE  Others(d)
<1> SUFFICES ASSUME NEW e \in Dir, e # d PROVE LaneLeft(e)' = LaneLeft(e)
  BY DEF Others
<1>1. UNCHANGED inc
  BY DEF Arrive, Cross, ArriveLock, ArriveWait, WriteToBuf, ArriveSignalUnlock, ArriveSpurious,
         CrossLock, CrossWait, ReadFromBuf, CrossSignalUnlock, AcquireQuad, LinkCar,
         PublishCar, ReleaseQuad, FreeBuffer, CrossSpurious, arriveRest, crossRest, setupVars
<1>2. apc'[e] = apc[e] /\ cpc'[e] = cpc[e] /\ ai'[e] = ai[e] /\ ci'[e] = ci[e] /\ k'[e] = k[e]
  <2> USE DEF IInv, TypeOK, PlaceType, CounterType
  <2>1. CASE Arrive(d) \/ ArriveSpurious(d)
    BY <2>1 DEF Arrive, ArriveLock, ArriveWait, WriteToBuf, ArriveSignalUnlock, ArriveSpurious,
                arriveRest
  <2>2. CASE Cross(d) \/ CrossSpurious(d)
    BY <2>2 DEF Cross, CrossLock, CrossWait, ReadFromBuf, CrossSignalUnlock, AcquireQuad, LinkCar,
                PublishCar, ReleaseQuad, FreeBuffer, CrossSpurious, crossRest
  <2> QED
    BY <2>1, <2>2
<1> QED
  BY <1>1, <1>2, LaneSame

(* What the steps of a thread leave of its lane.                           *)
LEMMA ArriveFalls ==
  ASSUME IInv, IInv', NEW d \in Dir, Arrive(d)
  PROVE  LaneLeft(d)' < LaneLeft(d)
<1> USE DEF IInv, TypeOK, SetupType, PlaceType, CounterType, arriveRest, setupVars, arrivePlaces, crossPlaces
<1>1. inc' = inc /\ ci' = ci /\ k' = k
  BY DEF Arrive, ArriveLock, ArriveWait, WriteToBuf, ArriveSignalUnlock
<1>2. /\ inc[d] \in Int /\ ai[d] \in Int /\ ci[d] \in Int
      /\ ArriveLeft(d) \in Int /\ CrossLeft(d) \in Int /\ ArriveLeft(d)' \in Int /\ CrossLeft(d)' \in Int
  <2>1. ArriveLeft(d) \in Int /\ CrossLeft(d) \in Int
    BY LaneNumber
  <2>2. ArriveLeft(d)' \in Int /\ CrossLeft(d)' \in Int
    BY LaneNumberNext
  <2>3. inc[d] \in Int /\ ai[d] \in Int /\ ci[d] \in Int
    OBVIOUS
  <2> QED
    BY <2>1, <2>2, <2>3
<1>3. CASE ArriveLock(d) \/ ArriveWait(d) \/ WriteToBuf(d)
  <2>1. ai' = ai /\ cpc' = cpc
    BY <1>3 DEF ArriveLock, ArriveWait, WriteToBuf
  <2>2. ArriveLeft(d)' < ArriveLeft(d)
    <3>1. \/ apc[d] = "lock" /\ apc'[d] = "locked"
          \/ apc[d] = "locked" /\ apc'[d] \in {"wait", "written"}
      BY <1>3 DEF ArriveLock, ArriveWait, WriteToBuf
    <3> QED
      BY <3>1 DEF ArriveLeft
  <2>3. CrossLeft(d)' = CrossLeft(d)
    BY <1>1, <2>1 DEF CrossLeft
  <2> QED
    BY <1>1, <1>2, <2>1, <2>2, <2>3 DEF LaneLeft
<1>4. CASE ArriveSignalUnlock(d)
  <2>1. ai'[d] = ai[d] + 1 /\ apc[d] = "written" /\ apc'[d] \in {"lock", "done"}
        /\ cpc'[d] = Woken(cpc[d])
    BY <1>4 DEF ArriveSignalUnlock
  <2>2. ArriveLeft(d)' <= ArriveLeft(d) + 2
    BY <2>1 DEF ArriveLeft
  <2>3. CrossLeft(d)' <= CrossLeft(d) + 2
    BY <1>1, <1>2, <2>1 DEF CrossLeft, Woken
  <2> QED
    BY <1>1, <1>2, <2>1, <2>2, <2>3 DEF LaneLeft
<1> QED
  BY <1>3, <1>4 DEF Arrive

LEMMA CrossFalls ==
  ASSUME IInv, IInv', NEW d \in Dir, Cross(d)
  PROVE  LaneLeft(d)' < LaneLeft(d)
<1> USE DEF IInv, TypeOK, SetupType, PlaceType, CounterType, crossRest, setupVars, arrivePlaces, crossPlaces
<1>1. inc' = inc /\ ai' = ai
  BY DEF Cross, CrossLock, CrossWait, ReadFromBuf, CrossSignalUnlock, AcquireQuad, LinkCar,
         PublishCar, ReleaseQuad, FreeBuffer
<1>2. /\ inc[d] \in Int /\ ai[d] \in Int /\ ci[d] \in Int /\ k[d] \in 0..4
      /\ ArriveLeft(d) \in Int /\ CrossLeft(d) \in Int /\ ArriveLeft(d)' \in Int /\ CrossLeft(d)' \in Int
  <2>1. ArriveLeft(d) \in Int /\ CrossLeft(d) \in Int
    BY LaneNumber
  <2>2. ArriveLeft(d)' \in Int /\ CrossLeft(d)' \in Int
    BY LaneNumberNext
  <2>3. inc[d] \in Int /\ ai[d] \in Int /\ ci[d] \in Int /\ k[d] \in 0..4
    OBVIOUS
  <2> QED
    BY <2>1, <2>2, <2>3
<1>3. cpc[d] \in {"quads", "release"} => k[d] \in 0..3
  BY QuadIndex
<1>4. CASE CrossSignalUnlock(d)
  <2>1. /\ cpc[d] = "read" /\ cpc'[d] = "quads" /\ k'[d] = 0 /\ ci' = ci
        /\ apc'[d] = Woken(apc[d])
    BY <1>4 DEF CrossSignalUnlock
  <2>2. CrossLeft(d) = 14 /\ CrossLeft(d)' = 11
    BY <2>1 DEF CrossLeft
  <2>3. ArriveLeft(d)' <= ArriveLeft(d) + 2
    BY <1>2, <2>1 DEF ArriveLeft, Woken
  <2> QED
    BY <1>1, <1>2, <2>1, <2>2, <2>3 DEF LaneLeft
<1>5. CASE ReleaseQuad(d)
  <2>1. apc' = apc /\ cpc[d] = "release"
    BY <1>5 DEF ReleaseQuad
  <2>2. ArriveLeft(d)' = ArriveLeft(d) /\ CrossLeft(d) = 4 - k[d]
    BY <2>1 DEF ArriveLeft, CrossLeft
  <2>3. CASE LastQuad(d)
    <3>1. ci'[d] = ci[d] + 1 /\ cpc'[d] \in {"lock", "free"}
      BY <1>5, <2>3 DEF ReleaseQuad
    <3>2. CrossLeft(d)' <= 16
      BY <3>1 DEF CrossLeft
    <3> QED
      BY <1>1, <1>2, <1>3, <2>1, <2>2, <3>1, <3>2 DEF LaneLeft
  <2>4. CASE ~LastQuad(d)
    <3>1. ci'[d] = ci[d] /\ cpc'[d] = "release" /\ k'[d] = k[d] + 1
      BY <1>5, <2>4 DEF ReleaseQuad
    <3>2. CrossLeft(d)' = 4 - (k[d] + 1)
      BY <3>1 DEF CrossLeft
    <3> QED
      BY <1>1, <1>2, <2>2, <3>1, <3>2 DEF LaneLeft
  <2> QED
    BY <2>3, <2>4
<1>6. CASE /\ ~CrossSignalUnlock(d) /\ ~ReleaseQuad(d)
  <2>1. apc' = apc /\ ci' = ci
    BY <1>6 DEF Cross, CrossLock, CrossWait, ReadFromBuf, AcquireQuad, LinkCar, PublishCar, FreeBuffer
  <2>2. ArriveLeft(d)' = ArriveLeft(d)
    BY <2>1 DEF ArriveLeft
  <2>3. CrossLeft(d)' < CrossLeft(d)
    <3>1. CASE AcquireQuad(d)
      <4>1. /\ cpc[d] = "quads"
            /\ cpc'[d] = "link" \/ (cpc'[d] = "quads" /\ k'[d] = k[d] + 1)
        BY <3>1 DEF AcquireQuad
      <4>2. CrossLeft(d) = 11 - k[d] /\ (CrossLeft(d)' = 6 \/ CrossLeft(d)' = 11 - (k[d] + 1))
        BY <4>1 DEF CrossLeft
      <4> QED
        BY <1>2, <1>3, <4>1, <4>2
    <3>2. CASE PublishCar(d)
      <4>1. cpc[d] = "publish" /\ cpc'[d] = "release" /\ k'[d] = k[d]
        BY <3>2 DEF PublishCar
      <4>2. CrossLeft(d) = 5 /\ CrossLeft(d)' = 4 - k[d]
        BY <4>1 DEF CrossLeft
      <4> QED
        BY <1>2, <4>2
    <3>3. CASE CrossLock(d) \/ CrossWait(d) \/ ReadFromBuf(d) \/ LinkCar(d) \/ FreeBuffer(d)
      <4>1. \/ cpc[d] = "lock" /\ cpc'[d] = "locked"
            \/ cpc[d] = "locked" /\ cpc'[d] \in {"wait", "read"}
            \/ cpc[d] = "link" /\ cpc'[d] = "publish"
            \/ cpc[d] = "free" /\ cpc'[d] = "done"
        BY <3>3 DEF CrossLock, CrossWait, ReadFromBuf, LinkCar, FreeBuffer
      <4> QED
        BY <4>1 DEF CrossLeft
    <3> QED
      BY <1>6, <3>1, <3>2, <3>3 DEF Cross
  <2> QED
    BY <1>1, <1>2, <2>1, <2>2, <2>3 DEF LaneLeft
<1> QED
  BY <1>4, <1>5, <1>6

(* A spurious wake-up costs the lane two steps.                            *)
LEMMA SpuriousRises ==
  ASSUME IInv, IInv', NEW d \in Dir, ArriveSpurious(d) \/ CrossSpurious(d)
  PROVE  LaneLeft(d)' = LaneLeft(d) + 2
<1> USE DEF IInv, TypeOK, SetupType, PlaceType, CounterType, setupVars
<1>1. /\ inc[d] \in Int /\ ai[d] \in Int /\ ci[d] \in Int
      /\ ArriveLeft(d) \in Int /\ CrossLeft(d) \in Int
  BY LaneNumber
<1>2. inc' = inc /\ ai' = ai /\ ci' = ci /\ k' = k
  BY DEF ArriveSpurious, CrossSpurious, arriveRest, crossRest
<1>3. CASE ArriveSpurious(d)
  <2>1. apc[d] = "wait" /\ apc'[d] = "lock" /\ cpc' = cpc
    BY <1>3 DEF ArriveSpurious, Woken
  <2>2. ArriveLeft(d) = 1 /\ ArriveLeft(d)' = 3
    BY <2>1 DEF ArriveLeft
  <2>3. CrossLeft(d)' = CrossLeft(d)
    BY <1>2, <2>1 DEF CrossLeft
  <2> QED
    BY <1>1, <1>2, <2>2, <2>3 DEF LaneLeft
<1>4. CASE CrossSpurious(d)
  <2>1. cpc[d] = "wait" /\ cpc'[d] = "lock" /\ apc' = apc
    BY <1>4 DEF CrossSpurious, Woken
  <2>2. CrossLeft(d) = 14 /\ CrossLeft(d)' = 16
    BY <2>1 DEF CrossLeft
  <2>3. ArriveLeft(d)' = ArriveLeft(d)
    BY <2>1 DEF ArriveLeft
  <2> QED
    BY <1>1, <1>2, <2>2, <2>3 DEF LaneLeft
<1> QED
  BY <1>3, <1>4

LEMMA LeftNumber == IInv => StepsLeft \in Nat
<1> SUFFICES ASSUME IInv PROVE StepsLeft \in Nat
  OBVIOUS
<1>1. \A d \in Dir : LaneLeft(d) \in Nat
  BY LaneNumber
<1>2. LaneLeft(NORTH) \in Nat /\ LaneLeft(WEST) \in Nat /\ LaneLeft(SOUTH) \in Nat /\ LaneLeft(EAST) \in Nat
  BY <1>1 DEF Dir, NORTH, WEST, SOUTH, EAST
<1>3. parsed \in 0..MaxCars /\ spurious \in 0..MaxSpurious /\ MainLeft \in 0..2
  BY DEF IInv, TypeOK, SetupType, CounterType, MainLeft
<1>4. 23 * (MaxCars - parsed) \in Nat /\ 3 * (MaxSpurious - spurious) \in Nat
  BY <1>3, CarsAssumption, SpuriousAssumption
<1> QED
  BY <1>2, <1>3, <1>4 DEF StepsLeft

(* The sum, in which only one lane differs.                                *)
LEMMA LeftSum ==
  ASSUME IInv, IInv', NEW d \in Dir, Others(d), NEW n \in Int, LaneLeft(d)' = LaneLeft(d) + n,
         NEW p \in Int, parsed' = parsed + p, NEW s \in Int, spurious' = spurious + s, main' = main
  PROVE  StepsLeft' = StepsLeft - 23 * p - 3 * s + n
<1>1. LaneLeft(0)' + LaneLeft(1)' + LaneLeft(2)' + LaneLeft(3)'
        = LaneLeft(0) + LaneLeft(1) + LaneLeft(2) + LaneLeft(3) + n
  BY LaneSum
<1>2. /\ LaneLeft(0) \in Int /\ LaneLeft(1) \in Int /\ LaneLeft(2) \in Int /\ LaneLeft(3) \in Int
      /\ LaneLeft(0)' \in Int /\ LaneLeft(1)' \in Int /\ LaneLeft(2)' \in Int /\ LaneLeft(3)' \in Int
  <2>1. 0 \in Dir /\ 1 \in Dir /\ 2 \in Dir /\ 3 \in Dir
    BY DEF Dir
  <2>2. \A e \in Dir : LaneLeft(e) \in Int
    BY LaneNumber
  <2>3. \A e \in Dir : LaneLeft(e)' \in Int
    BY LaneNumberNext
  <2> QED
    BY <2>1, <2>2, <2>3
<1>3. MainLeft' = MainLeft /\ MainLeft \in Int
  BY DEF MainLeft, IInv, TypeOK, SetupType
<1>4. parsed \in Int /\ spurious \in Int /\ MaxCars \in Int /\ MaxSpurious \in Int
  BY CarsAssumption, SpuriousAssumption DEF IInv, TypeOK, SetupType, CounterType
<1>5. /\ 23 * (MaxCars - parsed') = 23 * (MaxCars - parsed) - 23 * p
      /\ 3 * (MaxSpurious - spurious') = 3 * (MaxSpurious - spurious) - 3 * s
  BY <1>4
<1> QED
  BY <1>1, <1>2, <1>3, <1>4, <1>5 DEF StepsLeft, NORTH, WEST, SOUTH, EAST

(* For every schedule, capacity and set of turns, whatever the scheduler   *)
(* does: the program makes no more steps than are left in the beginning.   *)
(* With DeadlockFree, it can stop only where main has returned.            *)
THEOREM EveryRunEnds == Spec => [](StepsLeft \in Nat) /\ StepsRunOut
<1>1. ASSUME IInv, IInv', [Next]_vars, ~UNCHANGED vars PROVE StepsLeft' < StepsLeft
  <2>1. StepsLeft \in Int
    BY <1>1, LeftNumber
  <2>2. ASSUME NEW t \in Turns, ParseLine(t[1], t[2]) PROVE StepsLeft' < StepsLeft
    <3>1. PICK d \in Dir : d = t[1]
      <4>1. t \in Turns
        BY <2>2
      <4>2. t[1] \in Dir
        BY <4>1, TurnDirs
      <4> QED
        BY <4>2
    <3>2. /\ parsed' = parsed + 1 /\ inc'[d] = inc[d] + 1 /\ UNCHANGED <<main, spurious, apc, cpc, ai, ci, k>>
          /\ \A e \in Dir \ {d} : inc'[e] = inc[e]
      BY <1>1, <2>2, <3>1 DEF ParseLine, IInv, TypeOK, SetupType
    <3>3. Others(d)
      BY <3>2, LaneSame DEF Others
    <3>4. LaneLeft(d)' = LaneLeft(d) + 22
      <4>1. ArriveLeft(d)' = ArriveLeft(d) /\ CrossLeft(d)' = CrossLeft(d)
        BY <3>2 DEF ArriveLeft, CrossLeft
      <4>2. ArriveLeft(d) \in Int /\ CrossLeft(d) \in Int
        BY <1>1, LaneNumber
      <4>3. inc[d] \in Int /\ ai[d] \in Int /\ ci[d] \in Int
        BY <1>1 DEF IInv, TypeOK, SetupType, CounterType
      <4> QED
        BY <3>2, <4>1, <4>2, <4>3 DEF LaneLeft
    <3>5. spurious' = spurious + 0
      BY <1>1, <3>2 DEF IInv, TypeOK, CounterType
    <3>6. StepsLeft' = StepsLeft - 23 * 1 - 3 * 0 + 22
      <4> HIDE DEF StepsLeft
      <4> QED
        BY <1>1, <3>2, <3>3, <3>4, <3>5, LeftSum
    <3> QED
      BY <2>1, <3>6
  <2>3. CASE StartThreads
    <3>1. /\ main = "parse" /\ main' = "run" /\ UNCHANGED <<parsed, inc, spurious, ai, ci, k>>
          /\ \A d \in Dir : /\ apc[d] = "created" /\ cpc[d] = "created"
                            /\ apc'[d] \in {"lock", "done"} /\ cpc'[d] \in {"lock", "free"}
      BY <1>1, <2>3 DEF StartThreads, IInv, PhaseInv
    <3>2. MainLeft = 2 /\ MainLeft' = 1
      BY <3>1 DEF MainLeft
    <3>3. ASSUME NEW d \in Dir PROVE LaneLeft(d)' <= LaneLeft(d)
      <4>1. /\ ArriveLeft(d) = 4 /\ ArriveLeft(d)' \in {0, 3}
            /\ CrossLeft(d) = 17 /\ CrossLeft(d)' \in {1, 16}
        BY <3>1 DEF ArriveLeft, CrossLeft
      <4>2. inc[d] \in Int /\ ai[d] \in Int /\ ci[d] \in Int
        BY <1>1 DEF IInv, TypeOK, SetupType, CounterType
      <4> QED
        BY <3>1, <4>1, <4>2 DEF LaneLeft
    <3>4. /\ LaneLeft(0)' <= LaneLeft(0) /\ LaneLeft(1)' <= LaneLeft(1)
          /\ LaneLeft(2)' <= LaneLeft(2) /\ LaneLeft(3)' <= LaneLeft(3)
      BY <3>3 DEF Dir
    <3>5. \A d \in Dir : LaneLeft(d) \in Int /\ LaneLeft(d)' \in Int
      BY <1>1, LaneNumber, LaneNumberNext
    <3>6. /\ LaneLeft(0) \in Int /\ LaneLeft(1) \in Int /\ LaneLeft(2) \in Int /\ LaneLeft(3) \in Int
          /\ LaneLeft(0)' \in Int /\ LaneLeft(1)' \in Int /\ LaneLeft(2)' \in Int /\ LaneLeft(3)' \in Int
      BY <3>5 DEF Dir
    <3>7. 23 * (MaxCars - parsed) \in Int /\ 3 * (MaxSpurious - spurious) \in Int
      BY <1>1, CarsAssumption, SpuriousAssumption DEF IInv, TypeOK, SetupType, CounterType
    <3> QED
      BY <3>1, <3>2, <3>4, <3>6, <3>7 DEF StepsLeft, NORTH, WEST, SOUTH, EAST
  <2>4. CASE JoinAndVerify
    <3>1. main = "run" /\ main' = "done" /\ UNCHANGED <<parsed, spurious, inc, ai, ci, apc, cpc, k>>
      BY <2>4 DEF JoinAndVerify
    <3>2. MainLeft = 1 /\ MainLeft' = 0
      BY <3>1 DEF MainLeft
    <3>3. \A d \in Dir : LaneLeft(d)' = LaneLeft(d)
      BY <3>1, LaneSame
    <3>4. /\ LaneLeft(NORTH)' = LaneLeft(NORTH) /\ LaneLeft(WEST)' = LaneLeft(WEST)
          /\ LaneLeft(SOUTH)' = LaneLeft(SOUTH) /\ LaneLeft(EAST)' = LaneLeft(EAST)
      BY <3>3 DEF Dir, NORTH, WEST, SOUTH, EAST
    <3>5. /\ LaneLeft(NORTH) \in Int /\ LaneLeft(WEST) \in Int
          /\ LaneLeft(SOUTH) \in Int /\ LaneLeft(EAST) \in Int
      <4>1. \A d \in Dir : LaneLeft(d) \in Int
        BY <1>1, LaneNumber
      <4> QED
        BY <4>1 DEF Dir, NORTH, WEST, SOUTH, EAST
    <3>6. 23 * (MaxCars - parsed) \in Int /\ 3 * (MaxSpurious - spurious) \in Int
      BY <1>1, CarsAssumption, SpuriousAssumption DEF IInv, TypeOK, SetupType, CounterType
    <3> QED
      BY <3>1, <3>2, <3>4, <3>5, <3>6 DEF StepsLeft
  <2>5. ASSUME NEW d \in Dir, Arrive(d) \/ Cross(d) PROVE StepsLeft' < StepsLeft
    <3>1. LaneLeft(d)' < LaneLeft(d) /\ LaneLeft(d) \in Int /\ LaneLeft(d)' \in Int
      BY <1>1, <2>5, ArriveFalls, CrossFalls, LaneNumber, LaneNumberNext
    <3>2. PICK n \in Int : n < 0 /\ LaneLeft(d)' = LaneLeft(d) + n
      <4>1. LaneLeft(d)' - LaneLeft(d) < 0 /\ LaneLeft(d)' - LaneLeft(d) \in Int
            /\ LaneLeft(d)' = LaneLeft(d) + (LaneLeft(d)' - LaneLeft(d))
        BY <3>1
      <4> QED
        BY <4>1
    <3>3. UNCHANGED <<main, parsed, spurious>>
      BY <2>5 DEF Arrive, Cross, ArriveLock, ArriveWait, WriteToBuf, ArriveSignalUnlock,
             CrossLock, CrossWait, ReadFromBuf, CrossSignalUnlock, AcquireQuad, LinkCar,
             PublishCar, ReleaseQuad, FreeBuffer, arriveRest, crossRest, setupVars
    <3>4. parsed' = parsed + 0 /\ spurious' = spurious + 0
      BY <1>1, <3>3 DEF IInv, TypeOK, SetupType, CounterType
    <3>5. Others(d)
      BY <1>1, <2>5, OneLane
    <3>6. StepsLeft' = StepsLeft - 23 * 0 - 3 * 0 + n
      BY <1>1, <3>2, <3>3, <3>4, <3>5, LeftSum
    <3> QED
      BY <2>1, <3>2, <3>6
  <2>6. ASSUME NEW d \in Dir, ArriveSpurious(d) \/ CrossSpurious(d) PROVE StepsLeft' < StepsLeft
    <3>1. LaneLeft(d)' = LaneLeft(d) + 2
      BY <1>1, <2>6, SpuriousRises
    <3>2. main' = main /\ parsed' = parsed /\ spurious' = spurious + 1
      BY <2>6 DEF ArriveSpurious, CrossSpurious, arriveRest, crossRest, setupVars
    <3>3. parsed' = parsed + 0
      BY <1>1, <3>2 DEF IInv, TypeOK, SetupType
    <3>4. Others(d)
      BY <1>1, <2>6, OneLane
    <3>5. StepsLeft' = StepsLeft - 23 * 0 - 3 * 1 + 2
      BY <1>1, <3>1, <3>2, <3>3, <3>4, LeftSum
    <3> QED
      BY <2>1, <3>5
  <2> QED
    BY <1>1, <2>2, <2>3, <2>4, <2>5, <2>6 DEF Next, Terminated
<1>2. IInv /\ IInv' /\ [Next]_vars => [StepsLeft' < StepsLeft]_vars
  BY <1>1
<1> QED
  BY <1>2, LeftNumber, Invariance, PTL DEF Spec, StepsRunOut

(* Crossing cars hold up the producer of the lane NORTH at most: the cost  *)
(* of quadrant 4 being out of the array, for any schedule.                 *)
THEOREM OthersNotHeldUp == Spec => []OnlyNorthHeldUp
<1>1. ASSUME IInv, NEW d \in Dir, NEW e \in Dir,
             cpc[d] \in {"quads", "link", "publish", "release"},
             owner[LaneLock(e)] = <<"cross", d>>
      PROVE  /\ e = NORTH
             /\ \E i \in 0..(NumQuads(d) - 1) : PathLock(d, i) = Quad(4)
  <2>1. LaneLock(e) \in Mutexes
    BY DEF LaneLock, Mutexes, Dir
  <2>2. LaneLock(e) \in CrossHolds(d)
    BY <1>1, <2>1 DEF IInv, LockInv, LockOK
  <2>3. cur[d] \in Cars /\ NumQuads(d) \in 1..4
    BY <1>1, HandFacts DEF HasCar
  <2>4. PICK i \in 0..(NumQuads(d) - 1) : LaneLock(e) = PathLock(d, i)
    <3>1. CASE cpc[d] \in {"quads", "release"}
      <4>1. k[d] \in Nat /\ k[d] < NumQuads(d)
        BY <1>1, <3>1, QuadIndex
      <4> QED
        BY <2>2, <2>3, <3>1, <4>1 DEF CrossHolds, PathLocks
    <3>2. CASE cpc[d] \in {"link", "publish"}
      BY <2>2, <3>2 DEF CrossHolds, PathLocks
    <3> QED
      BY <1>1, <3>1, <3>2
  <2>5. LaneLock(e) \in 1..4
    <3>1. TypeOK
      BY <1>1 DEF IInv
    <3> QED
      BY <2>3, <2>4, <3>1, PathFacts
  <2>6. e = 0 /\ LaneLock(e) = 4
    BY <2>5 DEF LaneLock, Dir
  <2> QED
    BY <2>4, <2>6 DEF NORTH, Quad
<1>2. IInv => OnlyNorthHeldUp
  BY <1>1 DEF OnlyNorthHeldUp
<1> QED
  BY <1>2, Invariance, PTL
=============================================================================
