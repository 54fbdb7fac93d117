------------------------------- MODULE Roads -------------------------------
(***************************************************************************)
(* The geometry of the intersection of A2/cars.c: directions, turns, the   *)
(* quadrants a car passes through, and the mutexes that stand for them.    *)
(* Everything here is a pure function of the car's two directions.         *)
(***************************************************************************)
EXTENDS Integers, Sequences

NORTH == 0
WEST  == 1
SOUTH == 2
EAST  == 3
Dir   == 0..3                  \* enum direction, without MAX_DIRECTION

RIGHT_TURN == 1
NO_TURN    == 2
LEFT_TURN  == 3
U_TURN     == 4                \* enum turn: its value is also the path length

(* Seeded bug: the tests for a right and a left turn exchanged.            *)
ComputeTurnSwapped(in, out) ==
  IF in = out                THEN U_TURN
  ELSE IF (in + 1) % 4 = out THEN LEFT_TURN
  ELSE IF in = (out + 1) % 4 THEN RIGHT_TURN
  ELSE NO_TURN

(* compute_turn for directions in range; out of range it exits.            *)
ComputeTurn(in, out) ==
  IF in = out                THEN U_TURN
  ELSE IF (in + 1) % 4 = out THEN RIGHT_TURN
  ELSE IF in = (out + 1) % 4 THEN LEFT_TURN
  ELSE NO_TURN

(* build_path_array: the quadrants, in the order their locks are taken.    *)
BuildPath(in, turn) ==
  CASE turn = U_TURN -> <<1, 2, 3, 4>>
    [] turn = RIGHT_TURN /\ in = NORTH -> <<2>>
    [] turn = RIGHT_TURN /\ in = WEST  -> <<3>>
    [] turn = RIGHT_TURN /\ in = SOUTH -> <<4>>
    [] turn = RIGHT_TURN /\ in = EAST  -> <<1>>
    [] turn = LEFT_TURN  /\ in = NORTH -> <<2, 3, 4>>
    [] turn = LEFT_TURN  /\ in = WEST  -> <<1, 3, 4>>
    [] turn = LEFT_TURN  /\ in = SOUTH -> <<1, 2, 4>>
    [] turn = LEFT_TURN  /\ in = EAST  -> <<1, 2, 3>>
    [] turn = NO_TURN    /\ in = NORTH -> <<2, 3>>
    [] turn = NO_TURN    /\ in = WEST  -> <<3, 4>>
    [] turn = NO_TURN    /\ in = SOUTH -> <<1, 4>>
    [] turn = NO_TURN    /\ in = EAST  -> <<1, 2>>

ComputePath(in, out) == BuildPath(in, ComputeTurn(in, out))

(***************************************************************************)
(* The mutexes of struct intersection, numbered by their address: quad[0]  *)
(* to quad[3], then the lock that is the first member of each lane.  The   *)
(* code indexes quad with the quadrant numbers 1..4 of a path, so quadrant *)
(* 4 reaches one past the array: the lock of lanes[NORTH].                 *)
(***************************************************************************)
Mutexes     == 0..7
Quad(i)     == i
LaneLock(d) == 4 + d
=============================================================================
