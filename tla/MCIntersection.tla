--------------------------- MODULE MCIntersection ---------------------------
(***************************************************************************)
(* Model-checking instances of the intersection.                           *)
(***************************************************************************)
EXTENDS IntersectionFlow

(* Every turn, so every pair of paths meets.                               *)
AllTurns == Dir \X Dir

(* One busy lane beside crossing traffic: NORTH cars that turn left (and   *)
(* so use quadrant 4) or right, and a SOUTH car that goes straight on.     *)
BusyTurns == {<<NORTH, EAST>>, <<NORTH, WEST>>, <<SOUTH, NORTH>>}

(* Three lanes whose paths overlap in every quadrant.                      *)
MixedTurns == {<<NORTH, NORTH>>, <<WEST, SOUTH>>, <<EAST, SOUTH>>}
=============================================================================
