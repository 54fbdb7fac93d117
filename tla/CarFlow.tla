------------------------------ MODULE CarFlow ------------------------------
(***************************************************************************)
(* What the intersection promises: cars wait in one line per lane, the     *)
(* last car of the schedule first; the car at the head of a line crosses   *)
(* in one step and becomes the first of the lane it leaves by; the program *)
(* ends only when nobody waits.  No threads, no locks, no buffer.          *)
(***************************************************************************)
EXTENDS Roads

CONSTANTS MaxCars, Turns

VARIABLES phase, turn, waiting, out

flowVars == <<phase, turn, waiting, out>>

Init ==
  /\ phase = "parse" /\ turn = <<>>
  /\ waiting = [d \in Dir |-> <<>>] /\ out = [d \in Dir |-> <<>>]

Line(t) ==
  /\ phase = "parse" /\ Len(turn) < MaxCars
  /\ turn' = Append(turn, t)
  /\ waiting' = [waiting EXCEPT ![t[1]] = <<Len(turn')>> \o @]
  /\ UNCHANGED <<phase, out>>

Open == phase = "parse" /\ phase' = "run" /\ UNCHANGED <<turn, waiting, out>>

CrossOver(d) ==
  /\ phase = "run" /\ waiting[d] # <<>>
  /\ LET car == Head(waiting[d]) IN
       out' = [out EXCEPT ![turn[car][2]] = <<car>> \o @]
  /\ waiting' = [waiting EXCEPT ![d] = Tail(@)]
  /\ UNCHANGED <<phase, turn>>

Close ==
  /\ phase = "run" /\ \A d \in Dir : waiting[d] = <<>>
  /\ phase' = "done" /\ UNCHANGED <<turn, waiting, out>>

Next ==
  \/ \E t \in Turns : Line(t)
  \/ Open \/ Close
  \/ \E d \in Dir : CrossOver(d)

Spec == Init /\ [][Next]_flowVars
=============================================================================
