------------------------------- MODULE Memory -------------------------------
(***************************************************************************)
(* What the virtual memory of A3 promises the program whose trace it       *)
(* replays: a flat memory in which every store to a page is counted, until *)
(* an error is reported.                                                   *)
(***************************************************************************)
EXTENDS Naturals

CONSTANT Pages

VARIABLES stores, failed

vars == <<stores, failed>>

Nothing == [v \in Pages |-> 0]

Init == stores = Nothing /\ failed = FALSE

Store(v) ==
  /\ ~failed
  /\ stores' = [stores EXCEPT ![v] = @ + 1]
  /\ UNCHANGED failed

(* From now on nothing is promised.                                        *)
Fail ==
  /\ ~failed
  /\ failed' = TRUE
  /\ stores' = Nothing

Next == Fail \/ \E v \in Pages : Store(v)

Spec == Init /\ [][Next]_vars
=============================================================================
