------------------------------- MODULE MCSim -------------------------------
(* Instances of the simulator.  Nothing in it, in its invariants or in the *)
(* two specifications it is compared with depends on which page is which,  *)
(* and all its properties are safety properties, so the pages may be       *)
(* permuted.                                                               *)
EXTENDS SimInv, TLC

PagesSymmetry == Permutations(Pages)
=============================================================================
