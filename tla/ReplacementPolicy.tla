------------------------- MODULE ReplacementPolicy -------------------------
(***************************************************************************)
(* What the replacement algorithms promise: the resident pages in the      *)
(* order in which they will be given up, and how a reference changes it.   *)
(***************************************************************************)
EXTENDS Integers, Sequences, SequencesExt

CONSTANTS Pages, Capacity

VARIABLES policy, order, marked     \* marked: referenced since last passed

vars == <<policy, order, marked>>

Init ==
  /\ policy \in {"rand", "clock", "fifo", "lru"}
  /\ order = <<>> /\ marked = {}

Resident == ToSet(order)

(* Only the least recently used order changes when a page is used again.   *)
Hit(p) ==
  /\ \E i \in DOMAIN order :
       /\ order[i] = p
       /\ order' = IF policy = "lru" THEN Append(RemoveAt(order, i), p) ELSE order
  /\ marked' = marked \cup {p}

Load(p) ==
  /\ p \notin Resident /\ Len(order) < Capacity
  /\ order' = Append(order, p)
  /\ marked' = marked \cup {p}

ReplaceAny(p) ==
  /\ policy = "rand"
  /\ \E i \in 1..Capacity : order' = [order EXCEPT ![i] = p]
  /\ marked' = (marked \cup {p}) \cap ToSet(order')

ReplaceFirst(p) ==
  /\ policy \in {"fifo", "lru"}
  /\ order' = Append(Tail(order), p)
  /\ marked' = (marked \cup {p}) \ {Head(order)}

(* Second chance: marked pages at the front lose their mark and go to the  *)
(* end, one after the other, until the first page is not marked.           *)
SecondChance(p) ==
  /\ policy = "clock"
  /\ \E k \in 0..Capacity :
       LET passed == {order[j] : j \in 1..k}
           turned == SubSeq(order, k + 1, Capacity) \o SubSeq(order, 1, k)
       IN
       /\ passed \subseteq marked
       /\ k = Capacity \/ order[k + 1] \notin marked
       /\ order' = Append(Tail(turned), p)
       /\ marked' = (marked \cup {p}) \ (passed \cup {Head(turned)})

Replace(p) ==
  /\ p \notin Resident /\ Len(order) = Capacity
  /\ ReplaceAny(p) \/ ReplaceFirst(p) \/ SecondChance(p)

Next == \E p \in Pages : (Hit(p) \/ Load(p) \/ Replace(p)) /\ UNCHANGED policy

Spec == Init /\ [][Next]_vars
=============================================================================
