---------------------------- MODULE Replacement ----------------------------
(***************************************************************************)
(* The replacement algorithms of A3: what evict_fcn and ref_fcn do to      *)
(* their lists and to the page table.  The frames of the coremap are nodes *)
(* of the lists; a pointer is a frame or NULL.                             *)
(***************************************************************************)
EXTENDS PageTable

NULL == -1
Pointer == Frames \cup {NULL}

Links == [clock_hand : 0..memsize, frame_above : [Frames -> Pointer],
          frame_below : [Frames -> Pointer], oldestf : Pointer, youngestf : Pointer,
          top_node : Pointer, bottom_node : Pointer]

NoLinks == [clock_hand |-> 0, frame_above |-> [f \in Frames |-> NULL],
            frame_below |-> [f \in Frames |-> NULL], oldestf |-> NULL,
            youngestf |-> NULL, top_node |-> NULL, bottom_node |-> NULL]

(***************************************************************************)
(* clock_evict, at the hand of q: the frames passed before the first one   *)
(* without its reference bit, or a whole round if all have it.             *)
(***************************************************************************)
Hand(q, k) == ((IF q.clock_hand >= memsize THEN 0 ELSE q.clock_hand) + k) % memsize
Referenced(f) == pte[coremap[f]].ref
Passed(q, k) == \A j \in 0..(k - 1) : Referenced(Hand(q, j))

ClockStops(q, k) ==
  /\ k \in 0..memsize /\ Passed(q, k)
  /\ k = memsize \/ ~Referenced(Hand(q, k))

ClockLaps(q) == CHOOSE k \in 0..memsize : ClockStops(q, k)
ClockVictim(q) == Hand(q, ClockLaps(q))

(* Seeded bug: the hand stays on the frame that is given away.             *)
ClockEvictStay(q) == [q EXCEPT !.clock_hand = ClockVictim(q)]

ClockEvict(q) == [q EXCEPT !.clock_hand = ClockVictim(q) + 1]
ClockTable(q) ==
  [v \in Pages |-> [pte[v] EXCEPT !.ref =
     @ /\ ~\E j \in 0..(ClockLaps(q) - 1) : coremap[Hand(q, j)] = v]]

(***************************************************************************)
(* fifo_evict, fifo_ref.  A frame without a frame_above is taken for one   *)
(* that is not in the queue, the youngest one too.                         *)
(***************************************************************************)
FifoEvict(q) ==
  [q EXCEPT !.oldestf = q.frame_above[q.oldestf], !.frame_above[q.oldestf] = NULL]

FifoRef(q, f) ==
  CASE q.frame_above[f] # NULL -> q
    [] q.frame_above[f] = NULL /\ q.oldestf = NULL -> [q EXCEPT !.oldestf = f]
    [] q.frame_above[f] = NULL /\ q.oldestf # NULL /\ q.youngestf = NULL ->
         [q EXCEPT !.youngestf = f, !.frame_above[q.oldestf] = f]
    [] OTHER -> [q EXCEPT !.frame_above[q.youngestf] = f, !.youngestf = f]

(***************************************************************************)
(* lru_evict, lru_ref.  evict_fcn needs a frame above the bottom.          *)
(***************************************************************************)
(* Seeded bug: bottom_node stays where it is.                              *)
DropBottomStale(q) == [q EXCEPT !.frame_below[q.frame_above[q.bottom_node]] = NULL]

DropBottom(q) == [q EXCEPT !.bottom_node = q.frame_above[q.bottom_node],
                           !.frame_below[q.frame_above[q.bottom_node]] = NULL]

LruEvict(q) == [DropBottom(q) EXCEPT !.frame_above[q.bottom_node] = NULL,
                                     !.frame_below[q.bottom_node] = NULL]

(* Seeded bug: the old top gets no frame_above.                            *)
PushDown(q, f) == [q EXCEPT !.frame_below[f] = q.top_node, !.top_node = f]

Push(q, f) == [q EXCEPT !.frame_above[q.top_node] = f, !.frame_below[f] = q.top_node,
                        !.top_node = f]
MoveToTop(q, f) == [Push(q, f) EXCEPT !.frame_above[f] = NULL]

LruRef(q, f) ==
  LET up == q.frame_above[f]  down == q.frame_below[f]
      two == q.bottom_node # NULL /\ q.top_node # NULL
  IN
  CASE q.bottom_node = NULL ->
         [q EXCEPT !.bottom_node = f, !.frame_above[f] = NULL, !.frame_below[f] = NULL]
    [] q.bottom_node # NULL /\ q.top_node = NULL ->
         IF f = q.bottom_node THEN q
         ELSE [q EXCEPT !.top_node = f, !.frame_below[f] = q.bottom_node,
                        !.frame_above[q.bottom_node] = f]
    [] two /\ up = NULL /\ down = NULL -> Push(q, f)
    [] two /\ up = NULL /\ down # NULL -> q
    [] two /\ up # NULL /\ down = NULL -> MoveToTop(DropBottom(q), f)
    [] OTHER ->
         MoveToTop([q EXCEPT !.frame_above[down] = up, !.frame_below[up] = down], f)
=============================================================================
