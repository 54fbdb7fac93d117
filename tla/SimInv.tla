------------------------------- MODULE SimInv -------------------------------
(***************************************************************************)
(* What the simulator of A3 keeps true, the inductive invariant behind it, *)
(* and the two specifications it implements.                               *)
(***************************************************************************)
EXTENDS Sim

(* A page that is valid is the one in its frame, and a frame in use holds  *)
(* a valid page: after any history of evictions the two tables are inverse *)
(* to each other.                                                          *)
TablesInverse ==
  /\ \A v \in Pages : pte[v].valid => coremap[pte[v].frame] = v
  /\ \A f \in Frames : coremap[f] # NoPage =>
       pte[coremap[f]].valid /\ pte[coremap[f]].frame = f

(* No two pages share a slot of the swap file, and the slot of a page is   *)
(* marked, also when writing has failed before.                            *)
SlotsUnique ==
  /\ \A v, w \in Pages : pte[v].swap_off = pte[w].swap_off =>
       v = w \/ pte[v].swap_off = INVALID_SWAP
  /\ \A v \in Pages : pte[v].swap_off # INVALID_SWAP => pte[v].swap_off \in swapmap

(* The states of a page: no page is both valid and on swap (the assertion  *)
(* of find_physpage), a page goes to swap only when memory is full, and a  *)
(* page without a slot was never evicted or its eviction was reported.     *)
LifeInv ==
  \A v \in Pages :
    /\ pte[v].onswap => ~pte[v].valid /\ Full
    /\ ~pte[v].valid /\ ~pte[v].onswap => pte[v].swap_off = INVALID_SWAP
    /\ pte[v].onswap /\ pte[v].swap_off = INVALID_SWAP => reported

(* Where the content of a page is.                                         *)
Content(v) == CASE pte[v].valid -> physmem[pte[v].frame]
                [] ~pte[v].valid /\ pte[v].onswap /\ pte[v].swap_off # INVALID_SWAP ->
                     swapFile[pte[v].swap_off]
                [] OTHER -> [vaddr |-> v, version |-> 0]

(* As long as no error has been printed, the check of access_mem would     *)
(* succeed for every page.                                                 *)
AddressKept == ~reported => \A v \in Pages : Content(v).vaddr = v

(* evict_clean_count counts pages whose copy on swap is up to date: a page *)
(* without the dirty bit equals what is in its slot.                       *)
CleanSaved ==
  ~reported => \A v \in Pages : pte[v].valid /\ ~pte[v].dirty =>
    pte[v].swap_off # INVALID_SWAP /\ swapFile[pte[v].swap_off] = physmem[pte[v].frame]

(* The counters printed at the end account for every reference, and every  *)
(* miss has taken a free frame or evicted a page.                          *)
CountsAddUp ==
  /\ count.hit + count.miss = count.ref
  /\ count.miss = Cardinality({f \in Frames : coremap[f] # NoPage})
                    + count.clean + count.dirty

IInv == SimType /\ TablesInverse /\ SlotsUnique /\ LifeInv /\ AddressKept
        /\ CleanSaved /\ CountsAddUp

(* The simulated memory is a flat memory: whatever is evicted and paged in *)
(* again, no store is lost or repeated before an error is reported.        *)
Flat == INSTANCE Memory WITH
  stores <- [v \in Pages |-> IF reported THEN 0 ELSE Content(v).version],
  failed <- reported
ImplementsMemory == Flat!Spec

(***************************************************************************)
(* The replacement algorithms.                                             *)
(***************************************************************************)
Used == {f \in Frames : coremap[f] # NoPage}

(* The frames in the order in which the algorithm will give them up.       *)
Chain(first) ==
  LET at[i \in 1..Cardinality(Used)] == IF i = 1 THEN first ELSE links.frame_above[at[i - 1]]
  IN at
FrameOrder ==
  CASE alg = "fifo" -> Chain(links.oldestf)
    [] alg = "lru" -> Chain(links.bottom_node)
    [] alg = "clock" -> [i \in 1..Cardinality(Used) |-> Hand(links, i - 1)]
    [] alg = "rand" -> [i \in 1..Cardinality(Used) |-> i - 1]

PageOrder == [i \in DOMAIN FrameOrder |-> coremap[FrameOrder[i]]]
Marked == {v \in Pages : pte[v].valid /\ pte[v].ref}

(* The lists that fifo and lru keep in the coremap, with their frames that *)
(* point to themselves and their pointers that are set late, give up pages *)
(* in the order of loading and of last use; clock gives second chances.    *)
Policy == INSTANCE ReplacementPolicy WITH
  policy <- alg, Capacity <- memsize, order <- PageOrder, marked <- Marked
ImplementsPolicy == Policy!Spec

(* The assertions of lru_ref hold for the next reference to any page in    *)
(* memory.                                                                 *)
LruAsserts ==
  alg = "lru" => \A f \in Used :
    LET up == links.frame_above[f]  down == links.frame_below[f] IN
    /\ links.top_node # NULL /\ up = NULL /\ down # NULL => f = links.top_node
    /\ links.top_node # NULL /\ up # NULL /\ down = NULL => f = links.bottom_node

(* lru.c: "Returns the page frame number" of the page to evict.  Whenever  *)
(* memory is full, so that the next miss calls evict_fcn, the function     *)
(* comes to its end without following a NULL pointer.                      *)
EvictReturns == Full => ~FollowsNull

(***************************************************************************)
(* The invariant of the pointers behind LruAsserts and EvictReturns, for   *)
(* the frames U in use.  It speaks of each frame and its neighbours, not   *)
(* of the order that they make up.                                         *)
(***************************************************************************)
Unlinked(q, f) == q.frame_above[f] = NULL /\ q.frame_below[f] = NULL

(* Before the second frame is in use there is no youngestf, unless the     *)
(* first is referred to again: then it is that, and above itself.          *)
FifoInv(q, U) ==
  /\ \A f \in Frames \ U : q.frame_above[f] = NULL
  /\ q.oldestf = NULL => U = {} /\ q.youngestf = NULL
  /\ q.oldestf # NULL => q.oldestf \in U
  /\ q.oldestf # NULL /\ q.youngestf = NULL =>
       U = {q.oldestf} /\ q.frame_above[q.oldestf] = NULL
  /\ q.youngestf # NULL =>
       /\ q.youngestf \in U /\ q.frame_above[q.youngestf] \in {NULL, q.youngestf}
       /\ q.youngestf = q.oldestf => U = {q.oldestf}
       /\ \A f \in U \ {q.youngestf} : q.frame_above[f] \in U \ {f}

LruInv(q, U) ==
  /\ \A f \in Frames \ U : Unlinked(q, f)
  /\ q.bottom_node = NULL => U = {} /\ q.top_node = NULL
  /\ q.bottom_node # NULL => q.bottom_node \in U
  /\ q.bottom_node # NULL /\ q.top_node = NULL =>
       U = {q.bottom_node} /\ Unlinked(q, q.bottom_node)
  /\ q.top_node # NULL =>
       /\ q.top_node \in U \ {q.bottom_node}
       /\ \A f \in U :
            LET up == q.frame_above[f]  down == q.frame_below[f] IN
            /\ IF f = q.top_node THEN up = NULL ELSE up \in U /\ q.frame_below[up] = f
            /\ IF f = q.bottom_node THEN down = NULL ELSE down \in U /\ q.frame_above[down] = f

LinksInv ==
  /\ alg = "fifo" => FifoInv(links, Used)
  /\ alg = "lru" => LruInv(links, Used)

(***************************************************************************)
(* The invariant behind ImplementsPolicy.  The order that fifo and lru     *)
(* keep in their pointers has every frame of U in it once; frames are used *)
(* from number 0 on, and the hand of clock moves only when all are.        *)
(***************************************************************************)
InOrder(l, q, U, first) ==
  /\ l \in [1..Cardinality(U) -> U]
  /\ \A f \in U : \E i \in DOMAIN l : l[i] = f
  /\ \A i, j \in DOMAIN l : l[i] = l[j] => i = j
  /\ U # {} => l[1] = first
  /\ \A i \in DOMAIN l : i > 1 => l[i] = q.frame_above[l[i - 1]]

OrderInv ==
  /\ Used = 0..(Cardinality(Used) - 1)
  /\ alg = "clock" /\ ~Full => links.clock_hand = 0
  /\ alg = "fifo" => InOrder(FrameOrder, links, Used, links.oldestf)
  /\ alg = "lru" => InOrder(FrameOrder, links, Used, links.bottom_node)
==============================================================================
