-------------------------------- MODULE Sim --------------------------------
(***************************************************************************)
(* The simulator of A3 replaying a trace: the page table of PageTable with *)
(* the replacement algorithm that was named on the command line.           *)
(***************************************************************************)
EXTENDS Replacement

CONSTANT Algorithms     \* the algorithms to choose from

ASSUME AlgorithmsAssumption == Algorithms \subseteq {"rand", "clock", "fifo", "lru"}

VARIABLES
  alg,      \* the entry of algs that main has chosen
  links     \* the variables of the algorithms and the links of the coremap

vars == <<ptVars, alg, links>>

SimType == TypeOK /\ alg \in Algorithms /\ links \in Links

SimInit == Init /\ alg \in Algorithms /\ links = NoLinks

(* ref_fcn, for the page in frame f                                        *)
RefFcn(q, f) == CASE alg = "fifo" -> FifoRef(q, f)
                  [] alg = "lru" -> LruRef(q, f)
                  [] OTHER -> q

(* evict_fcn: may n be its choice, does it follow a NULL pointer, and what *)
(* does it leave?                                                          *)
Chooses(n) == CASE alg = "rand" -> n \in Frames
                [] alg = "clock" -> n = ClockVictim(links)
                [] alg = "fifo" -> n = links.oldestf
                [] alg = "lru" -> n = links.bottom_node
FollowsNull ==
  \/ alg = "fifo" /\ links.oldestf = NULL
  \/ alg = "lru" /\ (links.bottom_node = NULL \/ links.frame_above[links.bottom_node] = NULL)
LinksAfter == CASE alg = "clock" -> ClockEvict(links)
                [] alg = "fifo" -> FifoEvict(links)
                [] alg = "lru" -> LruEvict(links)
                [] alg = "rand" -> links
TableAfter == IF alg = "clock" THEN ClockTable(links) ELSE pte

(* evict_fcn returns the frame that the entry of the page in n names, rand *)
(* returns n.                                                              *)
FrameOf(n) == IF alg = "rand" THEN n ELSE pte[coremap[n]].frame

Running == count.ref < MaxRefs

SimHit(v, write) ==
  /\ Running /\ Hit(v, write)
  /\ links' = RefFcn(links, pte'[v].frame)
  /\ UNCHANGED alg

SimMissFree(v, write) ==
  /\ Running /\ MissFree(v, write)
  /\ links' = RefFcn(links, pte'[v].frame)
  /\ UNCHANGED alg

(* A miss that makes evict_fcn follow NULL is the end of the program.      *)
SimMissEvict(v, write) ==
  /\ Running /\ Full /\ ~FollowsNull
  /\ \E n \in Frames : Chooses(n) /\ MissEvict(v, FrameOf(n), TableAfter, write)
  /\ links' = RefFcn(LinksAfter, pte'[v].frame)
  /\ UNCHANGED alg

Next ==
  \E v \in Pages, write \in BOOLEAN :
    SimHit(v, write) \/ SimMissFree(v, write) \/ SimMissEvict(v, write)

Spec == SimInit /\ [][Next]_vars
=============================================================================
