----------------------------- MODULE PageTable -----------------------------
(***************************************************************************)
(* The virtual memory simulator of A3 without its replacement algorithm:   *)
(* page table, coremap, physical memory and swap file, as one memory       *)
(* access (access_mem) changes them.  The two levels of the page table are *)
(* one function of the page; traces hold page addresses.  A page's content *)
(* is its address and its version counter.                                 *)
(***************************************************************************)
EXTENDS Integers, FiniteSets

CONSTANTS
  Pages, NoPage,   \* the pages of the trace; the pte of a free frame
  memsize,         \* frames of physical memory
  swapsize,        \* slots of the swap file
  IOErrors,        \* can seeking, reading and writing the swap file fail?
  MaxRefs          \* bound on the length of the trace

ASSUME PagesAssumption == NoPage \notin Pages
ASSUME SizesAssumption == memsize \in Nat \ {0} /\ swapsize \in Nat
ASSUME FlagsAssumption == IOErrors \in BOOLEAN /\ MaxRefs \in Nat

INVALID_SWAP == -1
Frames == 0..(memsize - 1)
Slots  == 0..(swapsize - 1)     \* multiples of SIMPAGESIZE in the file

VARIABLES
  pte,        \* page table
  coremap,    \* the page in each frame
  physmem, swapFile,       \* contents of frames and slots
  swapmap,    \* slots in use
  count,      \* hit_count, miss_count, ref_count, evict_*_count
  reported    \* has an error been printed on stderr?

swapVars == <<swapFile, swapmap>>
ptVars == <<pte, coremap, physmem, swapVars, count, reported>>

Page == [vaddr : Pages \cup {NoPage}, version : Nat]
Entry == [valid : BOOLEAN, dirty : BOOLEAN, ref : BOOLEAN, onswap : BOOLEAN,
          frame : Frames, swap_off : Slots \cup {INVALID_SWAP}]

TypeOK ==
  /\ pte \in [Pages -> Entry]
  /\ coremap \in [Frames -> Pages \cup {NoPage}]
  /\ physmem \in [Frames -> Page] /\ swapFile \in [Slots -> Page]
  /\ swapmap \subseteq Slots
  /\ count \in [hit : Nat, miss : Nat, ref : Nat, clean : Nat, dirty : Nat]
  /\ reported \in BOOLEAN

Blank == [vaddr |-> NoPage, version |-> 0]

Init ==
  /\ pte = [v \in Pages |-> [valid |-> FALSE, dirty |-> FALSE, ref |-> FALSE,
                             onswap |-> FALSE, frame |-> 0, swap_off |-> INVALID_SWAP]]
  /\ coremap = [f \in Frames |-> NoPage]
  /\ physmem = [f \in Frames |-> Blank]
  /\ swapFile = [s \in Slots |-> Blank]
  /\ swapmap = {}
  /\ count = [hit |-> 0, miss |-> 0, ref |-> 0, clean |-> 0, dirty |-> 0]
  /\ reported = FALSE

(***************************************************************************)
(* swap_pageout: writes frame f to its slot, or to the first free one when *)
(* it has none; r is the offset returned.  A failed write leaves a slot    *)
(* that was just taken marked.                                             *)
(***************************************************************************)
(* Seeded bug: the bitmap is not looked at.                                *)
FirstFreeBlind(s) == s \in Slots /\ \A r \in Slots : s <= r

FirstFree(s) == s \in Slots \ swapmap /\ \A r \in Slots \ swapmap : s <= r

SlotFor(off, s) == IF off = INVALID_SWAP THEN FirstFree(s) ELSE s = off

(* Seeded bug: a page that has a slot already is not written again.        *)
PageoutOnce(f, off, r) ==
  \/ r \in Slots /\ r = off /\ UNCHANGED swapVars
  \/ /\ r \in Slots /\ off = INVALID_SWAP /\ FirstFree(r)
     /\ swapFile' = [swapFile EXCEPT ![r] = physmem[f]]
     /\ swapmap' = swapmap \cup {r}
  \/ r = INVALID_SWAP /\ off = INVALID_SWAP /\ swapmap = Slots /\ UNCHANGED swapVars

Pageout(f, off, r) ==
  \/ /\ r \in Slots /\ SlotFor(off, r)
     /\ swapFile' = [swapFile EXCEPT ![r] = physmem[f]]
     /\ swapmap' = swapmap \cup {r}
  \/ /\ r = INVALID_SWAP /\ off = INVALID_SWAP /\ swapmap = Slots
     /\ UNCHANGED swapVars
  \/ /\ r = INVALID_SWAP /\ IOErrors
     /\ \E s \in Slots : SlotFor(off, s) /\ swapmap' = swapmap \cup {s}
     /\ UNCHANGED swapFile

(* swap_pagein, unless the page has no slot: physical memory afterwards    *)
Pagein(f, off, ok) ==
  IF off # INVALID_SWAP /\ ok THEN [physmem EXCEPT ![f] = swapFile'[off]] ELSE physmem

(***************************************************************************)
(* The end of find_physpage, and access_mem: page v is in frame f of       *)
(* memory m, t is the page table, failed tells of an error on the way.     *)
(***************************************************************************)
(* Seeded bug: a store does not make the page dirty.                       *)
TouchClean(e, write) == [e EXCEPT !.valid = TRUE, !.ref = TRUE]

Touch(e, write) == [e EXCEPT !.valid = TRUE, !.ref = TRUE, !.dirty = @ \/ write]

Access(v, f, t, m, write, failed) ==
  /\ pte' = [t EXCEPT ![v] = Touch(@, write)]
  /\ physmem' = [m EXCEPT ![f].version = IF write THEN @ + 1 ELSE @]
  /\ reported' = (reported \/ failed \/ m[f].vaddr # v)

Hit(v, write) ==
  /\ pte[v].valid
  /\ Access(v, pte[v].frame, pte, physmem, write, FALSE)
  /\ count' = [count EXCEPT !.hit = @ + 1, !.ref = @ + 1]
  /\ UNCHANGED <<coremap, swapVars>>

(* v gets frame f.  On the first reference init_frame makes a new page,    *)
(* which is dirty from the start.                                          *)
Install(v, f, t, m, write, failed) ==
  LET first == ~pte[v].onswap
      e == [t[v] EXCEPT !.valid = FALSE, !.ref = FALSE, !.onswap = FALSE,
                        !.dirty = first, !.frame = f]
      n == IF first THEN [m EXCEPT ![f] = [vaddr |-> v, version |-> 0]] ELSE m
  IN
  /\ Access(v, f, [t EXCEPT ![v] = e], n, write, failed)
  /\ coremap' = [coremap EXCEPT ![f] = v]

CountMiss(c) == [c EXCEPT !.miss = @ + 1, !.ref = @ + 1]

(* allocate_frame finds a free frame; then it reads nothing from swap.     *)
MissFree(v, write) ==
  /\ ~pte[v].valid
  /\ \E f \in Frames :
       /\ coremap[f] = NoPage /\ \A g \in 0..(f - 1) : coremap[g] # NoPage
       /\ Install(v, f, pte, physmem, write, FALSE)
  /\ count' = CountMiss(count)
  /\ UNCHANGED swapVars

Full == \A f \in Frames : coremap[f] # NoPage

(* Seeded bug: the entry of the victim stays valid.                        *)
EvictValid(e, off) == [e EXCEPT !.onswap = TRUE, !.swap_off = off]

Evict(e, off) == [e EXCEPT !.onswap = TRUE, !.valid = ~@, !.swap_off = off]

(* Seeded bug: clean evictions are not counted.                            *)
CountEvictDirty(c, dirty) == [c EXCEPT !.dirty = IF dirty THEN @ + 1 ELSE @]

CountEvict(c, dirty) == IF dirty THEN [c EXCEPT !.dirty = @ + 1] ELSE [c EXCEPT !.clean = @ + 1]

(* evict_fcn has chosen frame f and left the page table t.                 *)
MissEvict(v, f, t, write) ==
  LET u == coremap[f] IN
  /\ ~pte[v].valid /\ Full
  /\ \E r \in Slots \cup {INVALID_SWAP}, ok \in BOOLEAN :
       LET t1 == [t EXCEPT ![u] = Evict(@, r)]
           off == t1[v].swap_off
       IN
       /\ ok \/ (IOErrors /\ off # INVALID_SWAP)
       /\ Pageout(f, t[u].swap_off, r)
       /\ Install(v, f, t1, Pagein(f, off, ok), write, r = INVALID_SWAP \/ ~ok)
  /\ count' = CountMiss(CountEvict(count, t[u].dirty))
=============================================================================
