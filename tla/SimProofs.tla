----------------------------- MODULE SimProofs -----------------------------
(***************************************************************************)
(* Proofs about the simulator of A3, for any trace, memory and swap file,  *)
(* any of the algorithms, and with I/O errors; and that fifo and lru never *)
(* follow NULL, and that the assertions of lru_ref hold.                   *)
(***************************************************************************)
EXTENDS SimInv, FiniteSetTheorems, TLAPS

LEMMA Constants ==
  /\ memsize \in Nat \ {0} /\ 0 \in Frames /\ Frames \subseteq Int
  /\ Slots \subseteq Nat /\ INVALID_SWAP \notin Slots
  /\ NoPage \notin Pages
BY SizesAssumption, PagesAssumption DEF Frames, Slots, INVALID_SWAP

LEMMA EntryUpdates ==
  ASSUME NEW e \in Entry, NEW d \in BOOLEAN, NEW b \in BOOLEAN, NEW f \in Frames,
         NEW off \in Slots \cup {INVALID_SWAP}
  PROVE  /\ [e EXCEPT !.valid = TRUE, !.ref = TRUE, !.dirty = d] \in Entry
         /\ [e EXCEPT !.valid = FALSE, !.ref = FALSE, !.onswap = FALSE,
                       !.dirty = d, !.frame = f] \in Entry
         /\ [e EXCEPT !.onswap = TRUE, !.valid = d, !.swap_off = off] \in Entry
         /\ [e EXCEPT !.ref = b] \in Entry
BY DEF Entry

(* The end of every reference.                                             *)
LEMMA AccessFacts ==
  ASSUME NEW v \in Pages, NEW f \in Frames, NEW t \in [Pages -> Entry],
         NEW m \in [Frames -> Page], NEW write \in BOOLEAN, NEW failed \in BOOLEAN,
         reported \in BOOLEAN, Access(v, f, t, m, write, failed)
  PROVE  /\ pte' \in [Pages -> Entry] /\ physmem' \in [Frames -> Page]
         /\ reported' \in BOOLEAN
         /\ \A w \in Pages \ {v} : pte'[w] = t[w]
         /\ pte'[v].valid /\ pte'[v].dirty = (t[v].dirty \/ write)
         /\ pte'[v].onswap = t[v].onswap
         /\ pte'[v].frame = t[v].frame /\ pte'[v].swap_off = t[v].swap_off
         /\ \A g \in Frames \ {f} : physmem'[g] = m[g]
         /\ physmem'[f].version = m[f].version + (IF write THEN 1 ELSE 0)
         /\ physmem'[f].vaddr = m[f].vaddr
         /\ ~write => physmem'[f] = m[f]
         /\ ~reported' => ~reported /\ ~failed /\ m[f].vaddr = v
<1> USE DEF Access, Touch
<1>1. t[v] \in Entry /\ m[f] \in Page /\ (t[v].dirty \/ write) \in BOOLEAN
  OBVIOUS
<1>2. /\ [t[v] EXCEPT !.valid = TRUE, !.ref = TRUE, !.dirty = @ \/ write] \in Entry
      /\ [m[f] EXCEPT !.version = IF write THEN @ + 1 ELSE @] \in Page
  <2>1. [t[v] EXCEPT !.valid = TRUE, !.ref = TRUE, !.dirty = @ \/ write] \in Entry
    BY <1>1, EntryUpdates
  <2>2. [m[f] EXCEPT !.version = IF write THEN @ + 1 ELSE @] \in Page
    BY <1>1 DEF Page
  <2> QED BY <2>1, <2>2
<1>3. /\ pte' = [t EXCEPT ![v] = [t[v] EXCEPT !.valid = TRUE, !.ref = TRUE, !.dirty = @ \/ write]]
      /\ physmem' = [m EXCEPT ![f] = [m[f] EXCEPT !.version = IF write THEN @ + 1 ELSE @]]
      /\ reported' = (reported \/ failed \/ m[f].vaddr # v)
  OBVIOUS
<1>4. reported' \in BOOLEAN /\ (~reported' => ~reported /\ ~failed /\ m[f].vaddr = v)
  BY <1>3
<1>5. /\ pte' \in [Pages -> Entry]
      /\ \A w \in Pages \ {v} : pte'[w] = t[w]
      /\ pte'[v] = [t[v] EXCEPT !.valid = TRUE, !.ref = TRUE, !.dirty = @ \/ write]
  <2> HIDE DEF Access
  <2> QED BY <1>2, <1>3
<1>6. /\ physmem' \in [Frames -> Page]
      /\ \A g \in Frames \ {f} : physmem'[g] = m[g]
      /\ physmem'[f] = [m[f] EXCEPT !.version = IF write THEN @ + 1 ELSE @]
  <2> HIDE DEF Access
  <2> QED BY <1>2, <1>3
<1>7. /\ pte'[v].valid /\ pte'[v].dirty = (t[v].dirty \/ write)
      /\ pte'[v].onswap = t[v].onswap
      /\ pte'[v].frame = t[v].frame /\ pte'[v].swap_off = t[v].swap_off
  <2> HIDE DEF Access
  <2> QED BY <1>1, <1>5 DEF Entry
<1>8. /\ physmem'[f].version = m[f].version + (IF write THEN 1 ELSE 0)
      /\ physmem'[f].vaddr = m[f].vaddr
      /\ ~write => physmem'[f] = m[f]
  <2> HIDE DEF Access
  <2> QED BY <1>1, <1>6 DEF Page
<1> QED BY <1>4, <1>5, <1>6, <1>7, <1>8

(* A page that was not in memory gets frame f.                             *)
LEMMA InstallFacts ==
  ASSUME NEW v \in Pages, NEW f \in Frames, NEW t \in [Pages -> Entry],
         NEW m \in [Frames -> Page], NEW write \in BOOLEAN, NEW failed \in BOOLEAN,
         TypeOK, Install(v, f, t, m, write, failed)
  PROVE  /\ pte' \in [Pages -> Entry] /\ physmem' \in [Frames -> Page]
         /\ reported' \in BOOLEAN
         /\ coremap' = [coremap EXCEPT ![f] = v]
         /\ \A w \in Pages \ {v} : pte'[w] = t[w]
         /\ pte'[v].valid /\ ~pte'[v].onswap /\ pte'[v].frame = f
         /\ pte'[v].dirty = (~pte[v].onswap \/ write)
         /\ pte'[v].swap_off = t[v].swap_off
         /\ \A g \in Frames \ {f} : physmem'[g] = m[g]
         /\ physmem'[f].version = (IF pte[v].onswap THEN m[f].version ELSE 0)
                                    + (IF write THEN 1 ELSE 0)
         /\ physmem'[f].vaddr = IF pte[v].onswap THEN m[f].vaddr ELSE v
         /\ ~write /\ pte[v].onswap => physmem'[f] = m[f]
         /\ ~reported' => ~reported /\ ~failed /\ physmem'[f].vaddr = v
<1> DEFINE first == ~pte[v].onswap
           e == [t[v] EXCEPT !.valid = FALSE, !.ref = FALSE, !.onswap = FALSE,
                             !.dirty = first, !.frame = f]
           n == IF first THEN [m EXCEPT ![f] = [vaddr |-> v, version |-> 0]] ELSE m
           s == [t EXCEPT ![v] = e]
<1>1. pte[v].onswap \in BOOLEAN /\ reported \in BOOLEAN
  BY DEF TypeOK, Entry
<1>2. e \in Entry /\ [vaddr |-> v, version |-> 0] \in Page /\ m[f] \in Page
  <2>1. t[v] \in Entry /\ first \in BOOLEAN
    BY <1>1
  <2>2. \A d \in BOOLEAN : [t[v] EXCEPT !.valid = FALSE, !.ref = FALSE, !.onswap = FALSE,
                                       !.dirty = d, !.frame = f] \in Entry
    BY <2>1, EntryUpdates, Constants
  <2>3. [vaddr |-> v, version |-> 0] \in Page /\ m[f] \in Page
    BY DEF Page
  <2> QED BY <2>1, <2>2, <2>3
<1>3. s \in [Pages -> Entry] /\ n \in [Frames -> Page] /\ s[v] = e
  BY <1>2
<1>4. Access(v, f, s, n, write, failed) /\ coremap' = [coremap EXCEPT ![f] = v]
  BY DEF Install
<1> HIDE DEF s, n
<1>5. /\ pte' \in [Pages -> Entry] /\ physmem' \in [Frames -> Page]
      /\ reported' \in BOOLEAN
      /\ \A w \in Pages \ {v} : pte'[w] = s[w]
      /\ pte'[v].valid /\ pte'[v].dirty = (s[v].dirty \/ write)
      /\ pte'[v].onswap = s[v].onswap
      /\ pte'[v].frame = s[v].frame /\ pte'[v].swap_off = s[v].swap_off
      /\ \A g \in Frames \ {f} : physmem'[g] = n[g]
      /\ physmem'[f].version = n[f].version + (IF write THEN 1 ELSE 0)
      /\ physmem'[f].vaddr = n[f].vaddr
      /\ ~write => physmem'[f] = n[f]
      /\ ~reported' => ~reported /\ ~failed /\ n[f].vaddr = v
  <2> HIDE DEF e, first
  <2> QED BY <1>1, <1>3, <1>4, AccessFacts
<1>6. /\ \A w \in Pages \ {v} : pte'[w] = t[w]
      /\ \A g \in Frames \ {f} : physmem'[g] = m[g]
  <2>1. \A w \in Pages \ {v} : s[w] = t[w]
    <3> HIDE DEF e
    <3> QED BY DEF s
  <2>2. \A g \in Frames \ {f} : n[g] = m[g]
    <3>1. CASE first
      <4> HIDE DEF first
      <4> QED BY <3>1 DEF n
    <3>2. CASE ~first
      <4> HIDE DEF first
      <4> QED BY <3>2 DEF n
    <3> QED BY <3>1, <3>2
  <2> QED BY <1>5, <2>1, <2>2
<1>7. /\ pte'[v].valid /\ ~pte'[v].onswap /\ pte'[v].frame = f
      /\ pte'[v].dirty = (~pte[v].onswap \/ write)
      /\ pte'[v].swap_off = t[v].swap_off
  <2>1. t[v] \in Entry /\ s[v] = e
    BY <1>3
  <2>2. /\ e.dirty = first /\ ~e.onswap /\ e.frame = f /\ e.swap_off = t[v].swap_off
        /\ e \in Entry
    BY <1>2, <2>1 DEF Entry
  <2> QED BY <1>5, <2>1, <2>2
<1>8. /\ n[f] = IF first THEN [vaddr |-> v, version |-> 0] ELSE m[f]
      /\ n[f] \in Page
  BY <1>2 DEF n
<1>9. /\ physmem'[f].version = (IF pte[v].onswap THEN m[f].version ELSE 0)
                                 + (IF write THEN 1 ELSE 0)
      /\ physmem'[f].vaddr = (IF pte[v].onswap THEN m[f].vaddr ELSE v)
      /\ physmem'[f].vaddr = n[f].vaddr
      /\ ~write /\ pte[v].onswap => physmem'[f] = m[f]
  BY <1>1, <1>2, <1>5, <1>8
<1> QED BY <1>4, <1>5, <1>6, <1>7, <1>9

(***************************************************************************)
(* The part of the invariant that is about memory, not about the lists.    *)
(***************************************************************************)
MemInv == TypeOK /\ TablesInverse /\ SlotsUnique /\ LifeInv /\ AddressKept
          /\ CleanSaved /\ CountsAddUp

Counts == [hit : Nat, miss : Nat, ref : Nat, clean : Nat, dirty : Nat]

(* The counters.                                                           *)
LEMMA CountUpdates ==
  ASSUME NEW c \in Counts
  PROVE  /\ LET d == [c EXCEPT !.hit = @ + 1, !.ref = @ + 1] IN
            /\ d \in Counts /\ d.hit = c.hit + 1 /\ d.ref = c.ref + 1
            /\ d.miss = c.miss /\ d.clean = c.clean /\ d.dirty = c.dirty
         /\ LET d == CountMiss(c) IN
            /\ d \in Counts /\ d.miss = c.miss + 1 /\ d.ref = c.ref + 1
            /\ d.hit = c.hit /\ d.clean = c.clean /\ d.dirty = c.dirty
<1>1. c.hit + 1 \in Nat /\ c.ref + 1 \in Nat /\ c.miss + 1 \in Nat
  BY DEF Counts
<1>2. ASSUME NEW a \in Nat, NEW b \in Nat
      PROVE  /\ LET d == [c EXCEPT !.hit = a, !.ref = b] IN
                /\ d \in Counts /\ d.hit = a /\ d.ref = b
                /\ d.miss = c.miss /\ d.clean = c.clean /\ d.dirty = c.dirty
             /\ LET d == [c EXCEPT !.miss = a, !.ref = b] IN
                /\ d \in Counts /\ d.miss = a /\ d.ref = b
                /\ d.hit = c.hit /\ d.clean = c.clean /\ d.dirty = c.dirty
  BY DEF Counts
<1> QED BY <1>1, <1>2, ZenonT(60) DEF CountMiss

LEMMA EvictCounted ==
  ASSUME NEW c \in Counts, NEW b \in BOOLEAN
  PROVE  LET d == CountEvict(c, b) IN
         /\ d \in Counts /\ d.clean + d.dirty = c.clean + c.dirty + 1
         /\ d.hit = c.hit /\ d.miss = c.miss /\ d.ref = c.ref
<1>1. CASE b
  BY <1>1 DEF Counts, CountEvict
<1>2. CASE ~b
  BY <1>2 DEF Counts, CountEvict
<1> QED BY <1>1, <1>2

LEMMA UsedFinite == IsFiniteSet(Used) /\ Cardinality(Used) \in Nat
<1>1. IsFiniteSet(0..(memsize - 1))
  BY SizesAssumption, FS_Interval
<1>2. Used \in SUBSET (0..(memsize - 1))
  BY DEF Used, Frames
<1> QED BY <1>1, <1>2, FS_Subset, FS_CardinalityType

LEMMA HitFacts ==
  ASSUME MemInv, NEW v \in Pages, NEW write \in BOOLEAN, Hit(v, write)
  PROVE  LET f == pte[v].frame IN
         /\ pte[v].valid /\ f \in Frames /\ coremap[f] = v
         /\ pte' \in [Pages -> Entry] /\ physmem' \in [Frames -> Page]
         /\ reported' \in BOOLEAN
         /\ UNCHANGED <<coremap, swapFile, swapmap>>
         /\ \A w \in Pages \ {v} : pte'[w] = pte[w]
         /\ pte'[v].valid /\ pte'[v].dirty = (pte[v].dirty \/ write)
         /\ pte'[v].onswap = pte[v].onswap
         /\ pte'[v].frame = f /\ pte'[v].swap_off = pte[v].swap_off
         /\ \A g \in Frames \ {f} : physmem'[g] = physmem[g]
         /\ physmem'[f].version = physmem[f].version + (IF write THEN 1 ELSE 0)
         /\ physmem'[f].vaddr = physmem[f].vaddr
         /\ ~write => physmem'[f] = physmem[f]
         /\ ~reported' => ~reported /\ physmem[f].vaddr = v
<1> DEFINE f == pte[v].frame
<1>1. pte \in [Pages -> Entry] /\ physmem \in [Frames -> Page] /\ reported \in BOOLEAN
  BY DEF MemInv, TypeOK
<1>2. f \in Frames
  BY <1>1 DEF Entry
<1>3. pte[v].valid /\ Access(v, f, pte, physmem, write, FALSE)
      /\ UNCHANGED <<coremap, swapFile, swapmap>>
  BY DEF Hit, swapVars
<1>4. coremap[f] = v
  BY <1>3 DEF MemInv, TablesInverse
<1> HIDE DEF f
<1>5. /\ pte' \in [Pages -> Entry] /\ physmem' \in [Frames -> Page]
      /\ reported' \in BOOLEAN
      /\ \A w \in Pages \ {v} : pte'[w] = pte[w]
      /\ pte'[v].valid /\ pte'[v].dirty = (pte[v].dirty \/ write)
      /\ pte'[v].onswap = pte[v].onswap
      /\ pte'[v].frame = pte[v].frame /\ pte'[v].swap_off = pte[v].swap_off
      /\ \A g \in Frames \ {f} : physmem'[g] = physmem[g]
      /\ physmem'[f].version = physmem[f].version + (IF write THEN 1 ELSE 0)
      /\ physmem'[f].vaddr = physmem[f].vaddr
      /\ ~write => physmem'[f] = physmem[f]
      /\ ~reported' => ~reported /\ physmem[f].vaddr = v
  <2> DEFINE failed == FALSE
  <2>1. failed \in BOOLEAN /\ Access(v, f, pte, physmem, write, failed)
    BY <1>3
  <2> HIDE DEF failed
  <2> QED BY <1>1, <1>2, <2>1, AccessFacts
<1> QED BY <1>2, <1>3, <1>4, <1>5 DEF f

LEMMA HitStep ==
  ASSUME MemInv, NEW v \in Pages, NEW write \in BOOLEAN, Hit(v, write)
  PROVE  MemInv'
<1> DEFINE f == pte[v].frame
<1>1. /\ pte[v].valid /\ f \in Frames /\ coremap[f] = v
      /\ pte' \in [Pages -> Entry] /\ physmem' \in [Frames -> Page]
      /\ reported' \in BOOLEAN
      /\ UNCHANGED <<coremap, swapFile, swapmap>>
      /\ \A w \in Pages \ {v} : pte'[w] = pte[w]
      /\ pte'[v].valid /\ pte'[v].dirty = (pte[v].dirty \/ write)
      /\ pte'[v].onswap = pte[v].onswap
      /\ pte'[v].frame = f /\ pte'[v].swap_off = pte[v].swap_off
      /\ \A g \in Frames \ {f} : physmem'[g] = physmem[g]
      /\ physmem'[f].version = physmem[f].version + (IF write THEN 1 ELSE 0)
      /\ physmem'[f].vaddr = physmem[f].vaddr
      /\ ~write => physmem'[f] = physmem[f]
      /\ ~reported' => ~reported /\ physmem[f].vaddr = v
  BY HitFacts
<1>2. count' = [count EXCEPT !.hit = @ + 1, !.ref = @ + 1]
  BY DEF Hit
<1>3. \A w \in Pages : /\ pte'[w].valid = pte[w].valid /\ pte'[w].frame = pte[w].frame
                       /\ pte'[w].onswap = pte[w].onswap
                       /\ pte'[w].swap_off = pte[w].swap_off
                       /\ pte[w] \in Entry
  <2>1. pte'[v].valid \in BOOLEAN /\ pte[v].valid \in BOOLEAN
        /\ \A w \in Pages : pte[w] \in Entry
    BY <1>1 DEF MemInv, TypeOK, Entry
  <2>2. pte'[v].valid = pte[v].valid
    BY <1>1, <2>1
  <2> QED BY <1>1, <2>1, <2>2
<1>4. \A w \in Pages \ {v} : pte[w].valid => pte[w].frame \in Frames \ {f}
  BY <1>1, <1>3 DEF MemInv, TablesInverse, Entry
<1> HIDE DEF f
<1>5. TypeOK'
  <2>1. count' \in Counts
    BY <1>2, CountUpdates DEF MemInv, TypeOK, Counts
  <2>2. /\ pte' \in [Pages -> Entry] /\ physmem' \in [Frames -> Page]
        /\ reported' \in BOOLEAN
        /\ coremap' = coremap /\ swapFile' = swapFile /\ swapmap' = swapmap
    BY <1>1
  <2>3. /\ coremap \in [Frames -> Pages \cup {NoPage}]
        /\ swapFile \in [Slots -> Page] /\ swapmap \subseteq Slots
    BY DEF MemInv, TypeOK
  <2> QED BY <2>1, <2>2, <2>3 DEF TypeOK, Counts
<1>6. TablesInverse'
  BY <1>1, <1>3 DEF MemInv, TablesInverse, TypeOK
<1>7. SlotsUnique'
  BY <1>1, <1>3 DEF MemInv, SlotsUnique
<1>8. LifeInv'
  BY <1>1, <1>3 DEF MemInv, LifeInv, Full
<1>9. ASSUME ~reported', NEW w \in Pages
      PROVE  Content(w)'.vaddr = w
  <2>1. ~reported /\ Content(w).vaddr = w
    BY <1>1, <1>9 DEF MemInv, AddressKept
  <2>2. CASE w = v
    BY <2>1, <2>2, <1>1, <1>3 DEF Content
  <2>3. CASE w # v
    <3>1. Content(w)' = Content(w)
      BY <2>3, <1>1, <1>3, <1>4 DEF Content
    <3> QED BY <3>1, <2>1
  <2> QED BY <2>2, <2>3
<1>10. AddressKept'
  BY <1>9 DEF AddressKept
<1>11. CleanSaved'
  <2> SUFFICES ASSUME ~reported', NEW w \in Pages, pte'[w].valid, ~pte'[w].dirty
               PROVE  /\ pte'[w].swap_off # INVALID_SWAP
                      /\ swapFile'[pte'[w].swap_off] = physmem'[pte'[w].frame]
    BY DEF CleanSaved
  <2>1. CASE w = v
    <3>1. ~pte[v].dirty /\ ~write
      BY <2>1, <1>1
    <3> QED BY <2>1, <3>1, <1>1, <1>3 DEF MemInv, CleanSaved, f
  <2>2. CASE w # v
    BY <2>2, <1>1, <1>3, <1>4 DEF MemInv, CleanSaved
  <2> QED BY <2>1, <2>2
<1>12. CountsAddUp'
  <2>1. Used' = Used
    BY <1>1 DEF Used
  <2>2. /\ count.hit \in Nat /\ count.miss \in Nat /\ count.ref \in Nat
        /\ count'.hit = count.hit + 1 /\ count'.ref = count.ref + 1
        /\ count'.miss = count.miss /\ count'.clean = count.clean
        /\ count'.dirty = count.dirty
    <3>1. count \in Counts
      BY DEF MemInv, TypeOK, Counts
    <3>2. count.hit \in Nat /\ count.miss \in Nat /\ count.ref \in Nat
      BY <3>1 DEF Counts
    <3> QED BY <1>2, <3>1, <3>2, CountUpdates
  <2>3. /\ count.hit + count.miss = count.ref
        /\ count.miss = Cardinality(Used) + count.clean + count.dirty
    BY DEF MemInv, CountsAddUp, Used
  <2>4. /\ count'.hit + count'.miss = count'.ref
        /\ count'.miss = Cardinality(Used') + count'.clean + count'.dirty
    BY <2>1, <2>2, <2>3
  <2> QED BY <2>4 DEF CountsAddUp, Used
<1> QED BY <1>5, <1>6, <1>7, <1>8, <1>10, <1>11, <1>12 DEF MemInv

LEMMA MissFreeFacts ==
  ASSUME MemInv, NEW v \in Pages, NEW write \in BOOLEAN, MissFree(v, write)
  PROVE  /\ ~pte[v].valid
         /\ \A w \in Pages : ~pte[w].onswap
         /\ pte[v].swap_off = INVALID_SWAP
         /\ UNCHANGED <<swapFile, swapmap>>
         /\ count' = CountMiss(count)
         /\ \E f \in Frames :
              /\ coremap[f] = NoPage
              /\ pte' \in [Pages -> Entry] /\ physmem' \in [Frames -> Page]
              /\ reported' \in BOOLEAN
              /\ coremap' = [coremap EXCEPT ![f] = v]
              /\ \A w \in Pages \ {v} : pte'[w] = pte[w]
              /\ pte'[v].valid /\ ~pte'[v].onswap /\ pte'[v].frame = f
              /\ pte'[v].dirty
              /\ pte'[v].swap_off = pte[v].swap_off
              /\ \A g \in Frames \ {f} : physmem'[g] = physmem[g]
              /\ physmem'[f].version = IF write THEN 1 ELSE 0
              /\ physmem'[f].vaddr = v
              /\ ~reported' => ~reported
<1>1. PICK f \in Frames : coremap[f] = NoPage /\ Install(v, f, pte, physmem, write, FALSE)
  BY DEF MissFree
<1>2. ~pte[v].valid /\ UNCHANGED <<swapFile, swapmap>> /\ count' = CountMiss(count)
  BY DEF MissFree, swapVars
<1>3. \A w \in Pages : ~pte[w].onswap
  BY <1>1 DEF MemInv, LifeInv, Full
<1>4. pte[v].swap_off = INVALID_SWAP
  BY <1>2, <1>3 DEF MemInv, LifeInv
<1> DEFINE failed == FALSE
<1>5. failed \in BOOLEAN /\ Install(v, f, pte, physmem, write, failed)
  BY <1>1
<1> HIDE DEF failed
<1>6. TypeOK /\ pte \in [Pages -> Entry] /\ physmem \in [Frames -> Page]
  BY DEF MemInv, TypeOK
<1>7. /\ pte' \in [Pages -> Entry] /\ physmem' \in [Frames -> Page]
      /\ reported' \in BOOLEAN
      /\ coremap' = [coremap EXCEPT ![f] = v]
      /\ \A w \in Pages \ {v} : pte'[w] = pte[w]
      /\ pte'[v].valid /\ ~pte'[v].onswap /\ pte'[v].frame = f
      /\ pte'[v].dirty = (~pte[v].onswap \/ write)
      /\ pte'[v].swap_off = pte[v].swap_off
      /\ \A g \in Frames \ {f} : physmem'[g] = physmem[g]
      /\ physmem'[f].version = (IF pte[v].onswap THEN physmem[f].version ELSE 0)
                                 + (IF write THEN 1 ELSE 0)
      /\ physmem'[f].vaddr = IF pte[v].onswap THEN physmem[f].vaddr ELSE v
      /\ ~reported' => ~reported /\ ~failed /\ physmem'[f].vaddr = v
  BY <1>5, <1>6, InstallFacts
<1>8. pte'[v].dirty /\ physmem'[f].vaddr = v
      /\ physmem'[f].version = IF write THEN 1 ELSE 0
  <2>1. ~pte[v].onswap
    BY <1>3
  <2>2. pte'[v].dirty
    BY <2>1, <1>7
  <2>3. physmem'[f].vaddr = v
    BY <2>1, <1>7
  <2>4. physmem'[f].version = 0 + (IF write THEN 1 ELSE 0)
    BY <2>1, <1>7
  <2> QED BY <2>2, <2>3, <2>4
<1> QED BY <1>1, <1>2, <1>3, <1>4, <1>7, <1>8

LEMMA MissFreeStep ==
  ASSUME MemInv, NEW v \in Pages, NEW write \in BOOLEAN, MissFree(v, write)
  PROVE  MemInv'
<1>1. /\ ~pte[v].valid
      /\ \A w \in Pages : ~pte[w].onswap
      /\ pte[v].swap_off = INVALID_SWAP
      /\ UNCHANGED <<swapFile, swapmap>>
      /\ count' = CountMiss(count)
  BY MissFreeFacts
<1>2. PICK f \in Frames :
        /\ coremap[f] = NoPage
        /\ pte' \in [Pages -> Entry] /\ physmem' \in [Frames -> Page]
        /\ reported' \in BOOLEAN
        /\ coremap' = [coremap EXCEPT ![f] = v]
        /\ \A w \in Pages \ {v} : pte'[w] = pte[w]
        /\ pte'[v].valid /\ ~pte'[v].onswap /\ pte'[v].frame = f
        /\ pte'[v].dirty
        /\ pte'[v].swap_off = pte[v].swap_off
        /\ \A g \in Frames \ {f} : physmem'[g] = physmem[g]
        /\ physmem'[f].version = IF write THEN 1 ELSE 0
        /\ physmem'[f].vaddr = v
        /\ ~reported' => ~reported
  BY MissFreeFacts
<1>3. /\ pte \in [Pages -> Entry]
      /\ coremap \in [Frames -> Pages \cup {NoPage}]
      /\ swapFile \in [Slots -> Page] /\ swapmap \subseteq Slots
      /\ count \in Counts /\ v # NoPage
  BY Constants DEF MemInv, TypeOK, Counts
<1>4. /\ coremap' \in [Frames -> Pages \cup {NoPage}]
      /\ coremap'[f] = v /\ \A g \in Frames \ {f} : coremap'[g] = coremap[g]
  BY <1>2, <1>3
<1>5. \A w \in Pages : pte[w].valid =>
        w # v /\ pte[w].frame \in Frames \ {f} /\ coremap[pte[w].frame] = w
  BY <1>1, <1>2, <1>3, Constants DEF MemInv, TablesInverse, Entry
<1>6. TypeOK'
  BY <1>1, <1>2, <1>3, <1>4, CountUpdates DEF TypeOK, Counts
<1>7. TablesInverse'
  <2>1. \A w \in Pages : pte'[w].valid => coremap'[pte'[w].frame] = w
    BY <1>2, <1>4, <1>5
  <2>2. ASSUME NEW g \in Frames, coremap'[g] # NoPage
        PROVE  pte'[coremap'[g]].valid /\ pte'[coremap'[g]].frame = g
    <3>1. CASE g = f
      BY <3>1, <1>2, <1>4
    <3>2. CASE g # f
      <4>1. /\ coremap'[g] = coremap[g] /\ coremap[g] \in Pages /\ coremap[g] # NoPage
            /\ pte[coremap[g]].valid /\ pte[coremap[g]].frame = g
        BY <3>2, <2>2, <1>3, <1>4 DEF MemInv, TablesInverse
      <4> QED BY <4>1, <1>1, <1>2
    <3> QED BY <3>1, <3>2
  <2> QED BY <2>1, <2>2 DEF TablesInverse
<1>8. SlotsUnique'
  <2>1. \A w \in Pages : pte'[w].swap_off = pte[w].swap_off
    BY <1>2
  <2> QED BY <2>1, <1>1 DEF MemInv, SlotsUnique
<1>9. LifeInv'
  <2>1. \A w \in Pages : ~pte'[w].onswap
    BY <1>1, <1>2
  <2>2. \A w \in Pages : ~pte'[w].valid => w # v /\ pte'[w] = pte[w]
    BY <1>2
  <2> QED BY <2>1, <2>2 DEF MemInv, LifeInv
<1>10. ASSUME ~reported', NEW w \in Pages
       PROVE  Content(w)'.vaddr = w
  <2>1. ~reported /\ Content(w).vaddr = w
    BY <1>2, <1>10 DEF MemInv, AddressKept
  <2>2. CASE w = v
    BY <2>2, <1>2 DEF Content
  <2>3. CASE w # v
    <3>1. Content(w)' = Content(w)
      BY <2>3, <1>1, <1>2, <1>5 DEF Content
    <3> QED BY <3>1, <2>1
  <2> QED BY <2>2, <2>3
<1>11. AddressKept'
  BY <1>10 DEF AddressKept
<1>12. CleanSaved'
  <2> SUFFICES ASSUME ~reported', NEW w \in Pages, pte'[w].valid, ~pte'[w].dirty
               PROVE  /\ pte'[w].swap_off # INVALID_SWAP
                      /\ swapFile'[pte'[w].swap_off] = physmem'[pte'[w].frame]
    BY DEF CleanSaved
  <2>1. w # v
    BY <1>2
  <2> QED BY <2>1, <1>1, <1>2, <1>5 DEF MemInv, CleanSaved
<1>13. CountsAddUp'
  <2>1. Used' = Used \cup {f} /\ f \notin Used
    BY <1>2, <1>3, <1>4 DEF Used
  <2>2. Cardinality(Used') = Cardinality(Used) + 1
    BY <2>1, UsedFinite, FS_AddElement
  <2>3. /\ count.hit + count.miss = count.ref
        /\ count.miss = Cardinality(Used) + count.clean + count.dirty
    BY DEF MemInv, CountsAddUp, Used
  <2>4. /\ count'.miss = count.miss + 1 /\ count'.ref = count.ref + 1
        /\ count'.hit = count.hit /\ count'.clean = count.clean
        /\ count'.dirty = count.dirty
    BY <1>1, <1>3, CountUpdates
  <2>5. /\ count.hit \in Nat /\ count.miss \in Nat /\ count.ref \in Nat
        /\ count.clean \in Nat /\ count.dirty \in Nat
    BY <1>3 DEF Counts
  <2>6. /\ count'.hit + count'.miss = count'.ref
        /\ count'.miss = Cardinality(Used') + count'.clean + count'.dirty
    BY <2>2, <2>3, <2>4, <2>5, UsedFinite
  <2> QED BY <2>6 DEF CountsAddUp, Used
<1> QED BY <1>6, <1>7, <1>8, <1>9, <1>11, <1>12, <1>13 DEF MemInv

(* evict_fcn may clear reference bits and nothing else.                    *)
SameButRef(d, e) ==
  /\ d.valid = e.valid /\ d.dirty = e.dirty /\ d.onswap = e.onswap
  /\ d.frame = e.frame /\ d.swap_off = e.swap_off

LEMMA EvictEntry ==
  ASSUME NEW e \in Entry, NEW off \in Slots \cup {INVALID_SWAP}, e.valid
  PROVE  /\ Evict(e, off) \in Entry
         /\ ~Evict(e, off).valid /\ Evict(e, off).onswap
         /\ Evict(e, off).swap_off = off
<1>1. \A d \in BOOLEAN : [e EXCEPT !.onswap = TRUE, !.valid = d, !.swap_off = off] \in Entry
  BY EntryUpdates, Constants
<1>2. (~e.valid) \in BOOLEAN
  BY DEF Entry
<1>3. Evict(e, off) = [e EXCEPT !.onswap = TRUE, !.valid = ~e.valid, !.swap_off = off]
  BY DEF Evict
<1>4. \A d \in BOOLEAN :
        LET g == [e EXCEPT !.onswap = TRUE, !.valid = d, !.swap_off = off]
        IN  g.valid = d /\ g.onswap = TRUE /\ g.swap_off = off
  BY DEF Entry
<1> QED BY <1>1, <1>2, <1>3, <1>4

(* Writing the victim out.                                                 *)
LEMMA PageoutFacts ==
  ASSUME TypeOK, NEW f \in Frames, NEW off \in Slots \cup {INVALID_SWAP},
         NEW r \in Slots \cup {INVALID_SWAP}, Pageout(f, off, r)
  PROVE  /\ swapFile' \in [Slots -> Page]
         /\ swapmap \subseteq swapmap' /\ swapmap' \subseteq Slots
         /\ r \in Slots => /\ swapFile'[r] = physmem[f] /\ r \in swapmap'
                           /\ r = off \/ r \notin swapmap
         /\ \A s \in Slots \ {r} : swapFile'[s] = swapFile[s]
<1>1. physmem[f] \in Page /\ swapFile \in [Slots -> Page] /\ swapmap \subseteq Slots
      /\ INVALID_SWAP \notin Slots
  BY Constants DEF TypeOK
<1>2. CASE /\ r \in Slots /\ SlotFor(off, r)
           /\ swapFile' = [swapFile EXCEPT ![r] = physmem[f]]
           /\ swapmap' = swapmap \cup {r}
  BY <1>1, <1>2 DEF SlotFor, FirstFree
<1>3. CASE r = INVALID_SWAP /\ UNCHANGED swapVars
  BY <1>1, <1>3 DEF swapVars
<1>4. CASE /\ r = INVALID_SWAP
           /\ \E s \in Slots : swapmap' = swapmap \cup {s}
           /\ UNCHANGED swapFile
  BY <1>1, <1>4
<1> QED BY <1>2, <1>3, <1>4 DEF Pageout

LEMMA MissEvictFacts ==
  ASSUME MemInv, NEW v \in Pages, NEW f \in Frames, NEW t \in [Pages -> Entry],
         NEW write \in BOOLEAN, \A w \in Pages : SameButRef(t[w], pte[w]),
         MissEvict(v, f, t, write)
  PROVE  LET u == coremap[f]  off == pte[v].swap_off IN
         /\ Full /\ ~pte[v].valid
         /\ u \in Pages \ {v} /\ pte[u].valid /\ pte[u].frame = f /\ ~pte[u].onswap
         /\ count' = CountMiss(CountEvict(count, t[u].dirty))
         /\ \E r \in Slots \cup {INVALID_SWAP} :
              /\ pte' \in [Pages -> Entry] /\ physmem' \in [Frames -> Page]
              /\ swapFile' \in [Slots -> Page] /\ reported' \in BOOLEAN
              /\ coremap' = [coremap EXCEPT ![f] = v]
              /\ \A w \in Pages \ {u, v} : pte'[w] = t[w]
              /\ ~pte'[u].valid /\ pte'[u].onswap /\ pte'[u].swap_off = r
              /\ pte'[v].valid /\ ~pte'[v].onswap /\ pte'[v].frame = f
              /\ pte'[v].dirty = (~pte[v].onswap \/ write)
              /\ pte'[v].swap_off = off
              /\ swapmap \subseteq swapmap' /\ swapmap' \subseteq Slots
              /\ r \in Slots => /\ swapFile'[r] = physmem[f] /\ r \in swapmap'
                                /\ r = pte[u].swap_off \/ r \notin swapmap
              /\ \A s \in Slots \ {r} : swapFile'[s] = swapFile[s]
              /\ \A g \in Frames \ {f} : physmem'[g] = physmem[g]
              /\ ~pte[v].onswap => physmem'[f].version = IF write THEN 1 ELSE 0
              /\ ~reported' =>
                   /\ ~reported /\ r \in Slots /\ physmem'[f].vaddr = v
                   /\ pte[v].onswap =>
                        /\ off \in Slots
                        /\ physmem'[f].version = swapFile'[off].version
                                                   + (IF write THEN 1 ELSE 0)
                        /\ ~write => physmem'[f] = swapFile'[off]
<1> DEFINE u == coremap[f]
           off == pte[v].swap_off
<1>1. /\ TypeOK /\ pte \in [Pages -> Entry] /\ coremap \in [Frames -> Pages \cup {NoPage}]
      /\ physmem \in [Frames -> Page] /\ reported \in BOOLEAN
  BY DEF MemInv, TypeOK
<1>2. Full /\ ~pte[v].valid /\ count' = CountMiss(CountEvict(count, t[u].dirty))
  BY DEF MissEvict
<1>3. u \in Pages \ {v} /\ pte[u].valid /\ pte[u].frame = f /\ ~pte[u].onswap
  BY <1>1, <1>2 DEF MemInv, TablesInverse, LifeInv, Full
<1>4. off \in Slots \cup {INVALID_SWAP} /\ t[v].swap_off = off
      /\ t[u].swap_off = pte[u].swap_off /\ t[u].swap_off \in Slots \cup {INVALID_SWAP}
      /\ t[u] \in Entry /\ t[u].valid = pte[u].valid /\ t[v] \in Entry
  BY <1>1, <1>3 DEF Entry, SameButRef
<1> HIDE DEF u, off
<1>5. PICK r \in Slots \cup {INVALID_SWAP}, ok \in BOOLEAN :
        LET t1 == [t EXCEPT ![u] = Evict(@, r)] IN
        /\ Pageout(f, t[u].swap_off, r)
        /\ Install(v, f, t1, Pagein(f, t1[v].swap_off, ok), write, r = INVALID_SWAP \/ ~ok)
  BY DEF MissEvict, u
<1> DEFINE t1 == [t EXCEPT ![u] = Evict(t[u], r)]
           failed == (r = INVALID_SWAP \/ ~ok)
           m == Pagein(f, off, ok)
<1>6. /\ Evict(t[u], r) \in Entry
      /\ ~Evict(t[u], r).valid /\ Evict(t[u], r).onswap
      /\ Evict(t[u], r).swap_off = r
  BY <1>3, <1>4, EvictEntry
<1>7. /\ t1 \in [Pages -> Entry] /\ t1[u] = Evict(t[u], r)
      /\ \A w \in Pages \ {u} : t1[w] = t[w]
  BY <1>3, <1>6
<1>8. /\ swapFile' \in [Slots -> Page]
      /\ swapmap \subseteq swapmap' /\ swapmap' \subseteq Slots
      /\ r \in Slots => /\ swapFile'[r] = physmem[f] /\ r \in swapmap'
                        /\ r = pte[u].swap_off \/ r \notin swapmap
      /\ \A s \in Slots \ {r} : swapFile'[s] = swapFile[s]
  <2>1. Pageout(f, pte[u].swap_off, r) /\ pte[u].swap_off \in Slots \cup {INVALID_SWAP}
    BY <1>4, <1>5
  <2> QED BY <1>1, <2>1, PageoutFacts, ZenonT(60)
<1>9. /\ m \in [Frames -> Page] /\ \A g \in Frames \ {f} : m[g] = physmem[g]
      /\ off # INVALID_SWAP /\ ok => m[f] = swapFile'[off]
  BY <1>1, <1>4, <1>8 DEF Pagein
<1>10. Install(v, f, t1, m, write, failed) /\ failed \in BOOLEAN
  BY <1>3, <1>4, <1>5, <1>7
<1>11. ~failed => r \in Slots /\ ok
  OBVIOUS
<1> HIDE DEF t1, failed, m
<1>12. /\ pte' \in [Pages -> Entry] /\ physmem' \in [Frames -> Page]
       /\ reported' \in BOOLEAN
       /\ coremap' = [coremap EXCEPT ![f] = v]
       /\ \A w \in Pages \ {v} : pte'[w] = t1[w]
       /\ pte'[v].valid /\ ~pte'[v].onswap /\ pte'[v].frame = f
       /\ pte'[v].dirty = (~pte[v].onswap \/ write)
       /\ pte'[v].swap_off = t1[v].swap_off
       /\ \A g \in Frames \ {f} : physmem'[g] = m[g]
       /\ physmem'[f].version = (IF pte[v].onswap THEN m[f].version ELSE 0)
                                  + (IF write THEN 1 ELSE 0)
       /\ physmem'[f].vaddr = IF pte[v].onswap THEN m[f].vaddr ELSE v
       /\ ~write /\ pte[v].onswap => physmem'[f] = m[f]
       /\ ~reported' => ~reported /\ ~failed /\ physmem'[f].vaddr = v
  BY <1>1, <1>7, <1>9, <1>10, InstallFacts, SMTT(60)
<1>13. ~pte[v].onswap => physmem'[f].version = IF write THEN 1 ELSE 0
  <2> HAVE ~pte[v].onswap
  <2>1. physmem'[f].version = 0 + (IF write THEN 1 ELSE 0)
    BY <1>12
  <2> QED BY <2>1
<1>14. ASSUME ~reported'
       PROVE  /\ ~reported /\ r \in Slots /\ physmem'[f].vaddr = v
              /\ pte[v].onswap =>
                   /\ off \in Slots
                   /\ physmem'[f].version = swapFile'[off].version
                                              + (IF write THEN 1 ELSE 0)
                   /\ ~write => physmem'[f] = swapFile'[off]
  <2>1. ~reported /\ r \in Slots /\ ok /\ physmem'[f].vaddr = v
    BY <1>11, <1>12, <1>14
  <2>2. ASSUME pte[v].onswap
        PROVE  off \in Slots /\ m[f] = swapFile'[off]
    BY <1>4, <1>9, <2>1, <2>2, Constants DEF MemInv, LifeInv, off
  <2> QED BY <2>1, <2>2, <1>12
<1>15. /\ \A w \in Pages \ {u, v} : pte'[w] = t[w]
       /\ ~pte'[u].valid /\ pte'[u].onswap /\ pte'[u].swap_off = r
       /\ pte'[v].swap_off = off
       /\ \A g \in Frames \ {f} : physmem'[g] = physmem[g]
  BY <1>3, <1>4, <1>6, <1>7, <1>9, <1>12
<1> QED BY <1>2, <1>3, <1>8, <1>12, <1>13, <1>14, <1>15 DEF u, off

LEMMA MissEvictStep ==
  ASSUME MemInv, NEW v \in Pages, NEW f \in Frames, NEW t \in [Pages -> Entry],
         NEW write \in BOOLEAN, \A w \in Pages : SameButRef(t[w], pte[w]),
         MissEvict(v, f, t, write)
  PROVE  MemInv'
<1> DEFINE u == coremap[f]
           off == pte[v].swap_off
<1>1. /\ Full /\ ~pte[v].valid
      /\ u \in Pages \ {v} /\ pte[u].valid /\ pte[u].frame = f /\ ~pte[u].onswap
      /\ count' = CountMiss(CountEvict(count, t[u].dirty))
  BY MissEvictFacts
<1>2. PICK r \in Slots \cup {INVALID_SWAP} :
        /\ pte' \in [Pages -> Entry] /\ physmem' \in [Frames -> Page]
        /\ swapFile' \in [Slots -> Page] /\ reported' \in BOOLEAN
        /\ coremap' = [coremap EXCEPT ![f] = v]
        /\ \A w \in Pages \ {u, v} : pte'[w] = t[w]
        /\ ~pte'[u].valid /\ pte'[u].onswap /\ pte'[u].swap_off = r
        /\ pte'[v].valid /\ ~pte'[v].onswap /\ pte'[v].frame = f
        /\ pte'[v].dirty = (~pte[v].onswap \/ write)
        /\ pte'[v].swap_off = off
        /\ swapmap \subseteq swapmap' /\ swapmap' \subseteq Slots
        /\ r \in Slots => /\ swapFile'[r] = physmem[f] /\ r \in swapmap'
                          /\ r = pte[u].swap_off \/ r \notin swapmap
        /\ \A s \in Slots \ {r} : swapFile'[s] = swapFile[s]
        /\ \A g \in Frames \ {f} : physmem'[g] = physmem[g]
        /\ ~pte[v].onswap => physmem'[f].version = IF write THEN 1 ELSE 0
        /\ ~reported' =>
             /\ ~reported /\ r \in Slots /\ physmem'[f].vaddr = v
             /\ pte[v].onswap =>
                  /\ off \in Slots
                  /\ physmem'[f].version = swapFile'[off].version
                                             + (IF write THEN 1 ELSE 0)
                  /\ ~write => physmem'[f] = swapFile'[off]
  BY MissEvictFacts
<1>3. /\ pte \in [Pages -> Entry]
      /\ coremap \in [Frames -> Pages \cup {NoPage}]
      /\ count \in Counts /\ v # NoPage /\ INVALID_SWAP \notin Slots
      /\ u = coremap[f] /\ off = pte[v].swap_off
  BY Constants DEF MemInv, TypeOK, Counts
<1> HIDE DEF u, off
<1>4. /\ coremap' \in [Frames -> Pages \cup {NoPage}]
      /\ coremap'[f] = v /\ \A g \in Frames \ {f} : coremap'[g] = coremap[g]
  BY <1>2, <1>3
<1>5. \A w \in Pages \ {u, v} : SameButRef(pte'[w], pte[w]) /\ pte'[w] \in Entry
  BY <1>2
<1>6. \A w \in Pages \ {u} : pte[w].valid =>
        w # v /\ pte[w].frame \in Frames \ {f} /\ coremap[pte[w].frame] = w
  BY <1>1, <1>3 DEF MemInv, TablesInverse, Entry
<1>7. \A g \in Frames \ {f} :
        /\ coremap[g] \in Pages \ {u, v}
        /\ pte[coremap[g]].valid /\ pte[coremap[g]].frame = g
  BY <1>1, <1>3 DEF MemInv, TablesInverse, Full
<1>8. TypeOK'
  <2>1. t[u].dirty \in BOOLEAN
    BY <1>1 DEF Entry
  <2>2. count' \in Counts
    BY <1>1, <1>3, <2>1, CountUpdates, EvictCounted
  <2> QED BY <1>2, <1>4, <2>2 DEF TypeOK, Counts
<1>9. TablesInverse'
  <2>1. ASSUME NEW w \in Pages, pte'[w].valid
        PROVE  coremap'[pte'[w].frame] = w
    <3>1. CASE w = v
      BY <3>1, <1>2, <1>4
    <3>2. CASE w # v
      <4>1. w \in Pages \ {u, v}
        BY <3>2, <2>1, <1>2
      <4>2. pte[w].valid /\ pte'[w].frame = pte[w].frame
        BY <4>1, <2>1, <1>5 DEF SameButRef
      <4> QED BY <4>1, <4>2, <1>4, <1>6
    <3> QED BY <3>1, <3>2
  <2>2. ASSUME NEW g \in Frames
        PROVE  pte'[coremap'[g]].valid /\ pte'[coremap'[g]].frame = g
    <3>1. CASE g = f
      BY <3>1, <1>2, <1>4
    <3>2. CASE g # f
      <4>1. coremap'[g] = coremap[g] /\ coremap[g] \in Pages \ {u, v}
        BY <3>2, <1>4, <1>7
      <4>2. SameButRef(pte'[coremap[g]], pte[coremap[g]])
        BY <4>1, <1>5
      <4> QED BY <3>2, <4>1, <4>2, <1>7 DEF SameButRef
    <3> QED BY <3>1, <3>2
  <2> QED BY <2>1, <2>2 DEF TablesInverse
<1>10. \A w \in Pages \ {u} : pte'[w].swap_off = pte[w].swap_off
  BY <1>2, <1>3, <1>5 DEF SameButRef
<1>11. \A w \in Pages \ {u} :
         pte[w].swap_off # INVALID_SWAP =>
           pte[w].swap_off \in swapmap /\ pte[w].swap_off # r
  BY <1>1, <1>2, <1>3 DEF MemInv, SlotsUnique
<1>12. SlotsUnique'
  <2>1. ASSUME NEW w \in Pages, NEW x \in Pages, pte'[w].swap_off = pte'[x].swap_off
        PROVE  w = x \/ pte'[w].swap_off = INVALID_SWAP
    <3>1. CASE w = u \/ x = u
      BY <3>1, <2>1, <1>2, <1>10, <1>11
    <3>2. CASE w # u /\ x # u
      BY <3>2, <2>1, <1>10 DEF MemInv, SlotsUnique
    <3> QED BY <3>1, <3>2
  <2>2. ASSUME NEW w \in Pages, pte'[w].swap_off # INVALID_SWAP
        PROVE  pte'[w].swap_off \in swapmap'
    BY <2>2, <1>2, <1>10, <1>11
  <2> QED BY <2>1, <2>2 DEF SlotsUnique
<1>13. LifeInv'
  <2> SUFFICES ASSUME NEW w \in Pages
               PROVE  /\ pte'[w].onswap => ~pte'[w].valid /\ Full'
                      /\ ~pte'[w].valid /\ ~pte'[w].onswap => pte'[w].swap_off = INVALID_SWAP
                      /\ pte'[w].onswap /\ pte'[w].swap_off = INVALID_SWAP => reported'
    BY DEF LifeInv
  <2>1. Full'
    BY <1>1, <1>3, <1>4 DEF Full
  <2>2. CASE w = u
    BY <2>1, <2>2, <1>2, <1>3
  <2>3. CASE w = v
    BY <2>3, <1>2
  <2>4. CASE w \notin {u, v}
    <3>1. reported => reported'
      BY <1>2
    <3> QED BY <2>1, <2>4, <3>1, <1>5 DEF MemInv, LifeInv, SameButRef
  <2> QED BY <2>2, <2>3, <2>4
<1>14. ASSUME ~reported', NEW w \in Pages
       PROVE  Content(w)'.vaddr = w
  <2>1. ~reported /\ Content(w).vaddr = w /\ r \in Slots /\ r # INVALID_SWAP
    BY <1>2, <1>3, <1>14 DEF MemInv, AddressKept
  <2>2. CASE w = v
    BY <2>2, <1>2, <1>14 DEF Content
  <2>3. CASE w = u
    <3>1. Content(w)' = swapFile'[r] /\ swapFile'[r] = physmem[f]
      BY <2>1, <2>3, <1>2 DEF Content
    <3>2. Content(w) = physmem[f]
      BY <2>3, <1>1 DEF Content
    <3> QED BY <3>1, <3>2, <2>1
  <2>4. CASE w \notin {u, v}
    <3>1. /\ pte'[w].valid = pte[w].valid /\ pte'[w].onswap = pte[w].onswap
          /\ pte'[w].frame = pte[w].frame /\ pte'[w].swap_off = pte[w].swap_off
      BY <2>4, <1>5 DEF SameButRef
    <3>2. pte[w].valid => physmem'[pte[w].frame] = physmem[pte[w].frame]
      BY <2>4, <1>2, <1>6
    <3>3. pte[w].swap_off # INVALID_SWAP => swapFile'[pte[w].swap_off] = swapFile[pte[w].swap_off]
      BY <2>4, <1>2, <1>3, <1>11 DEF Entry
    <3>4. Content(w)' = Content(w)
      BY <3>1, <3>2, <3>3 DEF Content
    <3> QED BY <3>4, <2>1
  <2> QED BY <2>2, <2>3, <2>4
<1>15. AddressKept'
  BY <1>14 DEF AddressKept
<1>16. CleanSaved'
  <2> SUFFICES ASSUME ~reported', NEW w \in Pages, pte'[w].valid, ~pte'[w].dirty
               PROVE  /\ pte'[w].swap_off # INVALID_SWAP
                      /\ swapFile'[pte'[w].swap_off] = physmem'[pte'[w].frame]
    BY DEF CleanSaved
  <2>1. CASE w = v
    <3>1. pte[v].onswap /\ ~write
      BY <2>1, <1>2
    <3> QED BY <2>1, <3>1, <1>2, <1>3
  <2>2. CASE w # v
    <3>1. w \in Pages \ {u, v}
      BY <2>2, <1>2
    <3>2. /\ pte[w].valid /\ ~pte[w].dirty
          /\ pte'[w].frame = pte[w].frame /\ pte'[w].swap_off = pte[w].swap_off
      BY <3>1, <1>5 DEF SameButRef
    <3>3. /\ pte[w].swap_off # INVALID_SWAP
          /\ swapFile[pte[w].swap_off] = physmem[pte[w].frame]
      BY <3>2, <1>2 DEF MemInv, CleanSaved
    <3>4. pte[w].swap_off \in Slots \ {r} /\ pte[w].frame \in Frames \ {f}
      BY <3>1, <3>2, <3>3, <1>3, <1>6, <1>11 DEF Entry
    <3> QED BY <3>2, <3>3, <3>4, <1>2
  <2> QED BY <2>1, <2>2
<1>17. CountsAddUp'
  <2> DEFINE c == CountEvict(count, t[u].dirty)
  <2>1. t[u].dirty \in BOOLEAN
    BY <1>1 DEF Entry
  <2>2. /\ c \in Counts /\ c.clean + c.dirty = count.clean + count.dirty + 1
        /\ c.hit = count.hit /\ c.miss = count.miss /\ c.ref = count.ref
    BY <1>3, <2>1, EvictCounted
  <2>3. count' = CountMiss(c)
    BY <1>1
  <2> HIDE DEF c
  <2>4. /\ count'.miss = c.miss + 1 /\ count'.ref = c.ref + 1
        /\ count'.hit = c.hit /\ count'.clean = c.clean /\ count'.dirty = c.dirty
    BY <2>2, <2>3, CountUpdates
  <2>5. /\ count.hit + count.miss = count.ref
        /\ count.miss = Cardinality(Used) + count.clean + count.dirty
    BY DEF MemInv, CountsAddUp, Used
  <2>6. Used' = Used
    BY <1>1, <1>3, <1>4 DEF Used, Full
  <2>7. /\ count.hit \in Nat /\ count.miss \in Nat /\ count.ref \in Nat
        /\ count.clean \in Nat /\ count.dirty \in Nat
        /\ c.clean \in Nat /\ c.dirty \in Nat
    BY <1>3, <2>2 DEF Counts
  <2>8. /\ count'.hit + count'.miss = count'.ref
        /\ count'.miss = Cardinality(Used') + count'.clean + count'.dirty
    BY <2>2, <2>4, <2>5, <2>6, <2>7, UsedFinite
  <2> QED BY <2>8 DEF CountsAddUp, Used
<1> QED BY <1>8, <1>9, <1>12, <1>13, <1>15, <1>16, <1>17 DEF MemInv

(***************************************************************************)
(* The lists of the algorithms keep their types.                           *)
(***************************************************************************)
LEMMA PointerUpdate ==
  ASSUME NEW g \in [Frames -> Pointer], NEW x, NEW p \in Pointer
  PROVE  [g EXCEPT ![x] = p] \in [Frames -> Pointer]
OBVIOUS

LEMMA FifoTypes ==
  ASSUME NEW q \in Links
  PROVE  /\ \A f \in Frames : FifoRef(q, f) \in Links
         /\ q.oldestf # NULL => FifoEvict(q) \in Links
<1>1. /\ \A p \in Pointer : [q EXCEPT !.oldestf = p] \in Links
      /\ \A p \in Pointer, g \in [Frames -> Pointer] :
           /\ [q EXCEPT !.oldestf = p, !.frame_above = g] \in Links
           /\ [q EXCEPT !.youngestf = p, !.frame_above = g] \in Links
           /\ [q EXCEPT !.frame_above = g, !.youngestf = p] \in Links
  BY DEF Links
<1>2. q.frame_above \in [Frames -> Pointer] /\ q.oldestf \in Pointer
      /\ NULL \in Pointer /\ Frames \subseteq Pointer
  BY DEF Links, Pointer
<1>3. q.oldestf # NULL => FifoEvict(q) \in Links
  <2> HAVE q.oldestf # NULL
  <2> DEFINE next == q.frame_above[q.oldestf]
             g == [q.frame_above EXCEPT ![q.oldestf] = NULL]
  <2>1. next \in Pointer
    BY <1>2 DEF Pointer
  <2>2. g \in [Frames -> Pointer]
    BY <1>2, PointerUpdate
  <2>3. FifoEvict(q) = [q EXCEPT !.oldestf = next, !.frame_above = g]
    BY DEF FifoEvict
  <2> HIDE DEF next, g
  <2> QED BY <1>1, <2>1, <2>2, <2>3
<1>4. ASSUME NEW f \in Frames
      PROVE  FifoRef(q, f) \in Links
  <2> DEFINE g == [q.frame_above EXCEPT ![q.oldestf] = f]
             h == [q.frame_above EXCEPT ![q.youngestf] = f]
  <2>1. g \in [Frames -> Pointer] /\ h \in [Frames -> Pointer]
    BY <1>2, PointerUpdate
  <2>2. FifoRef(q, f) \in {q, [q EXCEPT !.oldestf = f],
                           [q EXCEPT !.youngestf = f, !.frame_above = g],
                           [q EXCEPT !.frame_above = h, !.youngestf = f]}
    BY DEF FifoRef
  <2> HIDE DEF g, h
  <2>3. /\ [q EXCEPT !.oldestf = f] \in Links
        /\ [q EXCEPT !.youngestf = f, !.frame_above = g] \in Links
        /\ [q EXCEPT !.frame_above = h, !.youngestf = f] \in Links
    BY <1>1, <1>2, <2>1
  <2> QED BY <2>2, <2>3
<1> QED BY <1>3, <1>4

LEMMA LruTypes ==
  ASSUME NEW q \in Links
  PROVE  /\ \A f \in Frames : LruRef(q, f) \in Links
         /\ q.bottom_node # NULL => LruEvict(q) \in Links
<1>1. ASSUME NEW x \in Links
      PROVE  /\ x.frame_above \in [Frames -> Pointer]
             /\ x.frame_below \in [Frames -> Pointer]
             /\ x.top_node \in Pointer /\ x.bottom_node \in Pointer
  BY <1>1 DEF Links
<1>2. NULL \in Pointer /\ Frames \subseteq Pointer
  BY DEF Pointer
<1>3. ASSUME NEW x \in Links
      PROVE  \A p \in Pointer, g, h \in [Frames -> Pointer] :
               [x EXCEPT !.bottom_node = p, !.frame_above = g, !.frame_below = h] \in Links
  BY <1>3 DEF Links
<1>4. ASSUME NEW x \in Links
      PROVE  \A p \in Pointer, g, h \in [Frames -> Pointer] :
               [x EXCEPT !.frame_above = g, !.frame_below = h, !.top_node = p] \in Links
  BY <1>4 DEF Links
<1>5. ASSUME NEW x \in Links
      PROVE  \A p \in Pointer, g, h \in [Frames -> Pointer] :
               [x EXCEPT !.top_node = p, !.frame_below = h, !.frame_above = g] \in Links
  BY <1>5 DEF Links
<1>6. ASSUME NEW x \in Links
      PROVE  \A g, h \in [Frames -> Pointer] :
               [x EXCEPT !.frame_above = g, !.frame_below = h] \in Links
  BY <1>6 DEF Links
<1>7. ASSUME NEW x \in Links
      PROVE  \A g \in [Frames -> Pointer] : [x EXCEPT !.frame_above = g] \in Links
  BY <1>7 DEF Links
<1>8. ASSUME NEW x \in Links
      PROVE  \A p \in Pointer, h \in [Frames -> Pointer] :
               [x EXCEPT !.bottom_node = p, !.frame_below = h] \in Links
  BY <1>8 DEF Links
<1>9. ASSUME NEW x \in Links, x.bottom_node # NULL
      PROVE  DropBottom(x) \in Links
  <2> DEFINE p == x.frame_above[x.bottom_node]
             h == [x.frame_below EXCEPT ![p] = NULL]
  <2>1. p \in Pointer
    BY <1>1, <1>9 DEF Pointer
  <2>2. h \in [Frames -> Pointer]
    BY <1>1, <1>2, PointerUpdate
  <2>3. DropBottom(x) = [x EXCEPT !.bottom_node = p, !.frame_below = h]
    BY DEF DropBottom
  <2> HIDE DEF p, h
  <2>4. [x EXCEPT !.bottom_node = p, !.frame_below = h] \in Links
    BY <1>8, <2>1, <2>2
  <2> QED BY <2>3, <2>4
<1>10. ASSUME NEW x \in Links, NEW f \in Frames
      PROVE  Push(x, f) \in Links
  <2> DEFINE g == [x.frame_above EXCEPT ![x.top_node] = f]
             h == [x.frame_below EXCEPT ![f] = x.top_node]
  <2>1. g \in [Frames -> Pointer] /\ h \in [Frames -> Pointer]
    BY <1>1, <1>2, PointerUpdate
  <2>2. Push(x, f) = [x EXCEPT !.frame_above = g, !.frame_below = h, !.top_node = f]
    BY DEF Push
  <2> HIDE DEF g, h
  <2>3. [x EXCEPT !.frame_above = g, !.frame_below = h, !.top_node = f] \in Links
    BY <1>2, <1>4, <2>1
  <2> QED BY <2>2, <2>3
<1>11. ASSUME NEW x \in Links, NEW f \in Frames
      PROVE  MoveToTop(x, f) \in Links
  <2> DEFINE d == Push(x, f)
             g == [d.frame_above EXCEPT ![f] = NULL]
  <2>1. d \in Links
    BY <1>10
  <2>2. g \in [Frames -> Pointer]
    BY <1>1, <1>2, <2>1, PointerUpdate
  <2>3. MoveToTop(x, f) = [d EXCEPT !.frame_above = g]
    BY DEF MoveToTop
  <2> HIDE DEF d, g
  <2> QED BY <1>7, <2>1, <2>2, <2>3
<1>12. ASSUME q.bottom_node # NULL
      PROVE  LruEvict(q) \in Links
  <2> DEFINE d == DropBottom(q)
             g == [d.frame_above EXCEPT ![q.bottom_node] = NULL]
             h == [d.frame_below EXCEPT ![q.bottom_node] = NULL]
  <2>1. d \in Links
    BY <1>9, <1>12
  <2>2. g \in [Frames -> Pointer] /\ h \in [Frames -> Pointer]
    BY <1>1, <1>2, <2>1, PointerUpdate
  <2>3. LruEvict(q) = [d EXCEPT !.frame_above = g, !.frame_below = h]
    BY DEF LruEvict
  <2> HIDE DEF d, g, h
  <2>4. [d EXCEPT !.frame_above = g, !.frame_below = h] \in Links
    BY <1>6, <2>1, <2>2
  <2> QED BY <2>3, <2>4
<1>13. ASSUME NEW f \in Frames
      PROVE  LruRef(q, f) \in Links
  <2> DEFINE up == q.frame_above[f]
             down == q.frame_below[f]
  <2>1. up \in Pointer /\ down \in Pointer
    BY <1>1
  <2> HIDE DEF up, down
  <2>2. [q EXCEPT !.bottom_node = f, !.frame_above[f] = NULL, !.frame_below[f] = NULL] \in Links
    <3> DEFINE g == [q.frame_above EXCEPT ![f] = NULL]
               h == [q.frame_below EXCEPT ![f] = NULL]
    <3>1. g \in [Frames -> Pointer] /\ h \in [Frames -> Pointer]
      BY <1>1, <1>2, PointerUpdate
    <3> HIDE DEF g, h
    <3>2. [q EXCEPT !.bottom_node = f, !.frame_above = g, !.frame_below = h] \in Links
      BY <1>2, <1>3, <3>1
    <3> QED BY <3>2 DEF g, h
  <2>3. [q EXCEPT !.top_node = f, !.frame_below[f] = q.bottom_node,
                  !.frame_above[q.bottom_node] = f] \in Links
    <3> DEFINE g == [q.frame_above EXCEPT ![q.bottom_node] = f]
               h == [q.frame_below EXCEPT ![f] = q.bottom_node]
    <3>1. g \in [Frames -> Pointer] /\ h \in [Frames -> Pointer]
      BY <1>1, <1>2, PointerUpdate
    <3> HIDE DEF g, h
    <3>2. [q EXCEPT !.top_node = f, !.frame_below = h, !.frame_above = g] \in Links
      BY <1>2, <1>5, <3>1
    <3> QED BY <3>2 DEF g, h
  <2>4. q.bottom_node # NULL => MoveToTop(DropBottom(q), f) \in Links
    BY <1>9, <1>11
  <2>5. [q EXCEPT !.frame_above[down] = up, !.frame_below[up] = down] \in Links
    <3> DEFINE g == [q.frame_above EXCEPT ![down] = up]
               h == [q.frame_below EXCEPT ![up] = down]
    <3>1. g \in [Frames -> Pointer] /\ h \in [Frames -> Pointer]
      BY <1>1, <2>1, PointerUpdate
    <3> HIDE DEF g, h
    <3>2. [q EXCEPT !.frame_above = g, !.frame_below = h] \in Links
      BY <1>6, <3>1
    <3> QED BY <3>2 DEF g, h
  <2>6. MoveToTop([q EXCEPT !.frame_above[down] = up, !.frame_below[up] = down], f) \in Links
    BY <1>11, <2>5
  <2>7. Push(q, f) \in Links
    BY <1>10
  <2> DEFINE result == {q, Push(q, f), MoveToTop(DropBottom(q), f),
      [q EXCEPT !.bottom_node = f, !.frame_above[f] = NULL, !.frame_below[f] = NULL],
      [q EXCEPT !.top_node = f, !.frame_below[f] = q.bottom_node,
                !.frame_above[q.bottom_node] = f],
      MoveToTop([q EXCEPT !.frame_above[down] = up, !.frame_below[up] = down], f)}
  <2>8. CASE q.bottom_node = NULL
    <3>1. LruRef(q, f) = [q EXCEPT !.bottom_node = f, !.frame_above[f] = NULL,
                                   !.frame_below[f] = NULL]
      BY <2>8 DEF LruRef
    <3> QED BY <2>2, <3>1
  <2>9. CASE q.bottom_node # NULL
    <3>1. LruRef(q, f) \in result
      BY <2>9 DEF LruRef, up, down
    <3> QED BY <2>2, <2>3, <2>4, <2>6, <2>7, <2>9, <3>1
  <2> QED BY <2>8, <2>9
<1> QED BY <1>12, <1>13

LEMMA RefTypes ==
  ASSUME NEW q \in Links, NEW f \in Frames
  PROVE  RefFcn(q, f) \in Links
BY FifoTypes, LruTypes DEF RefFcn

(* What an algorithm chooses is a frame of memory.                         *)
LEMMA ChoiceFacts ==
  ASSUME IInv, Full, ~FollowsNull, NEW n \in Frames, Chooses(n)
  PROVE  /\ FrameOf(n) = n /\ LinksAfter \in Links
         /\ TableAfter \in [Pages -> Entry]
         /\ \A w \in Pages : SameButRef(TableAfter[w], pte[w])
<1>1. /\ alg \in {"rand", "clock", "fifo", "lru"} /\ links \in Links
      /\ pte \in [Pages -> Entry]
  BY AlgorithmsAssumption DEF IInv, SimType, TypeOK
<1>2. FrameOf(n) = n
  BY DEF IInv, TablesInverse, Full, FrameOf
<1>3. alg = "clock" => ClockEvict(links) \in Links
  <2> HAVE alg = "clock"
  <2>1. ClockVictim(links) = n
    BY DEF Chooses
  <2>2. n + 1 \in 0..memsize
    BY SizesAssumption DEF Frames
  <2>3. \A k \in 0..memsize : [links EXCEPT !.clock_hand = k] \in Links
    BY <1>1 DEF Links
  <2> QED BY <2>1, <2>2, <2>3 DEF ClockEvict
<1>4. LinksAfter \in Links
  BY <1>1, <1>3, FifoTypes, LruTypes DEF LinksAfter, FollowsNull
<1>5. ASSUME NEW e \in Entry, NEW b \in BOOLEAN
      PROVE  [e EXCEPT !.ref = b] \in Entry /\ SameButRef([e EXCEPT !.ref = b], e)
  BY DEF Entry, SameButRef
<1>6. /\ TableAfter \in [Pages -> Entry]
      /\ \A w \in Pages : SameButRef(TableAfter[w], pte[w])
  <2>1. CASE alg = "clock"
    <3> DEFINE b(w) == pte[w].ref /\ ~\E j \in 0..(ClockLaps(links) - 1) :
                                        coremap[Hand(links, j)] = w
    <3>1. TableAfter = [w \in Pages |-> [pte[w] EXCEPT !.ref = b(w)]]
      BY <2>1 DEF TableAfter, ClockTable
    <3>2. \A w \in Pages : b(w) \in BOOLEAN /\ pte[w] \in Entry
      BY <1>1 DEF Entry
    <3> HIDE DEF b
    <3> QED BY <1>5, <3>1, <3>2
  <2>2. CASE alg # "clock"
    BY <1>1, <2>2 DEF TableAfter, SameButRef
  <2> QED BY <2>1, <2>2
<1> QED BY <1>2, <1>4, <1>6

(***************************************************************************)
(* The inductive invariant.                                                *)
(***************************************************************************)
LEMMA IInvParts ==
  IInv <=> MemInv /\ alg \in Algorithms /\ links \in Links
BY DEF IInv, MemInv, SimType

LEMMA InitInv == SimInit => IInv
<1> SUFFICES ASSUME SimInit PROVE IInv
  OBVIOUS
<1>1. TypeOK
  <2>1. [valid |-> FALSE, dirty |-> FALSE, ref |-> FALSE, onswap |-> FALSE,
         frame |-> 0, swap_off |-> INVALID_SWAP] \in Entry
    BY Constants DEF Entry
  <2>2. Blank \in Page
    BY DEF Blank, Page
  <2>3. [hit |-> 0, miss |-> 0, ref |-> 0, clean |-> 0, dirty |-> 0] \in
          [hit : Nat, miss : Nat, ref : Nat, clean : Nat, dirty : Nat]
    OBVIOUS
  <2> QED BY <2>1, <2>2, <2>3 DEF SimInit, Init, TypeOK
<1>2. \A w \in Pages : /\ ~pte[w].valid /\ ~pte[w].onswap
                       /\ pte[w].swap_off = INVALID_SWAP
  BY DEF SimInit, Init
<1>3. \A f \in Frames : coremap[f] = NoPage
  BY DEF SimInit, Init
<1>4. TablesInverse /\ SlotsUnique /\ LifeInv /\ CleanSaved
  BY <1>2, <1>3 DEF TablesInverse, SlotsUnique, LifeInv, CleanSaved
<1>5. AddressKept
  BY <1>2 DEF AddressKept, Content
<1>6. CountsAddUp
  <2>1. Used = {}
    BY <1>3 DEF Used
  <2>2. /\ count.hit = 0 /\ count.miss = 0 /\ count.ref = 0
        /\ count.clean = 0 /\ count.dirty = 0
    BY DEF SimInit, Init
  <2> QED BY <2>1, <2>2, FS_EmptySet DEF CountsAddUp, Used
<1>7. NoLinks \in Links
  BY SizesAssumption DEF NoLinks, Links, Pointer
<1> QED BY <1>1, <1>4, <1>5, <1>6, <1>7, IInvParts DEF MemInv, SimInit

LEMMA NextInv == IInv /\ [Next]_vars => IInv'
<1> SUFFICES ASSUME IInv, [Next]_vars PROVE IInv'
  OBVIOUS
<1>1. MemInv /\ alg \in Algorithms /\ links \in Links
  BY IInvParts
<1>2. ASSUME MemInv', NEW v \in Pages, NEW q \in Links, links' = RefFcn(q, pte'[v].frame)
      PROVE  links' \in Links
  <2>1. pte'[v].frame \in Frames
    BY <1>2 DEF MemInv, TypeOK, Entry
  <2> QED BY <1>2, <2>1, RefTypes
<1>3. ASSUME NEW v \in Pages, NEW write \in BOOLEAN, SimHit(v, write)
      PROVE  IInv'
  <2>1. MemInv'
    BY <1>1, <1>3, HitStep DEF SimHit
  <2>2. links' \in Links /\ alg' = alg
    BY <1>1, <1>2, <1>3, <2>1 DEF SimHit
  <2> QED BY <1>1, <2>1, <2>2 DEF IInv, MemInv, SimType
<1>4. ASSUME NEW v \in Pages, NEW write \in BOOLEAN, SimMissFree(v, write)
      PROVE  IInv'
  <2>1. MemInv'
    BY <1>1, <1>4, MissFreeStep DEF SimMissFree
  <2>2. links' \in Links /\ alg' = alg
    BY <1>1, <1>2, <1>4, <2>1 DEF SimMissFree
  <2> QED BY <1>1, <2>1, <2>2 DEF IInv, MemInv, SimType
<1>5. ASSUME NEW v \in Pages, NEW write \in BOOLEAN, SimMissEvict(v, write)
      PROVE  IInv'
  <2>1. PICK n \in Frames : Chooses(n) /\ MissEvict(v, FrameOf(n), TableAfter, write)
    BY <1>5 DEF SimMissEvict
  <2>2. /\ FrameOf(n) = n /\ LinksAfter \in Links
        /\ TableAfter \in [Pages -> Entry]
        /\ \A w \in Pages : SameButRef(TableAfter[w], pte[w])
    BY <1>5, <2>1, ChoiceFacts DEF SimMissEvict
  <2>3. MissEvict(v, n, TableAfter, write)
    BY <2>1, <2>2
  <2>4. MemInv'
    BY <1>1, <2>2, <2>3, MissEvictStep
  <2>5. links' \in Links /\ alg' = alg
    BY <1>2, <1>5, <2>2, <2>4 DEF SimMissEvict
  <2> QED BY <1>1, <2>4, <2>5 DEF IInv, MemInv, SimType
<1>6. CASE UNCHANGED vars
  BY <1>6 DEF vars, ptVars, swapVars, IInv, SimType, TypeOK, TablesInverse, SlotsUnique,
              LifeInv, Full, AddressKept, Content, CleanSaved, CountsAddUp
<1> QED BY <1>3, <1>4, <1>5, <1>6 DEF Next

(* IInv holds in every state, for every trace, memory and swap size.       *)
THEOREM Invariance == Spec => []IInv
BY InitInv, NextInv, PTL DEF Spec

(* The two tables are inverse to each other, whichever algorithm evicts.   *)
THEOREM TablesStayInverse == Spec => []TablesInverse
<1>1. IInv => TablesInverse
  BY DEF IInv
<1> QED BY <1>1, Invariance, PTL

(* No two pages share a slot of the swap file and the slot of a page is    *)
(* marked in the bitmap of swap.c, also after failed writes.               *)
THEOREM SlotsStayUnique == Spec => []SlotsUnique
<1>1. IInv => SlotsUnique
  BY DEF IInv
<1> QED BY <1>1, Invariance, PTL

(* A page that find_physpage lets go without the dirty bit is in its slot. *)
THEOREM CleanPagesSaved == Spec => []CleanSaved
<1>1. IInv => CleanSaved
  BY DEF IInv
<1> QED BY <1>1, Invariance, PTL

(* The address that init_frame writes into a page is found in it by every  *)
(* later access, until the swap file reports its first error.              *)
THEOREM AddressesKept == Spec => []AddressKept
<1>1. IInv => AddressKept
  BY DEF IInv
<1> QED BY <1>1, Invariance, PTL

(* The counters that main prints account for every reference and eviction. *)
THEOREM CountersExact == Spec => []CountsAddUp
<1>1. IInv => CountsAddUp
  BY DEF IInv
<1> QED BY <1>1, Invariance, PTL

(***************************************************************************)
(* Refinement of the flat memory.                                          *)
(***************************************************************************)
(* What a reference to v does to the contents of all pages.                *)
Recorded(v, write) ==
  /\ Content(v)'.version = Content(v).version + (IF write THEN 1 ELSE 0)
  /\ \A w \in Pages \ {v} : Content(w)'.version = Content(w).version

LEMMA HitContent ==
  ASSUME MemInv, NEW v \in Pages, NEW write \in BOOLEAN, Hit(v, write)
  PROVE  (reported => reported') /\ Recorded(v, write)
<1> DEFINE f == pte[v].frame
<1>1. /\ pte[v].valid /\ f \in Frames /\ coremap[f] = v
      /\ pte' \in [Pages -> Entry] /\ physmem' \in [Frames -> Page]
      /\ UNCHANGED <<coremap, swapFile, swapmap>>
      /\ \A w \in Pages \ {v} : pte'[w] = pte[w]
      /\ pte'[v].valid /\ pte'[v].frame = f
      /\ \A g \in Frames \ {f} : physmem'[g] = physmem[g]
      /\ physmem'[f].version = physmem[f].version + (IF write THEN 1 ELSE 0)
      /\ ~reported' => ~reported
  BY HitFacts
<1>2. Content(v)'.version = Content(v).version + (IF write THEN 1 ELSE 0)
  <2>1. Content(v) = physmem[f]
    BY <1>1 DEF Content
  <2>2. Content(v)' = physmem'[f]
    BY <1>1 DEF Content
  <2> QED BY <1>1, <2>1, <2>2
<1>3. ASSUME NEW w \in Pages \ {v}
      PROVE  Content(w)' = Content(w)
  <2>1. pte[w].valid => pte[w].frame \in Frames \ {f}
    BY <1>1 DEF MemInv, TypeOK, TablesInverse, Entry
  <2> HIDE DEF f
  <2> QED BY <1>1, <2>1 DEF Content
<1> QED BY <1>1, <1>2, <1>3 DEF Recorded

LEMMA MissFreeContent ==
  ASSUME MemInv, NEW v \in Pages, NEW write \in BOOLEAN, MissFree(v, write)
  PROVE  (reported => reported') /\ Recorded(v, write)
<1>1. /\ ~pte[v].valid /\ \A w \in Pages : ~pte[w].onswap
      /\ UNCHANGED <<swapFile, swapmap>>
  BY MissFreeFacts
<1>2. PICK f \in Frames :
        /\ coremap[f] = NoPage
        /\ \A w \in Pages \ {v} : pte'[w] = pte[w]
        /\ pte'[v].valid /\ pte'[v].frame = f
        /\ \A g \in Frames \ {f} : physmem'[g] = physmem[g]
        /\ physmem'[f].version = IF write THEN 1 ELSE 0
        /\ ~reported' => ~reported
  BY MissFreeFacts
<1>3. Content(v).version = 0
  BY <1>1 DEF Content
<1>4. Content(v)'.version = 0 + (IF write THEN 1 ELSE 0)
  <2>1. Content(v)' = physmem'[f]
    BY <1>2 DEF Content
  <2> QED BY <1>2, <2>1
<1>5. ASSUME NEW w \in Pages \ {v}
      PROVE  Content(w)' = Content(w)
  <2>1. pte[w].valid => pte[w].frame \in Frames \ {f}
    BY <1>2, Constants DEF MemInv, TypeOK, TablesInverse, Entry
  <2> QED BY <1>1, <1>2, <2>1 DEF Content
<1> QED BY <1>2, <1>3, <1>4, <1>5 DEF Recorded

LEMMA MissEvictContent ==
  ASSUME MemInv, NEW v \in Pages, NEW f \in Frames, NEW t \in [Pages -> Entry],
         NEW write \in BOOLEAN, \A w \in Pages : SameButRef(t[w], pte[w]),
         MissEvict(v, f, t, write)
  PROVE  (reported => reported') /\ (~reported' => Recorded(v, write))
<1> DEFINE u == coremap[f]
           off == pte[v].swap_off
<1>1. /\ Full /\ ~pte[v].valid
      /\ u \in Pages \ {v} /\ pte[u].valid /\ pte[u].frame = f /\ ~pte[u].onswap
  BY MissEvictFacts
<1>2. PICK r \in Slots \cup {INVALID_SWAP} :
        /\ \A w \in Pages \ {u, v} : pte'[w] = t[w]
        /\ ~pte'[u].valid /\ pte'[u].onswap /\ pte'[u].swap_off = r
        /\ pte'[v].valid /\ ~pte'[v].onswap /\ pte'[v].frame = f
        /\ r \in Slots => /\ swapFile'[r] = physmem[f] /\ r \in swapmap'
                          /\ r = pte[u].swap_off \/ r \notin swapmap
        /\ \A s \in Slots \ {r} : swapFile'[s] = swapFile[s]
        /\ \A g \in Frames \ {f} : physmem'[g] = physmem[g]
        /\ ~pte[v].onswap => physmem'[f].version = IF write THEN 1 ELSE 0
        /\ ~reported' =>
             /\ ~reported /\ r \in Slots /\ physmem'[f].vaddr = v
             /\ pte[v].onswap =>
                  /\ off \in Slots
                  /\ physmem'[f].version = swapFile'[off].version
                                             + (IF write THEN 1 ELSE 0)
                  /\ ~write => physmem'[f] = swapFile'[off]
  BY MissEvictFacts
<1>3. /\ pte \in [Pages -> Entry] /\ INVALID_SWAP \notin Slots
      /\ u = coremap[f] /\ off = pte[v].swap_off
  BY Constants DEF MemInv, TypeOK
<1> HIDE DEF u, off
<1>4. \A w \in Pages \ {u} : pte[w].valid => pte[w].frame \in Frames \ {f}
  BY <1>1, <1>3 DEF MemInv, TablesInverse, Entry
<1>5. ASSUME ~reported'
      PROVE  Recorded(v, write)
  <2>1. r \in Slots /\ r # INVALID_SWAP
    BY <1>2, <1>3, <1>5
  <2>2. \A w \in Pages \ {u} : pte[w].swap_off # INVALID_SWAP =>
          pte[w].swap_off \in Slots \ {r}
    BY <1>1, <1>2, <1>3, <2>1 DEF MemInv, SlotsUnique, Entry
  <2>3. Content(v)'.version = Content(v).version + (IF write THEN 1 ELSE 0)
    <3>1. Content(v)' = physmem'[f]
      BY <1>2 DEF Content
    <3>2. CASE pte[v].onswap
      <4>1. /\ off \in Slots \ {r} /\ swapFile'[off] = swapFile[off]
            /\ off # INVALID_SWAP
        BY <3>2, <1>1, <1>2, <1>3, <1>5, <2>2
      <4>2. Content(v) = swapFile[off]
        BY <3>2, <4>1, <1>1, <1>3 DEF Content
      <4>3. physmem'[f].version = swapFile'[off].version + (IF write THEN 1 ELSE 0)
        BY <3>2, <1>2, <1>5
      <4> QED BY <3>1, <4>1, <4>2, <4>3
    <3>3. CASE ~pte[v].onswap
      <4>1. Content(v).version = 0
        BY <3>3, <1>1 DEF Content
      <4>2. physmem'[f].version = 0 + (IF write THEN 1 ELSE 0)
        BY <3>3, <1>2
      <4> QED BY <3>1, <4>1, <4>2
    <3> QED BY <3>2, <3>3
  <2>4. ASSUME NEW w \in Pages, w = u
        PROVE  Content(w)' = Content(w)
    <3>1. Content(w)' = swapFile'[r] /\ swapFile'[r] = physmem[f]
      BY <2>1, <2>4, <1>1, <1>2 DEF Content
    <3>2. Content(w) = physmem[f]
      BY <2>4, <1>1 DEF Content
    <3> QED BY <3>1, <3>2
  <2>5. ASSUME NEW w \in Pages \ {u, v}
        PROVE  Content(w)' = Content(w)
    <3>1. /\ pte'[w].valid = pte[w].valid /\ pte'[w].onswap = pte[w].onswap
          /\ pte'[w].frame = pte[w].frame /\ pte'[w].swap_off = pte[w].swap_off
      BY <1>2 DEF SameButRef
    <3>2. pte[w].valid => physmem'[pte[w].frame] = physmem[pte[w].frame]
      BY <1>2, <1>4
    <3>3. pte[w].swap_off # INVALID_SWAP => swapFile'[pte[w].swap_off] = swapFile[pte[w].swap_off]
      BY <1>2, <2>2
    <3> QED BY <3>1, <3>2, <3>3 DEF Content
  <2> QED BY <2>3, <2>4, <2>5 DEF Recorded
<1> QED BY <1>2, <1>5

LEMMA ContentType ==
  ASSUME MemInv, NEW v \in Pages
  PROVE  Content(v) \in Page
<1>1. [vaddr |-> v, version |-> 0] \in Page
  BY DEF Page
<1>2. /\ pte[v] \in Entry /\ physmem \in [Frames -> Page] /\ swapFile \in [Slots -> Page]
  BY DEF MemInv, TypeOK
<1> QED BY <1>1, <1>2 DEF Content, Entry

(* A reference is a store of the flat memory, or the first error, or       *)
(* changes nothing that the flat memory knows of.                          *)
LEMMA FlatStep ==
  ASSUME MemInv, MemInv', NEW v \in Pages, NEW write \in BOOLEAN,
         reported => reported', ~reported' => Recorded(v, write)
  PROVE  [Flat!Next]_(Flat!vars)
<1> DEFINE stores == [w \in Pages |-> IF reported THEN 0 ELSE Content(w).version]
<1>1. reported \in BOOLEAN /\ reported' \in BOOLEAN
  BY DEF MemInv, TypeOK
<1>2. CASE reported
  <2>1. stores' = stores /\ reported' = reported
    BY <1>1, <1>2
  <2> QED BY <2>1 DEF Flat!vars
<1>3. CASE ~reported /\ reported'
  <2>1. stores' = [w \in Pages |-> 0]
    BY <1>3
  <2>2. Flat!Fail
    BY <1>1, <1>3, <2>1 DEF Flat!Fail, Flat!Nothing
  <2> QED BY <2>2 DEF Flat!Next
<1>4. CASE ~reported' /\ write
  <2>1. stores' = [stores EXCEPT ![v] = @ + 1]
    BY <1>4 DEF Recorded
  <2>2. Flat!Store(v)
    BY <1>1, <1>4, <2>1 DEF Flat!Store
  <2> QED BY <2>2 DEF Flat!Next
<1>5. CASE ~reported' /\ ~write
  <2>1. Content(v).version \in Nat
    BY ContentType DEF Page
  <2>2. stores' = stores /\ reported' = reported
    BY <1>1, <1>5, <2>1 DEF Recorded
  <2> QED BY <2>2 DEF Flat!vars
<1> QED BY <1>1, <1>2, <1>3, <1>4, <1>5

(* The simulator implements the flat memory: until the first error no      *)
(* store is lost, repeated or given to another page by any sequence of     *)
(* evictions, failing writes and reads of the swap file.                   *)
THEOREM MemoryRefinement == Spec => ImplementsMemory
<1>1. SimInit => Flat!Init
  <2> SUFFICES ASSUME SimInit PROVE Flat!Init
    OBVIOUS
  <2>1. \A w \in Pages : ~pte[w].valid /\ ~pte[w].onswap
    BY DEF SimInit, Init
  <2>2. \A w \in Pages : Content(w).version = 0
    BY <2>1 DEF Content
  <2>3. reported = FALSE
    BY DEF SimInit, Init
  <2> QED BY <2>2, <2>3 DEF Flat!Init, Flat!Nothing
<1>2. IInv /\ IInv' /\ [Next]_vars => [Flat!Next]_(Flat!vars)
  <2> SUFFICES ASSUME IInv, IInv', [Next]_vars PROVE [Flat!Next]_(Flat!vars)
    OBVIOUS
  <2>1. MemInv /\ MemInv'
    BY DEF IInv, SimType, MemInv
  <2>2. ASSUME NEW v \in Pages, NEW write \in BOOLEAN, SimHit(v, write)
        PROVE  [Flat!Next]_(Flat!vars)
    BY <2>1, <2>2, HitContent, FlatStep DEF SimHit
  <2>3. ASSUME NEW v \in Pages, NEW write \in BOOLEAN, SimMissFree(v, write)
        PROVE  [Flat!Next]_(Flat!vars)
    BY <2>1, <2>3, MissFreeContent, FlatStep DEF SimMissFree
  <2>4. ASSUME NEW v \in Pages, NEW write \in BOOLEAN, SimMissEvict(v, write)
        PROVE  [Flat!Next]_(Flat!vars)
    <3>1. PICK n \in Frames : Chooses(n) /\ MissEvict(v, FrameOf(n), TableAfter, write)
      BY <2>4 DEF SimMissEvict
    <3>2. /\ FrameOf(n) = n /\ TableAfter \in [Pages -> Entry]
          /\ \A w \in Pages : SameButRef(TableAfter[w], pte[w])
      BY <2>4, <3>1, ChoiceFacts DEF SimMissEvict
    <3>3. MissEvict(v, n, TableAfter, write)
      BY <3>1, <3>2
    <3> QED BY <2>1, <3>2, <3>3, MissEvictContent, FlatStep
  <2>5. CASE UNCHANGED ptVars
    <3>1. reported' = reported /\ \A w \in Pages : Content(w)' = Content(w)
      BY <2>5 DEF ptVars, swapVars, Content
    <3> QED BY <3>1 DEF Flat!vars
  <2> QED BY <2>2, <2>3, <2>4, <2>5 DEF Next, vars
<1> QED BY <1>1, <1>2, Invariance, PTL DEF Spec, ImplementsMemory, Flat!Spec

LEMMA NullNoFrame == NULL \notin Frames
BY DEF NULL, Frames

(***************************************************************************)
(* fifo.                                                                   *)
(***************************************************************************)
LEMMA FifoFields ==
  ASSUME NEW q \in Links, NEW f \in Frames
  PROVE  LET r == FifoRef(q, f) IN
         /\ q.frame_above[f] # NULL => r = q
         /\ q.frame_above[f] = NULL /\ q.oldestf = NULL =>
              /\ r.oldestf = f /\ r.youngestf = q.youngestf
              /\ r.frame_above = q.frame_above
         /\ q.frame_above[f] = NULL /\ q.oldestf # NULL =>
              LET y == IF q.youngestf = NULL THEN q.oldestf ELSE q.youngestf IN
              /\ r.oldestf = q.oldestf /\ r.youngestf = f
              /\ r.frame_above = [q.frame_above EXCEPT ![y] = f]
BY DEF FifoRef, Links

(* A frame that is referred to: one in use, or the next.                   *)
LEMMA FifoRefStep ==
  ASSUME NEW q \in Links, NEW U \in SUBSET Frames, FifoInv(q, U), NEW f \in Frames
  PROVE  FifoInv(FifoRef(q, f), U \cup {f})
<1> DEFINE r == FifoRef(q, f)
           y == IF q.youngestf = NULL THEN q.oldestf ELSE q.youngestf
<1>1. /\ q.frame_above \in [Frames -> Pointer] /\ NULL \notin U
  BY NullNoFrame DEF Links
<1>2. CASE q.frame_above[f] # NULL
  <2>1. f \in U
    BY <1>2 DEF FifoInv
  <2>2. U \cup {f} = U /\ r = q
    BY <1>2, <2>1, FifoFields
  <2> QED
    BY <2>1, <2>2
<1>3. CASE q.frame_above[f] = NULL /\ q.oldestf = NULL
  <2>1. r.oldestf = f /\ r.youngestf = NULL /\ r.frame_above = q.frame_above /\ U = {}
    BY <1>3, FifoFields DEF FifoInv
  <2>2. FifoInv(r, U \cup {f})
    <3> HIDE DEF r
    <3> QED
      BY <1>3, <2>1, NullNoFrame DEF FifoInv
  <2> QED
    BY <2>2
<1>4. CASE q.frame_above[f] = NULL /\ q.oldestf # NULL
  <2>1. /\ r.oldestf = q.oldestf /\ r.youngestf = f
        /\ r.frame_above = [q.frame_above EXCEPT ![y] = f]
    BY <1>4, FifoFields
  <2>2. q.oldestf \in U /\ y \in U
    BY <1>4 DEF FifoInv
  <2>3. \A g \in Frames : r.frame_above[g] = IF g = y THEN f ELSE q.frame_above[g]
    BY <1>1, <2>1
  <2>4. f # y => f \notin U
    BY <1>1, <1>4 DEF FifoInv
  <2> HIDE DEF r
  <2>5. \A g \in Frames \ (U \cup {f}) : r.frame_above[g] = NULL
    BY <2>2, <2>3 DEF FifoInv
  <2>6. r.frame_above[f] \in {NULL, f}
    BY <1>4, <2>3
  <2>7. f = q.oldestf => U \cup {f} = {f}
    BY <2>2, <2>4 DEF FifoInv
  <2>8. \A g \in (U \cup {f}) \ {f} : r.frame_above[g] \in (U \cup {f}) \ {g}
    <3> SUFFICES ASSUME NEW g \in U, g # f PROVE r.frame_above[g] \in (U \cup {f}) \ {g}
      OBVIOUS
    <3>1. CASE g = y
      BY <2>3, <3>1
    <3>2. CASE g # y
      BY <2>3, <3>2 DEF FifoInv
    <3> QED
      BY <3>1, <3>2
  <2>9. FifoInv(r, U \cup {f})
    BY <1>1, <2>1, <2>2, <2>5, <2>6, <2>7, <2>8, NullNoFrame DEF FifoInv
  <2> QED
    BY <2>9 DEF r
<1> QED
  BY <1>2, <1>3, <1>4

(* The oldest frame is given up and the page that is needed comes into it. *)
LEMMA FifoEvictStep ==
  ASSUME NEW q \in Links, FifoInv(q, Frames), q.oldestf # NULL
  PROVE  FifoInv(FifoRef(FifoEvict(q), q.oldestf), Frames)
<1> DEFINE f == q.oldestf
           e == FifoEvict(q)
           r == FifoRef(e, f)
<1>1. f \in Frames /\ NULL \notin Frames /\ q.frame_above \in [Frames -> Pointer]
  BY NullNoFrame DEF FifoInv, Links
<1>2. e \in Links
  BY FifoTypes
<1>3. /\ e.oldestf = q.frame_above[f] /\ e.youngestf = q.youngestf
      /\ e.frame_above = [q.frame_above EXCEPT ![f] = NULL]
  BY DEF FifoEvict, Links
<1>4. e.frame_above[f] = NULL
  BY <1>1, <1>3
<1> HIDE DEF e
<1>5. q.youngestf \in {NULL, f} => Frames = {f}
  BY DEF FifoInv
<1>6. CASE e.oldestf = NULL
  <2>1. q.youngestf \in {NULL, f}
    BY <1>1, <1>3, <1>6 DEF FifoInv
  <2>2. Frames = {f} /\ e.youngestf \in {NULL, f}
    BY <1>3, <1>5, <2>1
  <2>3. r.oldestf = f /\ r.youngestf = e.youngestf /\ r.frame_above[f] = NULL
    BY <1>1, <1>2, <1>4, <1>6, FifoFields
  <2>4. FifoInv(r, Frames)
    <3> HIDE DEF r
    <3> QED
      BY <1>1, <2>2, <2>3 DEF FifoInv
  <2> QED
    BY <2>4 DEF r, e
<1>7. CASE e.oldestf # NULL
  <2> DEFINE y == q.youngestf
  <2>1. y # NULL /\ y \in Frames
    BY <1>3, <1>7 DEF FifoInv
  <2>2. r.oldestf = e.oldestf /\ r.youngestf = f /\ r.frame_above = [e.frame_above EXCEPT ![y] = f]
    BY <1>1, <1>2, <1>3, <1>4, <1>7, <2>1, FifoFields
  <2>3. \A g \in Frames : r.frame_above[g] =
          IF g = y THEN f ELSE IF g = f THEN NULL ELSE q.frame_above[g]
    BY <1>1, <1>3, <2>2
  <2>4. e.oldestf \in Frames /\ (e.oldestf = f => Frames = {f})
    BY <1>1, <1>3, <1>5, <1>7, <2>1 DEF FifoInv
  <2>5. \A g \in Frames \ {f} : r.frame_above[g] \in Frames \ {g}
    BY <1>1, <2>1, <2>3 DEF FifoInv
  <2>6. r.frame_above[f] \in {NULL, f}
    BY <1>1, <2>3
  <2>7. FifoInv(r, Frames)
    <3> HIDE DEF r
    <3> QED
      BY <1>1, <2>2, <2>4, <2>5, <2>6 DEF FifoInv
  <2> QED
    BY <2>7 DEF r, e
<1> QED
  BY <1>6, <1>7

(***************************************************************************)
(* lru.                                                                    *)
(***************************************************************************)
LEMMA PushFields ==
  ASSUME NEW q \in Links, NEW f \in Frames, q.top_node \in Frames
  PROVE  LET r == Push(q, f) IN
         /\ r.top_node = f /\ r.bottom_node = q.bottom_node
         /\ r.frame_above = [q.frame_above EXCEPT ![q.top_node] = f]
         /\ r.frame_below = [q.frame_below EXCEPT ![f] = q.top_node]
BY DEF Push, Links

LEMMA MoveFields ==
  ASSUME NEW q \in Links, NEW f \in Frames, q.top_node \in Frames
  PROVE  LET r == MoveToTop(q, f) IN
         /\ r.top_node = f /\ r.bottom_node = q.bottom_node
         /\ \A g \in Frames : r.frame_above[g] =
              IF g = f THEN NULL ELSE IF g = q.top_node THEN f ELSE q.frame_above[g]
         /\ \A g \in Frames : r.frame_below[g] = IF g = f THEN q.top_node ELSE q.frame_below[g]
<1>1. /\ MoveToTop(q, f).top_node = f /\ MoveToTop(q, f).bottom_node = q.bottom_node
      /\ MoveToTop(q, f).frame_above
           = [[q.frame_above EXCEPT ![q.top_node] = f] EXCEPT ![f] = NULL]
      /\ MoveToTop(q, f).frame_below = [q.frame_below EXCEPT ![f] = q.top_node]
  BY DEF MoveToTop, Push, Links
<1>2. q.frame_above \in [Frames -> Pointer] /\ q.frame_below \in [Frames -> Pointer]
  BY DEF Links
<1> QED
  BY <1>1, <1>2

LEMMA DropFields ==
  ASSUME NEW q \in Links, q.bottom_node \in Frames, q.frame_above[q.bottom_node] \in Frames
  PROVE  LET r == DropBottom(q)  up == q.frame_above[q.bottom_node] IN
         /\ r \in Links
         /\ r.top_node = q.top_node /\ r.bottom_node = up
         /\ r.frame_above = q.frame_above
         /\ r.frame_below = [q.frame_below EXCEPT ![up] = NULL]
<1>1. q.frame_below \in [Frames -> Pointer] /\ NULL \in Pointer /\ Frames \subseteq Pointer
  BY DEF Links, Pointer
<1>2. [q.frame_below EXCEPT ![q.frame_above[q.bottom_node]] = NULL] \in [Frames -> Pointer]
  BY <1>1, PointerUpdate
<1> QED
  BY <1>1, <1>2 DEF DropBottom, Links

(* What lru_ref makes of the list when frame f of two or more moves to the *)
(* top: its neighbours are linked to each other.                           *)
Moved(q, r, f) ==
  LET up == q.frame_above[f]  down == q.frame_below[f] IN
  /\ r.top_node = f
  /\ r.bottom_node = IF f = q.bottom_node THEN up ELSE q.bottom_node
  /\ \A g \in Frames : r.frame_above[g] =
       IF g = f THEN NULL ELSE IF g = q.top_node THEN f
       ELSE IF f # q.bottom_node /\ g = down THEN up ELSE q.frame_above[g]
  /\ \A g \in Frames : r.frame_below[g] =
       IF g = f THEN q.top_node ELSE IF g = up THEN down ELSE q.frame_below[g]

LEMMA MovedKeeps ==
  ASSUME NEW q \in Links, NEW U \in SUBSET Frames, LruInv(q, U), q.top_node # NULL,
         NEW f \in U, f # q.top_node, NEW r, Moved(q, r, f)
  PROVE  LruInv(r, U)
<1> DEFINE up == q.frame_above[f]
           down == q.frame_below[f]
           top == q.top_node
           bottom == q.bottom_node
<1>1. NULL \notin U /\ top \in U /\ bottom \in U /\ top # bottom
  BY NullNoFrame DEF LruInv
<1>2. /\ \A g \in U \ {top} : q.frame_above[g] \in U /\ q.frame_below[q.frame_above[g]] = g
      /\ \A g \in U \ {bottom} : q.frame_below[g] \in U /\ q.frame_above[q.frame_below[g]] = g
      /\ q.frame_above[top] = NULL /\ q.frame_below[bottom] = NULL
  BY <1>1 DEF LruInv
<1>3. up \in U /\ q.frame_below[up] = f
  BY <1>2
<1>4. f = bottom => down = NULL /\ up # f
  BY <1>1, <1>2, <1>3
<1>5. f # bottom => down \in U /\ q.frame_above[down] = f /\ down # top
  BY <1>1, <1>2
<1>6. /\ r.top_node = f /\ r.bottom_node \in U /\ r.bottom_node # f
  BY <1>1, <1>3, <1>4 DEF Moved
<1>7. r.frame_above[f] = NULL /\ r.frame_below[r.bottom_node] = NULL
  BY <1>1, <1>2, <1>3, <1>4, <1>6 DEF Moved
<1>8. ASSUME NEW g \in U \ {f}
      PROVE  r.frame_above[g] \in U /\ r.frame_below[r.frame_above[g]] = g
  <2>1. CASE g = top
    BY <1>1, <2>1 DEF Moved
  <2>2. CASE g # top /\ f # bottom /\ g = down
    BY <1>3, <1>5, <2>2 DEF Moved
  <2>3. CASE g # top /\ ~(f # bottom /\ g = down)
    <3> DEFINE h == q.frame_above[g]
    <3>1. r.frame_above[g] = h /\ h \in U /\ q.frame_below[h] = g
      BY <1>2, <2>3 DEF Moved
    <3>2. h # f /\ h # up
      BY <1>1, <1>3, <1>4, <2>3, <3>1
    <3> QED
      BY <3>1, <3>2 DEF Moved
  <2> QED
    BY <2>1, <2>2, <2>3
<1>9. ASSUME NEW g \in U, g # r.bottom_node
      PROVE  r.frame_below[g] \in U /\ r.frame_above[r.frame_below[g]] = g
  <2>1. CASE g = f
    BY <1>1, <2>1 DEF Moved
  <2>2. CASE g # f /\ g = up
    <3>1. f # bottom /\ down # f /\ r.frame_below[g] = down
      BY <1>5, <1>9, <2>2 DEF Moved
    <3> QED
      BY <1>5, <2>2, <3>1 DEF Moved
  <2>3. CASE g # f /\ g # up
    <3> DEFINE h == q.frame_below[g]
    <3>1. g # bottom
      BY <1>9, <2>3 DEF Moved
    <3>2. r.frame_below[g] = h /\ h \in U /\ q.frame_above[h] = g
      BY <1>2, <2>3, <3>1 DEF Moved
    <3>3. h # f /\ h # top /\ (f # bottom => h # down)
      BY <1>1, <1>2, <1>5, <2>3, <3>2
    <3> QED
      BY <3>2, <3>3 DEF Moved
  <2> QED
    BY <2>1, <2>2, <2>3
<1>10. ASSUME NEW g \in Frames \ U PROVE Unlinked(r, g)
  <2>1. g # f /\ g # top /\ g # up /\ (f # bottom => g # down)
    BY <1>1, <1>3, <1>5
  <2>2. Unlinked(q, g)
    BY DEF LruInv
  <2> QED
    BY <2>1, <2>2 DEF Moved, Unlinked
<1> QED
  BY <1>1, <1>6, <1>7, <1>8, <1>9, <1>10 DEF LruInv

(* The last case of lru_ref, between two other frames.                     *)
LEMMA MiddleMoved ==
  ASSUME NEW q \in Links, NEW U \in SUBSET Frames, LruInv(q, U), q.top_node # NULL,
         NEW f \in U, f # q.top_node, f # q.bottom_node
  PROVE  Moved(q, LruRef(q, f), f)
<1> DEFINE up == q.frame_above[f]
           down == q.frame_below[f]
           a == [q.frame_above EXCEPT ![down] = up]
           b == [q.frame_below EXCEPT ![up] = down]
           m == [q EXCEPT !.frame_above = a, !.frame_below = b]
<1>1. NULL \notin Frames /\ q.top_node \in U /\ q.bottom_node \in U
  BY NullNoFrame DEF LruInv
<1>2. up \in U /\ down \in U
  BY DEF LruInv
<1>3. q.frame_above \in [Frames -> Pointer] /\ q.frame_below \in [Frames -> Pointer]
      /\ Frames \subseteq Pointer
  BY DEF Links, Pointer
<1>4. a \in [Frames -> Pointer] /\ b \in [Frames -> Pointer]
  BY <1>2, <1>3, PointerUpdate
<1>5. LruRef(q, f) = MoveToTop(m, f)
  BY <1>1, <1>2 DEF LruRef
<1>6. /\ \A g \in Frames : a[g] = IF g = down THEN up ELSE q.frame_above[g]
      /\ \A g \in Frames : b[g] = IF g = up THEN down ELSE q.frame_below[g]
  BY <1>3
<1>7. /\ m \in Links /\ m.top_node = q.top_node /\ m.bottom_node = q.bottom_node
      /\ m.frame_above = a /\ m.frame_below = b
  <2> HIDE DEF a, b
  <2> QED
    BY <1>4 DEF Links
<1> HIDE DEF a, b, m
<1> QED
  BY <1>1, <1>5, <1>6, <1>7, MoveFields DEF Moved

LEMMA BottomMoved ==
  ASSUME NEW q \in Links, NEW U \in SUBSET Frames, LruInv(q, U), q.top_node # NULL,
         NEW f \in U, f = q.bottom_node
  PROVE  Moved(q, MoveToTop(DropBottom(q), f), f)
<1> DEFINE m == DropBottom(q)
<1>1. NULL \notin Frames /\ q.top_node \in Frames /\ f \in Frames
      /\ q.frame_above[f] \in Frames /\ q.frame_below[f] = NULL
  BY NullNoFrame DEF LruInv
<1>2. /\ m \in Links /\ m.top_node = q.top_node /\ m.bottom_node = q.frame_above[f]
      /\ m.frame_above = q.frame_above
      /\ m.frame_below = [q.frame_below EXCEPT ![q.frame_above[f]] = NULL]
  BY <1>1, DropFields
<1>3. \A g \in Frames : m.frame_below[g] =
        IF g = q.frame_above[f] THEN q.frame_below[f] ELSE q.frame_below[g]
  BY <1>1, <1>2 DEF Links
<1> DEFINE r == MoveToTop(m, f)
<1> HIDE DEF m
<1>4. /\ r.top_node = f /\ r.bottom_node = q.frame_above[f]
      /\ \A g \in Frames : r.frame_above[g] =
           IF g = f THEN NULL ELSE IF g = q.top_node THEN f ELSE q.frame_above[g]
      /\ \A g \in Frames : r.frame_below[g] =
           IF g = f THEN q.top_node
           ELSE IF g = q.frame_above[f] THEN q.frame_below[f] ELSE q.frame_below[g]
  <2>1. /\ r.top_node = f /\ r.bottom_node = m.bottom_node
        /\ \A g \in Frames : r.frame_above[g] =
             IF g = f THEN NULL ELSE IF g = m.top_node THEN f ELSE m.frame_above[g]
        /\ \A g \in Frames : r.frame_below[g] =
             IF g = f THEN m.top_node ELSE m.frame_below[g]
    <3>1. m \in Links /\ m.top_node \in Frames
      BY <1>1, <1>2
    <3> QED
      BY <3>1, MoveFields
  <2> HIDE DEF r
  <2> QED
    BY <1>2, <1>3, <2>1
<1>5. Moved(q, r, f)
  <2> HIDE DEF r
  <2> QED
    BY <1>4 DEF Moved
<1> QED
  BY <1>5 DEF m, r

LEMMA LruRefStep ==
  ASSUME NEW q \in Links, NEW U \in SUBSET Frames, LruInv(q, U), NEW f \in Frames
  PROVE  LruInv(LruRef(q, f), U \cup {f})
<1> DEFINE r == LruRef(q, f)
<1>1. /\ NULL \notin Frames
      /\ q.frame_above \in [Frames -> Pointer] /\ q.frame_below \in [Frames -> Pointer]
  BY NullNoFrame DEF Links
<1>2. CASE q.bottom_node = NULL
  <2>1. U = {} /\ q.top_node = NULL /\ \A g \in Frames : Unlinked(q, g)
    BY <1>2 DEF LruInv
  <2>2. /\ r.bottom_node = f /\ r.top_node = NULL
        /\ r.frame_above = [q.frame_above EXCEPT ![f] = NULL]
        /\ r.frame_below = [q.frame_below EXCEPT ![f] = NULL]
    BY <1>2, <2>1 DEF LruRef, Links
  <2>3. \A g \in Frames : Unlinked(r, g)
    BY <1>1, <2>1, <2>2 DEF Unlinked
  <2>4. LruInv(r, {f})
    <3> HIDE DEF r
    <3> QED
      BY <1>1, <2>2, <2>3 DEF LruInv
  <2> QED
    BY <2>1, <2>4 DEF r
<1>3. CASE q.bottom_node # NULL /\ q.top_node = NULL
  <2>1. U = {q.bottom_node} /\ q.bottom_node \in Frames /\ \A g \in Frames : Unlinked(q, g)
    BY <1>3 DEF LruInv
  <2>2. CASE f = q.bottom_node
    <3>1. r = q /\ U \cup {f} = U
      BY <1>3, <2>1, <2>2 DEF LruRef
    <3> QED
      BY <3>1
  <2>3. CASE f # q.bottom_node
    <3>1. /\ r.bottom_node = q.bottom_node /\ r.top_node = f
          /\ r.frame_above = [q.frame_above EXCEPT ![q.bottom_node] = f]
          /\ r.frame_below = [q.frame_below EXCEPT ![f] = q.bottom_node]
      BY <1>3, <2>3 DEF LruRef, Links
    <3>2. \A g \in Frames :
            /\ r.frame_above[g] = IF g = q.bottom_node THEN f ELSE NULL
            /\ r.frame_below[g] = IF g = f THEN q.bottom_node ELSE NULL
      BY <1>1, <2>1, <3>1 DEF Unlinked
    <3>3. LruInv(r, {q.bottom_node, f})
      <4> HIDE DEF r
      <4> QED
        BY <1>1, <2>1, <2>3, <3>1, <3>2 DEF LruInv, Unlinked
    <3>4. U \cup {f} = {q.bottom_node, f}
      BY <2>1
    <3> QED
      BY <3>3, <3>4 DEF r
  <2> QED
    BY <2>2, <2>3
<1>4. CASE q.bottom_node # NULL /\ q.top_node # NULL
  <2>1. q.top_node \in U /\ q.bottom_node \in U /\ q.top_node # q.bottom_node
    BY <1>4 DEF LruInv
  <2>2. CASE f \notin U
    <3>1. Unlinked(q, f)
      BY <2>2 DEF LruInv
    <3>2. r = Push(q, f)
      BY <1>4, <3>1 DEF LruRef, Unlinked
    <3>3. /\ r.top_node = f /\ r.bottom_node = q.bottom_node
          /\ \A g \in Frames :
               /\ r.frame_above[g] = IF g = q.top_node THEN f ELSE q.frame_above[g]
               /\ r.frame_below[g] = IF g = f THEN q.top_node ELSE q.frame_below[g]
      <4>1. /\ r.top_node = f /\ r.bottom_node = q.bottom_node
            /\ r.frame_above = [q.frame_above EXCEPT ![q.top_node] = f]
            /\ r.frame_below = [q.frame_below EXCEPT ![f] = q.top_node]
        BY <2>1, <3>2, PushFields
      <4> HIDE DEF r
      <4> QED
        BY <1>1, <2>1, <4>1
    <3> HIDE DEF r
    <3>4. \A g \in Frames \ (U \cup {f}) : Unlinked(r, g)
      BY <2>1, <3>3 DEF LruInv, Unlinked
    <3>5. r.frame_above[f] = NULL /\ r.frame_below[r.bottom_node] = NULL
      BY <1>1, <2>1, <2>2, <3>1, <3>3 DEF LruInv, Unlinked
    <3>6. ASSUME NEW g \in U
          PROVE  /\ r.frame_above[g] \in U \cup {f}
                 /\ r.frame_below[r.frame_above[g]] = g
      <4>1. CASE g = q.top_node
        BY <2>1, <3>3, <4>1
      <4>2. CASE g # q.top_node
        <5>1. q.frame_above[g] \in U /\ q.frame_below[q.frame_above[g]] = g
          BY <1>4, <4>2 DEF LruInv
        <5> QED
          BY <2>2, <3>3, <4>2, <5>1
      <4> QED
        BY <4>1, <4>2
    <3>7. ASSUME NEW g \in U \cup {f}, g # r.bottom_node
          PROVE  /\ r.frame_below[g] \in U \cup {f}
                 /\ r.frame_above[r.frame_below[g]] = g
      <4>1. CASE g = f
        BY <2>1, <2>2, <3>3, <4>1
      <4>2. CASE g # f
        <5>1. q.frame_below[g] \in U /\ q.frame_above[q.frame_below[g]] = g
          BY <1>4, <3>3, <3>7, <4>2 DEF LruInv
        <5>2. q.frame_below[g] # q.top_node
          BY <1>1, <1>4, <2>1, <4>2, <5>1 DEF LruInv
        <5> QED
          BY <2>2, <3>3, <4>2, <5>1, <5>2
      <4> QED
        BY <4>1, <4>2
    <3>8. LruInv(r, U \cup {f})
      BY <1>1, <2>1, <2>2, <3>3, <3>4, <3>5, <3>6, <3>7 DEF LruInv
    <3> QED
      BY <3>8 DEF r
  <2>3. CASE f \in U
    <3>1. U \cup {f} = U
      BY <2>3
    <3>2. CASE f = q.top_node
      <4>1. q.frame_above[f] = NULL /\ q.frame_below[f] \in U
        BY <1>4, <2>1, <2>3, <3>2 DEF LruInv
      <4>2. r = q
        BY <1>1, <1>4, <4>1 DEF LruRef
      <4> QED
        BY <3>1, <4>2
    <3>3. CASE f # q.top_node /\ f = q.bottom_node
      <4>1. q.frame_above[f] \in U /\ q.frame_below[f] = NULL
        BY <1>4, <2>1, <2>3, <3>3 DEF LruInv
      <4>2. r = MoveToTop(DropBottom(q), f)
        BY <1>1, <1>4, <4>1 DEF LruRef
      <4> QED
        BY <1>4, <2>3, <3>1, <3>3, <4>2, BottomMoved, MovedKeeps
    <3>4. CASE f # q.top_node /\ f # q.bottom_node
      BY <1>4, <2>3, <3>1, <3>4, MiddleMoved, MovedKeeps
    <3> QED
      BY <3>2, <3>3, <3>4
  <2> QED
    BY <2>2, <2>3
<1> QED
  BY <1>2, <1>3, <1>4

(* The frame at the bottom is given up and gets the page that is needed:   *)
(* it moves to the top.                                                    *)
LEMMA LruEvictMoves ==
  ASSUME NEW q \in Links, LruInv(q, Frames),
         q.bottom_node # NULL, q.frame_above[q.bottom_node] # NULL
  PROVE  /\ q.top_node # NULL /\ q.bottom_node \in Frames /\ q.bottom_node # q.top_node
         /\ Moved(q, LruRef(LruEvict(q), q.bottom_node), q.bottom_node)
<1> DEFINE f == q.bottom_node
           up == q.frame_above[f]
           e == LruEvict(q)
           r == LruRef(e, f)
<1>1. /\ q.top_node # NULL /\ NULL \notin Frames /\ f \in Frames
      /\ q.top_node \in Frames /\ f # q.top_node
      /\ up \in Frames /\ q.frame_below[up] = f /\ q.frame_below[f] = NULL
  BY NullNoFrame DEF LruInv, Unlinked
<1>2. q.frame_above \in [Frames -> Pointer] /\ q.frame_below \in [Frames -> Pointer]
  BY DEF Links
<1>3. /\ e \in Links /\ e.top_node = q.top_node /\ e.bottom_node = up
      /\ e.frame_above = [q.frame_above EXCEPT ![f] = NULL]
      /\ e.frame_below = [[q.frame_below EXCEPT ![up] = NULL] EXCEPT ![f] = NULL]
  <2>1. e \in Links
    BY LruTypes
  <2>2. /\ DropBottom(q) \in Links
        /\ DropBottom(q).top_node = q.top_node /\ DropBottom(q).bottom_node = up
        /\ DropBottom(q).frame_above = q.frame_above
        /\ DropBottom(q).frame_below = [q.frame_below EXCEPT ![up] = NULL]
    BY <1>1, DropFields
  <2> QED
    BY <2>1, <2>2 DEF LruEvict, Links
<1>4. /\ \A g \in Frames : e.frame_above[g] = IF g = f THEN NULL ELSE q.frame_above[g]
      /\ \A g \in Frames : e.frame_below[g] =
           IF g = f THEN NULL ELSE IF g = up THEN NULL ELSE q.frame_below[g]
  BY <1>1, <1>2, <1>3
<1> HIDE DEF e
<1>5. r = Push(e, f)
  BY <1>1, <1>3, <1>4 DEF LruRef
<1>6. /\ r.top_node = f /\ r.bottom_node = up
      /\ \A g \in Frames : r.frame_above[g] = IF g = q.top_node THEN f ELSE e.frame_above[g]
      /\ \A g \in Frames : r.frame_below[g] = IF g = f THEN q.top_node ELSE e.frame_below[g]
  <2>1. /\ r.top_node = f /\ r.bottom_node = up
        /\ r.frame_above = [e.frame_above EXCEPT ![q.top_node] = f]
        /\ r.frame_below = [e.frame_below EXCEPT ![f] = q.top_node]
    BY <1>1, <1>3, <1>5, PushFields
  <2>2. e.frame_above \in [Frames -> Pointer] /\ e.frame_below \in [Frames -> Pointer]
    BY <1>3 DEF Links
  <2> HIDE DEF r
  <2> QED
    BY <1>1, <2>1, <2>2
<1>7. Moved(q, r, f)
  <2> HIDE DEF r
  <2> QED
    BY <1>1, <1>4, <1>6 DEF Moved
<1> QED
  BY <1>1, <1>7 DEF r, e

LEMMA LruEvictStep ==
  ASSUME NEW q \in Links, LruInv(q, Frames),
         q.bottom_node # NULL, q.frame_above[q.bottom_node] # NULL
  PROVE  LruInv(LruRef(LruEvict(q), q.bottom_node), Frames)
BY LruEvictMoves, MovedKeeps

(***************************************************************************)
(* The steps of the simulator.                                             *)
(***************************************************************************)
LEMMA LinksRef ==
  ASSUME NEW q \in Links, NEW U \in SUBSET Frames, NEW f \in Frames, alg' = alg,
         alg = "fifo" => FifoInv(q, U), alg = "lru" => LruInv(q, U),
         links' = RefFcn(q, f), Used' = U \cup {f}
  PROVE  LinksInv'
BY FifoRefStep, LruRefStep DEF RefFcn, LinksInv

LEMMA UsedFrames == Used \in SUBSET Frames
BY DEF Used

LEMMA LinksInit == SimInit => LinksInv
<1> SUFFICES ASSUME SimInit PROVE LinksInv
  OBVIOUS
<1>1. Used = {} /\ links = NoLinks
  BY DEF SimInit, Init, Used
<1> QED
  BY <1>1 DEF LinksInv, FifoInv, LruInv, Unlinked, NoLinks, NULL

LEMMA LinksNext == IInv /\ LinksInv /\ [Next]_vars => LinksInv'
<1> SUFFICES ASSUME IInv, LinksInv, [Next]_vars PROVE LinksInv'
  OBVIOUS
<1>1. MemInv /\ links \in Links
  BY IInvParts
<1>2. ASSUME NEW v \in Pages, NEW write \in BOOLEAN, SimHit(v, write)
      PROVE  LinksInv'
  <2>1. /\ pte'[v].frame \in Frames /\ coremap[pte'[v].frame] = v /\ coremap' = coremap
    BY <1>1, <1>2, HitFacts DEF SimHit
  <2>2. Used' = Used \cup {pte'[v].frame}
    BY <2>1, PagesAssumption DEF Used
  <2> QED
    BY <1>1, <1>2, <2>1, <2>2, UsedFrames, LinksRef DEF SimHit, LinksInv
<1>3. ASSUME NEW v \in Pages, NEW write \in BOOLEAN, SimMissFree(v, write)
      PROVE  LinksInv'
  <2>1. PICK f \in Frames : coremap' = [coremap EXCEPT ![f] = v] /\ pte'[v].frame = f
    BY <1>1, <1>3, MissFreeFacts DEF SimMissFree
  <2>2. Used' = Used \cup {f}
    BY <1>1, <2>1, PagesAssumption DEF Used, MemInv, TypeOK
  <2> QED
    BY <1>1, <1>3, <2>1, <2>2, UsedFrames, LinksRef DEF SimMissFree, LinksInv
<1>4. ASSUME NEW v \in Pages, NEW write \in BOOLEAN, SimMissEvict(v, write)
      PROVE  LinksInv'
  <2>1. PICK n \in Frames : Chooses(n) /\ MissEvict(v, FrameOf(n), TableAfter, write)
    BY <1>4 DEF SimMissEvict
  <2>2. /\ Full /\ ~FollowsNull /\ alg' = alg
        /\ links' = RefFcn(LinksAfter, pte'[v].frame)
    BY <1>4 DEF SimMissEvict
  <2>3. /\ FrameOf(n) = n
        /\ TableAfter \in [Pages -> Entry]
        /\ \A w \in Pages : SameButRef(TableAfter[w], pte[w])
    BY <2>1, <2>2, ChoiceFacts
  <2>4. MissEvict(v, n, TableAfter, write)
    BY <2>1, <2>3
  <2>5. coremap' = [coremap EXCEPT ![n] = v] /\ pte'[v].frame = n
    BY <1>1, <2>3, <2>4, MissEvictFacts
  <2>6. Used = Frames /\ Used' = Frames
    BY <1>1, <2>2, <2>5, PagesAssumption DEF Used, Full, MemInv, TypeOK
  <2>7. CASE alg = "fifo"
    BY <1>1, <2>1, <2>2, <2>5, <2>6, <2>7, FifoEvictStep
       DEF LinksInv, Chooses, FollowsNull, RefFcn, LinksAfter
  <2>8. CASE alg = "lru"
    BY <1>1, <2>1, <2>2, <2>5, <2>6, <2>8, LruEvictStep
       DEF LinksInv, Chooses, FollowsNull, RefFcn, LinksAfter
  <2> QED
    BY <2>2, <2>7, <2>8 DEF LinksInv
<1>5. CASE UNCHANGED vars
  BY <1>5 DEF vars, ptVars, LinksInv, Used
<1> QED
  BY <1>2, <1>3, <1>4, <1>5 DEF Next

(* The pointers stay as LinksInv says, for every trace.                    *)
THEOREM LinksInvariance == Spec => []LinksInv
<1> QED
  BY LinksInit, LinksNext, Invariance, PTL DEF Spec

(* The assertions of lru_ref hold at every reference, also with one frame. *)
THEOREM AssertionsHold == Spec => []LruAsserts
<1>1. LinksInv => LruAsserts
  BY UsedFrames, NullNoFrame DEF LinksInv, LruInv, LruAsserts, Unlinked, Used
<1> QED
  BY <1>1, LinksInvariance, PTL

(* With two frames or more every algorithm returns a frame to evict: none  *)
(* of them follows a NULL pointer.                                         *)
THEOREM EvictionsReturn ==
  ASSUME memsize >= 2
  PROVE  Spec => []EvictReturns
<1>1. LinksInv => EvictReturns
  <2> SUFFICES ASSUME LinksInv, Full, FollowsNull PROVE FALSE
    BY DEF EvictReturns
  <2>1. Used = Frames /\ 0 \in Frames /\ 1 \in Frames
    BY SizesAssumption DEF Used, Full, Frames
  <2>2. CASE alg = "fifo"
    BY <2>1, <2>2 DEF LinksInv, FifoInv, FollowsNull
  <2>3. CASE alg = "lru"
    BY <2>1, <2>3, NullNoFrame DEF LinksInv, LruInv, FollowsNull
  <2> QED
    BY <2>2, <2>3 DEF FollowsNull
<1> QED
  BY <1>1, LinksInvariance, PTL
=============================================================================
