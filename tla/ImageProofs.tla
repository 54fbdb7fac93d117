---------------------------- MODULE ImageProofs ----------------------------
(***************************************************************************)
(* Proof that the entries which runs of mkdir make name marked inodes, and *)
(* each another one, that the tools keep the blocks that are marked and    *)
(* those of made directories but for the exceptions that the properties    *)
(* name, and that restore never writes, for every image, however many runs *)
(* of the tools and wherever they stop.                                    *)
(***************************************************************************)
EXTENDS Image, FiniteSetTheorems, SequenceTheorems, WellFoundedInduction, TLAPS

(***************************************************************************)
(* The numbers that read_bitmaps finds.                                    *)
(***************************************************************************)

(* A finite set of numbers has a least element: of the sets of what is not *)
(* greater than one of them, one contains no other.                        *)
LEMMA LeastNumber ==
  ASSUME NEW T \in SUBSET Nat, IsFiniteSet(T), T # {}
  PROVE  \E x \in T : \A y \in T : x <= y
<1> DEFINE below(n) == {m \in T : m <= n}
           D == {below(n) : n \in T}
<1>1. D \subseteq FiniteSubsetsOf(T) /\ D # {}
  <2>1. ASSUME NEW n \in T PROVE below(n) \in SUBSET T /\ IsFiniteSet(below(n))
    <3>1. below(n) \subseteq T
      OBVIOUS
    <3> QED
      BY <3>1, FS_Subset
  <2> QED
    BY <2>1 DEF FiniteSubsetsOf
<1>2. PICK B \in D : \A C \in D : <<C, B>> \notin StrictSubsetOrdering(T)
  <2> HIDE DEF D
  <2> QED
    BY <1>1, FS_StrictSubsetOrderingWellFounded, WFMin
<1>3. PICK x \in T : B = below(x)
  OBVIOUS
<1>4. ASSUME NEW y \in T, y < x PROVE FALSE
  <2>1. below(y) \in SUBSET T /\ below(x) \in SUBSET T
    OBVIOUS
  <2>2. \A m \in T : m <= y => m <= x
    BY <1>4
  <2>3. x \in below(x) /\ x \notin below(y)
    BY <1>4
  <2>4. below(y) \subseteq below(x) /\ below(y) # below(x)
    BY <2>2, <2>3
  <2>5. <<below(y), below(x)>> \in StrictSubsetOrdering(T)
    <3> HIDE DEF below
    <3> QED
      BY <2>1, <2>4 DEF StrictSubsetOrdering
  <2> QED
    BY <1>2, <1>3, <2>5
<1> QED
  BY <1>4

(* Of numbers up to a bound there is a greatest, which Max returns.        *)
LEMMA GreatestNumber ==
  ASSUME NEW n \in Nat, NEW T \in SUBSET (0..n), T # {}
  PROVE  Max(T) \in T /\ \A u \in T : u <= Max(T)
<1> DEFINE R == {n - t : t \in T}
<1>1. R \subseteq 0..n /\ R # {}
  <2>1. \A t \in T : n - t \in 0..n
    OBVIOUS
  <2>2. \E t \in T : n - t \in R
    OBVIOUS
  <2> QED
    BY <2>1, <2>2
<1>2. R \in SUBSET Nat /\ IsFiniteSet(R)
  <2>1. IsFiniteSet(0..n)
    BY FS_Interval
  <2> QED
    BY <1>1, <2>1, FS_Subset
<1>3. PICK r \in R : \A q \in R : r <= q
  <2> HIDE DEF R
  <2> QED
    BY <1>1, <1>2, LeastNumber
<1>4. PICK t \in T : r = n - t
  OBVIOUS
<1>5. \A u \in T : t >= u
  <2> TAKE u \in T
  <2>1. n - t <= n - u
    BY <1>3, <1>4
  <2> QED
    BY <2>1
<1> QED
  BY <1>5 DEF Max

LEMMA FreeBitsFinite ==
  ASSUME NEW used, NEW size \in Nat
  PROVE  /\ FreeBits(used, size) \subseteq 1..size /\ FreeBits(used, size) \in SUBSET Nat
         /\ IsFiniteSet(FreeBits(used, size))
<1>1. IsFiniteSet(EXT2_GOOD_OLD_FIRST_INO..size)
  BY FS_Interval DEF EXT2_GOOD_OLD_FIRST_INO
<1>2. FreeBits(used, size) \subseteq EXT2_GOOD_OLD_FIRST_INO..size
  BY DEF FreeBits
<1> QED
  BY <1>1, <1>2, FS_Subset DEF EXT2_GOOD_OLD_FIRST_INO

(* Where there is a free bit there is a first, and where there are more    *)
(* there is a second.                                                      *)
LEMMA FirstFree ==
  ASSUME NEW used, NEW size \in Nat, FreeBits(used, size) # {}
  PROVE  NthFree(used, size, 1) # {}
<1> DEFINE F == FreeBits(used, size)
           below(n) == {m \in F : m <= n}
<1>1. PICK x \in F : \A y \in F : x <= y
  BY FreeBitsFinite, LeastNumber
<1>2. below(x) = {x}
  BY <1>1, FreeBitsFinite
<1>3. Cardinality(below(x)) = 1
  BY <1>2, FS_Singleton
<1> QED
  BY <1>1, <1>3 DEF NthFree

LEMMA SecondFree ==
  ASSUME NEW used, NEW size \in Nat, Cardinality(FreeBits(used, size)) >= 2
  PROVE  NthFree(used, size, 2) # {}
<1> DEFINE F == FreeBits(used, size)
           below(n) == {m \in F : m <= n}
<1>1. IsFiniteSet(F) /\ F \in SUBSET Nat
  BY FreeBitsFinite
<1>2. F # {}
  BY FS_EmptySet
<1>3. PICK x \in F : \A y \in F : x <= y
  BY <1>1, <1>2, LeastNumber
<1>4. F \ {x} # {} /\ F \ {x} \in SUBSET Nat /\ IsFiniteSet(F \ {x})
  <2>1. F # {x}
    BY FS_Singleton
  <2> QED
    BY <1>1, <1>3, <2>1, FS_Subset
<1>5. PICK y \in F \ {x} : \A z \in F \ {x} : y <= z
  BY <1>4, LeastNumber
<1>6. below(y) = {x} \cup {y}
  BY <1>1, <1>3, <1>5
<1>7. Cardinality({x} \cup {y}) = 2
  <2>1. IsFiniteSet({x}) /\ Cardinality({x}) = 1
    BY FS_Singleton
  <2>2. Cardinality({x} \cup {y}) = Cardinality({x}) + 1
    BY <1>5, <2>1, FS_AddElement
  <2> QED
    BY <2>1, <2>2
<1> QED
  BY <1>5, <1>6, <1>7 DEF NthFree

(* A structure that read_bitmaps has filled holds a number of the bitmap,  *)
(* one that it has not filled holds zero.                                  *)
LEMMA NumberFound ==
  ASSUME NEW used, NEW size \in Nat, NEW hits, NEW count,
         hits = 0 \/ FreeBits(used, size) = {} \/ NthFree(used, size, hits) # {}
  PROVE  ReadBitmap(used, size, hits, count).avail \in 0..size
<1>1. CASE hits = 0 \/ FreeBits(used, size) = {}
  BY <1>1 DEF ReadBitmap
<1>2. CASE ~(hits = 0 \/ FreeBits(used, size) = {})
  <2>1. NthFree(used, size, hits) \subseteq 0..size
    BY FreeBitsFinite DEF NthFree
  <2>2. Max(NthFree(used, size, hits)) \in 0..size
    BY <1>2, <2>1, GreatestNumber
  <2> QED
    BY <1>2, <2>2 DEF ReadBitmap
<1> QED
  BY <1>1, <1>2

LEMMA BlockFound ==
  ASSUME NEW count
  PROVE  LET hits == BlockHits(inodes, NInodes, blocks, NBlocks)
         IN ReadBitmap(blocks, NBlocks, hits, count).avail \in 0..NBlocks
<1> DEFINE F == FreeBits(blocks, NBlocks)
           hits == BlockHits(inodes, NInodes, blocks, NBlocks)
           bound == IF FreeBits(inodes, NInodes) = {} THEN 2 ELSE 1
<1>1. IsFiniteSet(F) /\ Cardinality(F) \in Nat /\ NBlocks \in Nat
  BY FreeBitsFinite, FS_CardinalityType, ImageAssumption
<1>2. bound \in {1, 2}
  OBVIOUS
<1>3. hits \in {0, 1, 2} /\ hits <= Cardinality(F)
  <2> DEFINE S == {bound, Cardinality(F)}
  <2>1. hits = Min(S)
    BY DEF BlockHits
  <2>2. \E x \in S : \A y \in S : x <= y
    BY <1>1, <1>2
  <2>3. hits \in S /\ hits <= bound /\ hits <= Cardinality(F)
    <3> HIDE DEF bound
    <3> QED
      BY <2>1, <2>2 DEF Min
  <2> HIDE DEF bound, hits
  <2> QED
    BY <1>1, <1>2, <2>3
<1>4. hits = 0 \/ F = {} \/ NthFree(blocks, NBlocks, hits) # {}
  <2> HIDE DEF hits
  <2> QED
    BY <1>1, <1>3, FirstFree, SecondFree
<1> HIDE DEF hits
<1>5. ReadBitmap(blocks, NBlocks, hits, count).avail \in 0..NBlocks
  BY <1>1, <1>4, NumberFound
<1> QED
  BY <1>5 DEF hits

(***************************************************************************)
(* One step.                                                               *)
(***************************************************************************)
LEMMA IdleRun == Idle.pc = "idle" /\ Idle.rec = 0
BY DEF Idle

LEMMA InitInv == Init => ImageInv
<1> SUFFICES ASSUME Init PROVE ImageInv
  OBVIOUS
<1>1. 1 \in inodes /\ 1 \in blocks /\ inodes \subseteq 1..NInodes /\ blocks \subseteq 1..NBlocks
  BY ImageAssumption DEF Init
<1>2. desc \in [inodes : Nat, blocks : Nat]
  <2>1. ASSUME NEW n \in Nat, NEW S PROVE Cardinality((1..n) \ S) \in Nat
    <3>1. IsFiniteSet(1..n)
      BY FS_Interval
    <3>2. IsFiniteSet((1..n) \ S)
      BY <3>1, FS_Subset, (1..n) \ S \subseteq 1..n
    <3> QED
      BY <3>2, FS_CardinalityType
  <2> QED
    BY <2>1, ImageAssumption DEF Init
<1>3. DOMAIN ents = Dirs /\ \A d \in Dirs : BlockType(ents[d])
  BY NamesAssumption DEF Init, BlockType, LengthsKnown
<1>4. /\ DOMAIN data = 0..(NBlocks - 1)
      /\ \A b \in 0..(NBlocks - 1) : data[b] = Old
  BY DEF Init
<1>5. TypeOK
  BY <1>1, <1>2, <1>3, <1>4, IdleRun DEF Init, TypeOK, Places, Contents
<1>6. \A d \in Dirs : Made(d) = {}
  BY NamesAssumption DEF Init, Made
<1>7. RunInv
  BY IdleRun DEF Init, RunInv
<1> QED
  BY <1>1, <1>4, <1>5, <1>6, <1>7 DEF ImageInv, NamedInodesMarked, NamedOnce

(* A step that leaves the directories alone and clears no inode keeps what *)
(* is said of the entries.                                                 *)
LEMMA SameEntries ==
  ASSUME ImageInv, ents' = ents, inodes \subseteq inodes'
  PROVE  /\ 1 \in inodes' /\ NamedInodesMarked' /\ NamedOnce'
         /\ DOMAIN ents' = Dirs /\ \A d \in Dirs : BlockType(ents'[d])
         /\ \A d \in Dirs : Made(d)' = Made(d)
<1>1. \A d \in Dirs : Made(d)' = Made(d)
  BY DEF Made
<1>2. NamedInodesMarked' /\ NamedOnce'
  BY <1>1 DEF ImageInv, NamedInodesMarked, NamedOnce
<1> QED
  BY <1>1, <1>2 DEF ImageInv, TypeOK

(* What a step says of the entries made by mkdir: it keeps them, or it has *)
(* added the one of the run.                                               *)
SameEntry(d, o) == /\ ents'[d][o].ino = ents[d][o].ino
                   /\ ents'[d][o].home = ents[d][o].home
MadeKept == \A d \in Dirs : Made(d)' = Made(d) /\ \A o \in Made(d) : SameEntry(d, o)
MadeAdded ==
  \A d \in Dirs : \A o \in Made(d)' :
    \/ d = run.dir /\ o = run.pos /\ ents'[d][o] = Filled
    \/ o \in Made(d) /\ SameEntry(d, o)

LEMMA StartStep ==
  ASSUME ImageInv, NEW arg \in Args, Start(arg)
  PROVE  ImageInv'
<1> DEFINE hits == BlockHits(inodes, NInodes, blocks, NBlocks)
           ibm == ReadBitmap(inodes, NInodes, 1, desc.inodes)
           bbm == ReadBitmap(blocks, NBlocks, hits, desc.blocks)
<1>1. /\ DOMAIN run' = DOMAIN Idle /\ run'.pc = "block" /\ run'.dir = Parent(arg)
      /\ run'.arg = arg /\ run'.ino = ibm.avail /\ run'.blk = bbm.avail
      /\ run'.ibm = ibm /\ run'.bbm = bbm /\ run'.rec = 0
  BY DEF Start, Idle
<1>2. ibm.avail \in 0..NInodes
  BY NumberFound, FirstFree, ImageAssumption
<1>3. bbm.avail \in 0..NBlocks
  BY BlockFound
<1>4. Parent(arg) \in Dirs /\ ChildName(arg) \in Names
  BY DEF Start, Names
<1> HIDE DEF ibm, bbm
<1>5. RunInv'
  BY <1>1, <1>2, <1>3, <1>4 DEF RunInv
<1>6. UNCHANGED <<inodes, blocks, desc, ents, data>>
  BY DEF Start
<1>7. TypeOK'
  BY <1>1, <1>6 DEF ImageInv, TypeOK, Places
<1> QED
  BY <1>5, <1>6, <1>7, SameEntries DEF ImageInv

LEMMA WriteBlockStep ==
  ASSUME ImageInv, WriteBlock
  PROVE  ImageInv'
<1>1. /\ run.pc = "block" /\ DOMAIN run' = DOMAIN Idle /\ run'.pc = "inode"
      /\ run'.dir = run.dir /\ run'.arg = run.arg /\ run'.ino = run.ino /\ run'.blk = run.blk
      /\ run'.ibm = run.ibm /\ run'.bbm = run.bbm /\ run'.rec = run.rec
  BY DEF WriteBlock, ImageInv, RunInv, Idle
<1>2. UNCHANGED <<inodes, blocks, desc, ents>>
  BY DEF WriteBlock
<1>3. RunInv'
  BY <1>1, <1>2 DEF ImageInv, RunInv
<1>4. data' = [data EXCEPT ![run.blk] = NewDir(run.ino, run.dir)]
  BY DEF WriteBlock
<1>5. run.ino \in 0..NInodes /\ run.dir \in Dirs
  BY <1>1 DEF ImageInv, RunInv
<1>6. TypeOK' /\ DOMAIN data' = 0..(NBlocks - 1)
  <2>1. NewDir(run.ino, run.dir) \in Contents
    BY <1>5 DEF Contents
  <2> QED
    BY <1>1, <1>2, <1>4, <2>1 DEF ImageInv, TypeOK, Places
<1> QED
  BY <1>2, <1>3, <1>6, SameEntries DEF ImageInv

LEMMA UseInodeStep ==
  ASSUME ImageInv, UseInode
  PROVE  ImageInv'
<1>1. /\ run.pc = "inode" /\ run.ino = run.ibm.avail /\ run.ino \in 0..NInodes
  BY DEF UseInode, ImageInv, RunInv
<1>2. BitOf(run.ibm) = run.ino /\ run.ino \notin inodes /\ run.ino # 0
  BY <1>1 DEF UseInode, BitOf, ImageInv
<1>3. inodes' = inodes \cup {run.ino} /\ UNCHANGED <<blocks, desc, ents, data>>
  BY <1>2 DEF UseInode
<1>4. /\ DOMAIN run' = DOMAIN Idle /\ run'.pc = "used"
      /\ run'.dir = run.dir /\ run'.arg = run.arg /\ run'.ino = run.ino /\ run'.blk = run.blk
      /\ run'.bbm = run.bbm /\ run'.rec = run.rec
  BY DEF UseInode, ImageInv, RunInv, Idle
<1>5. \A d \in Dirs : Made(d)' = Made(d)
  BY <1>3, SameEntries
<1>6. \A d \in Dirs : \A o \in Made(d) : ents[d][o].ino # run.ino
  BY <1>2 DEF ImageInv, NamedInodesMarked
<1>7. run'.ino \in inodes' /\ \A d \in Dirs : \A o \in Made(d)' : ents'[d][o].ino # run'.ino
  BY <1>3, <1>4, <1>5, <1>6
<1>8. /\ run.dir \in Dirs /\ run.blk \in 0..NBlocks /\ ChildName(run.arg) \in Names
      /\ run.bbm.avail \in 0..NBlocks /\ run.rec \in Int
  BY <1>1 DEF ImageInv, RunInv
<1>9. RunInv'
  BY <1>1, <1>4, <1>7, <1>8 DEF RunInv
<1>10. TypeOK'
  <2>1. run.ino \in 1..NInodes
    BY <1>1, <1>2, ImageAssumption
  <2> QED
    BY <1>3, <1>4, <2>1 DEF ImageInv, TypeOK, Places
<1> QED
  BY <1>3, <1>9, <1>10, SameEntries DEF ImageInv

LEMMA UseBlockStep ==
  ASSUME ImageInv, UseBlock
  PROVE  ImageInv'
<1>1. run.pc = "used" /\ run.bbm.avail \in 0..NBlocks
  BY DEF UseBlock, ImageInv, RunInv
<1>2. BitOf(run.bbm) \in 1..NBlocks
  BY <1>1, ImageAssumption DEF BitOf
<1>3. blocks' = blocks \cup {BitOf(run.bbm)} /\ UNCHANGED <<inodes, desc, ents, data>>
  BY DEF UseBlock
<1>4. /\ DOMAIN run' = DOMAIN Idle /\ run'.pc = "entry"
      /\ run'.dir = run.dir /\ run'.arg = run.arg /\ run'.ino = run.ino /\ run'.blk = run.blk
      /\ run'.rec = run.rec
  BY DEF UseBlock, ImageInv, RunInv, Idle
<1>5. \A d \in Dirs : Made(d)' = Made(d)
  BY <1>3, SameEntries
<1>6. /\ run.dir \in Dirs /\ run.ino \in 0..NInodes /\ run.blk \in 0..NBlocks
      /\ ChildName(run.arg) \in Names /\ run.rec \in Int
      /\ run.ino \in inodes /\ \A d \in Dirs : \A o \in Made(d) : ents[d][o].ino # run.ino
  BY <1>1 DEF ImageInv, RunInv
<1>7. run'.ino \in inodes' /\ \A d \in Dirs : \A o \in Made(d)' : ents'[d][o].ino # run'.ino
  BY <1>3, <1>4, <1>5, <1>6
<1>8. RunInv'
  BY <1>4, <1>6, <1>7 DEF RunInv
<1>9. TypeOK'
  BY <1>2, <1>3, <1>4 DEF ImageInv, TypeOK, Places
<1> QED
  BY <1>3, <1>8, <1>9, SameEntries DEF ImageInv

LEMMA HangStep ==
  ASSUME ImageInv, Hang
  PROVE  ImageInv'
<1>1. /\ run.pc = "entry" /\ DOMAIN run' = DOMAIN Idle /\ run'.pc = "hang"
      /\ run'.dir = run.dir /\ run'.arg = run.arg /\ run'.ino = run.ino /\ run'.blk = run.blk
      /\ run'.rec = run.rec
  BY DEF Hang, ImageInv, RunInv, Idle
<1>2. UNCHANGED <<inodes, blocks, desc, ents, data>>
  BY DEF Hang
<1>3. \A d \in Dirs : Made(d)' = Made(d)
  BY <1>2, SameEntries
<1>4. RunInv'
  BY <1>1, <1>2, <1>3 DEF ImageInv, RunInv
<1>5. TypeOK'
  BY <1>1, <1>2 DEF ImageInv, TypeOK, Places
<1> QED
  BY <1>2, <1>4, <1>5, SameEntries DEF ImageInv

(* The steps with which a run ends, and that of the checker.               *)
LEMMA ScribbleType ==
  ASSUME ImageInv, NEW bs
  PROVE  /\ DOMAIN Scribble(bs) = 0..(NBlocks - 1)
         /\ \A b \in 0..(NBlocks - 1) : Scribble(bs)[b] \in Contents
BY DEF ImageInv, TypeOK, Scribble, Contents

LEMMA EndSteps ==
  ASSUME ImageInv, InodeTaken \/ Spill \/ Stop
  PROVE  ImageInv'
<1>1. UNCHANGED <<inodes, blocks, desc, ents>> /\ run' = Idle
  BY DEF InodeTaken, Spill, Stop
<1>2. \/ data' = data
      \/ data' = Scribble(Spilled(run.bbm))
  BY DEF InodeTaken, Spill, Stop
<1>3. run'.pc = "idle" /\ RunInv'
  BY <1>1, IdleRun DEF RunInv
<1>4. /\ DOMAIN data' = 0..(NBlocks - 1)
      /\ \A b \in 0..(NBlocks - 1) : data'[b] \in Contents
  <2>1. CASE data' = data
    BY <2>1 DEF ImageInv, TypeOK
  <2>2. CASE data' = Scribble(Spilled(run.bbm))
    BY <2>2, ScribbleType
  <2> QED
    BY <1>2, <2>1, <2>2
<1>5. TypeOK'
  BY <1>1, <1>3, <1>4 DEF ImageInv, TypeOK, Places
<1> QED
  BY <1>1, <1>3, <1>4, <1>5, SameEntries DEF ImageInv

LEMMA CheckFreeCountsStep ==
  ASSUME ImageInv, CheckFreeCounts
  PROVE  ImageInv'
<1>1. UNCHANGED <<inodes, blocks, ents, data, run>> /\ desc' \in [inodes : Nat, blocks : Nat]
  BY DEF CheckFreeCounts
<1>2. \A d \in Dirs : Made(d)' = Made(d)
  BY <1>1, SameEntries
<1>3. RunInv'
  BY <1>1, <1>2 DEF ImageInv, RunInv
<1>4. TypeOK'
  BY <1>1 DEF ImageInv, TypeOK
<1> QED
  BY <1>1, <1>3, <1>4, SameEntries DEF ImageInv

(***************************************************************************)
(* The two steps of mk_dir_entry in the parent.                            *)
(***************************************************************************)
LEMMA SizeType ==
  ASSUME NEW len \in Nat
  PROVE  TrueFileSize(len) \in Nat
BY DEF TrueFileSize

LEMMA ShrinkStep ==
  ASSUME ImageInv, Shrink
  PROVE  ImageInv' /\ MadeKept
<1>0. PICK d \in Dirs : d = run.dir
  BY DEF Shrink, ImageInv, RunInv
<1>1. PICK last \in DOMAIN ents[run.dir] :
        LET pos == last + TrueFileSize(Len(LastEntry(run.dir).name))
            bare == pos < EXT2_BLOCK_SIZE /\ pos \notin DOMAIN ents[run.dir]
        IN /\ last = LastOffset(run.dir)
           /\ ents' = [ents EXCEPT ![run.dir] =
                [o \in DOMAIN ents[run.dir] \cup (IF bare THEN {pos} ELSE {}) |->
                   IF o = last THEN [LastEntry(run.dir) EXCEPT !.rec = pos - last]
                   ELSE IF o \in DOMAIN ents[run.dir] THEN ents[run.dir][o]
                   ELSE Behind(LastEntry(run.dir))]]
           /\ run' = [run EXCEPT !.pc = "fill", !.rec = Padding(run.dir), !.last = last, !.pos = pos]
  BY DEF Shrink
<1> DEFINE e == LastEntry(run.dir)
           pos == last + TrueFileSize(Len(e.name))
           new == IF pos < EXT2_BLOCK_SIZE /\ pos \notin DOMAIN ents[run.dir] THEN {pos} ELSE {}
<1>2. BlockType(ents[d]) /\ DOMAIN ents = Dirs /\ e = ents[d][last] /\ last \in DOMAIN ents[d]
  BY <1>0, <1>1 DEF ImageInv, TypeOK, LastEntry
<1>3. e \in Entry /\ Len(e.name) \in Nat /\ last \in Nat
  BY <1>2 DEF BlockType
<1>4. pos \in Nat /\ pos - last \in Int /\ Padding(run.dir) \in Int
  <2>1. TrueFileSize(Len(e.name)) \in Nat
    BY <1>3, SizeType
  <2>2. e.rec \in Int
    BY <1>3 DEF Entry
  <2> QED
    BY <1>3, <2>1, <2>2 DEF Padding
<1>5. /\ DOMAIN ents' = Dirs /\ \A c \in Dirs \ {d} : ents'[c] = ents[c]
      /\ DOMAIN ents'[d] = DOMAIN ents[d] \cup new
      /\ \A o \in DOMAIN ents'[d] :
           ents'[d][o] = IF o = last THEN [e EXCEPT !.rec = pos - last]
                         ELSE IF o \in DOMAIN ents[d] THEN ents[d][o]
                         ELSE Behind(e)
  <2>1. run.dir \in DOMAIN ents
    BY <1>0, <1>2
  <2>2. ents'[run.dir] = [o \in DOMAIN ents[run.dir] \cup new |->
                           IF o = last THEN [e EXCEPT !.rec = pos - last]
                           ELSE IF o \in DOMAIN ents[run.dir] THEN ents[run.dir][o]
                           ELSE Behind(e)]
    BY <1>1, <2>1
  <2>3. DOMAIN ents' = DOMAIN ents /\ \A c \in DOMAIN ents \ {run.dir} : ents'[c] = ents[c]
    BY <1>1
  <2> HIDE DEF e, pos, new
  <2> QED
    BY <1>0, <1>2, <2>2, <2>3
<1>6. UNCHANGED <<inodes, blocks, desc, data>>
  BY DEF Shrink
<1>7. /\ run.pc = "entry" /\ DOMAIN run' = DOMAIN Idle /\ run'.pc = "fill"
      /\ run'.dir = run.dir /\ run'.arg = run.arg /\ run'.ino = run.ino /\ run'.blk = run.blk
      /\ run'.rec = Padding(run.dir)
  <2>1. run.pc = "entry" /\ DOMAIN run = DOMAIN Idle
    BY DEF Shrink, ImageInv, RunInv
  <2> QED
    BY <1>1, <2>1 DEF Idle
<1> HIDE DEF pos, e
<1>8. Behind(e) \in Entry /\ Len(Behind(e).name) \in Nat /\ Behind(e).home = NoHome
  <2>1. Behind(e).name = NoName /\ Behind(e).home = NoHome
    BY DEF Behind
  <2>2. NoHome \in Int
    BY DEF NoHome
  <2>3. Letters \in Nat
    BY DEF Letters
  <2>4. NoName \in Seq(STRING) /\ Len(NoName) \in Nat
    BY DEF NoName
  <2>5. Behind(e) \in Entry
    BY <2>2, <2>3, <2>4 DEF Behind, Entry
  <2> QED
    BY <2>1, <2>4, <2>5
<1>9. /\ [e EXCEPT !.rec = pos - last] \in Entry
      /\ [e EXCEPT !.rec = pos - last].name = e.name
      /\ [e EXCEPT !.rec = pos - last].ino = e.ino
      /\ [e EXCEPT !.rec = pos - last].home = e.home
  BY <1>3, <1>4 DEF Entry
<1>10. BlockType(ents'[d])
  <2>1. DOMAIN ents'[d] \subseteq 0..(EXT2_BLOCK_SIZE - 1)
    BY <1>2, <1>4, <1>5, ImageAssumption DEF BlockType
  <2> QED
    BY <1>2, <1>3, <1>5, <1>8, <1>9, <2>1 DEF BlockType
<1>11. MadeKept
  <2>1. \A o \in DOMAIN ents[d] : SameEntry(d, o)
    BY <1>2, <1>5, <1>9 DEF SameEntry
  <2>2. \A o \in DOMAIN ents'[d] : o \in DOMAIN ents[d] \/ ents'[d][o].home = NoHome
    BY <1>1, <1>5, <1>8
  <2>3. DOMAIN ents[d] \subseteq DOMAIN ents'[d]
    BY <1>5
  <2>4. Made(d)' = Made(d) /\ \A o \in Made(d) : SameEntry(d, o)
    BY <2>1, <2>2, <2>3 DEF Made, SameEntry
  <2> QED
    BY <1>5, <2>4 DEF Made, MadeKept, SameEntry
<1>12. TypeOK'
  BY <1>2, <1>5, <1>6, <1>7, <1>10 DEF ImageInv, TypeOK, Places
<1>13. RunInv'
  BY <1>4, <1>6, <1>7, <1>11 DEF ImageInv, RunInv, MadeKept, SameEntry
<1>14. NamedInodesMarked' /\ NamedOnce'
  BY <1>6, <1>11 DEF ImageInv, NamedInodesMarked, NamedOnce, MadeKept, SameEntry
<1> QED
  BY <1>6, <1>11, <1>12, <1>13, <1>14 DEF ImageInv

LEMMA FillStep ==
  ASSUME ImageInv, Fill
  PROVE  ImageInv' /\ MadeAdded
<1>0. PICK d \in Dirs : d = run.dir
  BY DEF Fill, ImageInv, RunInv
<1>1. /\ run.pc = "fill" /\ d = run.dir /\ run.ino \in inodes /\ run.ino \in 0..NInodes
      /\ run.blk \in 0..NBlocks /\ run.rec \in Int /\ ChildName(run.arg) \in Names
      /\ \A c \in Dirs : \A o \in Made(c) : ents[c][o].ino # run.ino
  BY <1>0 DEF Fill, ImageInv, RunInv
<1>2. UNCHANGED <<inodes, blocks, desc>> /\ run' = Idle /\ run'.pc = "idle"
  BY IdleRun DEF Fill
<1>3. RunInv'
  BY <1>2, IdleRun DEF RunInv
<1>4. PICK bs : data' = Scribble(bs)
  BY DEF Fill
<1>5. /\ DOMAIN data' = 0..(NBlocks - 1)
      /\ \A b \in 0..(NBlocks - 1) : data'[b] \in Contents
  BY <1>4, ScribbleType
<1>6. BlockType(ents[d]) /\ DOMAIN ents = Dirs
  BY DEF ImageInv, TypeOK
<1>7. /\ DOMAIN ents' = Dirs /\ \A c \in Dirs \ {d} : ents'[c] = ents[c]
      /\ DOMAIN ents'[d] = DOMAIN ents[d]
      /\ \A o \in DOMAIN ents[d] :
           ents'[d][o] = IF o = run.pos THEN Filled ELSE Overwritten(o)
  BY <1>0, <1>6 DEF Fill, Target
<1>8. Len(ChildName(run.arg)) \in Nat /\ ChildName(run.arg) \in Seq(STRING)
  BY <1>1, NamesAssumption DEF LengthsKnown
<1>9. /\ Filled \in Entry /\ Len(Filled.name) \in Nat /\ Filled.ino = run.ino
  BY <1>1, <1>8, ImageAssumption DEF Filled, Entry
<1>10. ASSUME NEW o \in DOMAIN ents[d]
       PROVE  /\ Overwritten(o) \in Entry /\ Len(Overwritten(o).name) \in Nat
              /\ \/ Overwritten(o).home = NoHome
                 \/ Overwritten(o).home = ents[d][o].home /\ Overwritten(o).ino = ents[d][o].ino
  <2> DEFINE e == ents[d][o]
             n == Len(ChildName(run.arg))
  <2>1. e \in Entry /\ Len(e.name) \in Nat
    BY <1>6 DEF BlockType
  <2>2. \/ Overwritten(o) = [e EXCEPT !.cut = @ \/ Len(e.name) > 4]
        \/ Overwritten(o) = [e EXCEPT !.ino = IF n > 4 THEN Letters ELSE @,
                                      !.rec = IF n > 8 THEN Letters ELSE @,
                                      !.home = IF n > 4 THEN NoHome ELSE @]
        \/ Overwritten(o) = e
    BY <1>0 DEF Overwritten
  <2>3. Letters \in Nat /\ NoHome \in Int
    BY DEF Letters, NoHome
  <2> HIDE DEF e, n
  <2>4. CASE Overwritten(o) = [e EXCEPT !.cut = @ \/ Len(e.name) > 4]
    BY <2>1, <2>4 DEF Entry, e
  <2>5. CASE Overwritten(o) = [e EXCEPT !.ino = IF n > 4 THEN Letters ELSE @,
                                       !.rec = IF n > 8 THEN Letters ELSE @,
                                       !.home = IF n > 4 THEN NoHome ELSE @]
    <3> DEFINE ino == IF n > 4 THEN Letters ELSE e.ino
               rec == IF n > 8 THEN Letters ELSE e.rec
               home == IF n > 4 THEN NoHome ELSE e.home
    <3>1. Overwritten(o) = [e EXCEPT !.ino = ino, !.rec = rec, !.home = home]
      BY <2>5
    <3>2. ino \in Nat /\ rec \in Int /\ home \in Int
      BY <2>1, <2>3 DEF Entry
    <3>3. home = NoHome \/ (home = e.home /\ ino = e.ino)
      OBVIOUS
    <3> HIDE DEF ino, rec, home
    <3>4. /\ Overwritten(o) \in Entry /\ Overwritten(o).name = e.name
          /\ Overwritten(o).home = home /\ Overwritten(o).ino = ino
      BY <2>1, <3>1, <3>2 DEF Entry
    <3> QED
      BY <2>1, <3>3, <3>4 DEF e
  <2>6. CASE Overwritten(o) = e
    BY <2>1, <2>6 DEF e
  <2> QED
    BY <2>2, <2>4, <2>5, <2>6
<1>11. BlockType(ents'[d])
  BY <1>6, <1>7, <1>9, <1>10 DEF BlockType
<1>12. TypeOK'
  BY <1>2, <1>5, <1>6, <1>7, <1>11 DEF ImageInv, TypeOK, Places
<1>13. MadeAdded
  BY <1>0, <1>7, <1>10 DEF Made, MadeAdded, SameEntry
<1>14. NamedInodesMarked'
  BY <1>1, <1>2, <1>9, <1>13 DEF ImageInv, NamedInodesMarked, MadeAdded, SameEntry
<1>15. NamedOnce'
  BY <1>1, <1>9, <1>13 DEF ImageInv, NamedOnce, MadeAdded, SameEntry
<1> QED
  BY <1>2, <1>3, <1>5, <1>12, <1>13, <1>14, <1>15 DEF ImageInv

(***************************************************************************)
(* The steps of rm.                                                        *)
(***************************************************************************)
LEMMA TogglingRun ==
  ASSUME NEW blks \in Seq(2..(NBlocks - 1))
  PROVE  /\ DOMAIN Toggling(blks) = DOMAIN Idle /\ Toggling(blks).rec = 0
         /\ Toggling(blks).pc \in {"idle", "toggle"}
         /\ Toggling(blks).pc = "toggle" =>
              Toggling(blks).todo \in Seq(2..(NBlocks - 1)) /\ Toggling(blks).todo # <<>>
<1>1. CASE blks = <<>>
  BY <1>1, IdleRun DEF Toggling
<1>2. CASE blks # <<>>
  <2>1. Toggling(blks) = [Idle EXCEPT !.pc = "toggle", !.todo = blks]
    BY <1>2 DEF Toggling
  <2>2. Toggling(blks).pc = "toggle" /\ Toggling(blks).todo = blks
    BY <2>1 DEF Idle
  <2> QED
    BY <1>2, <2>1, <2>2, IdleRun
<1> QED
  BY <1>1, <1>2

LEMMA RmBlocksType ==
  ASSUME NEW ino
  PROVE  RmBlocks(ino) \in Seq(2..(NBlocks - 1))
<1>1. CASE ino + 1 \in DOMAIN FileBlocks
  <2>1. FileBlocks[ino + 1] \in Seq(2..(NBlocks - 1)) /\ FileBlocks[ino + 1] # <<>>
    BY <1>1, FilesAssumption
  <2>2. Tail(FileBlocks[ino + 1]) \in Seq(2..(NBlocks - 1))
    BY <2>1, HeadTailProperties
  <2> QED
    BY <1>1, <2>2 DEF RmBlocks
<1>2. CASE ino + 1 \notin DOMAIN FileBlocks
  BY <1>2, EmptySeq DEF RmBlocks
<1> QED
  BY <1>1, <1>2

LEMMA TogglingInv ==
  ASSUME NEW blks \in Seq(2..(NBlocks - 1)), run' = Toggling(blks)
  PROVE  RunInv' /\ run'.pc \in Places
<1>1. /\ DOMAIN run' = DOMAIN Idle /\ run'.rec = 0 /\ run'.pc \in {"idle", "toggle"}
      /\ run'.pc = "toggle" => run'.todo \in Seq(2..(NBlocks - 1)) /\ run'.todo # <<>>
  BY TogglingRun
<1> QED
  BY <1>1 DEF RunInv, Places

LEMMA RmDirEntryStep ==
  ASSUME ImageInv, NEW arg \in Args, RmDirEntry(arg)
  PROVE  ImageInv' /\ MadeKept
<1> DEFINE d == Parent(arg) + 1
<1>1. d \in Dirs /\ UNCHANGED <<inodes, blocks, desc, data>>
  BY DEF RmDirEntry, Removable
<1>2. PICK prev, curr \in DOMAIN ents[d] :
        /\ ents' = [ents EXCEPT ![d][prev] = Grown(@, ents[d][curr])]
        /\ run' = Toggling(RmBlocks(ents[d][curr].ino))
  BY DEF RmDirEntry
<1> HIDE DEF d
<1>3. RunInv' /\ run'.pc \in Places
  BY <1>2, RmBlocksType, TogglingInv
<1>4. BlockType(ents[d]) /\ DOMAIN ents = Dirs
  BY <1>1 DEF ImageInv, TypeOK
<1> DEFINE e == ents[d][prev]
           new == Grown(e, ents[d][curr])
<1>5. /\ DOMAIN ents' = Dirs /\ \A c \in Dirs \ {d} : ents'[c] = ents[c]
      /\ DOMAIN ents'[d] = DOMAIN ents[d] /\ ents'[d][prev] = new
      /\ \A o \in DOMAIN ents[d] \ {prev} : ents'[d][o] = ents[d][o]
  BY <1>1, <1>2, <1>4
<1>6. /\ new \in Entry /\ Len(new.name) \in Nat
      /\ new.ino = e.ino /\ new.home = e.home
  <2>1. e \in Entry /\ Len(e.name) \in Nat /\ ents[d][curr] \in Entry
    BY <1>4 DEF BlockType
  <2>2. (e.rec + ents[d][curr].rec) % USHORT \in Int
    BY <2>1 DEF Entry, USHORT
  <2>3. new = [e EXCEPT !.rec = (e.rec + ents[d][curr].rec) % USHORT]
    BY <2>1 DEF Grown, Entry
  <2> QED
    BY <2>1, <2>2, <2>3 DEF Entry
<1> HIDE DEF new
<1>7. BlockType(ents'[d])
  BY <1>4, <1>5, <1>6 DEF BlockType
<1>8. TypeOK'
  BY <1>1, <1>3, <1>4, <1>5, <1>7 DEF ImageInv, TypeOK
<1>9. MadeKept
  BY <1>5, <1>6 DEF Made, MadeKept, SameEntry
<1>10. NamedInodesMarked' /\ NamedOnce'
  BY <1>1, <1>9 DEF ImageInv, NamedInodesMarked, NamedOnce, MadeKept, SameEntry
<1> QED
  BY <1>1, <1>3, <1>8, <1>9, <1>10 DEF ImageInv

LEMMA ToggleBlockStep ==
  ASSUME ImageInv, ToggleBlock
  PROVE  ImageInv'
<1>1. run.todo \in Seq(2..(NBlocks - 1)) /\ run.todo # <<>>
  BY DEF ToggleBlock, ImageInv, RunInv
<1>2. Head(run.todo) \in 2..(NBlocks - 1) /\ Tail(run.todo) \in Seq(2..(NBlocks - 1))
  BY <1>1, HeadTailProperties
<1>3. /\ blocks' = Toggled(blocks, Head(run.todo)) /\ run' = Toggling(Tail(run.todo))
      /\ UNCHANGED <<inodes, desc, ents, data>>
  BY DEF ToggleBlock
<1>4. RunInv' /\ run'.pc \in Places
  BY <1>2, <1>3, TogglingInv
<1>5. blocks' \subseteq 1..NBlocks /\ 1 \in blocks'
  <2>1. blocks \subseteq 1..NBlocks /\ 1 \in blocks
    BY DEF ImageInv, TypeOK
  <2>2. Head(run.todo) \in 1..NBlocks /\ Head(run.todo) # 1
    <3>1. NBlocks \in Nat
      BY ImageAssumption
    <3> QED
      BY <1>2, <3>1
  <2> QED
    BY <1>3, <2>1, <2>2 DEF Toggled
<1>6. TypeOK'
  BY <1>3, <1>4, <1>5 DEF ImageInv, TypeOK
<1> QED
  BY <1>3, <1>4, <1>5, <1>6, SameEntries DEF ImageInv

(***************************************************************************)
(* The theorems.                                                           *)
(***************************************************************************)

(* ImageInv holds in every state, for every image and every run of the     *)
(* tools.                                                                  *)
THEOREM Invariance == Spec => []ImageInv
<1>1. ImageInv /\ [Next]_vars => ImageInv'
  <2> SUFFICES ASSUME ImageInv, [Next]_vars PROVE ImageInv'
    OBVIOUS
  <2>1. ASSUME NEW arg \in Args, Start(arg) PROVE ImageInv'
    BY <2>1, StartStep
  <2>2. CASE WriteBlock
    BY <2>2, WriteBlockStep
  <2>3. CASE UseInode
    BY <2>3, UseInodeStep
  <2>4. CASE UseBlock
    BY <2>4, UseBlockStep
  <2>5. CASE InodeTaken \/ Spill \/ Stop
    BY <2>5, EndSteps
  <2>6. CASE Hang
    BY <2>6, HangStep
  <2>7. CASE Shrink
    BY <2>7, ShrinkStep
  <2>8. CASE Fill
    BY <2>8, FillStep
  <2>9. ASSUME NEW arg \in Args, RmDirEntry(arg) PROVE ImageInv'
    BY <2>9, RmDirEntryStep
  <2>10. CASE ToggleBlock
    BY <2>10, ToggleBlockStep
  <2>11. CASE CheckFreeCounts
    BY <2>11, CheckFreeCountsStep
  <2>12. CASE UNCHANGED vars
    BY <2>12 DEF vars, ImageInv, TypeOK, RunInv, NamedInodesMarked, NamedOnce, Made
  <2> QED
    BY <2>1, <2>2, <2>3, <2>4, <2>5, <2>6, <2>7, <2>8, <2>9, <2>10, <2>11, <2>12
    DEF Next, Mkdir
<1> QED
  BY <1>1, InitInv, PTL DEF Spec

(* The state of the image and of the run keeps its types: in particular no *)
(* step sets a bit, or writes a number, beyond the last inode or block.    *)
THEOREM TypeCorrect == Spec => []TypeOK
<1>1. ImageInv => TypeOK
  BY DEF ImageInv
<1> QED
  BY <1>1, Invariance, PTL

(* Wherever the runs of the tools are stopped, no entry names an inode     *)
(* that the next run takes for a free one.                                 *)
THEOREM EntriesNameUsedInodes == Spec => []NamedInodesMarked
<1>1. ImageInv => NamedInodesMarked
  BY DEF ImageInv
<1> QED
  BY <1>1, Invariance, PTL

(* No two runs of mkdir make entries for one inode.                        *)
THEOREM EntriesNameTheirOwnInode == Spec => []NamedOnce
<1>1. ImageInv => NamedOnce
  BY DEF ImageInv
<1> QED
  BY <1>1, Invariance, PTL

(* Whatever rm has freed, restore refuses to restore it: the bit at which  *)
(* it looks in the end is never cleared.                                   *)
THEOREM RestoreNeverWrites == Spec => []RestoreRefused
<1>1. ImageInv => RestoreRefused
  <2> SUFFICES ASSUME ImageInv, NEW i \in DOMAIN FileBlocks PROVE ~RestoreChecks(FileBlocks[i])
    BY DEF RestoreRefused
  <2>1. CheckBit(blocks, 0)
    BY DEF ImageInv, CheckBit
  <2> QED
    BY <2>1 DEF RestoreChecks
<1> QED
  BY <1>1, Invariance, PTL

(***************************************************************************)
(* The least free number.                                                  *)
(***************************************************************************)
LEMMA LeastFree ==
  ASSUME NEW used, NEW size \in Nat, FreeBits(used, size) # {}
  PROVE  \E x \in FreeBits(used, size) :
           /\ \A y \in FreeBits(used, size) : x <= y
           /\ NthFree(used, size, 1) = {x} /\ FindFree(used, size) = x
<1> DEFINE F == FreeBits(used, size)
           below(n) == {m \in F : m <= n}
<1>1. F \in SUBSET Nat /\ IsFiniteSet(F)
  BY FreeBitsFinite
<1>2. PICK x \in F : \A y \in F : x <= y
  BY <1>1, LeastNumber
<1>3. FindFree(used, size) = x
  <2>1. Min(F) \in F /\ \A y \in F : Min(F) <= y
    <3> HIDE DEF F
    <3> QED
      BY <1>2 DEF Min
  <2>2. Min(F) <= x /\ x <= Min(F) /\ Min(F) \in Nat /\ x \in Nat
    <3> HIDE DEF F
    <3> QED
      BY <1>1, <1>2, <2>1
  <2>3. Min(F) = x
    <3> HIDE DEF F
    <3> QED
      BY <2>2
  <2> QED
    BY <2>3 DEF FindFree
<1>4. x \in NthFree(used, size, 1)
  <2>1. below(x) = {x}
    BY <1>1, <1>2
  <2> QED
    BY <2>1, FS_Singleton DEF NthFree
<1>5. ASSUME NEW y \in NthFree(used, size, 1) PROVE y = x
  <2>1. y \in F /\ Cardinality(below(y)) = 1
    BY DEF NthFree
  <2>2. x \in below(y) /\ y \in below(y) /\ IsFiniteSet(below(y))
    <3>1. below(y) \subseteq F
      OBVIOUS
    <3> QED
      BY <1>1, <1>2, <2>1, <3>1, FS_Subset
  <2>3. PICK z : below(y) = {z}
    <3> HIDE DEF below
    <3> QED
      BY <2>1, <2>2, FS_Singleton
  <2> HIDE DEF below
  <2> QED
    BY <2>2, <2>3
<1> QED
  BY <1>2, <1>3, <1>4, <1>5

(* What read_bitmaps finds for a run that goes on: the least free block if *)
(* there is a free inode; else some free block, or block 0 if there is     *)
(* none.                                                                   *)
LEMMA BlockOfRun ==
  ASSUME NBlocks \in blocks, FoundBits(inodes, NInodes, blocks, NBlocks) # 0, NEW count
  PROVE  LET hits == BlockHits(inodes, NInodes, blocks, NBlocks)
             blk == ReadBitmap(blocks, NBlocks, hits, count).avail
         IN /\ FreeBits(inodes, NInodes) # {} => Least(blk) /\ blk \notin blocks
            /\ \/ blk \in Numbers \ blocks
               \/ /\ blk = 0
                  /\ FreeBits(inodes, NInodes) = {} /\ FreeBits(blocks, NBlocks) = {}
<1> DEFINE F == FreeBits(blocks, NBlocks)
           I == FreeBits(inodes, NInodes)
           hits == BlockHits(inodes, NInodes, blocks, NBlocks)
           bound == IF I = {} THEN 2 ELSE 1
           blk == ReadBitmap(blocks, NBlocks, hits, count).avail
<1>1. IsFiniteSet(F) /\ Cardinality(F) \in Nat /\ NBlocks \in Nat
  BY FreeBitsFinite, FS_CardinalityType, ImageAssumption
<1>2. bound \in {1, 2}
  OBVIOUS
<1>3. hits = IF bound <= Cardinality(F) THEN bound ELSE Cardinality(F)
  <2> DEFINE S == {bound, Cardinality(F)}
  <2>1. hits = Min(S)
    BY DEF BlockHits
  <2>2. \E x \in S : \A y \in S : x <= y
    BY <1>1, <1>2
  <2>3. hits \in S /\ hits <= bound /\ hits <= Cardinality(F)
    <3> HIDE DEF bound
    <3> QED
      BY <2>1, <2>2 DEF Min
  <2> HIDE DEF bound, hits
  <2> QED
    BY <1>1, <1>2, <2>3
<1>4. (Cardinality(F) = 0) <=> (F = {})
  BY <1>1, FS_EmptySet
<1>5. F = Numbers \ blocks
  BY <1>1 DEF FreeBits, Numbers, EXT2_GOOD_OLD_FIRST_INO
<1>6. I # {} => F # {}
  <2>1. (IF I = {} THEN -1 ELSE 0) + hits # 0
    BY DEF FoundBits
  <2> QED
    BY <1>3, <1>4, <2>1
<1>7. CASE F = {}
  BY <1>6, <1>7 DEF ReadBitmap
<1>8. CASE F # {}
  <2>1. hits \in {1, 2} /\ hits <= Cardinality(F) /\ (I # {} => hits = 1)
    <3> HIDE DEF hits, F, I
    <3> QED
      BY <1>1, <1>3, <1>4, <1>8
  <2> HIDE DEF hits
  <2>2. blk = Max(NthFree(blocks, NBlocks, hits))
    BY <1>8, <2>1 DEF ReadBitmap
  <2>3. NthFree(blocks, NBlocks, hits) # {}
    BY <1>1, <1>8, <2>1, FirstFree, SecondFree
  <2>4. NthFree(blocks, NBlocks, hits) \subseteq F /\ F \subseteq 0..NBlocks
    BY <1>1, FreeBitsFinite DEF NthFree
  <2>5. blk \in NthFree(blocks, NBlocks, hits)
    BY <1>1, <2>2, <2>3, <2>4, GreatestNumber
  <2>6. blk \in Numbers \ blocks
    BY <1>5, <2>4, <2>5
  <2>7. ASSUME I # {} PROVE Least(blk)
    <3>1. PICK x \in F : (\A y \in F : x <= y) /\ NthFree(blocks, NBlocks, 1) = {x}
      BY <1>1, <1>8, LeastFree
    <3>2. blk = x
      BY <2>1, <2>5, <2>7, <3>1
    <3>3. \A c \in Numbers : c < x => c \in blocks
      <4> SUFFICES ASSUME NEW c \in Numbers, c < x, c \notin blocks PROVE FALSE
        OBVIOUS
      <4>1. c \in F /\ x <= c
        BY <1>5, <3>1
      <4>2. c \in Int /\ x \in Int
        BY <1>5 DEF Numbers, EXT2_GOOD_OLD_FIRST_INO
      <4> QED
        BY <4>1, <4>2
    <3> QED
      BY <2>6, <3>2, <3>3 DEF Least
  <2> QED
    BY <2>6, <2>7 DEF hits
<1> QED
  BY <1>7, <1>8

(***************************************************************************)
(* The blocks that the steps write.                                        *)
(***************************************************************************)

(* A full parent: the number that find_n_free counts wrongly may be that   *)
(* of a block in use only if two blocks below it have become free.         *)
LEMMA SpilledBlocks ==
  ASSUME ImageInv, BlockInv, Spill, NEW b \in DOMAIN data, b \in Spilled(run.bbm)
  PROVE  /\ b \in Numbers
         /\ \/ b \notin blocks
            \/ /\ LastIndex[run.dir] + 1 = INDIRECT_BLK_INDEX
               /\ \E x \in Numbers \ blocks : x < b /\ run.blk < x
<1> DEFINE F == FreeBits(blocks, NBlocks)
           avail == run.bbm.avail
<1>1. NBlocks \in Nat /\ DOMAIN data = 0..(NBlocks - 1) /\ NBlocks \in blocks
  BY ImageAssumption DEF ImageInv, BlockInv
<1>2. F = Numbers \ blocks
  BY <1>1 DEF FreeBits, Numbers, EXT2_GOOD_OLD_FIRST_INO
<1>3. /\ run.pc = "entry" /\ run.dir \in Dirs
      /\ LastIndex[run.dir] # INDIRECT_BLK_INDEX
  BY DEF Spill, Endless, ImageInv, RunInv
<1>4. /\ run.bbm.left \in Int /\ (run.bbm.left < 1 \/ avail = FindFree(blocks, NBlocks))
      /\ Least(run.blk) /\ run.blk \in blocks
  BY <1>3 DEF BlockInv, RunBlockInv
<1> DEFINE next == LastIndex[run.dir] + 1
<1>5. \/ next < INDIRECT_BLK_INDEX /\ next # INDIRECT_BLK_INDEX
      \/ next = INDIRECT_BLK_INDEX
  <2>1. LastIndex[run.dir] \in 0..11
    BY <1>3, ImageAssumption
  <2> QED
    BY <1>3, <2>1 DEF INDIRECT_BLK_INDEX
<1>6. CASE next < INDIRECT_BLK_INDEX /\ next # INDIRECT_BLK_INDEX
  <2>1. Spilled(run.bbm) = IF run.bbm.left < 1 THEN {} ELSE {avail}
    BY <1>6 DEF Spilled
  <2>2. b = FindFree(blocks, NBlocks)
    BY <1>4, <2>1
  <2>3. F # {}
    BY <1>1, <2>2 DEF FindFree, Beyond
  <2>4. b \in F
    BY <1>1, <2>2, <2>3, LeastFree
  <2> QED
    BY <1>2, <2>4
<1>7. CASE next = INDIRECT_BLK_INDEX
  <2> DEFINE first == FindNth(run.bbm, blocks, NBlocks, 1)
             second == FindNth(run.bbm, blocks, NBlocks, 2)
  <2>1. Spilled(run.bbm) = IF run.bbm.left < 2 \/ ~InImage(first) THEN {} ELSE {first, second}
    BY <1>7 DEF Spilled, INDIRECT_BLK_INDEX
  <2>2. /\ run.bbm.left >= 2 /\ InImage(first) /\ b \in {first, second}
        /\ avail = FindFree(blocks, NBlocks)
    BY <1>4, <2>1
  <2>3. ASSUME NEW k \in {1, 2}, FindNth(run.bbm, blocks, NBlocks, k) \in 0..(NBlocks - 1), F # {}
        PROVE  \E n \in F : FindNth(run.bbm, blocks, NBlocks, k)
                              = avail + n - EXT2_GOOD_OLD_FIRST_INO
    <3> DEFINE N == NthFree(blocks, NBlocks, k)
               S == {avail + n - EXT2_GOOD_OLD_FIRST_INO : n \in N}
    <3>1. FindNth(run.bbm, blocks, NBlocks, k) = IF S = {} THEN Beyond(NBlocks) ELSE Max(S)
      BY DEF FindNth
    <3>2. S # {}
      <4> HIDE DEF S
      <4> QED
        BY <1>1, <2>3, <3>1 DEF Beyond
    <3>3. N \subseteq F /\ avail \in F
      BY <1>1, <2>2, <2>3, LeastFree DEF NthFree
    <3>4. S \subseteq 0..(NBlocks + NBlocks) /\ NBlocks + NBlocks \in Nat
      <4>1. \A n \in F : n \in 11..NBlocks
        BY <1>1 DEF FreeBits, EXT2_GOOD_OLD_FIRST_INO
      <4>2. \A n \in N : avail + n - EXT2_GOOD_OLD_FIRST_INO \in 0..(NBlocks + NBlocks)
        <5> HIDE DEF N
        <5> QED
          BY <1>1, <3>3, <4>1 DEF EXT2_GOOD_OLD_FIRST_INO
      <4> QED
        BY <1>1, <4>2
    <3>5. Max(S) \in S
      <4> HIDE DEF S
      <4> QED
        BY <3>2, <3>4, GreatestNumber
    <3> QED
      BY <3>1, <3>2, <3>3, <3>5
  <2>4. F # {}
    <3> SUFFICES ASSUME F = {} PROVE FALSE
      OBVIOUS
    <3>1. NthFree(blocks, NBlocks, 1) = {}
      BY DEF NthFree
    <3>2. first = Beyond(NBlocks)
      BY <3>1 DEF FindNth
    <3> QED
      BY <1>1, <2>2, <3>2 DEF Beyond, InImage
  <2>5. PICK x \in F : (\A y \in F : x <= y) /\ avail = x
    BY <1>1, <2>2, <2>4, LeastFree
  <2>6. PICK n \in F : b = x + n - EXT2_GOOD_OLD_FIRST_INO
    BY <1>1, <2>2, <2>3, <2>4, <2>5
  <2>7. x \in Numbers \ blocks /\ n \in Numbers
    BY <1>2
  <2>8. b \in Numbers /\ x <= b
    BY <1>1, <2>6, <2>7 DEF Numbers, EXT2_GOOD_OLD_FIRST_INO
  <2>9. run.blk < x
    BY <1>4, <2>7 DEF Least, Numbers, EXT2_GOOD_OLD_FIRST_INO
  <2>10. b \in blocks => x < b
    BY <2>7, <2>8 DEF Numbers, EXT2_GOOD_OLD_FIRST_INO
  <2> QED
    BY <1>7, <2>7, <2>8, <2>9, <2>10
<1> QED
  BY <1>5, <1>6, <1>7

(* The step changes no block but those of the run, and the block of a      *)
(* directory gets something else only in the cases that the properties     *)
(* name.                                                                   *)
LEMMA SpillKeeps ==
  ASSUME ImageInv, BlockInv, Spill,
         NEW d \in Dirs, NEW o \in Made(d), ~RmMayFree(ents[d][o].home)
  PROVE  LET b == ents[d][o].home
         IN data'[b] = data[b] \/ (data'[b] = Junk /\ FreedTwice(b))
<1> DEFINE b == ents[d][o].home
<1>1. b \in blocks /\ b \in Numbers /\ LowerUsed(b)
  BY DEF BlockInv, MadeBlockInv
<1>2. b \in DOMAIN data
  BY <1>1 DEF ImageInv, Numbers, EXT2_GOOD_OLD_FIRST_INO
<1>3. data'[b] = IF b \in Spilled(run.bbm) THEN Junk ELSE data[b]
  BY <1>2 DEF Spill, Scribble
<1>4. CASE b \in Spilled(run.bbm)
  <2>1. PICK x \in Numbers \ blocks : x < b /\ run.blk < x
    BY <1>1, <1>2, <1>4, SpilledBlocks
  <2>2. run.pc = "entry"
    BY DEF Spill
  <2>3. run.blk \in Numbers
    BY <2>2 DEF BlockInv, RunBlockInv, Least
  <2>4. run.blk < b
    BY <1>1, <2>1, <2>3 DEF Numbers, EXT2_GOOD_OLD_FIRST_INO
  <2>5. RmMayFree(x) /\ RmMayFree(run.blk)
    BY <1>1, <2>1, <2>2, <2>4 DEF LowerUsed, BlockInv, RunBlockInv
  <2> DEFINE S == {c \in 1..(b - 1) : RmMayFree(c)}
  <2>6. {run.blk, x} \subseteq S
    BY <1>1, <2>1, <2>3, <2>4, <2>5 DEF Numbers, EXT2_GOOD_OLD_FIRST_INO
  <2>7. IsFiniteSet(S)
    <3>1. IsFiniteSet(1..(b - 1))
      BY <1>1, FS_Interval DEF Numbers, EXT2_GOOD_OLD_FIRST_INO
    <3> QED
      BY <3>1, FS_Subset
  <2>8. Cardinality({run.blk, x}) = 2
    <3>1. run.blk # x
      BY <2>1, <2>3 DEF Numbers, EXT2_GOOD_OLD_FIRST_INO
    <3>2. IsFiniteSet({run.blk}) /\ Cardinality({run.blk}) = 1
      BY FS_Singleton
    <3>3. Cardinality({run.blk} \cup {x}) = 2
      <4>1. x \notin {run.blk}
        BY <3>1
      <4>2. Cardinality({run.blk} \cup {x})
              = IF x \in {run.blk} THEN Cardinality({run.blk}) ELSE Cardinality({run.blk}) + 1
        BY <3>2, FS_AddElement
      <4> QED
        BY <3>2, <4>1, <4>2
    <3>4. {run.blk} \cup {x} = {run.blk, x}
      OBVIOUS
    <3> QED
      BY <3>3, <3>4
  <2>9. Cardinality(S) >= 2
    <3> HIDE DEF S
    <3>1. Cardinality({run.blk, x}) <= Cardinality(S)
      BY <2>6, <2>7, FS_Subset
    <3> QED
      BY <2>7, <2>8, <3>1, FS_CardinalityType
  <2> QED
    BY <1>3, <1>4, <2>9 DEF FreedTwice
<1> QED
  BY <1>3, <1>4

(***************************************************************************)
(* What is said of the blocks of the directories, step by step.            *)
(***************************************************************************)
LEMMA EntsSame == ents' = ents => MadeKept
BY DEF MadeKept, Made, SameEntry

(* A step keeps the blocks if it clears no bit but one that rm may clear,  *)
(* and writes no block in use but as the properties allow.                 *)
DataKept(b) ==
  data'[b] = data[b] \/ (data'[b] = Junk /\ (AfterDirectory(b) \/ FreedTwice(b)))
BitsKept == \A c \in Numbers : c \in blocks => c \in blocks' \/ RmMayFree(c)
LowerUsedNext(b) == \A c \in Numbers : c < b => c \in blocks' \/ RmMayFree(c)

LEMMA KeptBlock ==
  ASSUME BlockInv, BitsKept, NEW d \in Dirs, NEW o \in Made(d),
         RmMayFree(ents[d][o].home) \/ DataKept(ents[d][o].home)
  PROVE  LET b == ents[d][o].home IN
         \/ RmMayFree(b)
         \/ /\ b \in blocks' /\ b \in Numbers /\ LowerUsedNext(b)
            /\ \/ data'[b] = NewDir(ents[d][o].ino, d)
               \/ data'[b] = Junk /\ (AfterDirectory(b) \/ FreedTwice(b))
<1> DEFINE b == ents[d][o].home
<1> SUFFICES ASSUME ~RmMayFree(b)
             PROVE  /\ b \in blocks' /\ b \in Numbers /\ LowerUsedNext(b)
                    /\ \/ data'[b] = NewDir(ents[d][o].ino, d)
                       \/ data'[b] = Junk /\ (AfterDirectory(b) \/ FreedTwice(b))
  OBVIOUS
<1>1. /\ b \in blocks /\ b \in Numbers /\ LowerUsed(b)
      /\ \/ data[b] = NewDir(ents[d][o].ino, d)
         \/ data[b] = Junk /\ (AfterDirectory(b) \/ FreedTwice(b))
  BY DEF BlockInv, MadeBlockInv
<1>2. b \in blocks'
  BY <1>1 DEF BitsKept
<1>3. \A c \in Numbers : c < b => c \in blocks' \/ RmMayFree(c)
  BY <1>1 DEF LowerUsed, BitsKept
<1> QED
  BY <1>1, <1>2, <1>3 DEF LowerUsedNext, DataKept

LEMMA KeptBlocks ==
  ASSUME BlockInv, MadeKept, BitsKept,
         \A d \in Dirs : \A o \in Made(d) :
           RmMayFree(ents[d][o].home) \/ DataKept(ents[d][o].home)
  PROVE  MadeBlockInv'
<1> SUFFICES ASSUME NEW d \in Dirs, NEW o \in Made(d)'
             PROVE  LET b == ents'[d][o].home IN
                    \/ RmMayFree(b)
                    \/ /\ b \in blocks' /\ b \in Numbers /\ LowerUsedNext(b)
                       /\ \/ data'[b] = NewDir(ents'[d][o].ino, d)
                          \/ data'[b] = Junk /\ (AfterDirectory(b) \/ FreedTwice(b))
  BY DEF MadeBlockInv, LowerUsed, LowerUsedNext
<1>1. /\ o \in Made(d) /\ ents'[d][o].home = ents[d][o].home
      /\ ents'[d][o].ino = ents[d][o].ino
  BY DEF MadeKept, SameEntry
<1> QED
  BY <1>1, KeptBlock

LEMMA FirstBlocks == Init => BlockInv
<1> SUFFICES ASSUME Init PROVE BlockInv
  OBVIOUS
<1>1. \A d \in Dirs : Made(d) = {}
  BY NamesAssumption DEF Init, Made
<1>2. NBlocks \in blocks
  BY ImageAssumption DEF Init
<1> QED
  BY <1>1, <1>2, IdleRun DEF Init, BlockInv, MadeBlockInv, RunBlockInv

LEMMA SameBlocks ==
  ASSUME BlockInv, MadeKept, blocks' = blocks, data' = data
  PROVE  NBlocks \in blocks' /\ MadeBlockInv'
<1>1. BitsKept
  BY DEF BitsKept
<1>2. \A d \in Dirs : \A o \in Made(d) : DataKept(ents[d][o].home)
  BY DEF DataKept
<1> QED
  BY <1>1, <1>2, KeptBlocks DEF BlockInv

LEMMA IdleBlocks == run' = Idle => RunBlockInv'
BY IdleRun DEF RunBlockInv

LEMMA StartBlocks ==
  ASSUME ImageInv, BlockInv, NEW arg \in Args, Start(arg)
  PROVE  BlockInv'
<1> DEFINE hits == BlockHits(inodes, NInodes, blocks, NBlocks)
           ibm == ReadBitmap(inodes, NInodes, 1, desc.inodes)
           bbm == ReadBitmap(blocks, NBlocks, hits, desc.blocks)
<1>1. /\ run'.pc = "block" /\ run'.blk = bbm.avail /\ run'.ibm = ibm /\ run'.bbm = bbm
      /\ UNCHANGED <<inodes, blocks, desc, ents, data>>
      /\ FoundBits(inodes, NInodes, blocks, NBlocks) # 0
  BY DEF Start, Idle
<1>2. NBlocks \in blocks' /\ MadeBlockInv'
  BY <1>1, EntsSame, SameBlocks
<1>3. bbm.left \in Nat
  <2>1. bbm.left = desc.blocks
    BY DEF ReadBitmap
  <2> QED
    BY <2>1 DEF ImageInv, TypeOK
<1>4. ibm.avail # 0 => FreeBits(inodes, NInodes) # {}
  BY DEF ReadBitmap
<1>5. /\ FreeBits(inodes, NInodes) # {} => Least(bbm.avail) /\ bbm.avail \notin blocks
      /\ \/ bbm.avail \in Numbers \ blocks
         \/ /\ bbm.avail = 0
            /\ FreeBits(inodes, NInodes) = {} /\ FreeBits(blocks, NBlocks) = {}
  BY <1>1, BlockOfRun DEF BlockInv
<1> HIDE DEF ibm, bbm
<1>6. RunBlockInv'
  BY <1>1, <1>3, <1>4, <1>5 DEF RunBlockInv, Least
<1> QED
  BY <1>2, <1>6 DEF BlockInv

LEMMA WriteBlockBlocks ==
  ASSUME ImageInv, BlockInv, WriteBlock
  PROVE  BlockInv'
<1>1. /\ run.pc = "block" /\ run'.pc = "inode"
      /\ run'.dir = run.dir /\ run'.ino = run.ino /\ run'.blk = run.blk
      /\ run'.ibm = run.ibm /\ run'.bbm = run.bbm
      /\ UNCHANGED <<inodes, blocks, desc, ents>>
      /\ data' = [data EXCEPT ![run.blk] = NewDir(run.ino, run.dir)]
  BY DEF WriteBlock, ImageInv, RunInv, Idle
<1>2. run.blk = 0 \/ run.blk \in Numbers \ blocks
  BY <1>1 DEF BlockInv, RunBlockInv
<1>3. run.blk \in DOMAIN data
  BY <1>2, ImageAssumption DEF ImageInv, Numbers, EXT2_GOOD_OLD_FIRST_INO
<1>4. BitsKept
  BY <1>1 DEF BitsKept
<1>5. ASSUME NEW d \in Dirs, NEW o \in Made(d)
      PROVE  RmMayFree(ents[d][o].home) \/ DataKept(ents[d][o].home)
  <2> SUFFICES ASSUME ~RmMayFree(ents[d][o].home)
               PROVE  data'[ents[d][o].home] = data[ents[d][o].home]
    BY DEF DataKept
  <2>1. ents[d][o].home \in blocks /\ ents[d][o].home \in Numbers
    BY DEF BlockInv, MadeBlockInv
  <2>2. ents[d][o].home # run.blk
    BY <1>2, <2>1 DEF Numbers, EXT2_GOOD_OLD_FIRST_INO
  <2> QED
    BY <1>1, <2>2
<1>6. NBlocks \in blocks' /\ MadeBlockInv'
  BY <1>1, <1>4, <1>5, EntsSame, KeptBlocks DEF BlockInv
<1>7. data'[run'.blk] = NewDir(run'.ino, run'.dir)
  BY <1>1, <1>3
<1>8. RunBlockInv'
  BY <1>1, <1>7 DEF BlockInv, RunBlockInv, Least
<1> QED
  BY <1>6, <1>8 DEF BlockInv

LEMMA UseInodeBlocks ==
  ASSUME ImageInv, BlockInv, UseInode
  PROVE  BlockInv'
<1>1. /\ run.pc = "inode" /\ run'.pc = "used"
      /\ run'.dir = run.dir /\ run'.ino = run.ino /\ run'.blk = run.blk /\ run'.bbm = run.bbm
      /\ UNCHANGED <<blocks, desc, ents, data>>
  BY DEF UseInode, ImageInv, RunInv, Idle
<1>2. run.ibm.avail # 0
  BY DEF UseInode, BitOf, ImageInv
<1>3. RunBlockInv'
  BY <1>1, <1>2 DEF BlockInv, RunBlockInv, Least
<1> QED
  BY <1>1, <1>3, EntsSame, SameBlocks DEF BlockInv

LEMMA UseBlockBlocks ==
  ASSUME ImageInv, BlockInv, UseBlock
  PROVE  BlockInv'
<1>1. /\ run.pc = "used" /\ run'.pc = "entry"
      /\ run'.dir = run.dir /\ run'.ino = run.ino /\ run'.blk = run.blk
      /\ run'.bbm = AfterUse(run.bbm, blocks, NBlocks)
      /\ UNCHANGED <<inodes, desc, ents, data>>
      /\ blocks' = blocks \cup {BitOf(run.bbm)}
  BY DEF UseBlock, ImageInv, RunInv, Idle
<1>2. /\ Least(run.blk) /\ run.blk \notin blocks /\ run.bbm.avail = run.blk
      /\ run.bbm.left \in Nat /\ data[run.blk] = NewDir(run.ino, run.dir)
  BY <1>1 DEF BlockInv, RunBlockInv
<1>3. BitOf(run.bbm) = run.blk
  BY <1>2 DEF BitOf, Least, Numbers, EXT2_GOOD_OLD_FIRST_INO
<1>4. /\ run'.bbm.left \in Int
      /\ run'.bbm.left < 1 \/ run'.bbm.avail = FindFree(blocks', NBlocks)
  <2>1. /\ run'.bbm.left = run.bbm.left - 1
        /\ run.bbm.left > 1 => run'.bbm.avail = FindFree(blocks', NBlocks)
    BY <1>1 DEF AfterUse
  <2> QED
    BY <1>2, <2>1
<1>5. MadeKept /\ BitsKept
  BY <1>1, EntsSame DEF BitsKept
<1>6. \A d \in Dirs : \A o \in Made(d) : DataKept(ents[d][o].home)
  BY <1>1 DEF DataKept
<1>7. NBlocks \in blocks' /\ MadeBlockInv'
  BY <1>1, <1>5, <1>6, KeptBlocks DEF BlockInv
<1>8. ASSUME NEW d \in Dirs, NEW o \in Made(d), run.blk < ents[d][o].home
      PROVE  RmMayFree(run.blk) \/ RmMayFree(ents[d][o].home)
  BY <1>2, <1>8 DEF BlockInv, MadeBlockInv, LowerUsed, Least
<1>9. \A d \in Dirs : \A o \in Made(d)' :
        run'.blk < ents'[d][o].home => RmMayFree(run'.blk) \/ RmMayFree(ents'[d][o].home)
  BY <1>1, <1>8 DEF Made
<1>10. Least(run.blk)' /\ run'.blk \in blocks' /\ data'[run'.blk] = NewDir(run'.ino, run'.dir)
  BY <1>1, <1>2, <1>3 DEF Least
<1>11. RunBlockInv'
  BY <1>1, <1>4, <1>9, <1>10 DEF RunBlockInv, Least
<1> QED
  BY <1>7, <1>11 DEF BlockInv

LEMMA ShrinkBlocks ==
  ASSUME ImageInv, BlockInv, Shrink
  PROVE  BlockInv'
<1>1. /\ run.pc = "entry" /\ run'.pc = "fill"
      /\ run'.dir = run.dir /\ run'.ino = run.ino /\ run'.blk = run.blk
      /\ UNCHANGED <<inodes, blocks, desc, data>>
  BY DEF Shrink, ImageInv, RunInv, Idle
<1>2. NBlocks \in blocks' /\ MadeBlockInv'
  BY <1>1, ShrinkStep, SameBlocks
<1>3. RunBlockInv'
  BY <1>1 DEF BlockInv, RunBlockInv, Least
<1> QED
  BY <1>2, <1>3 DEF BlockInv

(* The end of a name goes into the block behind the last of the parent.    *)
LEMMA FillBlocks ==
  ASSUME ImageInv, BlockInv, Fill
  PROVE  BlockInv'
<1>1. run.pc = "fill" /\ run' = Idle /\ UNCHANGED <<inodes, blocks, desc>> /\ run.dir \in Dirs
  BY DEF Fill, ImageInv, RunInv
<1>2. \A b \in DOMAIN data : data'[b] = data[b] \/ (data'[b] = Junk /\ AfterDirectory(b))
  <2>1. PICK bs \in SUBSET {LastBlock[run.dir] + 1} : data' = Scribble(bs)
    BY DEF Fill
  <2> QED
    BY <1>1, <2>1 DEF Scribble, AfterDirectory
<1>3. BitsKept
  BY <1>1 DEF BitsKept
<1>4. \A b \in Numbers : b \in DOMAIN data
  BY DEF ImageInv, Numbers, EXT2_GOOD_OLD_FIRST_INO
<1>5. ASSUME NEW d \in Dirs, NEW o \in Made(d), ~RmMayFree(ents[d][o].home)
      PROVE  DataKept(ents[d][o].home)
  BY <1>2, <1>4, <1>5 DEF BlockInv, MadeBlockInv, DataKept
<1>6. /\ run.blk \in blocks' /\ run.blk \in Numbers /\ LowerUsedNext(run.blk)
      /\ \/ data'[run.blk] = NewDir(run.ino, run.dir)
         \/ data'[run.blk] = Junk /\ AfterDirectory(run.blk)
  <2>1. Least(run.blk) /\ run.blk \in blocks /\ data[run.blk] = NewDir(run.ino, run.dir)
    BY <1>1 DEF BlockInv, RunBlockInv
  <2> QED
    BY <1>1, <1>2, <1>4, <2>1 DEF Least, LowerUsedNext
<1>7. MadeBlockInv'
  <2> SUFFICES ASSUME NEW d \in Dirs, NEW o \in Made(d)'
               PROVE  LET b == ents'[d][o].home IN
                      \/ RmMayFree(b)
                      \/ /\ b \in blocks' /\ b \in Numbers /\ LowerUsedNext(b)
                         /\ \/ data'[b] = NewDir(ents'[d][o].ino, d)
                            \/ data'[b] = Junk /\ (AfterDirectory(b) \/ FreedTwice(b))
    BY DEF MadeBlockInv, LowerUsed, LowerUsedNext
  <2>1. \/ d = run.dir /\ ents'[d][o] = Filled
        \/ o \in Made(d) /\ SameEntry(d, o)
    BY FillStep DEF MadeAdded
  <2>2. CASE d = run.dir /\ ents'[d][o] = Filled
    <3>1. ents'[d][o].home = run.blk /\ ents'[d][o].ino = run.ino
      BY <2>2 DEF Filled
    <3> QED
      BY <1>6, <2>2, <3>1
  <2>3. CASE o \in Made(d) /\ SameEntry(d, o)
    BY <1>3, <1>5, <2>3, KeptBlock DEF SameEntry
  <2> QED
    BY <2>1, <2>2, <2>3
<1> QED
  BY <1>1, <1>7, IdleBlocks DEF BlockInv

LEMMA EndBlocks ==
  ASSUME ImageInv, BlockInv, InodeTaken \/ Spill \/ Stop
  PROVE  BlockInv'
<1>1. run' = Idle /\ UNCHANGED <<inodes, blocks, desc, ents>>
  BY DEF InodeTaken, Spill, Stop
<1>2. MadeKept /\ BitsKept
  BY <1>1, EntsSame DEF BitsKept
<1>3. ASSUME NEW d \in Dirs, NEW o \in Made(d), ~RmMayFree(ents[d][o].home)
      PROVE  DataKept(ents[d][o].home)
  <2>1. CASE InodeTaken \/ Stop
    BY <2>1 DEF InodeTaken, Stop, DataKept
  <2>2. CASE Spill
    BY <1>3, <2>2, SpillKeeps DEF DataKept
  <2> QED
    BY <2>1, <2>2
<1> QED
  BY <1>1, <1>2, <1>3, KeptBlocks, IdleBlocks DEF BlockInv

LEMMA OtherBlocks ==
  ASSUME ImageInv, BlockInv, Hang \/ CheckFreeCounts \/ UNCHANGED vars
  PROVE  BlockInv'
<1>1. UNCHANGED <<inodes, blocks, ents, data>>
  BY DEF Hang, CheckFreeCounts, vars
<1>2. \A d \in Dirs : Made(d)' = Made(d)
  BY <1>1 DEF Made
<1>3. CASE Hang
  <2>1. run'.pc = "hang"
    BY <1>3 DEF Hang, ImageInv, RunInv, Idle
  <2>2. RunBlockInv'
    BY <2>1 DEF RunBlockInv
  <2> QED
    BY <1>1, <2>2, EntsSame, SameBlocks DEF BlockInv
<1>4. CASE run' = run
  <2>1. RunBlockInv'
    BY <1>1, <1>2, <1>4 DEF BlockInv, RunBlockInv, Least
  <2> QED
    BY <1>1, <2>1, EntsSame, SameBlocks DEF BlockInv
<1> QED
  BY <1>3, <1>4 DEF CheckFreeCounts, vars

(* rm turns over no bits but those of the blocks that it may free.         *)
LEMMA TogglingBlocks ==
  ASSUME NEW blks, \A b \in Range(blks) : RmMayFree(b), run' = Toggling(blks)
  PROVE  RunBlockInv'
<1>1. CASE blks = <<>>
  BY <1>1, IdleBlocks DEF Toggling
<1>2. CASE blks # <<>>
  <2>1. run'.pc = "toggle" /\ run'.todo = blks
    BY <1>2 DEF Toggling, Idle
  <2> QED
    BY <2>1 DEF RunBlockInv
<1> QED
  BY <1>1, <1>2

LEMMA RmDirEntryBlocks ==
  ASSUME ImageInv, BlockInv, NEW arg \in Args, RmDirEntry(arg)
  PROVE  BlockInv'
<1>1. UNCHANGED <<inodes, blocks, desc, data>>
  BY DEF RmDirEntry
<1>2. PICK ino : run' = Toggling(RmBlocks(ino))
  BY DEF RmDirEntry
<1>3. \A b \in Range(RmBlocks(ino)) : RmMayFree(b)
  BY DEF RmBlocks, RmMayFree, Range
<1> QED
  BY <1>1, <1>2, <1>3, TogglingBlocks, RmDirEntryStep, SameBlocks DEF BlockInv

LEMMA FirstOfSeq ==
  ASSUME NEW S, NEW s \in Seq(S), s # <<>>
  PROVE  Head(s) \in Range(s) /\ Head(s) \in S
<1>1. 1 \in DOMAIN s /\ Head(s) = s[1]
  OBVIOUS
<1>2. Head(s) \in S
  BY HeadTailProperties
<1> QED
  BY <1>1, <1>2 DEF Range

LEMMA ToggleBlockBlocks ==
  ASSUME ImageInv, BlockInv, ToggleBlock
  PROVE  BlockInv'
<1>1. /\ run.pc = "toggle" /\ run.todo \in Seq(2..(NBlocks - 1)) /\ run.todo # <<>>
      /\ blocks' = Toggled(blocks, Head(run.todo)) /\ run' = Toggling(Tail(run.todo))
      /\ UNCHANGED <<inodes, desc, ents, data>>
  BY DEF ToggleBlock, ImageInv, RunInv
<1>2. \A b \in Range(run.todo) : RmMayFree(b)
  BY <1>1 DEF BlockInv, RunBlockInv
<1>3. Head(run.todo) \in Range(run.todo) /\ Head(run.todo) \in 2..(NBlocks - 1)
  BY <1>1, FirstOfSeq
<1>4. \A b \in Range(Tail(run.todo)) : b \in Range(run.todo)
  BY <1>1, HeadTailProperties DEF Range
<1>5. /\ NBlocks \in blocks' /\ BitsKept
  <2>1. NBlocks \in blocks /\ NBlocks # Head(run.todo)
    BY <1>3, ImageAssumption DEF BlockInv
  <2> QED
    BY <1>1, <1>2, <1>3, <2>1 DEF Toggled, BitsKept
<1>6. \A d \in Dirs : \A o \in Made(d) : DataKept(ents[d][o].home)
  BY <1>1 DEF DataKept
<1>7. MadeBlockInv'
  BY <1>1, <1>5, <1>6, EntsSame, KeptBlocks
<1>8. RunBlockInv'
  BY <1>1, <1>2, <1>4, TogglingBlocks
<1> QED
  BY <1>5, <1>7, <1>8 DEF BlockInv

(***************************************************************************)
(* The theorems.                                                           *)
(***************************************************************************)

(* BlockInv holds in every state, for every image and every run of the     *)
(* tools.                                                                  *)
THEOREM BlockInvariance == Spec => []BlockInv
<1>1. ImageInv /\ BlockInv /\ [Next]_vars => BlockInv'
  <2> SUFFICES ASSUME ImageInv, BlockInv, [Next]_vars PROVE BlockInv'
    OBVIOUS
  <2>1. ASSUME NEW arg \in Args, Start(arg) PROVE BlockInv'
    BY <2>1, StartBlocks
  <2>2. CASE WriteBlock
    BY <2>2, WriteBlockBlocks
  <2>3. CASE UseInode
    BY <2>3, UseInodeBlocks
  <2>4. CASE UseBlock
    BY <2>4, UseBlockBlocks
  <2>5. CASE InodeTaken \/ Spill \/ Stop
    BY <2>5, EndBlocks
  <2>6. CASE Hang \/ CheckFreeCounts \/ UNCHANGED vars
    BY <2>6, OtherBlocks
  <2>7. CASE Shrink
    BY <2>7, ShrinkBlocks
  <2>8. CASE Fill
    BY <2>8, FillBlocks
  <2>9. ASSUME NEW arg \in Args, RmDirEntry(arg) PROVE BlockInv'
    BY <2>9, RmDirEntryBlocks
  <2>10. CASE ToggleBlock
    BY <2>10, ToggleBlockBlocks
  <2> QED
    BY <2>1, <2>2, <2>3, <2>4, <2>5, <2>6, <2>7, <2>8, <2>9, <2>10 DEF Next, Mkdir
<1> QED
  BY <1>1, FirstBlocks, Invariance, PTL DEF Spec

(* The block of a directory that has an entry stays marked and keeps its   *)
(* "." and "..", whatever mkdir and rm do later, but for the three cases.  *)
THEOREM DirectoriesKeepBlocks == Spec => []MadeBlocksKept
<1>1. BlockInv => MadeBlocksKept
  BY DEF BlockInv, MadeBlockInv, MadeBlocksKept, FreedTwice
<1> QED
  BY <1>1, BlockInvariance, PTL

(* A step writes a free block; or one that it takes for free or does not   *)
(* look at; or block 0, if no inode and no block is left.                  *)
LEMMA WrittenBlocks ==
  ASSUME ImageInv, BlockInv, [Next]_vars, NEW b \in DOMAIN data, data'[b] # data[b]
  PROVE  \/ b = 0 /\ FreeBits(inodes, NInodes) = {} /\ FreeBits(blocks, NBlocks) = {}
         \/ b \in Numbers \ blocks
         \/ b \in Numbers /\ LastIndex[run.dir] + 1 = INDIRECT_BLK_INDEX
         \/ AfterDirectory(b)
<1>1. CASE WriteBlock
  <2>1. run.pc = "block" /\ b = run.blk
    BY <1>1 DEF WriteBlock
  <2> QED
    BY <2>1 DEF BlockInv, RunBlockInv
<1>2. CASE Spill
  <2>1. b \in Spilled(run.bbm)
    BY <1>2 DEF Spill, Scribble
  <2> QED
    BY <1>2, <2>1, SpilledBlocks
<1>3. CASE Fill
  <2>1. PICK bs \in SUBSET {LastBlock[run.dir] + 1} : data' = Scribble(bs)
    BY <1>3 DEF Fill
  <2>2. run.dir \in Dirs /\ b \in bs
    BY <1>3, <2>1 DEF Fill, Scribble, ImageInv, RunInv
  <2> QED
    BY <2>2 DEF AfterDirectory
<1>4. CASE ~WriteBlock /\ ~Spill /\ ~Fill
  BY <1>4 DEF Next, Mkdir, Start, UseInode, InodeTaken, UseBlock, Hang, Shrink, RmDirEntry,
              ToggleBlock, CheckFreeCounts, Stop, vars
<1> QED
  BY <1>1, <1>2, <1>3, <1>4

(* No run writes a marked block, but for the ends of names and for a       *)
(* directory of eleven blocks.                                             *)
THEOREM MarkedBlocksKept == Spec => UsedBlocksKept
<1> DEFINE Retained == \A b \in blocks \cap DOMAIN data : data'[b] # data[b] =>
                         AfterDirectory(b) \/ LastIndex[run.dir] + 1 = INDIRECT_BLK_INDEX
<1>1. ImageInv /\ BlockInv /\ [Next]_vars => [Retained]_vars
  <2> SUFFICES ASSUME ImageInv, BlockInv, [Next]_vars,
                      NEW b \in blocks \cap DOMAIN data, data'[b] # data[b]
               PROVE  AfterDirectory(b) \/ LastIndex[run.dir] + 1 = INDIRECT_BLK_INDEX
    OBVIOUS
  <2>1. b # 0
    BY DEF ImageInv, TypeOK
  <2> QED
    BY <2>1, WrittenBlocks
<1> HIDE DEF Retained
<1>2. Spec => [][Retained]_vars
  BY <1>1, Invariance, BlockInvariance, PTL DEF Spec
<1> QED
  BY <1>2 DEF Retained, UsedBlocksKept

(* The boot block is written only when no inode and no block is left.      *)
THEOREM BootBlockKept == Spec => BootBlockHit
<1> DEFINE Retained == data'[0] # data[0] =>
                     FreeBits(inodes, NInodes) = {} /\ FreeBits(blocks, NBlocks) = {}
<1>1. ImageInv /\ BlockInv /\ [Next]_vars => [Retained]_vars
  <2> SUFFICES ASSUME ImageInv, BlockInv, [Next]_vars, data'[0] # data[0]
               PROVE  FreeBits(inodes, NInodes) = {} /\ FreeBits(blocks, NBlocks) = {}
    OBVIOUS
  <2>1. 0 \in DOMAIN data
    BY ImageAssumption DEF ImageInv
  <2>2. ~AfterDirectory(0)
    <3> SUFFICES ASSUME NEW d \in Dirs, 0 = LastBlock[d] + 1 PROVE FALSE
      BY DEF AfterDirectory
    <3>1. LastBlock[d] \in 1..(NBlocks - 1)
      BY ImageAssumption
    <3> QED
      BY <3>1
  <2>3. 0 \notin Numbers
    BY DEF Numbers, EXT2_GOOD_OLD_FIRST_INO
  <2> QED
    BY <2>1, <2>2, <2>3, WrittenBlocks
<1> HIDE DEF Retained
<1>2. Spec => [][Retained]_vars
  BY <1>1, Invariance, BlockInvariance, PTL DEF Spec
<1> QED
  BY <1>2 DEF Retained, BootBlockHit
=============================================================================
