------------------------------- MODULE Image -------------------------------
(***************************************************************************)
(* What stays true of an image, whatever runs of the tools it has been     *)
(* through and wherever they were stopped.                                 *)
(***************************************************************************)
EXTENDS Tools

Places == {"idle", "block", "inode", "used", "entry", "fill", "hang", "toggle"}

(* The entries in a block: what has ever been written there, by offset.    *)
BlockType(es) ==
  /\ DOMAIN es \subseteq 0..(EXT2_BLOCK_SIZE - 1)
  /\ \A o \in DOMAIN es : es[o] \in Entry

(* What a block may have in it as a whole.                                 *)
Contents == {Old, Junk} \cup {NewDir(i, d) : i \in 0..NInodes, d \in Dirs}

TypeOK ==
  /\ inodes \subseteq 1..NInodes /\ blocks \subseteq 1..NBlocks
  /\ desc \in [inodes : Nat, blocks : Nat]
  /\ DOMAIN ents = Dirs /\ \A d \in Dirs : BlockType(ents[d])
  /\ \A b \in 0..(NBlocks - 1) : data[b] \in Contents
  /\ run.pc \in Places

(* The entries that runs of mkdir have written in directory d, also those  *)
(* that have been removed: their bytes are still there.                    *)
Made(d) == {o \in DOMAIN ents[d] : ents[d][o].home # NoHome}

(* An entry never names an inode that is free for the next run: the bitmap *)
(* is written before the entry, and rm does not get as far as the inode.   *)
(* This holds of removed entries too, which a later run that is stopped    *)
(* may bring back.                                                         *)
NamedInodesMarked == \A d \in Dirs : \A o \in Made(d) : ents[d][o].ino \in inodes

(* No two entries made by mkdir, be they removed or not, name one inode,   *)
(* although every run starts with a free count that takes no notice of the *)
(* runs before.                                                            *)
NamedOnce ==
  \A d, e \in Dirs : \A o \in Made(d), q \in Made(e) :
    ents[d][o].ino = ents[e][q].ino => d = e /\ o = q

(* A directory that has an entry keeps its block, marked and with its "."  *)
(* and "..", also when later runs put entries into blocks that they do not *)
(* mark.  Only the block behind the last block of a directory may get the  *)
(* end of a name; only a block that rm has once freed may be freed again,  *)
(* when the entry of its old owner has come back; and find_n_free returns  *)
(* its number only after rm has freed two blocks with lower ones.          *)
AfterDirectory(b) == \E d \in Dirs : b = LastBlock[d] + 1
RmMayFree(b) == \E i \in DOMAIN FileBlocks : b \in Range(Tail(FileBlocks[i]))
MadeBlocksKept ==
  \A d \in Dirs : \A o \in Made(d) :
    LET b == ents[d][o].home IN
    \/ b \in blocks /\ data[b] = NewDir(ents[d][o].ino, d)
    \/ /\ data[b] = Junk
       /\ AfterDirectory(b) \/ Cardinality({c \in 1..(b - 1) : RmMayFree(c)}) >= 2
    \/ RmMayFree(b)

(* A walk ends inside the block only at an entry without a name, the       *)
(* length of which is 0; at any other it ends where the block does.  An    *)
(* entry may reach over that by less than its own size: it gets there when *)
(* the length of the entry before it had letters of a name in it, and then *)
(* the walk ends that far away.                                            *)
AtEnd(end) == end >= EXT2_BLOCK_SIZE /\ (end < EXT2_BLOCK_SIZE + 12 \/ end >= Letters)
WalkCovers ==
  \A d \in Dirs : LastEntry(d).name # NoName => AtEnd(LastOffset(d) + LastEntry(d).rec)

(* rm takes the one entry out of the walk, and nothing else: in particular *)
(* not those behind it, which only its length leads to.                    *)
RemoveTakesOne ==
  [][run.pc = "idle" =>
       \A d \in Dirs : /\ Reached(d)' \subseteq Reached(d)
                       /\ Cardinality(Reached(d) \ Reached(d)') <= 1]_vars

(* No stop, and no run of mkdir, takes an entry out of the walk: an entry  *)
(* is lost only where a new one is written over it.                        *)
MkdirTakesNone ==
  [][run.pc # "idle" => \A d \in Dirs : \A o \in Reached(d) \ Reached(d)' :
       run.pc = "fill" /\ d = run.dir /\ o > run.pos]_vars

(* The boot block is written only when no inode and no block is left, the  *)
(* case in which read_bitmaps does not notice that it has found nothing.   *)
BootBlockHit ==
  [][data'[0] # data[0] =>
       FreeBits(inodes, NInodes) = {} /\ FreeBits(blocks, NBlocks) = {}]_vars

(* No run writes into a block that is marked, but for the ends of names    *)
(* and for a directory of eleven blocks, for which find_n_free may return  *)
(* numbers of blocks in use.                                               *)
UsedBlocksKept ==
  [][\A b \in blocks \cap DOMAIN data : data'[b] # data[b] =>
       AfterDirectory(b) \/ LastIndex[run.dir] + 1 = INDIRECT_BLK_INDEX]_vars

(* Whatever rm has freed, ext2_restore finds a block in use: it looks at   *)
(* number 0, and there at the bit of number 1.  So it writes nothing.      *)
RestoreRefused ==
  run.pc = "idle" => \A i \in DOMAIN FileBlocks : ~RestoreChecks(FileBlocks[i])

(* A directory gets the last component of the path as its name, and comes  *)
(* into the root if there is no other, but for paths of three characters   *)
(* and those that end in a slash.                                          *)
Parts(path) == {i \in 1..Len(path) : path[i] # Slash /\ (i = 1 \/ path[i - 1] = Slash)}
PathFollowed ==
  (run.pc \notin {"idle", "toggle"} /\ Len(run.arg) # 3 /\ run.arg[Len(run.arg)] # Slash) =>
    /\ ChildName(run.arg) = SubSeq(run.arg, Max(Parts(run.arg)), Len(run.arg))
    /\ Cardinality(Parts(run.arg)) = 1 => run.dir = EXT2_ROOT_INO

(* What a run remembers of its path.                                       *)
PathInv ==
  run.pc \notin {"idle", "toggle"} =>
    /\ run.arg \in Args /\ Valid(run.arg)
    /\ OneLevel(run.arg) => run.dir = EXT2_ROOT_INO

(***************************************************************************)
(* The inductive invariant behind TypeOK, NamedInodesMarked, NamedOnce and *)
(* RestoreRefused: a run that has set the bit of its inode knows that no   *)
(* entry names it, and rm frees no block with a number below 2.            *)
(***************************************************************************)
RunInv ==
  /\ DOMAIN run = DOMAIN Idle /\ run.rec \in Int
  /\ run.pc \notin {"idle", "toggle"} =>
       /\ run.dir \in Dirs /\ run.ino \in 0..NInodes /\ run.blk \in 0..NBlocks
       /\ ChildName(run.arg) \in Names
  /\ run.pc \in {"block", "inode"} => run.ino = run.ibm.avail
  /\ run.pc \in {"block", "inode", "used"} => run.bbm.avail \in 0..NBlocks
  /\ run.pc \in {"used", "entry", "fill", "hang"} =>
       /\ run.ino \in inodes
       /\ \A d \in Dirs : \A o \in Made(d) : ents[d][o].ino # run.ino
  /\ run.pc = "toggle" => run.todo \in Seq(2..(NBlocks - 1)) /\ run.todo # <<>>
ImageInv ==
  /\ TypeOK /\ DOMAIN data = 0..(NBlocks - 1)
  /\ 1 \in inodes /\ 1 \in blocks
  /\ RunInv /\ NamedInodesMarked /\ NamedOnce

(***************************************************************************)
(* The invariant behind MadeBlocksKept, UsedBlocksKept and BootBlockHit.   *)
(* read_bitmaps gives out the least free block, so what is free below the  *)
(* block of a directory has been freed by rm since.                        *)
(***************************************************************************)
Numbers == EXT2_GOOD_OLD_FIRST_INO..(NBlocks - 1)
FreedTwice(b) == Cardinality({c \in 1..(b - 1) : RmMayFree(c)}) >= 2
LowerUsed(b) ==
  \A c \in Numbers : c < b => c \in blocks \/ RmMayFree(c)
MadeBlockInv ==
  \A d \in Dirs : \A o \in Made(d) :
    LET b == ents[d][o].home IN
    \/ RmMayFree(b)
    \/ /\ b \in blocks /\ b \in Numbers /\ LowerUsed(b)
       /\ \/ data[b] = NewDir(ents[d][o].ino, d)
          \/ data[b] = Junk /\ (AfterDirectory(b) \/ FreedTwice(b))

(* The block of the run: free until it is used, and the least that was.    *)
Least(b) == b \in Numbers /\ \A c \in Numbers : c < b => c \in blocks
RunBlockInv ==
  /\ run.pc = "block" =>
       \/ run.blk \in Numbers \ blocks
       \/ /\ run.blk = 0
          /\ FreeBits(inodes, NInodes) = {} /\ FreeBits(blocks, NBlocks) = {}
  /\ run.pc \in {"block", "inode", "used"} =>
       run.bbm.avail = run.blk /\ run.bbm.left \in Nat
  /\ (run.pc \in {"block", "inode"} /\ run.ibm.avail # 0) \/ run.pc = "used" =>
       Least(run.blk) /\ run.blk \notin blocks
  /\ run.pc \in {"entry", "fill"} => Least(run.blk) /\ run.blk \in blocks
  /\ run.pc \in {"inode", "used", "entry", "fill"} => data[run.blk] = NewDir(run.ino, run.dir)
  /\ run.pc = "entry" =>
       /\ run.bbm.left \in Int
       /\ run.bbm.left < 1 \/ run.bbm.avail = FindFree(blocks, NBlocks)
       /\ \A d \in Dirs : \A o \in Made(d) :
            run.blk < ents[d][o].home => RmMayFree(run.blk) \/ RmMayFree(ents[d][o].home)
  /\ run.pc = "toggle" => \A b \in Range(run.todo) : RmMayFree(b)
BlockInv == NBlocks \in blocks /\ MadeBlockInv /\ RunBlockInv

(***************************************************************************)
(* The invariant behind WalkCovers, RemoveTakesOne and MkdirTakesNone: all *)
(* that was ever written in a block, also what no walk arrives at but a    *)
(* later run may bring back, leads to another entry or to the end.         *)
(***************************************************************************)
Leads(es, o) ==
  /\ es[o].rec \in Nat /\ Len(es[o].name) \in 0..12
  /\ es[o].rec = 0 => es[o].name = NoName
  /\ \/ es[o].rec = 0 \/ After(es, o) \in DOMAIN es
     \/ AtEnd(After(es, o)) /\ After(es, o) < USHORT
WalkInv ==
  /\ \A d \in Dirs : 0 \in DOMAIN ents[d] /\ \A o \in DOMAIN ents[d] : Leads(ents[d], o)
  /\ run.pc = "fill" =>
       /\ run.pos \in Nat /\ run.rec > 0
       /\ AtEnd(run.pos + run.rec) /\ run.pos + run.rec < USHORT
=============================================================================
