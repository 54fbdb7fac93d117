------------------------------- MODULE Mkdir -------------------------------
(***************************************************************************)
(* Runs of ext2_mkdir, one after the other, on an image that is mapped     *)
(* shared: what a run has stored stays, wherever it is stopped.  A step is *)
(* what lies between two points where a stop makes a difference to the     *)
(* image; the run writes, in this order, the block of the new directory,   *)
(* the inode bitmap, the block bitmap, and the entry in the parent.        *)
(***************************************************************************)
EXTENDS Bitmaps, Paths, SequencesExt

CONSTANTS
  NInodes, NBlocks,   \* s_inodes_count, s_blocks_count
  EXT2_BLOCK_SIZE,    \* 1024 in an image
  Dirs,               \* inode numbers of the directories of the first image
  Older,              \* their entries in all blocks but the last, in order
  FirstEntries,       \* their entries in the last block, by offset
  LastIndex,          \* the index of the last block in i_block
  LastBlock,          \* and its number
  InodeImages,        \* inode bitmaps, block bitmaps of the images to start with
  BlockImages,
  Args                \* paths on the command line

EXT2_ROOT_INO == 2
INDIRECT_BLK_INDEX == 11
NoName == <<>>        \* name_len is 0, which makes the entry match every name

(* TRUE_FILE_SIZE leaves out the eight bytes before the name.              *)
TrueFileSize(len) == IF len <= 12 THEN 12 ELSE len + ((4 - (len % 4)) % 4)
HeaderSize == 8

Names == {ChildName(arg) : arg \in {a \in Args : Valid(a)}}

ASSUME ImageAssumption ==
  /\ NInodes \in Nat /\ NBlocks \in Nat \ {0} /\ EXT2_BLOCK_SIZE \in Nat
  /\ NInodes % 8 = 0 /\ NBlocks % 8 = 0
  /\ EXT2_ROOT_INO \in Dirs /\ Dirs \subseteq 1..NInodes
  /\ \A i \in InodeImages : i \subseteq 1..NInodes /\ 1 \in i /\ Dirs \subseteq i
  /\ \A b \in BlockImages : b \subseteq 1..NBlocks /\ {1, NBlocks} \subseteq b
  /\ \A d \in Dirs : LastIndex[d] \in 0..11 /\ LastBlock[d] \in 1..(NBlocks - 1)
  /\ \A b \in BlockImages, d \in Dirs : LastBlock[d] \in b

(* What is in an entry, and whether a name of more than four bytes has     *)
(* lost its end to the next entry.  If a run of mkdir has written it as it *)
(* is, home is the block of the new directory.                             *)
NoHome == -1
Entry == [name : Seq(STRING), ino : Nat, rec : Int, cut : BOOLEAN, home : Int]

(* Of a name longer than four bytes that the next entry overwrites, its    *)
(* inode number gets bytes 4..7 and its rec_len bytes 8 and 9: with the    *)
(* lengths below rec_len is zero or two letters.                           *)
LengthsKnown == 1..8 \cup {10}
ASSUME NamesAssumption ==
  /\ Args \subseteq Seq(STRING)
  /\ \A n \in Names : n \in Seq(STRING) /\ Len(n) \in LengthsKnown
  /\ DOMAIN FirstEntries = Dirs
  /\ \A d \in Dirs :
       /\ {0} \subseteq DOMAIN FirstEntries[d]
       /\ DOMAIN FirstEntries[d] \subseteq 0..(EXT2_BLOCK_SIZE - 1)
       /\ \A o \in DOMAIN FirstEntries[d] :
            /\ FirstEntries[d][o] \in Entry /\ FirstEntries[d][o].home = NoHome
            /\ Len(FirstEntries[d][o].name) \in LengthsKnown
  /\ \A d, e \in Dirs : LastBlock[e] # LastBlock[d] + 1
Letters == 25710      \* "nd", as any two letters more than EXT2_BLOCK_SIZE

(* In the first image every entry leads to another one, or to the end of   *)
(* its block.                                                              *)
ASSUME WalkAssumption ==
  /\ EXT2_BLOCK_SIZE <= 1024
  /\ \A d \in Dirs : \A o \in DOMAIN FirstEntries[d] :
       LET rec == FirstEntries[d][o].rec
       IN rec > 0 /\ o + rec \in DOMAIN FirstEntries[d] \cup {EXT2_BLOCK_SIZE}

VARIABLES
  inodes, blocks,   \* the bitmaps
  desc,             \* the free counts of the group descriptor
  ents,             \* every entry written in the last block of a directory, by offset
  data,             \* blocks that a run has written, as a whole
  run               \* the run: its place and what it holds

vars == <<inodes, blocks, desc, ents, data, run>>

NoBits == [avail |-> 0, left |-> 0]
Idle == [pc |-> "idle", arg |-> <<>>, dir |-> 0, ino |-> 0, blk |-> 0, rec |-> 0,
         last |-> 0, pos |-> 0, todo |-> <<>>, ibm |-> NoBits, bbm |-> NoBits]
Old == [what |-> "old", ino |-> 0, dir |-> 0]     \* a block of the first image
Junk == [what |-> "junk", ino |-> 0, dir |-> 0]   \* with parts of entries in it
NewDir(ino, dir) == [what |-> "dir", ino |-> ino, dir |-> dir]
InImage(b) == b \in 0..(NBlocks - 1)

Init ==
  /\ inodes \in InodeImages /\ blocks \in BlockImages
  /\ desc = [inodes |-> Cardinality((1..NInodes) \ inodes),
             blocks |-> Cardinality((1..NBlocks) \ blocks)]
  /\ ents = FirstEntries
  /\ data = [b \in 0..(NBlocks - 1) |-> Old]
  /\ run = Idle

(***************************************************************************)
(* Directory entries.                                                      *)
(***************************************************************************)

(* The offsets at which a walk over the last block of d arrives, in order. *)
(* Behind an entry of length 0 it stays where it is.                       *)
After(es, o) == o + es[o].rec
Ends(es, o) == After(es, o) = o \/ After(es, o) \notin DOMAIN es
WalkFrom(es) ==
  LET from[o \in DOMAIN es] ==
        IF Ends(es, o) THEN <<o>> ELSE <<o>> \o from[After(es, o)]
  IN from
Walk(d) == WalkFrom(ents[d])[0]
Reached(d) == {Walk(d)[i] : i \in DOMAIN Walk(d)}
LastOffset(d) == Walk(d)[Len(Walk(d))]

Matches(e, name) == ~e.cut /\ IsPrefix(e.name, name)

(* dir_entry_exists for one component: the inode of the first entry whose  *)
(* name the component begins with, 0 if there is none.  Block 11 is taken  *)
(* for an indirect block, and its entries for the numbers of blocks.       *)
Searched(d) ==
  Older[d] \o (IF LastIndex[d] = INDIRECT_BLK_INDEX THEN <<>>
               ELSE [i \in DOMAIN Walk(d) |-> ents[d][Walk(d)[i]]])
DirEntryExists(d, name) ==
  LET i == SelectInSeq(Searched(d), LAMBDA e : Matches(e, name))
  IN IF i = 0 THEN 0 ELSE Searched(d)[i].ino

(* The parent is the root for a path of one component, else what is found  *)
(* for the first component, however many there are.  A directory that a    *)
(* run has made has no blocks in its inode, in which nothing is found.     *)
Parent(arg) == IF OneLevel(arg) THEN EXT2_ROOT_INO
               ELSE DirEntryExists(EXT2_ROOT_INO, ParentName(arg))

(***************************************************************************)
(* The steps of a run.                                                     *)
(***************************************************************************)

(* Everything up to the first write; a run that exits before it is no      *)
(* step.  The run goes on if the name is found in the parent.              *)
Start(arg) ==
  LET hits == BlockHits(inodes, NInodes, blocks, NBlocks)
      ibm == ReadBitmap(inodes, NInodes, 1, desc.inodes)
      bbm == ReadBitmap(blocks, NBlocks, hits, desc.blocks)
  IN
  /\ run.pc = "idle"
  /\ FoundBits(inodes, NInodes, blocks, NBlocks) # 0
  /\ Valid(arg) /\ Parent(arg) \in Dirs
  /\ DirEntryExists(Parent(arg), ChildName(arg)) # 0
  /\ desc.inodes >= 1 /\ desc.blocks >= 1
  /\ run' = [Idle EXCEPT !.pc = "block", !.arg = arg, !.dir = Parent(arg), !.ino = ibm.avail,
                         !.blk = bbm.avail, !.ibm = ibm, !.bbm = bbm]
  /\ UNCHANGED <<inodes, blocks, desc, ents, data>>

(* ".." and "." of the new directory.  Its inode is written on the stack.  *)
WriteBlock ==
  /\ run.pc = "block"
  /\ data' = [data EXCEPT ![run.blk] = NewDir(run.ino, run.dir)]
  /\ run' = [run EXCEPT !.pc = "inode"]
  /\ UNCHANGED <<inodes, blocks, desc, ents>>

(* Seeded bug: the bit is set in a copy, as the fields of the inode are.   *)
UseInodeCopy ==
  /\ run.pc = "inode" /\ BitOf(run.ibm) \notin inodes
  /\ run' = [run EXCEPT !.pc = "used", !.ibm = AfterUse(@, inodes, NInodes)]
  /\ UNCHANGED <<inodes, blocks, desc, ents, data>>
UseInode ==
  /\ run.pc = "inode" /\ BitOf(run.ibm) \notin inodes
  /\ inodes' = inodes \cup {BitOf(run.ibm)}
  /\ run' = [run EXCEPT !.pc = "used", !.ibm = AfterUse(@, inodes, NInodes)]
  /\ UNCHANGED <<blocks, desc, ents, data>>

InodeTaken ==
  /\ run.pc = "inode" /\ BitOf(run.ibm) \in inodes
  /\ run' = Idle
  /\ UNCHANGED <<inodes, blocks, desc, ents, data>>

(* If there was a free inode then the block is a free one too.             *)
UseBlock ==
  /\ run.pc = "used"
  /\ blocks' = blocks \cup {BitOf(run.bbm)}
  /\ run' = [run EXCEPT !.pc = "entry", !.bbm = AfterUse(@, blocks, NBlocks)]
  /\ UNCHANGED <<inodes, desc, ents, data>>

(***************************************************************************)
(* mk_dir_entry.                                                           *)
(***************************************************************************)
LastEntry(d) == ents[d][LastOffset(d)]
(* Seeded bug: all of the last entry counts as padding.                    *)
PaddingWhole(d) == LastEntry(d).rec
Padding(d) == LastEntry(d).rec - TrueFileSize(Len(LastEntry(d).name))
Fits(d, arg) == Padding(d) >= TrueFileSize(Len(ChildName(arg)))

(* A last block of index 11 is taken for a list of numbers that ends at    *)
(* the address 0, and an entry of length 0 is followed by itself.          *)
Endless(d) ==
  \/ LastIndex[d] = INDIRECT_BLK_INDEX
  \/ LastEntry(d).rec = 0

Hang ==
  /\ run.pc = "entry" /\ Endless(run.dir)
  /\ run' = [run EXCEPT !.pc = "hang"]
  /\ UNCHANGED <<inodes, blocks, desc, ents, data>>

Scribble(bs) == [b \in DOMAIN data |-> IF b \in bs THEN Junk ELSE data[b]]

(* No room: the entry goes into another block, the number of which is      *)
(* written into a copy of the parent, and which is not marked.  Behind     *)
(* eleven blocks it takes two.  A number outside of the image is an        *)
(* address outside of the mapping, and an exit without space writes        *)
(* nothing.                                                                *)
Spilled(bm) ==
  LET first == FindNth(bm, blocks, NBlocks, 1)
      second == FindNth(bm, blocks, NBlocks, 2)
  IN CASE LastIndex[run.dir] + 1 < INDIRECT_BLK_INDEX ->
            IF bm.left < 1 THEN {} ELSE {bm.avail}
       [] LastIndex[run.dir] + 1 = INDIRECT_BLK_INDEX ->
            IF bm.left < 2 \/ ~InImage(first) THEN {} ELSE {first, second}

Spill ==
  /\ run.pc = "entry" /\ ~Endless(run.dir) /\ ~Fits(run.dir, run.arg)
  /\ data' = Scribble(Spilled(run.bbm))
  /\ run' = Idle
  /\ UNCHANGED <<inodes, blocks, desc, ents>>

(* The last entry gives its padding away, and what lies behind it becomes  *)
(* an entry: one that has been there before, or the end of a name.         *)
Behind(e) ==
  [name |-> NoName, cut |-> FALSE, home |-> NoHome,
   ino |-> IF Len(e.name) > 4 THEN Letters ELSE 0,
   rec |-> IF Len(e.name) > 8 THEN Letters ELSE 0]
Shrink ==
  LET d == run.dir IN
  /\ run.pc = "entry" /\ ~Endless(d) /\ Fits(d, run.arg)
  /\ \E last \in DOMAIN ents[d] :
       LET pos == last + TrueFileSize(Len(LastEntry(d).name))
           bare == pos < EXT2_BLOCK_SIZE /\ pos \notin DOMAIN ents[d]
       IN /\ last = LastOffset(d)
          /\ ents' = [ents EXCEPT ![d] =
               [o \in DOMAIN ents[d] \cup (IF bare THEN {pos} ELSE {}) |->
                  IF o = last THEN [LastEntry(d) EXCEPT !.rec = pos - last]
                  ELSE IF o \in DOMAIN ents[d] THEN ents[d][o]
                  ELSE Behind(LastEntry(d))]]
          /\ run' = [run EXCEPT !.pc = "fill", !.rec = Padding(d), !.last = last, !.pos = pos]
  /\ UNCHANGED <<inodes, blocks, desc, data>>

(* The new entry.  The end of a name before it is lost, and so are the     *)
(* first bytes of an entry that has been where its own name ends.  Its     *)
(* name may be longer than the padding: then it goes on in the next block  *)
(* of the image.                                                           *)
(* Seeded bug: the pointer has not moved on from the last entry.           *)
TargetLast == run.last
Target == run.pos
Filled == [name |-> ChildName(run.arg), ino |-> run.ino, rec |-> run.rec,
           cut |-> FALSE, home |-> run.blk]
Overwritten(o) ==
  LET e == ents[run.dir][o]  n == Len(ChildName(run.arg)) IN
  CASE o = run.last -> [e EXCEPT !.cut = @ \/ Len(e.name) > 4]
    [] o = run.pos + 12 -> [e EXCEPT !.ino = IF n > 4 THEN Letters ELSE @,
                                     !.rec = IF n > 8 THEN Letters ELSE @,
                                     !.home = IF n > 4 THEN NoHome ELSE @]
    [] OTHER -> e
Fill ==
  LET d == run.dir
      end == run.pos + HeaderSize + Len(ChildName(run.arg))
  IN
  /\ run.pc = "fill"
  /\ ents' = [ents EXCEPT ![d] =
       [o \in DOMAIN ents[d] |-> IF o = Target THEN Filled ELSE Overwritten(o)]]
  /\ data' = Scribble(IF end > EXT2_BLOCK_SIZE THEN {LastBlock[d] + 1} ELSE {})
  /\ run' = Idle
  /\ UNCHANGED <<inodes, blocks, desc>>

Mkdir ==
  \/ \E arg \in Args : Start(arg)
  \/ WriteBlock \/ UseInode \/ InodeTaken \/ UseBlock
  \/ Hang \/ Spill \/ Shrink \/ Fill
=============================================================================
