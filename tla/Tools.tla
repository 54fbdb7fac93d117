------------------------------- MODULE Tools -------------------------------
(***************************************************************************)
(* Runs of ext2_mkdir, ext2_rm and ext2_checker on one image, one after    *)
(* the other; ext2_restore, which has no step, as it never gets as far as  *)
(* a write (RestoreRefused in Image).                                      *)
(*                                                                         *)
(* ext2_rm and ext2_restore look at IND_TABLE[n] for inode n, which is     *)
(* inode n + 1.                                                            *)
(***************************************************************************)
EXTENDS Mkdir

CONSTANT FileBlocks   \* the blocks of every inode with one link, in order

(* Where entries are removed they lie twelve bytes apart, so that an entry *)
(* that is written where others have been lies on one of them.             *)
Removable(d) == d \in Dirs /\ d - 1 \in Dirs /\ LastIndex[d] = 0
ASSUME FilesAssumption ==
  /\ DOMAIN FileBlocks \subseteq (1..NInodes) \ Dirs
  /\ \A i \in DOMAIN FileBlocks :
       FileBlocks[i] \in Seq(2..(NBlocks - 1)) /\ FileBlocks[i] # <<>>
  /\ \A d \in Dirs : Removable(d) => \A o \in DOMAIN FirstEntries[d] : o % 12 = 0
USHORT == 65536       \* rec_len has 16 bits

(***************************************************************************)
(* ext2_rm.  It looks for the name in directory p, but removes it from     *)
(* directory p + 1; a name that begins with "." is found as ".", a         *)
(* directory.  In a directory of more than one block it would follow       *)
(* pointers that it has not set.                                           *)
(***************************************************************************)
Position(d, name) == SelectInSeq(Walk(d), LAMBDA o : Matches(ents[d][o], name))
Found(p, name) ==
  LET ino == DirEntryExists(p, name)
  IN ino # 0 /\ ino + 1 <= NInodes /\ ino + 1 \notin Dirs

(* rm_inode: the blocks of the inode but for the first, and then number 0, *)
(* whose bit is half a gigabyte behind the bitmap: the process dies there, *)
(* and the inode's own bit is never reached.                               *)
RmBlocks(ino) == IF ino + 1 \in DOMAIN FileBlocks THEN Tail(FileBlocks[ino + 1]) ELSE <<>>
Toggling(blks) == IF blks = <<>> THEN Idle ELSE [Idle EXCEPT !.pc = "toggle", !.todo = blks]

(* Seeded bug: the entry before gets the length of the removed one.        *)
GrownSet(prev, e) == [prev EXCEPT !.rec = e.rec]
Grown(prev, e) == [prev EXCEPT !.rec = (@ + e.rec) % USHORT]

RmDirEntry(arg) ==
  LET p == Parent(arg)
      d == p + 1
      i == Position(d, ChildName(arg))
  IN
  /\ run.pc = "idle"
  /\ FoundBits(inodes, NInodes, blocks, NBlocks) # 0
  /\ Valid(arg) /\ p \in Dirs /\ Removable(d) /\ Found(p, ChildName(arg))
  /\ i > 1
  /\ \E prev, curr \in DOMAIN ents[d] :
       /\ prev = Walk(d)[i - 1] /\ curr = Walk(d)[i]
       /\ ents' = [ents EXCEPT ![d][prev] = Grown(@, ents[d][curr])]
       /\ run' = Toggling(RmBlocks(ents[d][curr].ino))
  /\ UNCHANGED <<inodes, blocks, desc, data>>

(* set_n_toggle_bit, one block at a time.                                  *)
ToggleBlock ==
  /\ run.pc = "toggle"
  /\ blocks' = Toggled(blocks, Head(run.todo))
  /\ run' = Toggling(Tail(run.todo))
  /\ UNCHANGED <<inodes, desc, ents, data>>

(***************************************************************************)
(* ext2_restore: the blocks behind the first of the inode, and number 0,   *)
(* must not be in use.  The inodes with blocks are files and directories.  *)
(***************************************************************************)
RestoreChecks(blks) ==
  \A n \in Range(Tail(blks)) \cup {0} : ~CheckBit(blocks, n)

(***************************************************************************)
(* ext2_checker does not fill its globals: it puts their zeros into the    *)
(* group descriptor, and dies at the inode table.                          *)
(***************************************************************************)
CheckFreeCounts ==
  /\ run.pc = "idle"
  /\ desc' = [inodes |-> 0, blocks |-> 0]
  /\ UNCHANGED <<inodes, blocks, ents, data, run>>

(* The process is killed, or the machine stops after the write.            *)
Stop ==
  /\ run.pc # "idle"
  /\ run' = Idle
  /\ UNCHANGED <<inodes, blocks, desc, ents, data>>

Next ==
  \/ Mkdir
  \/ \E arg \in Args : RmDirEntry(arg)
  \/ ToggleBlock \/ CheckFreeCounts \/ Stop

Spec == Init /\ [][Next]_vars
=============================================================================
