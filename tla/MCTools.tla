------------------------------ MODULE MCTools ------------------------------
(***************************************************************************)
(* A small image for TLC: the root, with room for one more entry, whose    *)
(* name may go on in block 12; lost+found, of twelve blocks; a directory   *)
(* of eleven blocks without room; and after it, which is where rm looks,   *)
(* one with two files, the first of which has a block for rm to free.      *)
(***************************************************************************)
EXTENDS Image

Chars(s) == [i \in 1..Len(s) |-> SubSeq(s, i, i)]
EntryOf(name, ino, rec) == [name |-> Chars(name), ino |-> ino, rec |-> rec, cut |-> FALSE,
                           home |-> NoHome]

MCDirs == {2, 11, 12, 13}
Dots(d) == <<EntryOf(".", d, 12), EntryOf("..", 2, 88)>>
MCOlder == 2 :> <<>> @@ 11 :> Dots(11) @@ 12 :> Dots(12) @@ 13 :> <<>>
MCFirstEntries ==
  2 :> (0 :> EntryOf(".", 2, 12) @@ 12 :> EntryOf("..", 2, 12) @@
        24 :> EntryOf("lost+found", 11, 20) @@ 44 :> EntryOf("eleven+blk", 12, 32) @@
        76 :> EntryOf("d1", 13, 24)) @@
  11 :> (0 :> EntryOf("file", 3, 100)) @@
  12 :> (0 :> EntryOf("file", 3, 88) @@ 88 :> EntryOf("file", 3, 12)) @@
  13 :> (0 :> EntryOf(".", 13, 12) @@ 12 :> EntryOf("..", 2, 12) @@
         24 :> EntryOf("fi", 3, 24) @@ 48 :> EntryOf("file", 5, 52))
MCLastIndex == 2 :> 0 @@ 11 :> 11 @@ 12 :> 10 @@ 13 :> 0
MCLastBlock == 2 :> 11 @@ 11 :> 9 @@ 12 :> 7 @@ 13 :> 3
MCFileBlocks == 4 :> <<16, 13>>

Used(size, free) == (1..size) \ free
MCInodeImages == {Used(16, free) : free \in {{14, 15}}}
MCBlockImages == {Used(24, free) : free \in {{12}, {12, 14, 15}}}

MCArgs == {Chars(arg) : arg \in {"/.x", "//..long", "/d1/.ten+bytes", "/d1/file",
                                 "/eleven+blk/file", "/lost+found/.x"}}
=============================================================================
