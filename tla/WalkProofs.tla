----------------------------- MODULE WalkProofs -----------------------------
(***************************************************************************)
(* Proof of what the tools do to the walk over a directory: rm takes one   *)
(* entry out of it, mkdir none, and it does not end inside the block; and  *)
(* of what mkdir makes of its path.                                        *)
(***************************************************************************)
EXTENDS ImageProofs

(***************************************************************************)
(* The walk, from any offset of a block.                                   *)
(***************************************************************************)

(* A block in which nothing leads backwards.                               *)
Block(es) ==
  /\ DOMAIN es \subseteq 0..(EXT2_BLOCK_SIZE - 1)
  /\ \A o \in DOMAIN es : es[o].rec \in Nat

(* The recursive definition of WalkFrom has a solution: it is built from   *)
(* the end of the block.                                                   *)
WalkStep(es, f, o) == IF Ends(es, o) THEN <<o>> ELSE <<o>> \o f[After(es, o)]
LEMMA WalkExists ==
  ASSUME NEW es, Block(es), EXT2_BLOCK_SIZE \in Nat
  PROVE  \E f : f = [o \in DOMAIN es |-> WalkStep(es, f, o)]
<1> DEFINE D == DOMAIN es
           Above(n) == {o \in D : o >= n}
           Solves(n, f) == f = [o \in Above(n) |-> WalkStep(es, f, o)]
           T == {n \in 0..EXT2_BLOCK_SIZE : ~ \E f : Solves(n, f)}
<1>1. EXT2_BLOCK_SIZE \notin T
  <2>1. Above(EXT2_BLOCK_SIZE) = {}
    BY DEF Block
  <2>2. PICK f : f = [o \in {} |-> <<o>>]
    OBVIOUS
  <2>3. Solves(EXT2_BLOCK_SIZE, f)
    BY <2>1, <2>2
  <2> QED
    BY <2>3
<1>2. ASSUME NEW n \in 0..EXT2_BLOCK_SIZE, n \in T, \A u \in T : u <= n PROVE FALSE
  <2>1. n + 1 \in 0..EXT2_BLOCK_SIZE /\ n + 1 \notin T
    <3> HIDE DEF T
    <3> QED
      BY <1>1, <1>2
  <2>2. PICK f : Solves(n + 1, f)
    BY <2>1
  <2> DEFINE g == [o \in Above(n) |-> WalkStep(es, f, o)]
  <2>3. ASSUME NEW o \in Above(n) PROVE WalkStep(es, g, o) = WalkStep(es, f, o)
    <3>1. CASE Ends(es, o)
      BY <3>1 DEF WalkStep
    <3>2. CASE ~Ends(es, o)
      <4>1. PICK p : p = After(es, o)
        OBVIOUS
      <4>2. p \in D /\ p > o /\ p \in Above(n) /\ p \in Above(n + 1)
        BY <3>2, <4>1 DEF Ends, After, Block
      <4>3. g[p] = WalkStep(es, f, p) /\ f[p] = WalkStep(es, f, p)
        BY <2>2, <4>2
      <4> HIDE DEF g
      <4> QED
        BY <3>2, <4>1, <4>3 DEF WalkStep
    <3> QED
      BY <3>1, <3>2
  <2>4. Solves(n, g)
    BY <2>3
  <2> QED
    BY <1>2, <2>4
<1>3. T = {}
  <2>1. T \in SUBSET (0..EXT2_BLOCK_SIZE)
    OBVIOUS
  <2> HIDE DEF T
  <2> QED
    BY <1>2, <2>1, GreatestNumber
<1>4. PICK f : Solves(0, f)
  <2>1. 0 \in 0..EXT2_BLOCK_SIZE /\ 0 \notin T
    <3> HIDE DEF T
    <3> QED
      BY <1>3
  <2> QED
    BY <2>1
<1>5. Above(0) = D
  <2>1. \A o \in D : o >= 0
    BY DEF Block
  <2> QED
    BY <2>1
<1> QED
  BY <1>4, <1>5

LEMMA WalkEquation ==
  ASSUME NEW es, Block(es), EXT2_BLOCK_SIZE \in Nat
  PROVE  \A o \in DOMAIN es :
           WalkFrom(es)[o] = IF Ends(es, o) THEN <<o>>
                             ELSE <<o>> \o WalkFrom(es)[After(es, o)]
<1> DEFINE f == WalkFrom(es)
<1>1. f = [o \in DOMAIN es |-> WalkStep(es, f, o)]
  BY WalkExists DEF WalkFrom, WalkStep
<1> HIDE DEF f
<1>2. \A o \in DOMAIN es : f[o] = WalkStep(es, f, o)
  BY <1>1
<1> QED
  BY <1>2 DEF f, WalkStep

(* What a walk from o is, step by step.                                    *)
IsWalk(es, o, s) ==
  /\ s \in Seq(DOMAIN es) /\ Len(s) \in Nat \ {0} /\ s[1] = o
  /\ \A i \in 1..(Len(s) - 1) : ~Ends(es, s[i]) /\ s[i + 1] = After(es, s[i])
  /\ Ends(es, s[Len(s)])

LEMMA WalkOneMore ==
  ASSUME NEW es, NEW o \in DOMAIN es, ~Ends(es, o), NEW s, IsWalk(es, After(es, o), s)
  PROVE  IsWalk(es, o, <<o>> \o s)
<1> DEFINE t == <<o>> \o s
<1>1. s \in Seq(DOMAIN es) /\ Len(s) \in Nat \ {0} /\ <<o>> \in Seq(DOMAIN es)
  BY DEF IsWalk
<1>2. /\ t \in Seq(DOMAIN es) /\ Len(t) = 1 + Len(s)
      /\ \A i \in 1..(1 + Len(s)) : t[i] = IF i <= 1 THEN <<o>>[i] ELSE s[i - 1]
  BY <1>1, ConcatProperties
<1>3. t[1] = o /\ \A i \in 2..(1 + Len(s)) : t[i] = s[i - 1]
  BY <1>1, <1>2
<1> HIDE DEF t
<1>4. ASSUME NEW i \in 1..(Len(t) - 1)
      PROVE  ~Ends(es, t[i]) /\ t[i + 1] = After(es, t[i])
  <2>1. CASE i = 1
    <3>1. t[2] = s[1]
      BY <1>1, <1>3
    <3> QED
      BY <1>3, <2>1, <3>1 DEF IsWalk
  <2>2. CASE i # 1
    <3>1. i - 1 \in 1..(Len(s) - 1) /\ (i - 1) + 1 = i /\ (i + 1) - 1 = i
      BY <1>1, <1>2, <2>2
    <3>2. t[i] = s[i - 1] /\ t[i + 1] = s[i]
      BY <1>1, <1>2, <1>3, <2>2
    <3> QED
      BY <3>1, <3>2 DEF IsWalk
  <2> QED
    BY <2>1, <2>2
<1>5. t[Len(t)] = s[Len(s)]
  BY <1>1, <1>2, <1>3
<1>6. IsWalk(es, o, t)
  BY <1>1, <1>2, <1>3, <1>4, <1>5 DEF IsWalk
<1> QED
  BY <1>6 DEF t

LEMMA WalkIs ==
  ASSUME NEW es, Block(es), EXT2_BLOCK_SIZE \in Nat, NEW o \in DOMAIN es
  PROVE  IsWalk(es, o, WalkFrom(es)[o])
<1> DEFINE f == WalkFrom(es)
           T == {p \in DOMAIN es : ~IsWalk(es, p, f[p])}
<1>1. \A p \in DOMAIN es : f[p] = IF Ends(es, p) THEN <<p>> ELSE <<p>> \o f[After(es, p)]
  BY WalkEquation
<1> HIDE DEF f
<1>2. ASSUME NEW p \in T, \A u \in T : u <= p PROVE FALSE
  <2>1. CASE Ends(es, p)
    <3>1. f[p] = <<p>>
      BY <1>1, <2>1
    <3>2. <<p>> \in Seq(DOMAIN es) /\ Len(<<p>>) = 1 /\ <<p>>[1] = p
      OBVIOUS
    <3>3. IsWalk(es, p, <<p>>)
      BY <2>1, <3>2 DEF IsWalk
    <3> QED
      BY <3>1, <3>3
  <2>2. CASE ~Ends(es, p)
    <3>1. After(es, p) \in DOMAIN es /\ After(es, p) > p
      BY <2>2 DEF Ends, After, Block
    <3>2. ~(After(es, p) <= p)
      BY <3>1 DEF Block
    <3>3. After(es, p) \notin T
      <4> HIDE DEF T
      <4> QED
        BY <1>2, <3>2
    <3>4. IsWalk(es, After(es, p), f[After(es, p)])
      BY <3>1, <3>3
    <3>5. IsWalk(es, p, <<p>> \o f[After(es, p)])
      BY <2>2, <3>4, WalkOneMore
    <3> QED
      BY <1>1, <2>2, <3>5
  <2> QED
    BY <2>1, <2>2
<1>3. T = {}
  <2>1. T \in SUBSET (0..EXT2_BLOCK_SIZE)
    BY DEF Block
  <2> HIDE DEF T
  <2> QED
    BY <1>2, <2>1, GreatestNumber
<1> QED
  BY <1>3 DEF f

(* Where a walk arrives: the least set that it cannot leave.               *)
Keeps(es, S) == \A o \in S \cap DOMAIN es : ~Ends(es, o) => After(es, o) \in S
Visited(s) == {s[i] : i \in DOMAIN s}
LEMMA WalkSet ==
  ASSUME NEW es, NEW o, NEW s, IsWalk(es, o, s)
  PROVE  /\ o \in Visited(s) /\ Visited(s) \subseteq DOMAIN es /\ Keeps(es, Visited(s))
         /\ s[Len(s)] \in Visited(s)
         /\ \A S : o \in S /\ Keeps(es, S) => Visited(s) \subseteq S
<1>1. s \in Seq(DOMAIN es) /\ Len(s) \in Nat \ {0} /\ DOMAIN s = 1..Len(s)
  BY LenProperties DEF IsWalk
<1> DEFINE R == {s[i] : i \in 1..Len(s)}
<1>2. \A i \in 1..Len(s) : s[i] \in DOMAIN es
  BY <1>1, ElementOfSeq
<1>3. Keeps(es, R)
  <2>1. ASSUME NEW i \in 1..Len(s), ~Ends(es, s[i]) PROVE After(es, s[i]) \in R
    <3>1. i \in 1..(Len(s) - 1)
      BY <1>1, <2>1 DEF IsWalk
    <3>2. i + 1 \in 1..Len(s) /\ s[i + 1] = After(es, s[i])
      BY <1>1, <3>1 DEF IsWalk
    <3> QED
      BY <3>2
  <2> QED
    BY <2>1 DEF Keeps
<1>4. 1 \in 1..Len(s) /\ Len(s) \in 1..Len(s) /\ o = s[1]
  BY <1>1 DEF IsWalk
<1>5. ASSUME NEW S, o \in S, Keeps(es, S) PROVE R \subseteq S
  <2> DEFINE T == {i \in 1..Len(s) : s[i] \notin S}
  <2>1. ASSUME NEW i \in T, \A j \in T : i <= j PROVE FALSE
    <3>1. i # 1
      BY <1>4, <1>5
    <3>2. i - 1 \in 1..(Len(s) - 1) /\ i - 1 \in 1..Len(s) /\ (i - 1) + 1 = i /\ ~(i <= i - 1)
      BY <1>1, <3>1
    <3>3. i - 1 \notin T
      <4> HIDE DEF T
      <4> QED
        BY <2>1, <3>2
    <3>4. s[i - 1] \in S /\ s[i - 1] \in DOMAIN es
      BY <1>2, <3>2, <3>3
    <3>5. ~Ends(es, s[i - 1]) /\ s[i] = After(es, s[i - 1])
      BY <3>2 DEF IsWalk
    <3> QED
      BY <1>5, <3>4, <3>5 DEF Keeps
  <2>2. T = {}
    <3>1. T \in SUBSET Nat /\ IsFiniteSet(T)
      <4>1. IsFiniteSet(1..Len(s)) /\ T \subseteq 1..Len(s)
        BY <1>1, FS_Interval
      <4> QED
        BY <1>1, <4>1, FS_Subset
    <3> HIDE DEF T
    <3> QED
      BY <2>1, <3>1, LeastNumber
  <2> QED
    BY <2>2
<1> HIDE DEF R
<1>6. Visited(s) = R
  BY <1>1 DEF R, Visited
<1>7. o \in R /\ s[Len(s)] \in R /\ R \subseteq DOMAIN es
  BY <1>2, <1>4 DEF R
<1> QED
  BY <1>3, <1>5, <1>6, <1>7

(***************************************************************************)
(* What the three steps that write entries do to a block.                  *)
(***************************************************************************)

(* The walk over the last block of a directory.                            *)
WalkOK(d) ==
  /\ DOMAIN ents[d] \subseteq 0..(EXT2_BLOCK_SIZE - 1) /\ Block(ents[d])
  /\ IsWalk(ents[d], 0, Walk(d))
  /\ 0 \in Reached(d) /\ Reached(d) \subseteq DOMAIN ents[d] /\ Keeps(ents[d], Reached(d))
  /\ \A S : 0 \in S /\ Keeps(ents[d], S) => Reached(d) \subseteq S
  /\ LastOffset(d) \in DOMAIN ents[d] /\ Ends(ents[d], LastOffset(d))

AllWalks == \A d \in Dirs : WalkOK(d)

LEMMA WalkFacts == ImageInv /\ WalkInv => AllWalks
<1> SUFFICES ASSUME ImageInv, WalkInv, NEW d \in Dirs PROVE WalkOK(d)
  BY DEF AllWalks
<1>1. EXT2_BLOCK_SIZE \in Nat
  BY ImageAssumption
<1>2. DOMAIN ents[d] \subseteq 0..(EXT2_BLOCK_SIZE - 1) /\ Block(ents[d]) /\ 0 \in DOMAIN ents[d]
  BY DEF ImageInv, TypeOK, BlockType, WalkInv, Leads, Block
<1>3. IsWalk(ents[d], 0, Walk(d))
  BY <1>1, <1>2, WalkIs DEF Walk
<1>4. /\ 0 \in Reached(d) /\ Reached(d) \subseteq DOMAIN ents[d] /\ Keeps(ents[d], Reached(d))
      /\ LastOffset(d) \in Reached(d)
      /\ \A S : 0 \in S /\ Keeps(ents[d], S) => Reached(d) \subseteq S
  <2>1. Reached(d) = Visited(Walk(d))
    BY DEF Reached, Visited
  <2> QED
    BY <1>3, <2>1, WalkSet DEF LastOffset
<1>5. Ends(ents[d], LastOffset(d))
  BY <1>3 DEF IsWalk, LastOffset
<1> QED
  BY <1>2, <1>3, <1>4, <1>5 DEF WalkOK

LEMMA WalkFactsNext == ImageInv' /\ WalkInv' => AllWalks'
BY WalkFacts, PTL

(* No name is so long that its entry needs more than twelve bytes.         *)
LEMMA ShortNames ==
  /\ \A len \in 0..12 : TrueFileSize(len) = 12
  /\ \A n \in Names : Len(n) \in 1..12
  /\ Len(NoName) = 0
BY NamesAssumption DEF TrueFileSize, LengthsKnown, NoName

(* Shrink: the last entry keeps twelve bytes, and behind it there is one.  *)
Shrunk(d, last) ==
  LET es == ents[d]  fs == ents'[d]  pos == last + 12 IN
  /\ d = run.dir /\ last = LastOffset(d) /\ last \in DOMAIN es /\ es[last].rec > 12
  /\ After(es, last) \notin DOMAIN es
  /\ DOMAIN ents' = Dirs /\ \A c \in Dirs \ {d} : ents'[c] = ents[c]
  /\ DOMAIN es \subseteq DOMAIN fs /\ DOMAIN fs \subseteq DOMAIN es \cup {pos}
  /\ pos < EXT2_BLOCK_SIZE => pos \in DOMAIN fs
  /\ fs[last].rec = 12 /\ fs[last].name = es[last].name
  /\ \A o \in DOMAIN es \ {last} : fs[o] = es[o]
  /\ \A o \in DOMAIN fs \ DOMAIN es : fs[o].name = NoName /\ fs[o].rec \in {0, Letters}
  /\ run'.pc = "fill" /\ run'.rec = es[last].rec - 12 /\ run'.pos = pos

LEMMA ShrinkShape ==
  ASSUME ImageInv, WalkInv, Shrink
  PROVE  \E d \in Dirs, last \in Nat : Shrunk(d, last)
<1> DEFINE d == run.dir
<1>1. d \in Dirs /\ d = run.dir
  BY DEF Shrink, ImageInv, RunInv
<1>2. PICK last \in DOMAIN ents[d] :
        LET pos == last + TrueFileSize(Len(LastEntry(d).name))
            bare == pos < EXT2_BLOCK_SIZE /\ pos \notin DOMAIN ents[d]
        IN /\ last = LastOffset(d)
           /\ ents' = [ents EXCEPT ![d] =
                [o \in DOMAIN ents[d] \cup (IF bare THEN {pos} ELSE {}) |->
                   IF o = last THEN [LastEntry(d) EXCEPT !.rec = pos - last]
                   ELSE IF o \in DOMAIN ents[d] THEN ents[d][o]
                   ELSE Behind(LastEntry(d))]]
           /\ run' = [run EXCEPT !.pc = "fill", !.rec = Padding(d), !.last = last, !.pos = pos]
  BY DEF Shrink
<1> HIDE DEF d
<1> DEFINE es == ents[d]
           pos == last + 12
           new == IF pos < EXT2_BLOCK_SIZE /\ pos \notin DOMAIN es THEN {pos} ELSE {}
<1>3. /\ DOMAIN ents = Dirs /\ es[last] \in Entry /\ last \in Nat
      /\ LastEntry(d) = es[last] /\ Leads(es, last)
  BY <1>1, <1>2, ImageAssumption DEF ImageInv, TypeOK, BlockType, LastEntry, WalkInv
<1>4. TrueFileSize(Len(es[last].name)) = 12 /\ es[last].rec \in Nat
  BY <1>3, ShortNames DEF Leads
<1>5. /\ DOMAIN ents' = Dirs /\ \A c \in Dirs \ {d} : ents'[c] = ents[c]
      /\ ents'[d] = [o \in DOMAIN es \cup new |->
                      IF o = last THEN [es[last] EXCEPT !.rec = pos - last]
                      ELSE IF o \in DOMAIN es THEN es[o] ELSE Behind(es[last])]
  BY <1>1, <1>2, <1>3, <1>4
<1>6. /\ run'.pc = "fill" /\ run'.rec = Padding(d) /\ run'.pos = pos
  <2>1. DOMAIN run = DOMAIN Idle
    BY DEF ImageInv, RunInv
  <2> QED
    BY <1>2, <1>3, <1>4, <2>1 DEF Idle
<1>7. Padding(d) = es[last].rec - 12 /\ es[last].rec > 12
  <2>1. Padding(d) = es[last].rec - 12
    BY <1>3, <1>4 DEF Padding
  <2>2. TrueFileSize(Len(ChildName(run.arg))) = 12
    <3>1. ChildName(run.arg) \in Names
      BY DEF Shrink, ImageInv, RunInv
    <3>2. Len(ChildName(run.arg)) \in 0..12
      BY <3>1, ShortNames
    <3> QED
      BY <3>2, ShortNames
  <2>3. Padding(d) >= 12
    BY <1>1, <2>2 DEF Shrink, Fits
  <2> QED
    BY <1>4, <2>1, <2>3
<1>8. After(es, last) \notin DOMAIN es
  <2>1. Ends(es, last)
    BY <1>1, <1>2, WalkFacts DEF AllWalks, WalkOK
  <2> QED
    BY <1>3, <1>4, <1>7, <2>1 DEF Ends, After
<1>9. Behind(es[last]).name = NoName /\ Behind(es[last]).rec \in {0, Letters}
  BY DEF Behind
<1>10. [es[last] EXCEPT !.rec = pos - last].rec = 12
       /\ [es[last] EXCEPT !.rec = pos - last].name = es[last].name
  BY <1>3 DEF Entry
<1> HIDE DEF es
<1>11. /\ DOMAIN es \subseteq DOMAIN ents'[d] /\ DOMAIN ents'[d] \subseteq DOMAIN es \cup {pos}
       /\ pos < EXT2_BLOCK_SIZE => pos \in DOMAIN ents'[d]
       /\ ents'[d][last].rec = 12 /\ ents'[d][last].name = es[last].name
       /\ \A o \in DOMAIN es \ {last} : ents'[d][o] = es[o]
       /\ \A o \in DOMAIN ents'[d] \ DOMAIN es : ents'[d][o] = Behind(es[last])
  <2>1. last \in DOMAIN es
    BY <1>2 DEF es
  <2>2. PICK e : e = [es[last] EXCEPT !.rec = pos - last] /\ e.rec = 12 /\ e.name = es[last].name
    BY <1>10
  <2>3. PICK b : b = Behind(es[last])
    OBVIOUS
  <2>4. ents'[d] = [o \in DOMAIN es \cup new |->
                      IF o = last THEN e ELSE IF o \in DOMAIN es THEN es[o] ELSE b]
    BY <1>5, <2>2, <2>3
  <2>5. new \subseteq {pos} /\ (pos < EXT2_BLOCK_SIZE => pos \in DOMAIN es \cup new)
    OBVIOUS
  <2> HIDE DEF new, pos
  <2> QED
    BY <2>1, <2>2, <2>3, <2>4, <2>5
<1>12. Shrunk(d, last)
  BY <1>1, <1>2, <1>5, <1>6, <1>7, <1>8, <1>9, <1>11 DEF Shrunk, es
<1> QED
  BY <1>1, <1>3, <1>12

(* Fill: the new entry; the length of one entry behind it may be lost.     *)
FilledIn(d) ==
  LET es == ents[d]  fs == ents'[d] IN
  /\ d = run.dir /\ run.pc = "fill" /\ run'.pc = "idle" /\ run.rec \in Int
  /\ DOMAIN ents' = Dirs /\ \A c \in Dirs \ {d} : ents'[c] = ents[c]
  /\ DOMAIN fs = DOMAIN es
  /\ \A o \in DOMAIN es :
       IF o = run.pos THEN fs[o].rec = run.rec /\ Len(fs[o].name) \in 0..12
       ELSE /\ fs[o].name = es[o].name
            /\ fs[o].rec = es[o].rec \/ (o = run.pos + 12 /\ fs[o].rec = Letters)

LEMMA FillShape ==
  ASSUME ImageInv, Fill
  PROVE  \E d \in Dirs : FilledIn(d)
<1>1. PICK d \in Dirs : d = run.dir
  BY DEF Fill, ImageInv, RunInv
<1>2. /\ DOMAIN ents = Dirs /\ \A o \in DOMAIN ents[d] : ents[d][o] \in Entry
      /\ run.pc = "fill" /\ run.rec \in Int /\ ChildName(run.arg) \in Names
  BY <1>1 DEF ImageInv, TypeOK, BlockType, Fill, RunInv
<1>3. /\ DOMAIN ents' = Dirs /\ \A c \in Dirs \ {d} : ents'[c] = ents[c]
      /\ DOMAIN ents'[d] = DOMAIN ents[d]
      /\ \A o \in DOMAIN ents[d] :
           ents'[d][o] = IF o = run.pos THEN Filled ELSE Overwritten(o)
  BY <1>1, <1>2 DEF Fill, Target
<1>4. run'.pc = "idle"
  BY IdleRun DEF Fill
<1>5. Filled.rec = run.rec /\ Len(Filled.name) \in 0..12
  BY <1>2, ShortNames DEF Filled
<1>6. ASSUME NEW o \in DOMAIN ents[d]
      PROVE  /\ Overwritten(o).name = ents[d][o].name
             /\ \/ Overwritten(o).rec = ents[d][o].rec
                \/ o = run.pos + 12 /\ Overwritten(o).rec = Letters
  <2> DEFINE e == ents[d][o]
             n == Len(ChildName(run.arg))
  <2>1. e \in Entry
    BY <1>2
  <2>2. \/ Overwritten(o) = [e EXCEPT !.cut = @ \/ Len(e.name) > 4]
        \/ /\ o = run.pos + 12
           /\ Overwritten(o) = [e EXCEPT !.ino = IF n > 4 THEN Letters ELSE @,
                                         !.rec = IF n > 8 THEN Letters ELSE @,
                                         !.home = IF n > 4 THEN NoHome ELSE @]
        \/ Overwritten(o) = e
    BY <1>1 DEF Overwritten
  <2> HIDE DEF e, n
  <2>3. CASE Overwritten(o) = [e EXCEPT !.cut = @ \/ Len(e.name) > 4]
    BY <2>1, <2>3 DEF Entry, e
  <2>4. CASE /\ o = run.pos + 12
             /\ Overwritten(o) = [e EXCEPT !.ino = IF n > 4 THEN Letters ELSE @,
                                           !.rec = IF n > 8 THEN Letters ELSE @,
                                           !.home = IF n > 4 THEN NoHome ELSE @]
    BY <2>1, <2>4 DEF Entry, e
  <2> QED
    BY <2>2, <2>3, <2>4 DEF e
<1> QED
  BY <1>1, <1>2, <1>3, <1>4, <1>5, <1>6 DEF FilledIn

(* RmDirEntry: an entry gets the length of the next one in the walk.       *)
Removed(d, prev, curr) ==
  LET es == ents[d]  fs == ents'[d] IN
  /\ prev \in DOMAIN es /\ curr \in DOMAIN es /\ ~Ends(es, prev) /\ curr = After(es, prev)
  /\ DOMAIN ents' = Dirs /\ \A c \in Dirs \ {d} : ents'[c] = ents[c]
  /\ DOMAIN fs = DOMAIN es /\ run'.pc # "fill"
  /\ fs[prev].rec = es[prev].rec + es[curr].rec /\ fs[prev].name = es[prev].name
  /\ \A o \in DOMAIN es \ {prev} : fs[o] = es[o]

LEMMA RemoveShape ==
  ASSUME ImageInv, WalkInv, NEW arg \in Args, RmDirEntry(arg)
  PROVE  \E d \in Dirs, prev, curr \in Nat : Removed(d, prev, curr)
<1> DEFINE d == Parent(arg) + 1
           i == Position(d, ChildName(arg))
<1>1. d \in Dirs /\ i > 1
  BY DEF RmDirEntry, Removable
<1>2. PICK prev, curr \in DOMAIN ents[d] :
        /\ prev = Walk(d)[i - 1] /\ curr = Walk(d)[i]
        /\ ents' = [ents EXCEPT ![d][prev] = Grown(@, ents[d][curr])]
        /\ run' = Toggling(RmBlocks(ents[d][curr].ino))
  BY DEF RmDirEntry
<1> HIDE DEF d
<1>3. WalkOK(d) /\ IsWalk(ents[d], 0, Walk(d))
  BY <1>1, WalkFacts DEF AllWalks, WalkOK
<1>4. i \in 1..Len(Walk(d))
  <2> DEFINE I == {j \in 1..Len(Walk(d)) : Matches(ents[d][Walk(d)[j]], ChildName(arg))}
  <2>1. i = IF I # {} THEN Min(I) ELSE 0
    BY DEF Position, SelectInSeq
  <2>2. I # {}
    BY <1>1, <2>1
  <2>3. I \in SUBSET Nat /\ IsFiniteSet(I)
    <3>1. Len(Walk(d)) \in Nat
      BY <1>3 DEF IsWalk
    <3>2. IsFiniteSet(1..Len(Walk(d))) /\ I \subseteq 1..Len(Walk(d))
      BY <3>1, FS_Interval
    <3> QED
      BY <3>1, <3>2, FS_Subset
  <2>4. Min(I) \in I
    <3> HIDE DEF I
    <3>1. \E x \in I : \A y \in I : x <= y
      BY <2>2, <2>3, LeastNumber
    <3> QED
      BY <3>1 DEF Min
  <2> HIDE DEF i
  <2> QED
    BY <2>1, <2>2, <2>4
<1> HIDE DEF i
<1>5. ~Ends(ents[d], prev) /\ curr = After(ents[d], prev)
  <2>1. i - 1 \in 1..(Len(Walk(d)) - 1) /\ (i - 1) + 1 = i
    BY <1>1, <1>3, <1>4 DEF IsWalk
  <2> QED
    BY <1>2, <1>3, <2>1 DEF IsWalk
<1>6. /\ DOMAIN ents = Dirs /\ ents[d][prev] \in Entry
      /\ prev \in Nat /\ curr \in Nat /\ ents[d][prev].rec \in Nat /\ ents[d][curr].rec \in Nat
      /\ prev < EXT2_BLOCK_SIZE /\ curr < EXT2_BLOCK_SIZE
  BY <1>1, <1>2, ImageAssumption DEF ImageInv, TypeOK, BlockType, WalkInv, Leads
<1>7. run'.pc # "fill"
  BY <1>2, RmBlocksType, TogglingRun
<1> DEFINE new == Grown(ents[d][prev], ents[d][curr])
<1>8. /\ DOMAIN ents' = Dirs /\ \A c \in Dirs \ {d} : ents'[c] = ents[c]
      /\ DOMAIN ents'[d] = DOMAIN ents[d] /\ ents'[d][prev] = new
      /\ \A o \in DOMAIN ents[d] \ {prev} : ents'[d][o] = ents[d][o]
  BY <1>1, <1>2, <1>6
<1>9. new.name = ents[d][prev].name
      /\ new.rec = (ents[d][prev].rec + ents[d][curr].rec) % USHORT
  BY <1>6 DEF Grown, Entry
<1>10. ents[d][prev].rec + ents[d][curr].rec < USHORT
  <2>1. Leads(ents[d], curr) /\ curr = prev + ents[d][prev].rec
    BY <1>1, <1>2, <1>5 DEF WalkInv, After
  <2>2. After(ents[d], curr) < USHORT
    <3>1. EXT2_BLOCK_SIZE \in Nat /\ EXT2_BLOCK_SIZE <= 1024
      BY ImageAssumption, WalkAssumption
    <3>2. After(ents[d], curr) \in DOMAIN ents[d] => After(ents[d], curr) < EXT2_BLOCK_SIZE
      BY <1>3, <3>1 DEF WalkOK
    <3>3. ents[d][curr].rec = 0 => After(ents[d], curr) = curr
      BY <1>6 DEF After
    <3>4. After(ents[d], curr) \in Nat
      BY <1>6 DEF After
    <3> QED
      BY <1>6, <2>1, <3>1, <3>2, <3>3, <3>4 DEF Leads, USHORT
  <2> DEFINE p == ents[d][prev].rec
             c == ents[d][curr].rec
  <2>3. p \in Nat /\ c \in Nat /\ (prev + p) + c < USHORT
    BY <1>6, <2>1, <2>2 DEF After
  <2> HIDE DEF p, c
  <2>4. p + c < USHORT
    BY <1>6, <2>3 DEF USHORT
  <2> QED
    BY <2>4 DEF p, c
<1>11. new.rec = ents[d][prev].rec + ents[d][curr].rec
  <2>1. \A n \in Nat : n < USHORT => n % USHORT = n
    BY DEF USHORT
  <2>2. ents[d][prev].rec + ents[d][curr].rec \in Nat
    BY <1>6
  <2> HIDE DEF new
  <2> QED
    BY <1>9, <1>10, <2>1, <2>2
<1>12. Removed(d, prev, curr)
  BY <1>2, <1>5, <1>7, <1>8, <1>9, <1>11 DEF Removed
<1> QED
  BY <1>1, <1>6, <1>12

(***************************************************************************)
(* WalkInv is kept, step by step.                                          *)
(***************************************************************************)
LEMMA Numbers10 ==
  /\ EXT2_BLOCK_SIZE \in Nat /\ EXT2_BLOCK_SIZE <= 1024
  /\ Letters = 25710 /\ USHORT = 65536
BY ImageAssumption, WalkAssumption DEF Letters, USHORT

(* What is still there leads to where it led.                              *)
LEMMA LeadsSame ==
  ASSUME NEW es, NEW fs, NEW o, Leads(es, o), DOMAIN es \subseteq DOMAIN fs,
         fs[o].name = es[o].name, fs[o].rec = es[o].rec
  PROVE  Leads(fs, o)
BY DEF Leads, After

LEMMA ShrinkWalk ==
  ASSUME ImageInv, WalkInv, Shrink
  PROVE  WalkInv'
<1>1. PICK d \in Dirs, last \in Nat : Shrunk(d, last)
  BY ShrinkShape
<1> DEFINE es == ents[d]
           fs == ents'[d]
<1>2. /\ \A o \in DOMAIN es : o \in 0..(EXT2_BLOCK_SIZE - 1) /\ Leads(es, o)
      /\ 0 \in DOMAIN es
  BY DEF WalkInv, ImageInv, TypeOK, BlockType
<1>3. /\ last \in DOMAIN es /\ es[last].rec > 12 /\ After(es, last) \notin DOMAIN es
      /\ DOMAIN es \subseteq DOMAIN fs /\ DOMAIN fs \subseteq DOMAIN es \cup {last + 12}
      /\ last + 12 < EXT2_BLOCK_SIZE => last + 12 \in DOMAIN fs
      /\ fs[last].rec = 12 /\ fs[last].name = es[last].name
      /\ \A o \in DOMAIN es \ {last} : fs[o] = es[o]
      /\ \A o \in DOMAIN fs \ DOMAIN es : fs[o].name = NoName /\ fs[o].rec \in {0, Letters}
      /\ run'.pc = "fill" /\ run'.rec = es[last].rec - 12 /\ run'.pos = last + 12
      /\ \A c \in Dirs \ {d} : ents'[c] = ents[c]
  BY <1>1 DEF Shrunk
<1> HIDE DEF es, fs
<1>4. last \in 0..(EXT2_BLOCK_SIZE - 1) /\ Leads(es, last)
  BY <1>2, <1>3
<1>5. Leads(fs, last)
  <2>1. After(fs, last) = last + 12
    BY <1>3 DEF After
  <2>2. last + 12 < EXT2_BLOCK_SIZE \/ AtEnd(last + 12)
    BY <1>4, Numbers10 DEF AtEnd
  <2>3. last + 12 < USHORT
    BY <1>4, Numbers10
  <2> QED
    BY <1>3, <1>4, <2>1, <2>2, <2>3 DEF Leads
<1>6. ASSUME NEW o \in DOMAIN es \ {last} PROVE Leads(fs, o)
  BY <1>2, <1>3, LeadsSame
<1>7. ASSUME NEW o \in DOMAIN fs \ DOMAIN es PROVE Leads(fs, o)
  <2>1. o = last + 12 /\ fs[o].name = NoName /\ fs[o].rec \in {0, Letters}
    BY <1>3
  <2>2. Len(fs[o].name) \in 0..12
    BY <2>1, ShortNames
  <2>3. CASE fs[o].rec = 0
    BY <2>1, <2>2, <2>3 DEF Leads
  <2>4. CASE fs[o].rec = Letters
    <3>1. After(fs, o) = (last + 12) + 25710
      BY <2>1, <2>4, Numbers10 DEF After
    <3>2. AtEnd(After(fs, o)) /\ After(fs, o) < USHORT
      BY <1>4, <3>1, Numbers10 DEF AtEnd
    <3> QED
      BY <2>2, <2>4, <3>2, Numbers10 DEF Leads
  <2> QED
    BY <2>1, <2>3, <2>4
<1>8. /\ run'.pos \in Nat /\ run'.rec > 0
      /\ AtEnd(run'.pos + run'.rec) /\ run'.pos + run'.rec < USHORT
  <2>1. es[last].rec \in Nat /\ AtEnd(After(es, last)) /\ After(es, last) < USHORT
    BY <1>3, <1>4 DEF Leads
  <2>2. run'.pos + run'.rec = After(es, last)
    BY <1>3, <1>4, <2>1 DEF After
  <2>3. run'.pos \in Nat
    BY <1>3, <1>4
  <2> QED
    BY <1>3, <2>1, <2>2, <2>3
<1>9. ASSUME NEW c \in Dirs
      PROVE  0 \in DOMAIN ents'[c] /\ \A o \in DOMAIN ents'[c] : Leads(ents'[c], o)
  <2>1. CASE c = d
    BY <1>2, <1>3, <1>5, <1>6, <1>7, <2>1 DEF fs
  <2>2. CASE c # d
    BY <1>3, <2>2 DEF WalkInv
  <2> QED
    BY <2>1, <2>2
<1> QED
  BY <1>8, <1>9 DEF WalkInv, AtEnd

LEMMA FillWalk ==
  ASSUME ImageInv, WalkInv, Fill
  PROVE  WalkInv'
<1>1. PICK d \in Dirs : FilledIn(d)
  BY FillShape
<1> DEFINE es == ents[d]
           fs == ents'[d]
<1>2. /\ \A o \in DOMAIN es : o \in 0..(EXT2_BLOCK_SIZE - 1) /\ Leads(es, o)
      /\ 0 \in DOMAIN es
  BY DEF WalkInv, ImageInv, TypeOK, BlockType
<1>3. /\ run.pc = "fill" /\ run'.pc = "idle" /\ run.rec \in Int /\ DOMAIN fs = DOMAIN es
      /\ \A o \in DOMAIN es :
           IF o = run.pos THEN fs[o].rec = run.rec /\ Len(fs[o].name) \in 0..12
           ELSE /\ fs[o].name = es[o].name
                /\ fs[o].rec = es[o].rec \/ (o = run.pos + 12 /\ fs[o].rec = Letters)
      /\ \A c \in Dirs \ {d} : ents'[c] = ents[c]
  BY <1>1 DEF FilledIn
<1>4. run.rec > 0 /\ AtEnd(run.pos + run.rec) /\ run.pos + run.rec < USHORT
  BY <1>3 DEF WalkInv
<1> HIDE DEF es, fs
<1>5. ASSUME NEW o \in DOMAIN fs PROVE Leads(fs, o)
  <2>1. o \in DOMAIN es /\ o \in 0..(EXT2_BLOCK_SIZE - 1) /\ Leads(es, o)
    BY <1>2, <1>3
  <2>2. CASE o = run.pos
    <3>1. fs[o].rec = run.rec /\ Len(fs[o].name) \in 0..12
      BY <1>3, <2>1, <2>2
    <3>2. After(fs, o) = run.pos + run.rec
      BY <2>2, <3>1 DEF After
    <3> QED
      BY <1>3, <1>4, <3>1, <3>2 DEF Leads
  <2>3. CASE o # run.pos /\ fs[o].rec = es[o].rec
    BY <1>3, <2>1, <2>3, LeadsSame
  <2>4. CASE o # run.pos /\ fs[o].rec = Letters
    <3>1. fs[o].name = es[o].name
      BY <1>3, <2>1, <2>4
    <3>2. After(fs, o) = o + 25710
      BY <2>4, Numbers10 DEF After
    <3>3. AtEnd(After(fs, o)) /\ After(fs, o) < USHORT
      BY <2>1, <3>2, Numbers10 DEF AtEnd
    <3> QED
      BY <2>1, <2>4, <3>1, <3>3, Numbers10 DEF Leads
  <2> QED
    BY <1>3, <2>1, <2>2, <2>3, <2>4
<1>6. ASSUME NEW c \in Dirs
      PROVE  0 \in DOMAIN ents'[c] /\ \A o \in DOMAIN ents'[c] : Leads(ents'[c], o)
  <2>1. CASE c = d
    BY <1>2, <1>3, <1>5, <2>1 DEF fs
  <2>2. CASE c # d
    BY <1>3, <2>2 DEF WalkInv
  <2> QED
    BY <2>1, <2>2
<1> QED
  BY <1>3, <1>6 DEF WalkInv

LEMMA RemoveWalk ==
  ASSUME ImageInv, WalkInv, NEW arg \in Args, RmDirEntry(arg)
  PROVE  WalkInv'
<1>1. PICK d \in Dirs, prev, curr \in Nat : Removed(d, prev, curr)
  BY RemoveShape
<1> DEFINE es == ents[d]
           fs == ents'[d]
<1>2. \A o \in DOMAIN es : Leads(es, o)
  BY DEF WalkInv
<1>3. /\ prev \in DOMAIN es /\ curr \in DOMAIN es /\ ~Ends(es, prev) /\ curr = After(es, prev)
      /\ DOMAIN fs = DOMAIN es /\ run'.pc # "fill"
      /\ fs[prev].rec = es[prev].rec + es[curr].rec /\ fs[prev].name = es[prev].name
      /\ \A o \in DOMAIN es \ {prev} : fs[o] = es[o]
      /\ \A c \in Dirs \ {d} : ents'[c] = ents[c]
  BY <1>1 DEF Removed
<1> HIDE DEF es, fs
<1>4. Leads(es, prev) /\ Leads(es, curr) /\ es[prev].rec \in Nat \ {0} /\ es[curr].rec \in Nat
  BY <1>2, <1>3 DEF Leads, Ends, After
<1>5. Leads(fs, prev)
  <2>1. After(fs, prev) = After(es, curr)
    BY <1>3, <1>4 DEF After
  <2>2. fs[prev].rec \in Nat \ {0} /\ Len(fs[prev].name) \in 0..12
    BY <1>3, <1>4 DEF Leads
  <2>3. es[curr].rec = 0 => After(es, curr) = curr
    BY <1>4 DEF After
  <2> QED
    BY <1>3, <1>4, <2>1, <2>2, <2>3 DEF Leads
<1>6. ASSUME NEW o \in DOMAIN fs PROVE Leads(fs, o)
  <2>1. CASE o = prev
    BY <1>5, <2>1
  <2>2. CASE o # prev
    BY <1>2, <1>3, <2>2, LeadsSame
  <2> QED
    BY <2>1, <2>2
<1>7. ASSUME NEW c \in Dirs
      PROVE  0 \in DOMAIN ents'[c] /\ \A o \in DOMAIN ents'[c] : Leads(ents'[c], o)
  <2>1. CASE c = d
    BY <1>3, <1>6, <2>1 DEF fs, es, WalkInv
  <2>2. CASE c # d
    BY <1>3, <2>2 DEF WalkInv
  <2> QED
    BY <2>1, <2>2
<1> QED
  BY <1>3, <1>7 DEF WalkInv

LEMMA FirstWalks == Init => WalkInv
<1> SUFFICES ASSUME Init PROVE WalkInv
  OBVIOUS
<1>1. ents = FirstEntries /\ run.pc = "idle"
  BY IdleRun DEF Init
<1>2. ASSUME NEW d \in Dirs, NEW o \in DOMAIN FirstEntries[d] PROVE Leads(FirstEntries[d], o)
  <2> DEFINE e == FirstEntries[d][o]
  <2>1. e \in Entry /\ Len(e.name) \in 0..12 /\ o \in 0..(EXT2_BLOCK_SIZE - 1)
    BY NamesAssumption DEF LengthsKnown
  <2>2. e.rec > 0 /\ o + e.rec \in DOMAIN FirstEntries[d] \cup {EXT2_BLOCK_SIZE}
    BY WalkAssumption
  <2>3. e.rec \in Nat \ {0}
    BY <2>1, <2>2 DEF Entry
  <2>4. AtEnd(EXT2_BLOCK_SIZE) /\ EXT2_BLOCK_SIZE < USHORT
    BY Numbers10 DEF AtEnd
  <2> QED
    BY <2>1, <2>2, <2>3, <2>4 DEF Leads, After
<1> QED
  BY <1>1, <1>2, NamesAssumption DEF WalkInv

(* The other steps write no entry, and none of them is the first of a      *)
(* write.                                                                  *)
LEMMA OtherWrites ==
  ASSUME ImageInv, [Next]_vars, ~Shrink, ~Fill, \A arg \in Args : ~RmDirEntry(arg)
  PROVE  ents' = ents /\ (run'.pc = "fill" => run' = run)
<1>1. DOMAIN run = DOMAIN Idle
  BY DEF ImageInv, RunInv
<1>2. ASSUME NEW arg \in Args, Start(arg) PROVE ents' = ents /\ run'.pc = "block"
  BY <1>2 DEF Start, Idle
<1>3. CASE WriteBlock \/ UseInode \/ UseBlock \/ Hang
  <2>1. ents' = ents /\ run'.pc \in {"inode", "used", "entry", "hang"}
    BY <1>1, <1>3 DEF WriteBlock, UseInode, UseBlock, Hang, Idle
  <2> QED
    BY <2>1
<1>4. CASE InodeTaken \/ Spill \/ Stop
  <2>1. ents' = ents /\ run' = Idle
    BY <1>4 DEF InodeTaken, Spill, Stop
  <2> QED
    BY <2>1, IdleRun
<1>5. CASE ToggleBlock
  <2>1. run.todo \in Seq(2..(NBlocks - 1)) /\ run.todo # <<>>
    BY <1>5 DEF ToggleBlock, ImageInv, RunInv
  <2>2. Tail(run.todo) \in Seq(2..(NBlocks - 1))
    BY <2>1, HeadTailProperties
  <2>3. ents' = ents /\ run' = Toggling(Tail(run.todo))
    BY <1>5 DEF ToggleBlock
  <2> QED
    BY <2>2, <2>3, TogglingRun
<1>6. CASE CheckFreeCounts \/ UNCHANGED vars
  BY <1>6 DEF CheckFreeCounts, vars
<1> QED
  BY <1>2, <1>3, <1>4, <1>5, <1>6 DEF Next, Mkdir

(***************************************************************************)
(* The theorems.                                                           *)
(***************************************************************************)

(* Whatever runs of the tools an image has been through, every entry that  *)
(* was ever written leads to another one or to the end of the block.       *)
THEOREM WalkInvariance == Spec => []WalkInv
<1>1. ImageInv /\ WalkInv /\ [Next]_vars => WalkInv'
  <2> SUFFICES ASSUME ImageInv, WalkInv, [Next]_vars PROVE WalkInv'
    OBVIOUS
  <2>1. CASE Shrink
    BY <2>1, ShrinkWalk
  <2>2. CASE Fill
    BY <2>2, FillWalk
  <2>3. ASSUME NEW arg \in Args, RmDirEntry(arg) PROVE WalkInv'
    BY <2>3, RemoveWalk
  <2>4. CASE ~Shrink /\ ~Fill /\ \A arg \in Args : ~RmDirEntry(arg)
    <3>1. ents' = ents /\ (run'.pc = "fill" => run' = run)
      BY <2>4, OtherWrites
    <3> QED
      BY <3>1 DEF WalkInv
  <2> QED
    BY <2>1, <2>2, <2>3, <2>4
<1> QED
  BY <1>1, FirstWalks, Invariance, PTL DEF Spec

(* No walk ends inside the block, but at an entry without a name: so no    *)
(* length that rm or mkdir writes leads to a place where nothing was ever  *)
(* written.                                                                *)
THEOREM WalkEndsAtEnd == Spec => []WalkCovers
<1>1. ImageInv /\ WalkInv => WalkCovers
  <2> SUFFICES ASSUME ImageInv, WalkInv, NEW d \in Dirs, LastEntry(d).name # NoName
               PROVE  AtEnd(LastOffset(d) + LastEntry(d).rec)
    BY DEF WalkCovers
  <2>1. PICK o : o = LastOffset(d)
    OBVIOUS
  <2>2. o \in DOMAIN ents[d] /\ Ends(ents[d], o) /\ DOMAIN ents[d] \subseteq 0..(EXT2_BLOCK_SIZE - 1)
    BY <2>1, WalkFacts DEF AllWalks, WalkOK
  <2>3. Leads(ents[d], o) /\ ents[d][o].name # NoName /\ LastEntry(d) = ents[d][o]
    BY <2>1, <2>2 DEF WalkInv, LastEntry
  <2>4. ents[d][o].rec \in Nat \ {0} /\ o \in Int
    BY <2>2, <2>3, Numbers10 DEF Leads
  <2>5. After(ents[d], o) # o /\ After(ents[d], o) \notin DOMAIN ents[d]
    BY <2>2, <2>4 DEF Ends, After
  <2>6. AtEnd(After(ents[d], o))
    BY <2>3, <2>4, <2>5 DEF Leads
  <2> QED
    BY <2>1, <2>3, <2>6 DEF After
<1> QED
  BY <1>1, Invariance, WalkInvariance, PTL

(* What a directory that is not written to shows is the same.              *)
LEMMA ReachedSame ==
  ASSUME NEW d, ents'[d] = ents[d]
  PROVE  Reached(d)' = Reached(d)
BY DEF Reached, Walk

LEMMA RemoveTakes ==
  ASSUME ImageInv, WalkInv, ImageInv', WalkInv', NEW arg \in Args, RmDirEntry(arg), NEW c \in Dirs
  PROVE  Reached(c)' \subseteq Reached(c) /\ \E o : Reached(c) \ Reached(c)' \subseteq {o}
<1>1. PICK d \in Dirs, prev, curr \in Nat : Removed(d, prev, curr)
  BY RemoveShape
<1>2. CASE c # d
  <2>1. ents'[c] = ents[c]
    BY <1>1, <1>2 DEF Removed
  <2> QED
    BY <2>1, ReachedSame
<1>3. CASE c = d
  <2> DEFINE es == ents[d]
             fs == ents'[d]
             R == Reached(d)
             Q == Reached(d)'
  <2>1. /\ Block(es) /\ 0 \in R /\ R \subseteq DOMAIN es /\ Keeps(es, R)
        /\ \A S : 0 \in S /\ Keeps(es, S) => R \subseteq S
    BY WalkFacts DEF AllWalks, WalkOK
  <2>2. /\ 0 \in Q /\ Q \subseteq DOMAIN fs /\ Keeps(fs, Q)
        /\ \A S : 0 \in S /\ Keeps(fs, S) => Q \subseteq S
    BY WalkFactsNext DEF AllWalks, WalkOK
  <2>3. /\ prev \in DOMAIN es /\ curr \in DOMAIN es /\ ~Ends(es, prev) /\ curr = After(es, prev)
        /\ DOMAIN fs = DOMAIN es /\ fs[prev].rec = es[prev].rec + es[curr].rec
        /\ \A o \in DOMAIN es \ {prev} : fs[o] = es[o]
    BY <1>1 DEF Removed
  <2> HIDE DEF es, fs, R, Q
  <2>4. ASSUME NEW o \in DOMAIN es \ {prev}
        PROVE  After(fs, o) = After(es, o) /\ (Ends(fs, o) <=> Ends(es, o))
    BY <2>3, <2>4 DEF After, Ends
  <2>5. /\ After(fs, prev) = After(es, curr) /\ After(fs, prev) > prev
        /\ (After(es, curr) = curr \/ After(es, curr) \notin DOMAIN es) <=> Ends(es, curr)
        /\ prev < curr /\ curr <= After(es, curr)
    <3>1. es[prev].rec \in Nat /\ es[curr].rec \in Nat /\ prev \in Nat /\ curr \in Nat
      BY <2>1, <2>3 DEF Block
    <3> QED
      BY <2>3, <3>1 DEF After, Ends
  <2>6. ~Ends(fs, prev) => After(es, curr) \in DOMAIN es /\ (After(es, curr) = curr \/ ~Ends(es, curr))
    BY <2>3, <2>5 DEF Ends
  <2>7. Keeps(fs, R)
    <3> SUFFICES ASSUME NEW o \in R \cap DOMAIN fs, ~Ends(fs, o) PROVE After(fs, o) \in R
      BY DEF Keeps
    <3>1. CASE o # prev
      BY <2>1, <2>3, <2>4, <3>1 DEF Keeps
    <3>2. CASE o = prev
      <4>1. curr \in R
        BY <2>1, <2>3, <3>2 DEF Keeps
      <4> QED
        BY <2>1, <2>3, <2>5, <2>6, <3>2, <4>1 DEF Keeps
    <3> QED
      BY <3>1, <3>2
  <2>8. Q \subseteq R
    BY <2>1, <2>2, <2>7
  <2>9. Keeps(es, Q \cup {curr}) \/ Keeps(es, Q)
    <3>1. ASSUME NEW o \in Q, o # prev, ~Ends(es, o) PROVE After(es, o) \in Q
      BY <2>2, <2>3, <2>4, <3>1 DEF Keeps
    <3>2. CASE prev \notin Q
      BY <3>1, <3>2 DEF Keeps
    <3>3. CASE prev \in Q
      <4>1. ~Ends(es, curr) => After(es, curr) \in Q
        <5> SUFFICES ASSUME ~Ends(es, curr) PROVE After(es, curr) \in Q
          OBVIOUS
        <5>1. After(es, curr) \in DOMAIN fs /\ After(fs, prev) = After(es, curr) /\ After(es, curr) # prev
          BY <2>3, <2>5 DEF Ends
        <5>2. ~Ends(fs, prev)
          BY <5>1 DEF Ends
        <5> QED
          BY <2>2, <2>3, <3>3, <5>1, <5>2 DEF Keeps
      <4> QED
        BY <2>3, <3>1, <4>1 DEF Keeps
    <3> QED
      BY <3>2, <3>3
  <2>10. R \ Q \subseteq {curr}
    BY <2>1, <2>2, <2>9
  <2> QED
    BY <1>3, <2>8, <2>10 DEF R, Q
<1> QED
  BY <1>2, <1>3

LEMMA ShrinkTakes ==
  ASSUME ImageInv, WalkInv, ImageInv', WalkInv', Shrink, NEW c \in Dirs
  PROVE  Reached(c) \subseteq Reached(c)'
<1>1. PICK d \in Dirs, last \in Nat : Shrunk(d, last)
  BY ShrinkShape
<1>2. CASE c # d
  <2>1. ents'[c] = ents[c]
    BY <1>1, <1>2 DEF Shrunk
  <2> QED
    BY <2>1, ReachedSame
<1>3. CASE c = d
  <2> DEFINE es == ents[d]
             fs == ents'[d]
             Q == Reached(d)'
  <2>1. Ends(es, last) /\ \A S : 0 \in S /\ Keeps(es, S) => Reached(d) \subseteq S
    BY <1>1, WalkFacts DEF AllWalks, WalkOK, Shrunk
  <2>2. 0 \in Q /\ Q \subseteq DOMAIN fs /\ Keeps(fs, Q)
    BY WalkFactsNext DEF AllWalks, WalkOK
  <2>3. DOMAIN es \subseteq DOMAIN fs /\ \A o \in DOMAIN es \ {last} : fs[o] = es[o]
    BY <1>1 DEF Shrunk
  <2> HIDE DEF es, fs, Q
  <2>4. Keeps(es, Q)
    <3> SUFFICES ASSUME NEW o \in Q \cap DOMAIN es, ~Ends(es, o) PROVE After(es, o) \in Q
      BY DEF Keeps
    <3>1. o # last /\ fs[o] = es[o]
      BY <2>1, <2>3
    <3>2. After(fs, o) = After(es, o) /\ ~Ends(fs, o)
      BY <2>3, <3>1 DEF After, Ends
    <3> QED
      BY <2>2, <2>3, <3>2 DEF Keeps
  <2> QED
    BY <1>3, <2>1, <2>2, <2>4 DEF Q
<1> QED
  BY <1>2, <1>3

LEMMA FillTakes ==
  ASSUME ImageInv, WalkInv, ImageInv', WalkInv', Fill, NEW c \in Dirs
  PROVE  \A o \in Reached(c) \ Reached(c)' : run.pc = "fill" /\ c = run.dir /\ o > run.pos
<1>1. PICK d \in Dirs : FilledIn(d)
  BY FillShape
<1>2. CASE c # d
  <2>1. ents'[c] = ents[c]
    BY <1>1, <1>2 DEF FilledIn
  <2> QED
    BY <2>1, ReachedSame
<1>3. CASE c = d
  <2> DEFINE es == ents[d]
             fs == ents'[d]
             pos == run.pos
             R == Reached(d)
             Q == Reached(d)'
             S == {o \in DOMAIN es : o \in Q \/ o > pos}
  <2>1. /\ Block(es) /\ R \subseteq DOMAIN es
        /\ DOMAIN es \subseteq 0..(EXT2_BLOCK_SIZE - 1)
        /\ \A T : 0 \in T /\ Keeps(es, T) => R \subseteq T
    BY WalkFacts DEF AllWalks, WalkOK
  <2>2. 0 \in Q /\ Q \subseteq DOMAIN fs /\ Keeps(fs, Q)
    BY WalkFactsNext DEF AllWalks, WalkOK
  <2>3. /\ run.pc = "fill" /\ d = run.dir /\ pos \in Nat /\ DOMAIN fs = DOMAIN es
        /\ \A o \in DOMAIN es :
             o # pos => fs[o].rec = es[o].rec \/ (o = pos + 12 /\ fs[o].rec = Letters)
    BY <1>1 DEF FilledIn, WalkInv
  <2> HIDE DEF es, fs, pos, R, Q
  <2>4. Keeps(es, S)
    <3> SUFFICES ASSUME NEW o \in S, ~Ends(es, o) PROVE After(es, o) \in S
      BY DEF Keeps
    <3>1. o \in DOMAIN es /\ o \in Nat /\ es[o].rec \in Nat
      BY <2>1, Numbers10 DEF Block
    <3>2. After(es, o) \in DOMAIN es /\ After(es, o) > o /\ After(es, o) \in Nat
      BY <3>1 DEF Ends, After
    <3>3. CASE o >= pos
      BY <2>3, <3>1, <3>2, <3>3
    <3>4. CASE ~(o >= pos)
      <4>1. o \in Q /\ fs[o].rec = es[o].rec
        BY <2>3, <3>1, <3>4
      <4>2. After(fs, o) = After(es, o) /\ ~Ends(fs, o)
        BY <2>3, <3>2, <4>1 DEF After, Ends
      <4>3. After(es, o) \in Q
        BY <2>2, <4>1, <4>2 DEF Keeps
      <4> QED
        BY <3>2, <4>3
    <3> QED
      BY <3>3, <3>4
  <2>5. 0 \in S
    BY <2>2, <2>3
  <2>6. R \subseteq S
    BY <2>1, <2>4, <2>5
  <2>7. \A o \in R \ Q : o > pos
    BY <2>6
  <2> QED
    BY <1>3, <2>3, <2>7 DEF R, Q, pos
<1> QED
  BY <1>2, <1>3

(* A run of rm takes at most one entry out of a directory, and brings none *)
(* back.                                                                   *)
THEOREM RemoveTakesAtMostOne == Spec => RemoveTakesOne
<1>1. ASSUME ImageInv, WalkInv, ImageInv', WalkInv', [Next]_vars, run.pc = "idle", NEW d \in Dirs
      PROVE  Reached(d)' \subseteq Reached(d) /\ Cardinality(Reached(d) \ Reached(d)') <= 1
  <2>1. Reached(d)' \subseteq Reached(d) /\ \E o : Reached(d) \ Reached(d)' \subseteq {o}
    <3>1. ASSUME NEW arg \in Args, RmDirEntry(arg)
          PROVE  Reached(d)' \subseteq Reached(d) /\ \E o : Reached(d) \ Reached(d)' \subseteq {o}
      BY <1>1, <3>1, RemoveTakes
    <3>2. CASE \A arg \in Args : ~RmDirEntry(arg)
      <4>1. ~Shrink /\ ~Fill
        BY <1>1 DEF Shrink, Fill
      <4>2. Reached(d)' = Reached(d)
        BY <1>1, <3>2, <4>1, OtherWrites, ReachedSame
      <4> QED
        BY <4>2
    <3> QED
      BY <3>1, <3>2
  <2>2. PICK o : Reached(d) \ Reached(d)' \subseteq {o}
    BY <2>1
  <2>3. IsFiniteSet({o}) /\ Cardinality({o}) = 1
    BY FS_Singleton
  <2>4. Cardinality(Reached(d) \ Reached(d)') <= 1
    BY <2>2, <2>3, FS_Subset
  <2> QED
    BY <2>1, <2>4
<1> DEFINE A == run.pc = "idle" =>
             \A d \in Dirs : /\ Reached(d)' \subseteq Reached(d)
                             /\ Cardinality(Reached(d) \ Reached(d)') <= 1
<1>2. ImageInv /\ WalkInv /\ ImageInv' /\ WalkInv' /\ [Next]_vars => [A]_vars
  BY <1>1
<1> QED
  BY <1>2, Invariance, WalkInvariance, PTL DEF Spec, RemoveTakesOne

(* However a run of mkdir is stopped, and in all it does, no entry leaves  *)
(* the walk but one that the new entry lies on or leads past.              *)
THEOREM MkdirTakesNoOther == Spec => MkdirTakesNone
<1>1. ASSUME ImageInv, WalkInv, ImageInv', WalkInv', [Next]_vars, run.pc # "idle",
             NEW d \in Dirs, NEW o \in Reached(d) \ Reached(d)'
      PROVE  run.pc = "fill" /\ d = run.dir /\ o > run.pos
  <2>1. \A arg \in Args : ~RmDirEntry(arg)
    BY <1>1 DEF RmDirEntry
  <2>2. CASE Shrink
    BY <1>1, <2>2, ShrinkTakes
  <2>3. CASE Fill
    BY <1>1, <2>3, FillTakes
  <2>4. CASE ~Shrink /\ ~Fill
    BY <1>1, <2>1, <2>4, OtherWrites, ReachedSame
  <2> QED
    BY <2>2, <2>3, <2>4
<1> DEFINE A == run.pc # "idle" => \A d \in Dirs : \A o \in Reached(d) \ Reached(d)' :
                  run.pc = "fill" /\ d = run.dir /\ o > run.pos
<1>2. ImageInv /\ WalkInv /\ ImageInv' /\ WalkInv' /\ [Next]_vars => [A]_vars
  BY <1>1
<1> QED
  BY <1>2, Invariance, WalkInvariance, PTL DEF Spec, MkdirTakesNone

(***************************************************************************)
(* The path: what normalize_path and create_path make of it.               *)
(***************************************************************************)
LEMMA LeastUpTo ==
  ASSUME NEW n \in Nat, NEW T \in SUBSET (0..n), T # {}
  PROVE  \E i \in T : \A j \in T : i <= j
<1>1. IsFiniteSet(0..n)
  BY FS_Interval
<1>2. IsFiniteSet(T)
  BY <1>1, FS_Subset
<1>3. T \in SUBSET Nat
  OBVIOUS
<1> QED
  BY <1>2, <1>3, LeastNumber

(* The recursive definition of Kept has a solution: it is built from the   *)
(* start of the path.                                                      *)
KeptStep(path, f, i) ==
  IF i = 0 THEN <<>> ELSE IF Dropped(path, i) THEN f[i - 1] ELSE Append(f[i - 1], path[i])
LEMMA KeptExists ==
  ASSUME NEW path, NEW n \in Nat
  PROVE  \E f : f = [i \in 0..n |-> KeptStep(path, f, i)]
<1> DEFINE Solves(m, f) == f = [i \in 0..m |-> KeptStep(path, f, i)]
           T == {m \in 0..n : ~ \E f : Solves(m, f)}
<1>1. ASSUME NEW m \in T, \A u \in T : m <= u PROVE FALSE
  <2>1. CASE m = 0
    <3> DEFINE g == [i \in 0..0 |-> <<>>]
    <3>1. \A i \in 0..0 : KeptStep(path, g, i) = <<>>
      BY DEF KeptStep
    <3>2. Solves(0, g)
      BY <3>1
    <3> QED
      BY <2>1, <3>2
  <2>2. CASE m # 0
    <3>1. m \in Nat /\ m - 1 \in 0..n /\ ~(m <= m - 1)
      BY <2>2
    <3>2. m - 1 \notin T
      <4> HIDE DEF T
      <4> QED
        BY <1>1, <3>1
    <3>3. PICK f : Solves(m - 1, f)
      BY <3>1, <3>2
    <3> DEFINE g == [i \in 0..m |-> KeptStep(path, f, i)]
    <3>4. ASSUME NEW i \in 0..m PROVE KeptStep(path, g, i) = KeptStep(path, f, i)
      <4>1. CASE i = 0
        BY <4>1 DEF KeptStep
      <4>2. CASE i # 0
        <5>1. i - 1 \in 0..(m - 1) /\ i - 1 \in 0..m
          BY <3>1, <4>2
        <5>2. g[i - 1] = KeptStep(path, f, i - 1) /\ f[i - 1] = KeptStep(path, f, i - 1)
          BY <3>3, <5>1
        <5> HIDE DEF g
        <5> QED
          BY <4>2, <5>2 DEF KeptStep
      <4> QED
        BY <4>1, <4>2
    <3>5. Solves(m, g)
      BY <3>4
    <3> QED
      BY <3>1, <3>5
  <2> QED
    BY <2>1, <2>2
<1>2. T = {}
  <2> HIDE DEF T
  <2>1. T \in SUBSET (0..n)
    BY DEF T
  <2> QED
    BY <1>1, <2>1, LeastUpTo
<1> QED
  BY <1>2

LEMMA KeptEquation ==
  ASSUME NEW path \in Seq(STRING)
  PROVE  \A i \in 0..Len(path) : Kept(path)[i] = KeptStep(path, Kept(path), i)
<1> DEFINE f == Kept(path)
<1>1. \E g : g = [i \in 0..Len(path) |-> KeptStep(path, g, i)]
  BY KeptExists
<1>2. f = [i \in 0..Len(path) |-> KeptStep(path, f, i)]
  BY <1>1 DEF Kept, KeptStep
<1> HIDE DEF f
<1>3. \A i \in 0..Len(path) : f[i] = KeptStep(path, f, i)
  BY <1>2
<1> QED
  BY <1>3 DEF f

(* What is kept of a path up to i ends with its character i.               *)
Ending(path, s, i) ==
  /\ s \in Seq(STRING) /\ Len(s) \in Nat
  /\ i > 0 => Len(s) > 0 /\ s[1] = path[1] /\ s[Len(s)] = path[i]
LEMMA KeptEnds ==
  ASSUME NEW path \in Seq(STRING), NEW k \in 0..Len(path)
  PROVE  Ending(path, Kept(path)[k], k)
<1> DEFINE f == Kept(path)
           T == {i \in 0..Len(path) : ~Ending(path, f[i], i)}
<1>1. \A i \in 0..Len(path) : f[i] = KeptStep(path, f, i)
  BY KeptEquation
<1> HIDE DEF f
<1>2. ASSUME NEW i \in T, \A u \in T : i <= u PROVE FALSE
  <2>1. CASE i = 0
    <3>1. 0 \in 0..Len(path) /\ ~Ending(path, f[0], 0)
      BY <1>2, <2>1
    <3>2. f[0] = <<>>
      BY <1>1, <3>1 DEF KeptStep
    <3>3. <<>> \in Seq(STRING) /\ Len(<<>>) = 0
      OBVIOUS
    <3> QED
      BY <3>1, <3>2, <3>3 DEF Ending
  <2>2. CASE i # 0
    <3>1. /\ i \in 1..Len(path) /\ i - 1 \in 0..Len(path) /\ ~(i <= i - 1) /\ i - 1 \in Nat
          /\ path[i] \in STRING
      BY <2>2
    <3>2. i - 1 \notin T
      <4> HIDE DEF T
      <4> QED
        BY <1>2, <3>1
    <3>3. Ending(path, f[i - 1], i - 1)
      BY <3>1, <3>2
    <3>4. PICK s : s = f[i - 1]
      OBVIOUS
    <3>5. f[i] = IF Dropped(path, i) THEN s ELSE Append(s, path[i])
      BY <1>1, <2>2, <3>1, <3>4 DEF KeptStep
    <3>6. CASE Dropped(path, i)
      BY <3>1, <3>3, <3>4, <3>5, <3>6 DEF Dropped, Ending
    <3>7. CASE ~Dropped(path, i)
      <4>1. s \in Seq(STRING) /\ Len(s) \in Nat
        BY <3>3, <3>4 DEF Ending
      <4>2. PICK t : t = Append(s, path[i])
        OBVIOUS
      <4>3. /\ t \in Seq(STRING) /\ Len(t) = Len(s) + 1
            /\ \A j \in 1..Len(s) : t[j] = s[j]
            /\ t[Len(s) + 1] = path[i]
        BY <3>1, <4>1, <4>2, AppendProperties
      <4>4. t[1] = path[1]
        <5>1. CASE i = 1
          <6>1. s = <<>>
            BY <1>1, <3>1, <3>4, <5>1 DEF KeptStep
          <6> QED
            BY <4>3, <5>1, <6>1
        <5>2. CASE i # 1
          <6>1. Len(s) > 0 /\ s[1] = path[1]
            BY <3>1, <3>3, <3>4, <5>2 DEF Ending
          <6> QED
            BY <4>1, <4>3, <6>1
        <5> QED
          BY <5>1, <5>2
      <4>5. Ending(path, t, i)
        BY <4>1, <4>3, <4>4 DEF Ending
      <4> QED
        BY <3>5, <3>7, <4>2, <4>5
    <3> QED
      BY <3>6, <3>7
  <2> QED
    BY <2>1, <2>2
<1>3. T = {}
  <2>1. Len(path) \in Nat /\ T \in SUBSET (0..Len(path))
    OBVIOUS
  <2> HIDE DEF T
  <2> QED
    BY <1>2, <2>1, LeastUpTo
<1> QED
  BY <1>3 DEF f

(* Behind the last slash of a path all is kept.                            *)
LastSlash(path, l) ==
  /\ l \in 1..Len(path) /\ path[l] = Slash
  /\ \A j \in (l + 1)..Len(path) : path[j] # Slash
Longer(s, u, path, l, i) ==
  /\ s \in Seq(STRING) /\ Len(s) = Len(u) + (i - l)
  /\ \A j \in 1..Len(u) : s[j] = u[j]
  /\ \A j \in 1..(i - l) : s[Len(u) + j] = path[l + j]
LEMMA AllBehindKept ==
  ASSUME NEW path \in Seq(STRING), NEW l, LastSlash(path, l), NEW k \in l..Len(path)
  PROVE  Longer(Kept(path)[k], Kept(path)[l], path, l, k)
<1> DEFINE f == Kept(path)
           T == {i \in l..Len(path) : ~Longer(f[i], f[l], path, l, i)}
<1>1. \A i \in 0..Len(path) : f[i] = KeptStep(path, f, i)
  BY KeptEquation
<1>2. l \in 1..Len(path) /\ l \in Nat /\ Len(path) \in Nat
  BY DEF LastSlash
<1>3. PICK u : u = f[l]
  OBVIOUS
<1>4. u \in Seq(STRING) /\ Len(u) \in Nat
  BY <1>2, <1>3, KeptEnds DEF Ending
<1> HIDE DEF f
<1>5. ASSUME NEW i \in T, \A t \in T : i <= t PROVE FALSE
  <2>1. CASE i = l
    <3>1. Longer(u, u, path, l, l)
      BY <1>2, <1>4 DEF Longer
    <3> QED
      BY <1>3, <2>1, <3>1
  <2>2. CASE i # l
    <3>1. /\ i \in (l + 1)..Len(path) /\ i - 1 \in l..Len(path) /\ i \in 0..Len(path)
          /\ ~(i <= i - 1) /\ i # 0
      BY <1>2, <2>2
    <3>2. i - 1 \notin T
      <4> HIDE DEF T
      <4> QED
        BY <1>5, <3>1
    <3>3. PICK s : s = f[i - 1]
      OBVIOUS
    <3>4. Longer(s, u, path, l, i - 1)
      BY <1>3, <3>1, <3>2, <3>3
    <3>5. path[i] # Slash /\ path[i] \in STRING
      BY <1>2, <3>1 DEF LastSlash
    <3>6. PICK t : t = Append(s, path[i])
      OBVIOUS
    <3>7. f[i] = t
      BY <1>1, <3>1, <3>3, <3>5, <3>6 DEF KeptStep, Dropped
    <3>8. /\ t \in Seq(STRING) /\ Len(t) = Len(s) + 1
          /\ \A j \in 1..Len(s) : t[j] = s[j]
          /\ t[Len(s) + 1] = path[i]
      <4>1. s \in Seq(STRING)
        BY <3>4 DEF Longer
      <4> QED
        BY <3>5, <3>6, <4>1, AppendProperties
    <3>9. Len(s) = Len(u) + ((i - 1) - l) /\ i \in Int
      BY <3>1, <3>4 DEF Longer
    <3>10. \A j \in 1..Len(u) : t[j] = u[j]
      <4> TAKE j \in 1..Len(u)
      <4>1. j \in 1..Len(s)
        BY <1>2, <1>4, <3>1, <3>9
      <4> QED
        BY <3>4, <3>8, <4>1 DEF Longer
    <3>11. \A j \in 1..(i - l) : t[Len(u) + j] = path[l + j]
      <4> TAKE j \in 1..(i - l)
      <4>1. CASE j = i - l
        <5>1. Len(u) + j = Len(s) + 1 /\ l + j = i
          BY <1>2, <1>4, <3>9, <4>1
        <5> QED
          BY <3>8, <5>1
      <4>2. CASE j # i - l
        <5>1. j \in 1..((i - 1) - l) /\ Len(u) + j \in 1..Len(s)
          BY <1>2, <1>4, <3>9, <4>2
        <5> QED
          BY <3>4, <3>8, <5>1 DEF Longer
      <4> QED
        BY <4>1, <4>2
    <3>12. Longer(t, u, path, l, i)
      BY <1>2, <1>4, <3>8, <3>9, <3>10, <3>11 DEF Longer
    <3> QED
      BY <1>3, <3>7, <3>12
  <2> QED
    BY <2>1, <2>2
<1>6. T = {}
  <2>1. T \in SUBSET (0..Len(path))
    BY <1>2
  <2> HIDE DEF T
  <2> QED
    BY <1>2, <1>5, <2>1, LeastUpTo
<1> QED
  BY <1>6 DEF f

(* A path that does not end in a slash has a last slash.                   *)
LEMMA HasLastSlash ==
  ASSUME NEW path \in Seq(STRING), Len(path) >= 2, path[1] = Slash
  PROVE  \E l : LastSlash(path, l)
<1> DEFINE S == {i \in 1..Len(path) : path[i] = Slash}
<1>1. Len(path) \in Nat /\ S \in SUBSET (0..Len(path)) /\ 1 \in S
  OBVIOUS
<1>2. PICK l : l = Max(S)
  OBVIOUS
<1>3. l \in S /\ \A i \in S : i <= l
  <2> HIDE DEF S
  <2> QED
    BY <1>1, <1>2, GreatestNumber
<1>4. \A j \in (l + 1)..Len(path) : path[j] # Slash
  <2> SUFFICES ASSUME NEW j \in (l + 1)..Len(path), path[j] = Slash PROVE FALSE
    OBVIOUS
  <2>1. j \in S /\ ~(j <= l)
    BY <1>3
  <2> QED
    BY <1>3, <2>1
<1> QED
  BY <1>3, <1>4 DEF LastSlash

(* The slashes of the path without repetitions are those up to the kept    *)
(* part before the last component.                                         *)
LEMMA KeptSlashes ==
  ASSUME NEW q \in Seq(STRING), NEW m \in 1..Len(q), q[m] = Slash,
         \A j \in (m + 1)..Len(q) : q[j] # Slash, m < Len(q)
  PROVE  /\ Child(q) = SubSeq(q, m + 1, Len(q))
         /\ m = 1 => SubstrCount(q) = 1
<1>1. m \in Nat /\ Len(q) \in Nat /\ q[Len(q)] # Slash
  OBVIOUS
<1>2. Slashes(q) \subseteq 2..m
  BY <1>1 DEF Slashes
<1>3. IsFiniteSet(Slashes(q))
  <2>1. IsFiniteSet(2..m)
    BY <1>1, FS_Interval
  <2> QED
    BY <1>2, <2>1, FS_Subset
<1>4. PICK c : c = Cardinality(Slashes(q)) /\ c \in Nat
  BY <1>3, FS_CardinalityType
<1>5. SubstrCount(q) = c + 1 /\ SubstrCount(q) - 1 = c
  BY <1>1, <1>4 DEF SubstrCount
<1>6. m = 1 => c = 0
  <2> SUFFICES ASSUME m = 1 PROVE c = 0
    OBVIOUS
  <2>1. Slashes(q) = {}
    BY <1>2
  <2> QED
    BY <1>4, <2>1, FS_EmptySet
<1> DEFINE nth == {i \in Slashes(q) : Cardinality({j \in Slashes(q) : j <= i}) = c}
<1>7. Child(q) = SubSeq(q, Max({1} \cup nth) + 1, Len(q))
  BY <1>5 DEF Child
<1>8. {1} \cup nth \in SUBSET (0..m) /\ m \in {1} \cup nth
  <2>1. {1} \cup nth \in SUBSET (0..m)
    BY <1>1, <1>2
  <2>2. CASE m = 1
    BY <2>1, <2>2
  <2>3. CASE m # 1
    <3>1. m \in Slashes(q)
      BY <1>1, <2>3 DEF Slashes
    <3>2. {j \in Slashes(q) : j <= m} = Slashes(q)
      BY <1>1, <1>2
    <3> QED
      BY <1>4, <2>1, <3>1, <3>2
  <2> QED
    BY <2>1, <2>2, <2>3
<1>9. Max({1} \cup nth) = m
  <2>1. PICK R : R = {1} \cup nth
    OBVIOUS
  <2>2. R \in SUBSET (0..m) /\ m \in R
    BY <1>8, <2>1
  <2>3. PICK x : x = Max(R)
    OBVIOUS
  <2>4. x \in R /\ \A u \in R : u <= x
    BY <1>1, <2>2, <2>3, GreatestNumber
  <2>5. x = m
    BY <1>1, <2>2, <2>4
  <2> QED
    BY <2>1, <2>3, <2>5
<1>10. m = 1 => SubstrCount(q) = 1
  <2> HIDE DEF nth
  <2> QED
    BY <1>5, <1>6
<1> QED
  BY <1>7, <1>9, <1>10

(* Behind the last slash begins the last part of the path, which is what   *)
(* create_path leaves of it.                                               *)
LEMMA LastPart ==
  ASSUME NEW path \in Seq(STRING), NEW l, LastSlash(path, l), l < Len(path)
  PROVE  Max(Parts(path)) = l + 1
<1>1. l \in 1..Len(path) /\ l \in Nat /\ Len(path) \in Nat /\ path[l] = Slash
  BY DEF LastSlash
<1>2. l + 1 \in Parts(path)
  <2>1. l + 1 \in 1..Len(path) /\ (l + 1) - 1 = l /\ path[l + 1] # Slash
    BY <1>1 DEF LastSlash
  <2> QED
    BY <1>1, <2>1 DEF Parts
<1>3. \A i \in Parts(path) : i <= l + 1
  <2> SUFFICES ASSUME NEW i \in Parts(path), ~(i <= l + 1) PROVE FALSE
    OBVIOUS
  <2>1. i \in 1..Len(path) /\ path[i - 1] = Slash
    BY <1>1 DEF Parts
  <2>2. i - 1 \in (l + 1)..Len(path)
    BY <1>1, <2>1
  <2> QED
    BY <2>1, <2>2 DEF LastSlash
<1>4. PICK x : x = Max(Parts(path))
  OBVIOUS
<1>5. x \in Parts(path) /\ \A u \in Parts(path) : u <= x
  <2>1. Parts(path) \in SUBSET (0..Len(path))
    BY <1>1 DEF Parts
  <2> QED
    BY <1>1, <1>2, <1>4, <2>1, GreatestNumber
<1>6. x \in Int
  BY <1>5 DEF Parts
<1>7. x = l + 1
  BY <1>1, <1>2, <1>3, <1>5, <1>6
<1> QED
  BY <1>4, <1>7

LEMMA LastComponent ==
  ASSUME NEW path \in Seq(STRING), NEW l, LastSlash(path, l), l < Len(path)
  PROVE  /\ Child(Collapse(path)) = SubSeq(path, l + 1, Len(path))
         /\ Len(Kept(path)[l]) = 1 => SubstrCount(Collapse(path)) = 1
<1>1. l \in 1..Len(path) /\ l \in 0..Len(path) /\ l \in Nat /\ Len(path) \in Nat /\ path[l] = Slash
  BY DEF LastSlash
<1>2. PICK u : u = Kept(path)[l]
  OBVIOUS
<1>3. u \in Seq(STRING) /\ Len(u) \in Nat \ {0} /\ u[Len(u)] = Slash
  BY <1>1, <1>2, KeptEnds DEF Ending
<1>4. PICK q : q = Collapse(path)
  OBVIOUS
<1>5. PICK n : n = Len(path)
  OBVIOUS
<1>6. Longer(q, u, path, l, n)
  <2>1. Len(path) \in l..Len(path)
    BY <1>1
  <2>2. Longer(Kept(path)[Len(path)], Kept(path)[l], path, l, Len(path))
    BY <2>1, AllBehindKept
  <2> QED
    BY <1>2, <1>4, <1>5, <2>2 DEF Collapse
<1>7. PICK m : m = Len(u)
  OBVIOUS
<1>8. /\ q \in Seq(STRING) /\ Len(q) = m + (n - l) /\ m \in 1..Len(q) /\ m < Len(q)
      /\ q[m] = Slash
      /\ \A j \in 1..(n - l) : q[m + j] = path[l + j]
  BY <1>1, <1>3, <1>5, <1>6, <1>7 DEF Longer
<1>9. \A j \in (m + 1)..Len(q) : q[j] # Slash
  <2> TAKE j \in (m + 1)..Len(q)
  <2>1. j - m \in 1..(n - l) /\ m + (j - m) = j
    BY <1>1, <1>5, <1>8
  <2>2. l + (j - m) \in (l + 1)..Len(path)
    BY <1>1, <1>5, <2>1
  <2>3. path[l + (j - m)] # Slash
    BY <2>2 DEF LastSlash
  <2> QED
    BY <1>8, <2>1, <2>3
<1>10. Child(q) = SubSeq(q, m + 1, Len(q)) /\ (m = 1 => SubstrCount(q) = 1)
  <2> HIDE DEF Child, SubstrCount
  <2> QED
    BY <1>8, <1>9, KeptSlashes
<1>11. SubSeq(q, m + 1, Len(q)) = SubSeq(path, l + 1, n)
  <2>1. PICK a : a = SubSeq(q, m + 1, Len(q))
    OBVIOUS
  <2>2. PICK b : b = SubSeq(path, l + 1, n)
    OBVIOUS
  <2>3. /\ a \in Seq(STRING) /\ Len(a) = n - l
        /\ \A i \in 1..(n - l) : a[i] = q[m + i]
    <3>1. \A i \in (m + 1)..Len(q) : q[i] \in STRING
      BY <1>8
    <3>2. m + 1 \in Int /\ Len(q) \in Int /\ m + 1 <= Len(q)
      BY <1>8
    <3>3. /\ a \in Seq(STRING) /\ Len(a) = Len(q) - (m + 1) + 1
          /\ \A i \in 1..(Len(q) - (m + 1) + 1) : a[i] = q[(m + 1) + i - 1]
      BY <2>1, <3>1, <3>2, SubSeqProperties
    <3>4. Len(q) - (m + 1) + 1 = n - l
      BY <1>1, <1>5, <1>8
    <3>5. \A i \in 1..(n - l) : (m + 1) + i - 1 = m + i
      BY <1>8
    <3> QED
      BY <3>3, <3>4, <3>5
  <2>4. /\ b \in Seq(STRING) /\ Len(b) = n - l
        /\ \A i \in 1..(n - l) : b[i] = path[l + i]
    <3>1. \A i \in (l + 1)..n : path[i] \in STRING
      BY <1>1, <1>5
    <3>2. l + 1 \in Int /\ n \in Int /\ l + 1 <= n
      BY <1>1, <1>5
    <3>3. /\ b \in Seq(STRING) /\ Len(b) = n - (l + 1) + 1
          /\ \A i \in 1..(n - (l + 1) + 1) : b[i] = path[(l + 1) + i - 1]
      BY <2>2, <3>1, <3>2, SubSeqProperties
    <3>4. n - (l + 1) + 1 = n - l
      BY <1>1, <1>5
    <3>5. \A i \in 1..(n - l) : (l + 1) + i - 1 = l + i
      BY <1>1
    <3> QED
      BY <3>3, <3>4, <3>5
  <2>5. Len(a) = Len(b) /\ \A i \in 1..Len(a) : a[i] = b[i]
    BY <1>8, <2>3, <2>4
  <2>6. a = b
    BY <2>3, <2>4, <2>5, SeqEqual
  <2> QED
    BY <2>1, <2>2, <2>6
<1> QED
  BY <1>2, <1>4, <1>5, <1>7, <1>10, <1>11

(* Where there is one part, there are only slashes before it, of which one *)
(* is kept.                                                                *)
LEMMA OnePart ==
  ASSUME NEW path \in Seq(STRING), NEW l, LastSlash(path, l), l < Len(path),
         path[1] = Slash, Cardinality(Parts(path)) = 1
  PROVE  Len(Kept(path)[l]) = 1
<1>1. /\ l \in 1..Len(path) /\ l \in Nat /\ Len(path) \in Nat /\ path[l] = Slash
      /\ path[l + 1] # Slash
  BY DEF LastSlash
<1>2. l + 1 \in Parts(path)
  <2>1. l + 1 \in 1..Len(path) /\ (l + 1) - 1 = l
    BY <1>1
  <2> QED
    BY <1>1, <2>1 DEF Parts
<1>3. PICK x : Parts(path) = {x}
  <2>1. IsFiniteSet(1..Len(path))
    BY <1>1, FS_Interval
  <2>2. IsFiniteSet(Parts(path))
    BY <2>1, FS_Subset DEF Parts
  <2> QED
    BY <2>2, FS_Singleton
<1>4. \A i \in Parts(path) : i = l + 1
  BY <1>2, <1>3
<1> DEFINE f == Kept(path)
           T == {i \in 1..l : path[i] # Slash \/ f[i] # <<Slash>>}
<1>5. \A i \in 0..Len(path) : f[i] = KeptStep(path, f, i)
  BY KeptEquation
<1> HIDE DEF f
<1>6. ASSUME NEW i \in T, \A t \in T : i <= t PROVE FALSE
  <2>1. CASE i = 1
    <3>1. f[0] = <<>>
      BY <1>1, <1>5 DEF KeptStep
    <3>2. f[1] = Append(f[0], path[1])
      <4>1. 1 \in 0..Len(path) /\ ~Dropped(path, 1)
        BY <1>1 DEF Dropped
      <4>2. f[1] = KeptStep(path, f, 1)
        BY <1>5, <4>1
      <4>3. KeptStep(path, f, 1) = Append(f[1 - 1], path[1])
        BY <4>1 DEF KeptStep
      <4> QED
        BY <4>2, <4>3
    <3>3. f[1] = <<Slash>>
      BY <3>1, <3>2
    <3> QED
      BY <2>1, <3>3
  <2>2. CASE i # 1
    <3>1. i \in 2..l /\ i - 1 \in 1..l /\ ~(i <= i - 1) /\ i \in 0..Len(path) /\ i # l + 1
      BY <1>1, <2>2
    <3>2. i - 1 \notin T
      <4> HIDE DEF T
      <4> QED
        BY <1>6, <3>1
    <3>3. path[i - 1] = Slash /\ f[i - 1] = <<Slash>>
      BY <3>1, <3>2
    <3>4. path[i] = Slash
      BY <1>1, <1>4, <3>1, <3>3 DEF Parts
    <3>5. f[i] = f[i - 1]
      BY <1>5, <3>1, <3>3, <3>4 DEF KeptStep, Dropped
    <3> QED
      BY <3>3, <3>4, <3>5
  <2> QED
    BY <2>1, <2>2
<1>7. T = {}
  <2>1. T \in SUBSET (0..l)
    BY <1>1
  <2> HIDE DEF T
  <2> QED
    BY <1>1, <1>6, <2>1, LeastUpTo
<1>8. f[l] = <<Slash>>
  BY <1>1, <1>7
<1> QED
  BY <1>8 DEF f

(* What becomes of the arguments that PathFollowed is about.               *)
LEMMA PathTaken ==
  ASSUME NEW path \in Seq(STRING), Valid(path), Len(path) # 3, path[Len(path)] # Slash
  PROVE  /\ ChildName(path) = SubSeq(path, Max(Parts(path)), Len(path))
         /\ Cardinality(Parts(path)) = 1 => OneLevel(path)
<1>1. Len(path) >= 2 /\ path[1] = Slash /\ Normalize(path) = Collapse(path)
  BY DEF Valid, Normalize
<1>2. PICK l : LastSlash(path, l)
  BY <1>1, HasLastSlash
<1>3. l < Len(path)
  BY <1>2 DEF LastSlash
<1>4. ChildName(path) = SubSeq(path, Max(Parts(path)), Len(path))
  BY <1>1, <1>2, <1>3, LastPart, LastComponent DEF ChildName
<1>5. Cardinality(Parts(path)) = 1 => OneLevel(path)
  BY <1>1, <1>2, <1>3, OnePart, LastComponent DEF OneLevel
<1> QED
  BY <1>4, <1>5

(* A run keeps its argument and its parent.                                *)
LEMMA PathStep ==
  ASSUME ImageInv, PathInv, [Next]_vars
  PROVE  PathInv'
<1>1. ASSUME NEW arg \in Args, Start(arg) PROVE PathInv'
  <2>1. /\ run'.arg = arg /\ run'.dir = Parent(arg) /\ Valid(arg)
    BY <1>1 DEF Start, Idle
  <2>2. OneLevel(arg) => Parent(arg) = EXT2_ROOT_INO
    BY DEF Parent
  <2> QED
    BY <1>1, <2>1, <2>2 DEF PathInv
<1>2. ASSUME run.pc \notin {"idle", "toggle"}, run'.arg = run.arg, run'.dir = run.dir
      PROVE  PathInv'
  BY <1>2 DEF PathInv
<1>3. CASE WriteBlock \/ UseInode \/ UseBlock \/ Hang \/ Shrink
  <2>1. DOMAIN run = DOMAIN Idle
    BY DEF ImageInv, RunInv
  <2>2. run.pc \notin {"idle", "toggle"} /\ run'.arg = run.arg /\ run'.dir = run.dir
    BY <1>3, <2>1 DEF WriteBlock, UseInode, UseBlock, Hang, Shrink, Idle
  <2> QED
    BY <1>2, <2>2
<1>4. ASSUME run'.pc \in {"idle", "toggle"} PROVE PathInv'
  BY <1>4 DEF PathInv
<1>5. CASE InodeTaken \/ Spill \/ Fill \/ Stop
  BY <1>4, <1>5, IdleRun DEF InodeTaken, Spill, Fill, Stop
<1>6. ASSUME NEW blks PROVE Toggling(blks).pc \in {"idle", "toggle"}
  BY DEF Toggling, Idle
<1>7. CASE ToggleBlock
  BY <1>4, <1>6, <1>7 DEF ToggleBlock
<1>8. ASSUME NEW arg \in Args, RmDirEntry(arg) PROVE PathInv'
  BY <1>4, <1>6, <1>8 DEF RmDirEntry
<1>9. CASE CheckFreeCounts \/ UNCHANGED vars
  <2>1. run' = run
    BY <1>9 DEF CheckFreeCounts, vars
  <2> QED
    BY <2>1 DEF PathInv
<1> QED
  BY <1>1, <1>3, <1>5, <1>7, <1>8, <1>9 DEF Next, Mkdir

(* For every path whose length is not 3 and which does not end in a slash: *)
(* the name of the new directory is what stands behind the last slash, and *)
(* it comes into the root if there is no other component.                  *)
THEOREM PathsFollowed == Spec => []PathFollowed
<1>1. Init => PathInv
  BY DEF Init, PathInv, Idle
<1>2. PathInv => PathFollowed
  <2> SUFFICES ASSUME PathInv, run.pc \notin {"idle", "toggle"}, Len(run.arg) # 3,
                      run.arg[Len(run.arg)] # Slash
               PROVE  /\ ChildName(run.arg) = SubSeq(run.arg, Max(Parts(run.arg)), Len(run.arg))
                      /\ Cardinality(Parts(run.arg)) = 1 => run.dir = EXT2_ROOT_INO
    BY DEF PathFollowed
  <2>1. PICK arg : arg = run.arg
    OBVIOUS
  <2>2. arg \in Seq(STRING) /\ Valid(arg)
    BY <2>1, NamesAssumption DEF PathInv
  <2>3. /\ ChildName(arg) = SubSeq(arg, Max(Parts(arg)), Len(arg))
        /\ Cardinality(Parts(arg)) = 1 => OneLevel(arg)
    BY <2>1, <2>2, PathTaken
  <2> QED
    BY <2>1, <2>3 DEF PathInv
<1>3. ImageInv /\ PathInv /\ [Next]_vars => PathInv'
  BY PathStep
<1> QED
  BY <1>1, <1>2, <1>3, Invariance, PTL DEF Spec
=============================================================================
