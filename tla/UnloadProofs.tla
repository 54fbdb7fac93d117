---------------------------- MODULE UnloadProofs ----------------------------
(***************************************************************************)
(* Proofs about the lists of pids and the removal of the interceptor of    *)
(* A1, if my_exit_group and rmmod overlap with nothing, for any processes, *)
(* owners and system calls.                                                *)
(***************************************************************************)
EXTENDS InterceptorUnload, InterceptorProofs, FiniteSetTheorems

(* What UInv says of the lists while the module is loaded.                 *)
ListsInv == SizeInv /\ ModeMatches /\ NoStalePid /\ ExitInv /\ PidInv

Others(p) == \A r \in Procs \ {p} : pc'[r] = pc[r] /\ frame'[r] = frame[r]
NobodyExits == \A r \in Procs : pc[r] \notin ExitPlaces

(* A step of p that leaves the lists alone, and does not begin or go on    *)
(* with an exit.                                                           *)
Aside(p) ==
  /\ UNCHANGED listVars
  /\ pc[p] \notin ExitPlaces /\ pc'[p] \notin ExitPlaces
  /\ pc'[p] = "dead" => pc[p] = "dead"
  /\ pc'[p] \in CommandPlaces => pc[p] \in CommandPlaces \/ NobodyExits
  /\ pc'[p] = "command" /\ frame'[p].cmd \in {"start", "stop"} =>
       frame'[p].pid = ALL \/ pc[frame'[p].pid] # "dead"

(* A command that changes the list of its system call.                     *)
ListCommand(p) ==
  \/ ReleaseMark(p) \/ StartUnlist(p) \/ StartAll(p) \/ StartOne(p)
  \/ StopOne(p) \/ StopAll(p) \/ StopExcept(p)

(* p calls exit_group.                                                     *)
Begins(p) ==
  /\ UNCHANGED listVars
  /\ pc[p] \notin CommandPlaces \cup ExitPlaces
  /\ pc'[p] = "scan" /\ frame'[p].syscall = 1
  /\ \A r \in Procs \ {p} : NotInside(r)

Exits(p) ==
  \/ ExitScan(p) \/ ExitUnlink(p) \/ ExitLoad(p) \/ ExitStore(p) \/ ExitClear(p)
  \/ ExitNextList(p) \/ ExitProcess(p)

LEMMA FrameUpdates ==
  ASSUME IInv, NEW p \in Procs, NEW fr, frame' = [frame EXCEPT ![p] = fr]
  PROVE  frame'[p] = fr /\ \A r \in Procs \ {p} : frame'[r] = frame[r]
BY DEF IInv, TypeOK, ProcType

LEMMA PlaceUpdates ==
  ASSUME IInv, NEW p \in Procs, NEW place, Goto(p, place)
  PROVE  pc'[p] = place /\ \A r \in Procs \ {p} : pc'[r] = pc[r]
BY DEF IInv, TypeOK, ProcType, Goto

LEMMA ReturnUpdates ==
  ASSUME IInv, NEW p \in Procs, Return(p)
  PROVE  pc'[p] = "user" /\ frame'[p] = Idle /\ Others(p)
<1>1. pc'[p] = "user" /\ \A r \in Procs \ {p} : pc'[r] = pc[r]
  BY PlaceUpdates DEF Return
<1>2. frame'[p] = Idle /\ \A r \in Procs \ {p} : frame'[r] = frame[r]
  BY FrameUpdates DEF Return
<1> QED
  BY <1>1, <1>2 DEF Others

(* In the module, a system call ends where the entry of the table says.    *)
LEMMA CallKind ==
  ASSUME IInv, ~Overlap, NEW p \in Procs, NEW g, NEW s \in Syscalls,
         g = Original(s) \/ g = "interceptor",
         pc[p] \notin CommandPlaces \cup ExitPlaces,
         g = "my_exit_group" => Quiet(p),
         Goto(p, Runs(g, s)), frame' = [frame EXCEPT ![p] = RunsOn(g, s)],
         UNCHANGED listVars
  PROVE  Others(p) /\ (Aside(p) \/ Begins(p))
<1>1. pc'[p] = Runs(g, s) /\ frame'[p] = RunsOn(g, s) /\ Others(p)
  BY PlaceUpdates, FrameUpdates DEF Others
<1>2. CASE g = "my_exit_group"
  <2>1. frame'[p].syscall = 1 /\ pc'[p] = "scan"
    BY <1>1, <1>2, RunsFrame DEF Runs
  <2> QED
    BY <1>1, <1>2, <2>1 DEF Begins, Quiet, NotInside
<1>3. CASE g # "my_exit_group"
  <2>1. pc'[p] \in {"user", "interceptor"}
    BY <1>1, <1>3 DEF Runs, Original
  <2> QED
    BY <1>1, <2>1 DEF Aside, ExitPlaces, CommandPlaces
<1> QED
  BY <1>2, <1>3

(* Every step of a loaded module is of one of the four kinds.              *)
LEMMA ListKinds ==
  ASSUME IInv, ~Overlap, NEW p \in Procs, Requests(p) \/ Locked(p) \/ Unlocked(p)
  PROVE  \/ Others(p) /\ (Aside(p) \/ Begins(p))
         \/ ListCommand(p)
         \/ Exits(p)
<1> USE DEF ExitPlaces, CommandPlaces
<1>1. ASSUME NEW cmd \in Commands, NEW s \in Syscalls, NEW q \in Pids, Call(p, cmd, s, q)
      PROVE  Others(p) /\ Aside(p)
  <2>1. pc'[p] = "command" /\ frame'[p] = Frame(cmd, s, q) /\ Others(p)
    BY <1>1, PlaceUpdates, FrameUpdates DEF Call, Others
  <2>2. pc[p] = "user" /\ NobodyExits
    BY <1>1 DEF Call, Apart, NobodyExits
  <2>3. cmd \in {"start", "stop"} => q = ALL \/ pc[q] # "dead"
    BY <1>1 DEF Call, Permitted, Exists
  <2>4. frame'[p].cmd = cmd /\ frame'[p].pid = q
    BY <2>1 DEF Frame
  <2> QED
    BY <1>1, <2>1, <2>2, <2>3, <2>4 DEF Aside, Call
<1>2. ASSUME NEW s \in Syscalls, Syscall(p, s)
      PROVE  Others(p) /\ (Aside(p) \/ Begins(p))
  <2>1. sysTable[s] = Original(s) \/ sysTable[s] = "interceptor"
    BY DEF IInv, EntryInv
  <2>2. sysTable[s] = "my_exit_group" => Quiet(p)
    BY <1>2, <2>1 DEF Syscall, Original
  <2> QED
    BY <1>2, <2>1, <2>2, CallKind DEF Syscall
<1>3. ASSUME Spawn(p) PROVE Others(p) /\ Aside(p)
  BY <1>3, PlaceUpdates DEF Spawn, Others, Aside, exitRest
<1>4. ASSUME InterceptBusy(p) \/ ReleaseRefused(p) \/ StartRefused(p) \/ StopRefused(p)
             \/ InterceptHijack(p) \/ ReleaseUnlock(p)
      PROVE  Others(p) /\ Aside(p)
  <2>1. Return(p) /\ UNCHANGED listVars /\ pc[p] \in CommandPlaces
    BY <1>4 DEF InterceptBusy, ReleaseRefused, StartRefused, StopRefused, InterceptHijack,
                ReleaseUnlock, Enters
  <2> QED
    BY <2>1, ReturnUpdates DEF Aside
<1>5. ASSUME InterceptMark(p) \/ InterceptSave(p) \/ ReleaseRestore(p)
      PROVE  Others(p) /\ Aside(p)
  <2>1. /\ UNCHANGED <<listVars, frame>> /\ pc[p] \in CommandPlaces
        /\ Goto(p, "save") \/ Goto(p, "hijack") \/ Goto(p, "unlock")
    BY <1>5 DEF InterceptMark, InterceptSave, ReleaseRestore, Enters
  <2> QED
    BY <2>1, PlaceUpdates DEF Others, Aside
<1>6. ASSUME InterceptorCheck(p) PROVE Others(p) /\ Aside(p)
  <2>1. /\ UNCHANGED <<listVars, frame>> /\ pc[p] = "interceptor"
        /\ Goto(p, "logged") \/ Goto(p, "silent")
    BY <1>6 DEF InterceptorCheck
  <2> QED
    BY <2>1, PlaceUpdates DEF Others, Aside
<1>7. ASSUME InterceptorCall(p) PROVE Others(p) /\ (Aside(p) \/ Begins(p))
  <2> DEFINE s == frame[p].syscall
  <2>1. s \in Syscalls /\ f[s] = Original(s)
    BY <1>7 DEF InterceptorCall, IInv, FrameInv, OriginalKept
  <2> QED
    BY <1>7, <2>1, CallKind DEF InterceptorCall
<1> QED
  BY <1>1, <1>2, <1>3, <1>4, <1>5, <1>6, <1>7
     DEF Requests, Locked, Unlocked, ListCommand, Exits

(***************************************************************************)
(* Steps that leave the lists alone.                                       *)
(***************************************************************************)
LEMMA SameLists ==
  ASSUME SizeInv, ModeMatches, UNCHANGED listVars,
         \A s \in Syscalls : \A places \in {{"load", "store"}, {"load", "store", "clear"}} :
           Exiting(s, places)' = Exiting(s, places)
  PROVE  SizeInv' /\ ModeMatches'
<1>1. /\ \A s \in Syscalls : ListOf(s)' = ListOf(s) /\ listcount'[s] = listcount[s]
      /\ \A s \in Syscalls : \A q \in Pids : Listed(s, q)' = Listed(s, q)
      /\ entries' = entries /\ monitored' = monitored
  BY DEF listVars, ListOf, Listed
<1>2. \A s \in Syscalls : Pending(s) <=> Exiting(s, {"load", "store"}) # {}
  BY DEF Pending, Exiting
<1>3. \A s \in Syscalls : Pending(s)' <=> Exiting(s, {"load", "store"})' # {}
  BY DEF Pending, Exiting
<1>4. SizeInv'
  BY <1>1, <1>2, <1>3 DEF SizeInv
<1>5. ModeMatches'
  BY <1>1 DEF ModeMatches, Listed
<1> QED
  BY <1>4, <1>5

LEMMA AsideKeeps ==
  ASSUME ListsInv, module = "loaded", module' = module,
         NEW p \in Procs, Others(p), Aside(p),
         \A r \in Procs : frame'[r].pid \in Pids
  PROVE  ListsInv'
<1>1. \A s \in Syscalls, q \in Pids : Listed(s, q)' = Listed(s, q)
  BY DEF Aside, listVars, Listed
<1>2. SizeInv' /\ ModeMatches'
  <2>1. \A s \in Syscalls : \A places \in {{"load", "store"}, {"load", "store", "clear"}} :
          Exiting(s, places)' = Exiting(s, places)
    BY DEF Others, Aside, Exiting, ExitPlaces
  <2> QED
    BY <2>1, SameLists DEF ListsInv, Aside
<1>3. NoStalePid'
  <2> SUFFICES ASSUME NEW r \in Procs, pc'[r] = "dead", NEW s \in Syscalls PROVE ~Listed(s, r)'
    BY DEF NoStalePid
  <2>1. pc[r] = "dead"
    BY DEF Others, Aside
  <2> QED
    BY <1>1, <2>1 DEF ListsInv, NoStalePid, Pids
<1>4. ExitInv'
  <2> SUFFICES ASSUME NEW r \in Procs, pc'[r] \in ExitPlaces
               PROVE  LET s == frame'[r].syscall IN
                      /\ \A x \in Procs \ {r} : NotInside(x)'
                      /\ \A t \in Syscalls : t < s => ~Listed(t, r)'
                      /\ pc'[r] # "scan" => frame'[r].left = entries'[s][r]
                      /\ pc'[r] = "store" => frame'[r].count = listcount'[s]
                      /\ pc'[r] = "clear" => listcount'[s] = 0 /\ monitored'[s] = 1
    BY DEF ExitInv, ExitPlaces
  <2>1. r # p /\ pc[r] = pc'[r] /\ frame[r] = frame'[r]
    BY DEF Others, Aside
  <2>2. \A x \in Procs \ {r} : NotInside(x)
    BY <2>1 DEF ListsInv, ExitInv
  <2>3. \A x \in Procs \ {r} : NotInside(x)'
    <3> SUFFICES ASSUME NEW x \in Procs \ {r} PROVE NotInside(x)'
      OBVIOUS
    <3>1. CASE x # p
      BY <2>2, <3>1 DEF Others, NotInside
    <3>2. CASE x = p
      BY <2>1, <2>2, <3>2 DEF Aside, NotInside, NobodyExits
    <3> QED
      BY <3>1, <3>2
  <2> QED
    BY <1>1, <2>1, <2>3 DEF ListsInv, ExitInv, Aside, listVars, Pids
<1>5. PidInv'
  <2> SUFFICES ASSUME NEW r \in Procs, pc'[r] = "command", frame'[r].cmd \in {"start", "stop"},
                      frame'[r].pid # ALL
               PROVE  pc'[frame'[r].pid] # "dead"
    BY DEF PidInv
  <2>1. pc[frame'[r].pid] # "dead"
    BY DEF ListsInv, PidInv, Others, Aside
  <2>2. frame'[r].pid \in Procs
    BY DEF Pids
  <2> QED
    BY <2>1, <2>2 DEF Others, Aside
<1> QED
  BY <1>2, <1>3, <1>4, <1>5 DEF ListsInv

(***************************************************************************)
(* Commands that change a list.                                            *)
(***************************************************************************)
(* The list of s if pid q leaves it, if q enters it, or if it is destroyed. *)
LEMMA DelList ==
  ASSUME ListsType, NEW s \in Syscalls, NEW q \in Pids, entries[s][q] = 1,
         entries' = [entries EXCEPT ![s][q] = @ - 1], IsFiniteSet(ListOf(s))
  PROVE  /\ q \in ListOf(s) /\ ListOf(s)' = ListOf(s) \ {q}
         /\ IsFiniteSet(ListOf(s)') /\ Cardinality(ListOf(s)') = Cardinality(ListOf(s)) - 1
         /\ \A r \in Pids : entries'[s][r] <= entries[s][r]
<1>1. \A r \in Pids : entries[s][r] \in Nat /\ entries'[s][r] = IF r = q THEN 0 ELSE entries[s][r]
  BY DEF ListsType
<1>2. q \in ListOf(s) /\ ListOf(s)' = ListOf(s) \ {q}
  BY <1>1 DEF ListOf, Listed
<1> QED
  BY <1>1, <1>2, FS_RemoveElement

LEMMA AddList ==
  ASSUME ListsType, NEW s \in Syscalls, NEW q \in Pids, ~Listed(s, q),
         entries' = [entries EXCEPT ![s][q] = @ + 1], IsFiniteSet(ListOf(s))
  PROVE  /\ ListOf(s)' = ListOf(s) \cup {q}
         /\ IsFiniteSet(ListOf(s)') /\ Cardinality(ListOf(s)') = Cardinality(ListOf(s)) + 1
         /\ \A r \in Pids : entries'[s][r] = IF r = q THEN 1 ELSE entries[s][r]
<1>1. \A r \in Pids : entries[s][r] \in Nat /\ entries'[s][r] = IF r = q THEN 1 ELSE entries[s][r]
  BY DEF ListsType, Listed
<1>2. q \notin ListOf(s) /\ ListOf(s)' = ListOf(s) \cup {q}
  BY <1>1 DEF ListOf, Listed
<1> QED
  BY <1>1, <1>2, FS_AddElement

LEMMA NoList ==
  ASSUME ListsType, NEW s \in Syscalls, entries' = [entries EXCEPT ![s] = [q \in Pids |-> 0]]
  PROVE  /\ ListOf(s)' = {} /\ IsFiniteSet(ListOf(s)') /\ Cardinality(ListOf(s)') = 0
         /\ \A r \in Pids : entries'[s][r] = 0
<1>1. \A r \in Pids : entries'[s][r] = 0
  BY DEF ListsType
<1>2. ListOf(s)' = {}
  BY <1>1 DEF ListOf, Listed
<1> QED
  BY <1>1, <1>2, FS_EmptySet

(* What a command leaves alone: nobody exits, and the other lists.         *)
LEMMA CommandFrame ==
  ASSUME IInv, ListsInv, NEW p \in Procs, ListCommand(p)
  PROVE  LET s == frame[p].syscall IN
         /\ s \in Syscalls /\ frame[p].pid \in Pids /\ pc[p] = "command"
         /\ NobodyExits /\ NobodyExits'
         /\ \A r \in Procs : pc'[r] = "dead" <=> pc[r] = "dead"
         /\ \A t \in Syscalls \ {s} : /\ entries'[t] = entries[t]
                                      /\ listcount'[t] = listcount[t]
                                      /\ monitored'[t] = monitored[t]
         /\ PidInv'
<1> DEFINE s == frame[p].syscall
<1>1. pc[p] = "command"
  BY DEF ListCommand, ReleaseMark, StartUnlist, StartAll, StartOne, StopOne, StopAll, StopExcept,
         Enters
<1>2. s \in Syscalls /\ frame[p].pid \in Pids
  BY <1>1 DEF IInv, FrameInv, CommandPlaces, TypeOK, ProcType
<1>3. NobodyExits
  BY <1>1 DEF ListsInv, ExitInv, NotInside, NobodyExits, CommandPlaces, ExitPlaces
<1>4. /\ pc'[p] \in {"user", "restore"}
      /\ \A r \in Procs \ {p} : pc'[r] = pc[r] /\ frame'[r] = frame[r]
  <2>1. CASE ReleaseMark(p)
    BY <2>1, PlaceUpdates DEF ReleaseMark
  <2>2. CASE ~ReleaseMark(p)
    <3>1. Return(p)
      BY <2>2 DEF ListCommand, StartUnlist, StartAll, StartOne, StopOne, StopAll, StopExcept
    <3> QED
      BY <3>1, ReturnUpdates DEF Others
  <2> QED
    BY <2>1, <2>2
<1>5. NobodyExits' /\ \A r \in Procs : pc'[r] = "dead" <=> pc[r] = "dead"
  BY <1>1, <1>3, <1>4 DEF NobodyExits, ExitPlaces
<1>6. \A t \in Syscalls \ {s} : /\ entries'[t] = entries[t]
                                /\ listcount'[t] = listcount[t]
                                /\ monitored'[t] = monitored[t]
  BY <1>2 DEF ListCommand, ReleaseMark, StartUnlist, StartAll, StartOne, StopOne, StopAll,
     StopExcept, AddPid, DelPid, DestroyList, IInv, TypeOK, ListsType
<1>7. PidInv'
  <2> SUFFICES ASSUME NEW r \in Procs, pc'[r] = "command", frame'[r].cmd \in {"start", "stop"}
               PROVE  frame'[r].pid = ALL \/ pc'[frame'[r].pid] # "dead"
    BY DEF PidInv
  <2>1. r # p /\ pc[r] = "command" /\ frame'[r] = frame[r] /\ frame[r].pid \in Pids
    BY <1>4 DEF IInv, TypeOK, ProcType
  <2>2. frame[r].pid = ALL \/ pc[frame[r].pid] # "dead"
    BY <2>1 DEF ListsInv, PidInv
  <2> QED
    BY <1>5, <2>1, <2>2 DEF Pids
<1> QED
  BY <1>1, <1>2, <1>3, <1>5, <1>6, <1>7

LEMMA OneList ==
  ASSUME ListsInv, module = "loaded", module' = module, NobodyExits, NobodyExits', PidInv',
         \A r \in Procs : pc'[r] = "dead" => pc[r] = "dead",
         NEW s \in Syscalls,
         \A t \in Syscalls \ {s} : /\ entries'[t] = entries[t]
                                   /\ listcount'[t] = listcount[t]
                                   /\ monitored'[t] = monitored[t],
         IsFiniteSet(ListOf(s)'), listcount'[s] = Cardinality(ListOf(s)'),
         \A q \in Pids : entries'[s][q] <= (IF q = ALL THEN 0 ELSE 1),
         monitored'[s] = 0 => ListOf(s)' = {},
         monitored'[s] = 1 => ListOf(s)' # {},
         \A q \in Procs : q \in ListOf(s)' => q \in ListOf(s) \/ pc[q] # "dead"
  PROVE  ListsInv'
<1>1. \A t \in Syscalls : Pending(t) = FALSE /\ Pending(t)' = FALSE
  BY DEF Pending, NobodyExits, ExitPlaces
<1>2. \A t \in Syscalls \ {s} : ListOf(t)' = ListOf(t)
  BY DEF ListOf, Listed
<1>3. SizeInv'
  <2> SUFFICES ASSUME NEW t \in Syscalls
               PROVE  IsFiniteSet(ListOf(t)') /\ listcount'[t] = Cardinality(ListOf(t)')
    BY <1>1, FS_CardinalityType DEF SizeInv
  <2>1. CASE t = s
    BY <2>1
  <2>2. CASE t # s
    BY <1>1, <1>2, <2>2, FS_CardinalityType DEF ListsInv, SizeInv
  <2> QED
    BY <2>1, <2>2
<1>4. ModeMatches'
  <2> SUFFICES ASSUME NEW t \in Syscalls
               PROVE  /\ \A q \in Pids : entries'[t][q] <= (IF q = ALL THEN 0 ELSE 1)
                      /\ monitored'[t] = 0 => ListOf(t)' = {}
                      /\ monitored'[t] = 1 => ListOf(t)' # {}
    BY DEF ModeMatches, ListOf
  <2>1. CASE t = s
    BY <2>1
  <2>2. CASE t # s
    <3>1. Exiting(t, {"load", "store", "clear"}) = {}
      BY DEF Exiting, NobodyExits, ExitPlaces
    <3>2. /\ \A q \in Pids : entries[t][q] <= (IF q = ALL THEN 0 ELSE 1)
          /\ monitored[t] = 0 => ListOf(t) = {}
          /\ monitored[t] = 1 => ListOf(t) # {}
      BY <3>1 DEF ListsInv, ModeMatches, ListOf
    <3> QED
      BY <1>2, <2>2, <3>2
  <2> QED
    BY <2>1, <2>2
<1>5. NoStalePid'
  <2> SUFFICES ASSUME NEW r \in Procs, pc'[r] = "dead", NEW t \in Syscalls
               PROVE  r \notin ListOf(t)'
    BY DEF NoStalePid, ListOf, Pids
  <2>1. pc[r] = "dead" /\ r \notin ListOf(t)
    BY DEF ListsInv, NoStalePid, ListOf, Pids
  <2> QED
    BY <1>2, <2>1
<1>6. ExitInv'
  BY DEF ExitInv, NobodyExits, ExitPlaces
<1> QED
  BY <1>3, <1>4, <1>5, <1>6 DEF ListsInv

(* p takes q from the list, or puts it into the list, and nobody exits.    *)
LEMMA ListCommandKeeps ==
  ASSUME IInv, ListsInv, module = "loaded", module' = module,
         NEW p \in Procs, ListCommand(p)
  PROVE  ListsInv'
<1>0. frame[p].syscall \in Syscalls /\ frame[p].pid \in Pids
  BY CommandFrame
<1>s. PICK s \in Syscalls, q \in Pids : s = frame[p].syscall /\ q = frame[p].pid
  BY <1>0
<1>1. /\ s \in Syscalls /\ q \in Pids /\ pc[p] = "command"
      /\ NobodyExits /\ NobodyExits'
      /\ \A r \in Procs : pc'[r] = "dead" <=> pc[r] = "dead"
      /\ \A t \in Syscalls \ {s} : /\ entries'[t] = entries[t]
                                   /\ listcount'[t] = listcount[t]
                                   /\ monitored'[t] = monitored[t]
      /\ PidInv'
  BY <1>s, CommandFrame
<1>2. ListsType
  BY DEF IInv, TypeOK
<1>3. /\ IsFiniteSet(ListOf(s)) /\ Cardinality(ListOf(s)) \in Nat
      /\ listcount[s] = Cardinality(ListOf(s))
  <2>1. Pending(s) = FALSE
    BY <1>1 DEF Pending, NobodyExits, ExitPlaces
  <2>2. IsFiniteSet(ListOf(s)) /\ listcount[s] = Cardinality(ListOf(s)) + 0
    BY <1>1, <2>1 DEF ListsInv, SizeInv
  <2> QED
    BY <2>2, FS_CardinalityType
<1>4. /\ \A r \in Pids : entries[s][r] \in Nat /\ entries[s][r] <= (IF r = ALL THEN 0 ELSE 1)
      /\ monitored[s] \in 0..2
      /\ monitored[s] = 0 => ListOf(s) = {}
      /\ monitored[s] = 1 => ListOf(s) # {}
  <2>1. Exiting(s, {"load", "store", "clear"}) = {}
    BY <1>1 DEF Exiting, NobodyExits, ExitPlaces
  <2> QED
    BY <1>1, <1>2, <2>1 DEF ListsInv, ModeMatches, ListOf, ListsType
<1>5. CASE ReleaseMark(p) \/ StopAll(p) \/ StartAll(p)
  <2>1. ListOf(s)' = {} /\ IsFiniteSet(ListOf(s)') /\ Cardinality(ListOf(s)') = 0
        /\ listcount'[s] = 0 /\ monitored'[s] \in {0, 2} /\ \A r \in Pids : entries'[s][r] = 0
    <3>1. CASE \E m \in {0, 2} : DestroyList(s, m)
      BY <1>1, <1>2, <3>1, NoList DEF DestroyList, ListsType
    <3>2. CASE /\ monitored[s] = 0 /\ monitored' = [monitored EXCEPT ![s] = 2]
               /\ UNCHANGED <<entries, listcount>>
      <4>1. ListOf(s) = {} /\ ListOf(s)' = ListOf(s)
        BY <1>4, <3>2 DEF ListOf, Listed
      <4>2. \A r \in Pids : entries[s][r] = 0
        BY <1>4, <4>1 DEF ListOf, Listed
      <4> QED
        BY <1>1, <1>2, <1>3, <3>2, <4>1, <4>2, FS_EmptySet DEF ListsType
    <3> QED
      BY <1>s, <1>5, <3>1, <3>2 DEF ReleaseMark, StopAll, StartAll
  <2> QED
    <3>1. \A r \in Pids : entries'[s][r] <= (IF r = ALL THEN 0 ELSE 1)
      BY <2>1
    <3>2. /\ monitored'[s] # 1 /\ listcount'[s] = Cardinality(ListOf(s)')
          /\ \A r \in Procs : r \in ListOf(s)' => r \in ListOf(s) \/ pc[r] # "dead"
      BY <2>1
    <3> QED
      BY <1>1, <2>1, <3>1, <3>2, OneList
<1>6. CASE StartUnlist(p) \/ StopOne(p)
  <2>1. DelPid(s, q) /\ Listed(s, q) /\ monitored[s] # 0
    BY <1>s, <1>6 DEF StartUnlist, StopOne
  <2>2. q # ALL /\ entries[s][q] = 1
    BY <1>1, <1>4, <2>1 DEF Listed
  <2>3. /\ q \in ListOf(s) /\ ListOf(s)' = ListOf(s) \ {q}
        /\ IsFiniteSet(ListOf(s)') /\ Cardinality(ListOf(s)') = Cardinality(ListOf(s)) - 1
        /\ \A r \in Pids : entries'[s][r] <= entries[s][r]
    BY <1>1, <1>2, <1>3, <2>1, <2>2, DelList DEF DelPid
  <2>4. listcount'[s] = Cardinality(ListOf(s)')
    BY <1>1, <1>2, <1>3, <2>1, <2>3 DEF DelPid, ListsType
  <2>5. \A r \in Pids : entries'[s][r] <= (IF r = ALL THEN 0 ELSE 1)
    <3>1. \A r \in Pids : entries'[s][r] \in Nat
      BY <1>1, <1>2, <2>1, <2>2 DEF DelPid, ListsType
    <3> QED
      BY <1>4, <2>3, <3>1
  <2>6. monitored'[s] = IF listcount[s] = 1 /\ monitored[s] = 1 THEN 0 ELSE monitored[s]
    BY <1>1, <1>2, <2>1 DEF DelPid, ListsType
  <2>7. listcount[s] = 1 <=> ListOf(s)' = {}
    BY <1>3, <2>3, FS_EmptySet
  <2> QED
    BY <1>s, <1>1, <2>1, <2>3, <2>4, <2>5, <2>6, <2>7, OneList
<1>7. CASE StartOne(p) \/ StopExcept(p)
  <2>1. /\ AddPid(s, q) /\ q # ALL /\ ~Listed(s, q)
        /\ monitored'[s] \in {1, 2}
    <3>1. CASE StartOne(p)
      <4>1. ~Listed(s, q)
        BY <1>s, <1>1, <1>4, <3>1 DEF StartOne, ListOf, Listed
      <4> QED
        BY <1>s, <1>1, <1>2, <3>1, <4>1 DEF StartOne, ListsType
    <3>2. CASE StopExcept(p)
      BY <1>s, <3>2 DEF StopExcept
    <3> QED
      BY <1>7, <3>1, <3>2
  <2>2. pc[q] # "dead"
    BY <1>s, <1>1, <1>7, <2>1 DEF StartOne, StopExcept, Enters, ListsInv, PidInv
  <2>3. /\ ListOf(s)' = ListOf(s) \cup {q}
        /\ IsFiniteSet(ListOf(s)') /\ Cardinality(ListOf(s)') = Cardinality(ListOf(s)) + 1
        /\ \A r \in Pids : entries'[s][r] = IF r = q THEN 1 ELSE entries[s][r]
    BY <1>1, <1>2, <1>3, <2>1, AddList DEF AddPid
  <2>4. listcount'[s] = Cardinality(ListOf(s)')
    BY <1>1, <1>2, <1>3, <2>1, <2>3 DEF AddPid, ListsType
  <2>5. \A r \in Pids : entries'[s][r] <= (IF r = ALL THEN 0 ELSE 1)
    BY <1>4, <2>1, <2>3
  <2>6. /\ ListOf(s)' # {} /\ monitored'[s] # 0
        /\ \A r \in Procs : r \in ListOf(s)' => r \in ListOf(s) \/ pc[r] # "dead"
    BY <2>1, <2>2, <2>3
  <2> QED
    BY <1>1, <2>3, <2>4, <2>5, <2>6, OneList
<1> QED
  BY <1>5, <1>6, <1>7 DEF ListCommand

(***************************************************************************)
(* Exits.                                                                  *)
(***************************************************************************)
LEMMA BeginsKeeps ==
  ASSUME ListsInv, module = "loaded", module' = module, NEW p \in Procs, Others(p), Begins(p)
  PROVE  ListsInv'
<1> USE DEF ExitPlaces, CommandPlaces
<1>1. /\ \A r \in Procs : NotInside(r)
      /\ \A r \in Procs \ {p} : NotInside(r)'
      /\ pc'[p] = "scan" /\ frame'[p].syscall = 1
  BY DEF Begins, NotInside, Others
<1>2. SizeInv' /\ ModeMatches'
  <2>1. \A s \in Syscalls : \A places \in {{"load", "store"}, {"load", "store", "clear"}} :
          Exiting(s, places) = {} /\ Exiting(s, places)' = {}
    BY <1>1 DEF Exiting, NotInside
  <2> QED
    BY <2>1, SameLists DEF ListsInv, Begins
<1>3. NoStalePid'
  BY <1>1 DEF ListsInv, NoStalePid, Others, Begins, listVars, Listed
<1>4. ExitInv' /\ PidInv'
  BY <1>1 DEF ExitInv, PidInv, NotInside, Syscalls
<1> QED
  BY <1>2, <1>3, <1>4 DEF ListsInv

(* Only p is in the module when p exits.                                   *)
LEMMA ExitFrame ==
  ASSUME IInv, ListsInv, NEW p \in Procs, Exits(p)
  PROVE  /\ pc[p] \in ExitPlaces /\ pc'[p] \in ExitPlaces \cup {"dead"}
         /\ Others(p)
         /\ \A r \in Procs \ {p} : NotInside(r) /\ NotInside(r)'
         /\ pc[p] # "scan" => frame[p].syscall \in Syscalls
<1> USE DEF ExitPlaces
<1>1. pc[p] \in ExitPlaces
  BY DEF Exits, ExitScan, ExitUnlink, ExitLoad, ExitStore, ExitClear, ExitNextList, ExitProcess
<1>2. /\ pc'[p] \in ExitPlaces \cup {"dead"}
      /\ \A r \in Procs \ {p} : pc'[r] = pc[r]
  <2>1. \E place \in ExitPlaces \cup {"dead"} : Goto(p, place)
    BY DEF Exits, ExitScan, ExitUnlink, ExitLoad, ExitStore, ExitClear, ExitNextList, ExitProcess
  <2> QED
    BY <2>1, PlaceUpdates
<1>3. \A r \in Procs \ {p} : frame'[r] = frame[r]
  <2>1. UNCHANGED frame \/ \E fr : frame' = [frame EXCEPT ![p] = fr]
    BY DEF Exits, ExitScan, ExitUnlink, ExitLoad, ExitStore, ExitClear, ExitNextList, ExitProcess
  <2> QED
    BY <2>1, FrameUpdates
<1>4. \A r \in Procs \ {p} : NotInside(r) /\ NotInside(r)'
  BY <1>1, <1>2 DEF ListsInv, ExitInv, NotInside
<1>5. pc[p] # "scan" => frame[p].syscall \in Syscalls
  BY <1>1 DEF IInv, FrameInv
<1> QED
  BY <1>1, <1>2, <1>3, <1>4, <1>5 DEF Others

(* So the invariants say this of the lists, before and after.              *)
LEMMA ExitView ==
  ASSUME NEW p \in Procs, \A r \in Procs \ {p} : NotInside(r)
  PROVE  \A s \in Syscalls :
           /\ Pending(s) <=> pc[p] \in {"load", "store"} /\ frame[p].syscall = s
           /\ Exiting(s, {"load", "store", "clear"}) # {} <=>
                pc[p] \in {"load", "store", "clear"} /\ frame[p].syscall = s
BY DEF NotInside, ExitPlaces, Pending, Exiting

LEMMA ExitKeeps ==
  ASSUME ListsInv, NEW p \in Procs, Others(p),
         pc'[p] \in ExitPlaces \cup {"dead"},
         \A r \in Procs \ {p} : NotInside(r)',
         SizeInv', ModeMatches',
         \A s \in Syscalls, q \in Pids : Listed(s, q)' => Listed(s, q),
         module = "loaded", module' = module,
         pc'[p] = "dead" => \A t \in Syscalls : ~Listed(t, p),
         LET s == frame'[p].syscall IN
           pc'[p] \in ExitPlaces =>
             /\ \A t \in Syscalls : t < s => ~Listed(t, p)'
             /\ pc'[p] # "scan" => frame'[p].left = entries'[s][p]
             /\ pc'[p] = "store" => frame'[p].count = listcount'[s]
             /\ pc'[p] = "clear" => listcount'[s] = 0 /\ monitored'[s] = 1
  PROVE  ListsInv'
<1> USE DEF ExitPlaces
<1>1. NoStalePid'
  <2> SUFFICES ASSUME NEW r \in Procs, pc'[r] = "dead", NEW s \in Syscalls PROVE ~Listed(s, r)'
    BY DEF NoStalePid
  <2>1. CASE r = p
    BY <2>1 DEF Pids
  <2>2. CASE r # p
    BY <2>2 DEF ListsInv, NoStalePid, Others, Pids
  <2> QED
    BY <2>1, <2>2
<1>2. ExitInv'
  <2> SUFFICES ASSUME NEW r \in Procs, pc'[r] \in ExitPlaces
               PROVE  LET s == frame'[r].syscall IN
                      /\ \A x \in Procs \ {r} : NotInside(x)'
                      /\ \A t \in Syscalls : t < s => ~Listed(t, r)'
                      /\ pc'[r] # "scan" => frame'[r].left = entries'[s][r]
                      /\ pc'[r] = "store" => frame'[r].count = listcount'[s]
                      /\ pc'[r] = "clear" => listcount'[s] = 0 /\ monitored'[s] = 1
    BY DEF ExitInv
  <2>1. r = p
    BY DEF NotInside
  <2> QED
    BY <2>1
<1>3. PidInv'
  BY DEF PidInv, NotInside, CommandPlaces
<1> QED
  BY <1>1, <1>2, <1>3 DEF ListsInv

(* What an exiting process knows of the list it is at.                     *)
LEMMA ExitFacts ==
  ASSUME IInv, ListsInv, NEW p \in Procs, Exits(p), NEW s \in Syscalls, s = frame[p].syscall
  PROVE  /\ \A q \in Pids : entries[s][q] \in Nat /\ entries[s][q] <= (IF q = ALL THEN 0 ELSE 1)
         /\ monitored[s] \in 0..2 /\ listcount[s] \in Int
         /\ IsFiniteSet(ListOf(s)) /\ Cardinality(ListOf(s)) \in Nat
         /\ pc[p] \in {"load", "store"} => listcount[s] = Cardinality(ListOf(s)) + 1
         /\ pc[p] \notin {"load", "store"} => listcount[s] = Cardinality(ListOf(s))
         /\ pc[p] # "scan" => frame[p].left = entries[s][p]
         /\ monitored[s] = 0 => ListOf(s) = {}
         /\ monitored[s] = 1 => ListOf(s) # {} \/ pc[p] \in {"load", "store", "clear"}
<1>1. /\ Pending(s) <=> pc[p] \in {"load", "store"}
      /\ Exiting(s, {"load", "store", "clear"}) # {} <=> pc[p] \in {"load", "store", "clear"}
  BY ExitFrame, ExitView
<1>2. ListsType
  BY DEF IInv, TypeOK
<1>3. IsFiniteSet(ListOf(s)) /\ listcount[s] = Cardinality(ListOf(s)) + (IF Pending(s) THEN 1 ELSE 0)
  BY DEF ListsInv, SizeInv
<1>4. Cardinality(ListOf(s)) \in Nat
  BY <1>3, FS_CardinalityType
<1>5. pc[p] # "scan" => frame[p].left = entries[s][p]
  BY ExitFrame DEF ListsInv, ExitInv
<1>6. /\ \A q \in Pids : entries[s][q] \in Nat /\ entries[s][q] <= (IF q = ALL THEN 0 ELSE 1)
      /\ monitored[s] \in 0..2 /\ listcount[s] \in Int
  BY <1>2 DEF ListsType, ListsInv, ModeMatches
<1>7. /\ monitored[s] = 0 => ListOf(s) = {}
      /\ monitored[s] = 1 => ListOf(s) # {} \/ pc[p] \in {"load", "store", "clear"}
  BY <1>1 DEF ListsInv, ModeMatches, ListOf
<1> QED
  BY <1>1, <1>3, <1>4, <1>5, <1>6, <1>7

(* A step of an exit changes one list, or none.                            *)
LEMMA ExitLists ==
  ASSUME ListsInv, NEW p \in Procs, Others(p), NEW s \in Syscalls, s = frame[p].syscall,
         frame'[p].syscall = s,
         \A r \in Procs \ {p} : NotInside(r) /\ NotInside(r)',
         \A t \in Syscalls \ {s} : /\ entries'[t] = entries[t]
                                   /\ listcount'[t] = listcount[t]
                                   /\ monitored'[t] = monitored[t],
         IsFiniteSet(ListOf(s)'),
         listcount'[s] = Cardinality(ListOf(s)') + (IF pc'[p] \in {"load", "store"} THEN 1 ELSE 0),
         \A q \in Pids : entries'[s][q] <= (IF q = ALL THEN 0 ELSE 1),
         monitored'[s] = 0 => ListOf(s)' = {},
         monitored'[s] = 1 => ListOf(s)' # {} \/ pc'[p] \in {"load", "store", "clear"}
  PROVE  SizeInv' /\ ModeMatches'
<1>1. \A t \in Syscalls :
        /\ Pending(t) <=> pc[p] \in {"load", "store"} /\ t = s
        /\ Exiting(t, {"load", "store", "clear"}) # {} <=>
             pc[p] \in {"load", "store", "clear"} /\ t = s
  BY ExitView
<1>2. \A t \in Syscalls :
        /\ Pending(t)' <=> pc'[p] \in {"load", "store"} /\ t = s
        /\ Exiting(t, {"load", "store", "clear"})' # {} <=>
             pc'[p] \in {"load", "store", "clear"} /\ t = s
  BY DEF NotInside, ExitPlaces, Pending, Exiting
<1>3. \A t \in Syscalls \ {s} : ListOf(t)' = ListOf(t)
  BY DEF ListOf, Listed
<1>4. SizeInv'
  <2> SUFFICES ASSUME NEW t \in Syscalls
               PROVE  /\ IsFiniteSet(ListOf(t)')
                      /\ listcount'[t] = Cardinality(ListOf(t)') + (IF Pending(t)' THEN 1 ELSE 0)
    BY DEF SizeInv
  <2>1. CASE t = s
    BY <1>2, <2>1
  <2>2. CASE t # s
    BY <1>1, <1>2, <1>3, <2>2 DEF ListsInv, SizeInv
  <2> QED
    BY <2>1, <2>2
<1>5. ModeMatches'
  <2> SUFFICES ASSUME NEW t \in Syscalls
               PROVE  /\ \A q \in Pids : entries'[t][q] <= (IF q = ALL THEN 0 ELSE 1)
                      /\ monitored'[t] = 0 => ListOf(t)' = {}
                      /\ monitored'[t] = 1 =>
                           ListOf(t)' # {} \/ Exiting(t, {"load", "store", "clear"})' # {}
    BY DEF ModeMatches, ListOf
  <2>1. CASE t = s
    BY <1>2, <2>1
  <2>2. CASE t # s
    <3>1. /\ \A q \in Pids : entries[t][q] <= (IF q = ALL THEN 0 ELSE 1)
          /\ monitored[t] = 0 => ListOf(t) = {}
          /\ monitored[t] = 1 => ListOf(t) # {}
      BY <1>1, <2>2 DEF ListsInv, ModeMatches, ListOf
    <3> QED
      BY <1>3, <2>2, <3>1
  <2> QED
    BY <2>1, <2>2
<1> QED
  BY <1>4, <1>5

LEMMA ExitsKeep ==
  ASSUME IInv, ListsInv, module = "loaded", module' = module, NEW p \in Procs, Exits(p)
  PROVE  ListsInv'
<1>1. /\ pc[p] \in ExitPlaces /\ pc'[p] \in ExitPlaces \cup {"dead"}
      /\ Others(p)
      /\ \A r \in Procs \ {p} : NotInside(r) /\ NotInside(r)'
      /\ pc[p] # "scan" => frame[p].syscall \in Syscalls
  BY ExitFrame
<1>t. /\ ListsType /\ pc \in [Procs -> Places] /\ frame \in [Procs -> Frames]
      /\ p \in Pids /\ p # ALL
  BY ProcsAssumption DEF IInv, TypeOK, ProcType, Frames, Pids, ALL
<1>b. \A t \in Syscalls : t < frame[p].syscall => ~Listed(t, p)
  BY <1>1 DEF ListsInv, ExitInv
(* Steps that leave the lists alone.                                       *)
<1>2. ASSUME UNCHANGED listVars,
             \A s \in Syscalls : \A places \in {{"load", "store"}, {"load", "store", "clear"}} :
               Exiting(s, places)' = Exiting(s, places)
      PROVE  /\ SizeInv' /\ ModeMatches'
             /\ \A s \in Syscalls, q \in Pids : Listed(s, q)' = Listed(s, q)
  BY <1>2, SameLists DEF ListsInv, listVars, Listed
<1>3. CASE ExitScan(p)
  <2>1. /\ pc[p] = "scan" /\ pc'[p] = "walk" /\ frame[p].syscall \in Syscalls
        /\ frame' = [frame EXCEPT ![p].left = entries[frame[p].syscall][p]]
        /\ UNCHANGED listVars
    BY <1>3, PlaceUpdates DEF ExitScan
  <2>2. frame'[p].syscall = frame[p].syscall /\ frame'[p].left = entries[frame[p].syscall][p]
    BY <1>t, <2>1 DEF Frames
  <2>3. \A s \in Syscalls : \A places \in {{"load", "store"}, {"load", "store", "clear"}} :
          Exiting(s, places)' = Exiting(s, places)
    BY <1>1, <2>1, <2>2 DEF Exiting, Others
  <2> QED
    BY <1>1, <1>2, <1>b, <1>t, <2>1, <2>2, <2>3, ExitKeeps DEF listVars
<1>4. CASE ExitLoad(p)
  <2>1. /\ pc[p] = "load" /\ pc'[p] = "store" /\ frame[p].syscall \in Syscalls
        /\ frame' = [frame EXCEPT ![p].count = listcount[frame[p].syscall]]
        /\ UNCHANGED listVars
    BY <1>1, <1>4, PlaceUpdates DEF ExitLoad
  <2>2. /\ frame'[p].syscall = frame[p].syscall /\ frame'[p].left = frame[p].left
        /\ frame'[p].count = listcount[frame[p].syscall]
    BY <1>t, <2>1 DEF Frames
  <2>3. \A s \in Syscalls : \A places \in {{"load", "store"}, {"load", "store", "clear"}} :
          Exiting(s, places)' = Exiting(s, places)
    BY <1>1, <2>1, <2>2 DEF Exiting, Others
  <2>4. frame[p].left = entries[frame[p].syscall][p]
    BY <2>1, ExitFacts
  <2> QED
    BY <1>1, <1>2, <1>b, <1>t, <2>1, <2>2, <2>3, <2>4, ExitKeeps DEF listVars
<1>5. CASE ExitNextList(p)
  <2>1. /\ pc[p] = "walk" /\ pc'[p] = "scan" /\ frame[p].syscall \in Syscalls
        /\ frame' = [frame EXCEPT ![p] = Frame("none", frame[p].syscall + 1, ALL)]
        /\ UNCHANGED listVars
        /\ frame[p].left = 0 \/ ~Listed(frame[p].syscall, p)
    BY <1>1, <1>5, PlaceUpdates DEF ExitNextList
  <2>2. frame'[p].syscall = frame[p].syscall + 1
    <3>1. frame'[p] = Frame("none", frame[p].syscall + 1, ALL)
      BY <1>t, <2>1
    <3> QED
      BY <3>1 DEF Frame
  <2>3. \A s \in Syscalls : \A places \in {{"load", "store"}, {"load", "store", "clear"}} :
          Exiting(s, places)' = Exiting(s, places)
    BY <1>1, <2>1 DEF Exiting, Others
  <2>4. ~Listed(frame[p].syscall, p)
    BY <1>t, <2>1, ExitFacts DEF Listed
  <2>5. \A t \in Syscalls : t < frame[p].syscall + 1 => ~Listed(t, p)
    BY <1>b, <2>1, <2>4, SyscallsAssumption DEF Syscalls
  <2> QED
    BY <1>1, <1>2, <1>t, <2>1, <2>2, <2>3, <2>5, ExitKeeps
<1>6. CASE ExitProcess(p)
  <2>1. /\ pc[p] = "scan" /\ pc'[p] = "dead" /\ frame[p].syscall = NSyscalls + 1
        /\ UNCHANGED listVars
    BY <1>6, PlaceUpdates DEF ExitProcess
  <2>2. \A s \in Syscalls : \A places \in {{"load", "store"}, {"load", "store", "clear"}} :
          Exiting(s, places)' = Exiting(s, places)
    BY <1>1, <2>1 DEF Exiting, Others
  <2>3. \A t \in Syscalls : ~Listed(t, p)
    BY <1>b, <2>1, SyscallsAssumption DEF Syscalls
  <2> QED
    BY <1>1, <1>2, <2>1, <2>2, <2>3, ExitKeeps DEF ExitPlaces
(* Steps that change the list of s.                                        *)
<1>7. CASE ExitUnlink(p)
  <2>1. PICK s \in Syscalls : s = frame[p].syscall
    BY <1>1, <1>7 DEF ExitUnlink
  <2>2. /\ pc[p] = "walk" /\ pc'[p] = "load" /\ Listed(s, p)
        /\ entries' = [entries EXCEPT ![s][p] = @ - 1]
        /\ frame' = [frame EXCEPT ![p].left = @ - 1]
        /\ UNCHANGED <<monitored, listcount>>
    BY <1>7, <2>1, PlaceUpdates DEF ExitUnlink
  <2>3. frame'[p].syscall = s /\ frame'[p].left = frame[p].left - 1
    BY <1>t, <2>1, <2>2 DEF Frames
  <2>4. entries[s][p] = 1 /\ frame[p].left = 1 /\ monitored[s] # 0
        /\ listcount[s] = Cardinality(ListOf(s)) /\ IsFiniteSet(ListOf(s))
        /\ Cardinality(ListOf(s)) \in Nat
    BY <1>t, <2>1, <2>2, ExitFacts DEF Listed, ListOf
  <2>5. /\ ListOf(s)' = ListOf(s) \ {p}
        /\ IsFiniteSet(ListOf(s)') /\ Cardinality(ListOf(s)') = Cardinality(ListOf(s)) - 1
        /\ \A q \in Pids : entries'[s][q] <= entries[s][q]
    BY <1>t, <2>2, <2>4, DelList
  <2>6. /\ entries'[s][p] = 0 /\ \A q \in Pids : entries[s][q] \in Nat /\ entries'[s][q] \in Nat
        /\ \A t \in Syscalls \ {s} : entries'[t] = entries[t]
    BY <1>t, <2>2, <2>4 DEF ListsType
  <2>7. \A q \in Pids : entries'[s][q] <= (IF q = ALL THEN 0 ELSE 1)
    BY <2>1, <2>5, <2>6, ExitFacts
  <2>8. SizeInv' /\ ModeMatches'
    <3>1. listcount'[s] = Cardinality(ListOf(s)') + (IF pc'[p] \in {"load", "store"} THEN 1 ELSE 0)
      BY <2>2, <2>4, <2>5
    <3>2. /\ monitored'[s] # 0 /\ pc'[p] \in {"load", "store", "clear"}
          /\ \A t \in Syscalls \ {s} : /\ entries'[t] = entries[t]
                                       /\ listcount'[t] = listcount[t]
                                       /\ monitored'[t] = monitored[t]
      BY <2>2, <2>4, <2>6
    <3> QED
      BY <1>1, <2>1, <2>3, <2>5, <2>7, <3>1, <3>2, ExitLists
  <2>9. \A t \in Syscalls, q \in Pids : Listed(t, q)' => Listed(t, q)
    BY <2>5, <2>6 DEF Listed
  <2> QED
    BY <1>1, <1>b, <1>t, <2>1, <2>2, <2>3, <2>4, <2>6, <2>8, <2>9, ExitKeeps
<1>8. CASE ExitStore(p)
  <2>1. PICK s \in Syscalls : s = frame[p].syscall
    BY <1>1, <1>8 DEF ExitStore
  <2> DEFINE n == frame[p].count - 1
  <2>2. /\ pc[p] = "store" /\ pc'[p] = IF n = 0 /\ monitored[s] = 1 THEN "clear" ELSE "walk"
        /\ listcount' = [listcount EXCEPT ![s] = n]
        /\ UNCHANGED <<monitored, entries, frame>>
    BY <1>8, <2>1, PlaceUpdates DEF ExitStore
  <2>3. frame[p].count = listcount[s]
    BY <2>1, <2>2 DEF ListsInv, ExitInv
  <2>4. /\ n = Cardinality(ListOf(s)) /\ IsFiniteSet(ListOf(s))
        /\ \A q \in Pids : entries[s][q] <= (IF q = ALL THEN 0 ELSE 1)
        /\ frame[p].left = entries[s][p]
        /\ monitored[s] = 0 => ListOf(s) = {}
    BY <2>1, <2>2, <2>3, ExitFacts
  <2>5. /\ listcount'[s] = n
        /\ \A t \in Syscalls \ {s} : listcount'[t] = listcount[t]
    BY <1>t, <2>2 DEF ListsType
  <2>6. ListOf(s)' = ListOf(s) /\ \A t \in Syscalls, q \in Pids : Listed(t, q)' = Listed(t, q)
    BY <2>2 DEF ListOf, Listed
  <2>7. monitored[s] = 1 => ListOf(s) # {} \/ n = 0
    BY <2>4, FS_EmptySet
  <2>8. SizeInv' /\ ModeMatches'
    <3>1. pc'[p] \in {"clear", "walk"}
      BY <2>2
    <3>2. listcount'[s] = Cardinality(ListOf(s)') + 0
      BY <2>4, <2>5, <2>6, FS_CardinalityType
    <3>3. /\ monitored'[s] = 0 => ListOf(s)' = {}
          /\ monitored'[s] = 1 => ListOf(s)' # {} \/ pc'[p] \in {"load", "store", "clear"}
      BY <2>2, <2>4, <2>6, <2>7
    <3>4. \A q \in Pids : entries'[s][q] <= (IF q = ALL THEN 0 ELSE 1)
      BY <2>2, <2>4
    <3> QED
      BY <1>1, <2>1, <2>2, <2>4, <2>5, <2>6, <3>1, <3>2, <3>3, <3>4, ExitLists
  <2> QED
    BY <1>1, <1>b, <1>t, <2>1, <2>2, <2>4, <2>5, <2>6, <2>8, ExitKeeps
<1>9. CASE ExitClear(p)
  <2>1. PICK s \in Syscalls : s = frame[p].syscall
    BY <1>1, <1>9 DEF ExitClear
  <2>2. /\ pc[p] = "clear" /\ pc'[p] = "walk"
        /\ monitored' = [monitored EXCEPT ![s] = 0]
        /\ UNCHANGED <<listcount, entries, frame>>
    BY <1>9, <2>1, PlaceUpdates DEF ExitClear
  <2>3. listcount[s] = 0
    BY <2>1, <2>2 DEF ListsInv, ExitInv, ExitPlaces
  <2>4. /\ Cardinality(ListOf(s)) = 0 /\ IsFiniteSet(ListOf(s))
        /\ \A q \in Pids : entries[s][q] <= (IF q = ALL THEN 0 ELSE 1)
        /\ frame[p].left = entries[s][p]
    BY <2>1, <2>2, <2>3, ExitFacts
  <2>5. /\ monitored'[s] = 0
        /\ \A t \in Syscalls \ {s} : monitored'[t] = monitored[t]
    BY <1>t, <2>2 DEF ListsType
  <2>6. ListOf(s)' = {} /\ ListOf(s)' = ListOf(s)
        /\ \A t \in Syscalls, q \in Pids : Listed(t, q)' = Listed(t, q)
    BY <2>2, <2>4, FS_EmptySet DEF ListOf, Listed
  <2>8. SizeInv' /\ ModeMatches'
    <3>1. listcount'[s] = Cardinality(ListOf(s)') + 0
      BY <2>2, <2>3, <2>4, <2>6
    <3>2. \A q \in Pids : entries'[s][q] <= (IF q = ALL THEN 0 ELSE 1)
      BY <2>2, <2>4
    <3>3. /\ pc'[p] \notin {"load", "store"} /\ frame'[p].syscall = s
          /\ monitored'[s] # 1 /\ ListOf(s)' = {}
          /\ \A t \in Syscalls \ {s} : /\ entries'[t] = entries[t]
                                       /\ listcount'[t] = listcount[t]
                                       /\ monitored'[t] = monitored[t]
      BY <2>1, <2>2, <2>5, <2>6
    <3> QED
      BY <1>1, <2>1, <2>4, <2>6, <3>1, <3>2, <3>3, ExitLists
  <2> QED
    BY <1>1, <1>b, <1>t, <2>1, <2>2, <2>4, <2>6, <2>8, ExitKeeps
<1> QED
  BY <1>3, <1>4, <1>5, <1>6, <1>7, <1>8, <1>9 DEF Exits

(***************************************************************************)
(* The module loaded, rmmod, and after it.                                 *)
(***************************************************************************)
LEMMA InitUnload == UInit => UInv
<1> SUFFICES ASSUME UInit PROVE UInv
  OBVIOUS
<1>1. Init /\ module = "loaded" /\ i = 1
  BY DEF UInit
<1>2. IInv
  BY <1>1, InitInv
<1>3. \A s \in Syscalls : ListOf(s) = {} /\ listcount[s] = 0 /\ monitored[s] = 0
                          /\ \A q \in Pids : entries[s][q] = 0
  BY <1>1 DEF Init, ListOf, Listed
<1>4. \A p \in Procs : pc[p] = "user"
  BY <1>1 DEF Init
<1>5. SizeInv
  <2>1. \A s \in Syscalls : Pending(s) = FALSE
    BY <1>4 DEF Pending
  <2>2. IsFiniteSet({}) /\ Cardinality({}) = 0
    BY FS_EmptySet
  <2> QED
    BY <1>3, <2>1, <2>2 DEF SizeInv
<1>6. ModeMatches /\ NoStalePid
  BY <1>3, <1>4 DEF ModeMatches, NoStalePid, Listed
<1>7. ExitInv /\ PidInv
  BY <1>4 DEF ExitInv, PidInv, ExitPlaces
<1> QED
  BY <1>1, <1>2, <1>5, <1>6, <1>7 DEF UInv, LoadedInv

LEMMA LoadedStep ==
  ASSUME ~Overlap, UInv, module = "loaded", Next, UNCHANGED unloadVars
  PROVE  UInv'
<1>1. IInv /\ ListsInv /\ i = 1 /\ module' = module /\ i' = i
  BY DEF UInv, LoadedInv, ListsInv, unloadVars
<1>2. IInv'
  BY <1>1, StepInv
<1>3. PICK p \in Procs : Requests(p) \/ Locked(p) \/ Unlocked(p)
  BY DEF Next
<1>4. \A r \in Procs : frame'[r].pid \in Pids
  BY <1>2 DEF IInv, TypeOK, ProcType
<1>5. ListsInv'
  BY <1>1, <1>3, <1>4, ListKinds, AsideKeeps, BeginsKeeps, ListCommandKeeps, ExitsKeep
<1> QED
  BY <1>1, <1>2, <1>5 DEF UInv, LoadedInv, ListsInv

(* rmmod starts when nobody is inside my_syscall or my_exit_group.         *)
LEMMA BeginStep ==
  ASSUME ~Overlap, UInv, UnloadBegin
  PROVE  UInv'
<1>1. /\ IInv /\ i = 1 /\ SizeInv /\ ModeMatches /\ module' = "exiting"
      /\ \A p \in Procs : NotInside(p)
      /\ sysTable' = [sysTable EXCEPT ![CUSTOM] = "orig", ![ExitGroup] = "orig"]
      /\ sysLock' = RMMOD /\ UNCHANGED <<f, intercepted, listVars, tableLock, pc, frame, exits, i>>
  BY DEF UnloadBegin, UInv, LoadedInv, NotInside
<1>2. \A p \in Procs : NotInside(p)'
  BY <1>1 DEF NotInside
<1>3. SizeInv' /\ ModeMatches'
  <2>1. \A s \in Syscalls : \A places \in {{"load", "store"}, {"load", "store", "clear"}} :
          Exiting(s, places)' = Exiting(s, places)
    BY <1>1 DEF Exiting
  <2> QED
    BY <1>1, <2>1, SameLists
<1>4. TableType' /\ ListsType' /\ pc' \in [Procs -> Places]
  BY <1>1 DEF IInv, TypeOK, TableType, ListsType, ProcType, listVars, Functions
<1>5. /\ sysTable'[CUSTOM] = "orig"
      /\ \A s \in Syscalls \ {ExitGroup} : sysTable'[s] = sysTable[s]
  BY <1>1, SyscallsAssumption DEF IInv, TypeOK, TableType, Syscalls, CUSTOM
<1>6. \A s \in Syscalls : sysTable[s] = IF intercepted[s] THEN "interceptor" ELSE Original(s)
  BY <1>1 DEF IInv, HookMatches, At, NotInside, CommandPlaces
<1>7. \A s \in Syscalls : intercepted[s] => f[s] = Original(s)
  BY <1>1, <1>6 DEF IInv, EntryInv
<1>8. \A s \in Syscalls : ~intercepted[s] => ListOf(s) = {}
  BY <1>1 DEF IInv, OnlyInterceptedMonitored, ListOf, Listed
<1>9. \A s \in Syscalls : ListOf(s)' = ListOf(s) /\ Original(s)' = Original(s)
  BY <1>1 DEF ListOf, Listed, listVars, Original
<1>10. RemovedInv'
  <2>1. \A s \in Syscalls :
          /\ intercepted'[s] => f'[s] = Original(s)
          /\ s # ExitGroup => \/ sysTable'[s] = "orig"
                              \/ sysTable'[s] = "interceptor" /\ s >= i' /\ intercepted'[s]
          /\ s < i' \/ ~intercepted'[s] => ListOf(s)' = {}
    <3> TAKE s \in Syscalls
    <3>1. s >= 1 /\ ~(s < 1)
      BY SyscallsAssumption DEF Syscalls
    <3>2. intercepted'[s] => f'[s] = Original(s)
      BY <1>1, <1>7
    <3>3. s # ExitGroup => \/ sysTable'[s] = "orig"
                           \/ sysTable'[s] = "interceptor" /\ s >= i' /\ intercepted'[s]
      BY <1>1, <1>5, <1>6, <3>1 DEF Original
    <3>4. s < i' \/ ~intercepted'[s] => ListOf(s)' = {}
      BY <1>1, <1>8, <1>9, <3>1
    <3> QED
      BY <3>2, <3>3, <3>4
  <2>2. i' \in 1..(NSyscalls + 1)
    BY <1>1, SyscallsAssumption
  <2> QED
    BY <1>1, <1>2, <1>4, <1>5, <1>9, <2>1, <2>2 DEF RemovedInv
<1> QED
  BY <1>1, <1>3, <1>10 DEF UInv, NoStalePid

(* While rmmod holds the lock, calls that are not commands go on.          *)
LEMMA ExitingQuiet ==
  ASSUME ~Overlap, UInv, module = "exiting", Next, UNCHANGED unloadVars
  PROVE  /\ UNCHANGED <<sysTable, f, intercepted, listVars, lockVars>>
         /\ \E p \in Procs, place \in Places :
              Goto(p, place) /\ place \notin CommandPlaces \cup ExitPlaces
<1> USE DEF ExitPlaces, CommandPlaces
<1>1. /\ RemovedInv /\ SizeInv /\ ModeMatches /\ sysLock = RMMOD /\ sysTable[CUSTOM] = "orig"
      /\ module' = module /\ i' = i
  BY DEF UInv, RemovedInv, unloadVars
<1>2. PICK p \in Procs : Requests(p) \/ Locked(p) \/ Unlocked(p)
  BY DEF Next
<1>3. NotInside(p) /\ pc \in [Procs -> Places]
  BY <1>1 DEF RemovedInv
<1>4. ~Quiet(p)
  BY <1>1 DEF Quiet
<1>5. /\ UNCHANGED <<sysTable, f, intercepted, listVars, lockVars>>
      /\ \E place \in Places : Goto(p, place) /\ place \notin CommandPlaces \cup ExitPlaces
  <2>1. ASSUME NEW s \in Syscalls, Syscall(p, s)
        PROVE  Goto(p, Runs(sysTable[s], s)) /\ sysTable[s] # "my_exit_group"
    <3>1. s # ExitGroup
      BY <1>4, <2>1 DEF Syscall
    <3> QED
      BY <1>1, <2>1, <3>1 DEF Syscall, RemovedInv
  <2>2. ASSUME NEW g, NEW s, g # "my_exit_group"
        PROVE  Runs(g, s) \in Places \ (CommandPlaces \cup ExitPlaces)
    BY <2>2, RunsPlace DEF Places
  <2>3. CASE \E s \in Syscalls : Syscall(p, s)
    BY <2>1, <2>2, <2>3 DEF Syscall
  <2>4. CASE InterceptorCall(p)
    BY <1>4, <2>2, <2>4 DEF InterceptorCall
  <2>5. CASE Spawn(p) \/ InterceptorCheck(p)
    BY <2>5 DEF Spawn, InterceptorCheck, exitRest, Places
  <2>6. CASE \E cmd \in Commands, s \in Syscalls, q \in Pids : Call(p, cmd, s, q)
    BY <1>1, <2>6 DEF Call
  <2>7. ASSUME Locked(p), ~InterceptorCheck(p) PROVE FALSE
    BY <1>3, <2>7 DEF NotInside, Locked, InterceptBusy, InterceptMark, InterceptSave,
       ReleaseRefused, ReleaseMark, ReleaseRestore, StartRefused, StartUnlist, StartAll, StartOne,
       StopRefused, StopOne, StopAll, StopExcept, Enters
  <2>8. ASSUME Unlocked(p), ~InterceptorCall(p) PROVE FALSE
    BY <1>3, <2>8 DEF NotInside, Unlocked, InterceptHijack, ReleaseUnlock, ExitScan, ExitUnlink,
       ExitLoad, ExitStore, ExitClear, ExitNextList, ExitProcess
  <2> QED
    BY <1>2, <2>3, <2>4, <2>5, <2>6, <2>7, <2>8 DEF Requests
<1> QED
  BY <1>5

LEMMA ExitingStep ==
  ASSUME ~Overlap, UInv, module = "exiting", Next, UNCHANGED unloadVars
  PROVE  UInv'
<1> USE DEF ExitPlaces, CommandPlaces
<1>1. /\ RemovedInv /\ SizeInv /\ ModeMatches /\ sysLock = RMMOD /\ sysTable[CUSTOM] = "orig"
      /\ module' = module /\ i' = i
  BY DEF UInv, RemovedInv, unloadVars
<1>2. PICK p \in Procs : /\ UNCHANGED <<sysTable, f, intercepted, listVars, lockVars>>
                         /\ \E place \in Places :
                              Goto(p, place) /\ place \notin CommandPlaces \cup ExitPlaces
  BY ExitingQuiet
<1>3. NotInside(p) /\ pc \in [Procs -> Places]
  BY <1>1 DEF RemovedInv
<1>6. \A r \in Procs : NotInside(r) /\ NotInside(r)'
  BY <1>1, <1>3, <1>2 DEF RemovedInv, NotInside, Goto
<1>7. SizeInv' /\ ModeMatches'
  <2>1. \A s \in Syscalls : \A places \in {{"load", "store"}, {"load", "store", "clear"}} :
          Exiting(s, places) = {} /\ Exiting(s, places)' = {}
    BY <1>6 DEF Exiting, NotInside
  <2> QED
    BY <1>1, <1>2, <2>1, SameLists
<1>8. RemovedInv'
  <2>1. TableType' /\ ListsType' /\ pc' \in [Procs -> Places]
    BY <1>1, <1>3, <1>2 DEF RemovedInv, TableType, ListsType, listVars, Goto
  <2>2. \A s \in Syscalls : ListOf(s)' = ListOf(s) /\ Original(s)' = Original(s)
    BY <1>2 DEF ListOf, Listed, listVars, Original
  <2> QED
    BY <1>1, <1>2, <1>6, <2>1, <2>2 DEF RemovedInv, lockVars
<1> QED
  BY <1>1, <1>7, <1>8 DEF UInv, NoStalePid

(* deinterceptor destroys the list at i, which is empty if not monitored.  *)
LEMMA DeinterceptStep ==
  ASSUME UInv, Deintercept
  PROVE  UInv'
<1>1. /\ RemovedInv /\ SizeInv /\ ModeMatches /\ module = "exiting"
      /\ UNCHANGED <<f, intercepted, lockVars, pc, frame, exits, module>>
      /\ i \in Syscalls /\ i' = i + 1
  BY DEF Deintercept, UInv
<1>2. /\ TableType /\ ListsType /\ pc \in [Procs -> Places]
      /\ \A p \in Procs : NotInside(p) /\ NotInside(p)'
  BY <1>1 DEF RemovedInv, NotInside
<1>3. \A s \in Syscalls, places \in {{"load", "store"}, {"load", "store", "clear"}} :
        /\ Pending(s) = FALSE /\ Pending(s)' = FALSE
        /\ Exiting(s, places) = {} /\ Exiting(s, places)' = {}
  BY <1>2 DEF NotInside, ExitPlaces, Pending, Exiting
<1>i. PICK e \in Syscalls : e = i
  BY <1>1
<1>4. /\ \A s \in Syscalls \ {e} : /\ entries'[s] = entries[s]
                                   /\ listcount'[s] = listcount[s]
                                   /\ monitored'[s] = monitored[s]
                                   /\ sysTable'[s] = sysTable[s]
      /\ sysTable'[CUSTOM] = sysTable[CUSTOM]
  <2>1. CUSTOM \notin Syscalls
    BY SyscallsAssumption DEF Syscalls, CUSTOM
  <2>2. \/ UNCHANGED listVars
        \/ DestroyList(e, 0)
    BY <1>i DEF Deintercept
  <2>3. \A s \in Syscalls \ {e} : /\ entries'[s] = entries[s]
                                  /\ listcount'[s] = listcount[s]
                                  /\ monitored'[s] = monitored[s]
    BY <1>2, <2>2 DEF DestroyList, listVars, ListsType
  <2>4. sysTable' = sysTable \/ sysTable' = [sysTable EXCEPT ![e] = f[e]]
    BY <1>i DEF Deintercept
  <2> QED
    BY <1>2, <2>1, <2>3, <2>4 DEF TableType
<1>5. \A s \in Syscalls \ {e} : ListOf(s)' = ListOf(s)
  BY <1>4 DEF ListOf, Listed
<1>6. /\ ListOf(e)' = {} /\ listcount'[e] = 0 /\ monitored'[e] # 1
      /\ \A q \in Pids : entries'[e][q] = 0
  <2>1. CASE intercepted[e] /\ monitored[e] > 0
    <3>1. DestroyList(e, 0)
      BY <1>i, <2>1 DEF Deintercept
    <3>2. ListOf(e)' = {} /\ \A q \in Pids : entries'[e][q] = 0
      BY <1>2, <3>1, NoList DEF DestroyList
    <3>3. listcount'[e] = 0 /\ monitored'[e] = 0
      BY <1>2, <3>1 DEF DestroyList, ListsType
    <3> QED
      BY <3>2, <3>3
  <2>2. CASE ~(intercepted[e] /\ monitored[e] > 0)
    <3>1. UNCHANGED listVars
      BY <1>i, <2>2 DEF Deintercept
    <3>2. monitored[e] # 1 /\ ListOf(e) = {}
      <4>1. CASE intercepted[e]
        <5>1. monitored[e] = 0
          BY <1>2, <2>2, <4>1 DEF ListsType
        <5> QED
          BY <1>1, <5>1 DEF ModeMatches, ListOf
      <4>2. CASE ~intercepted[e]
        <5>1. ListOf(e) = {}
          BY <1>1, <4>2 DEF RemovedInv
        <5> QED
          BY <1>1, <1>3, <5>1 DEF ModeMatches, ListOf
      <4> QED
        BY <4>1, <4>2
    <3>3. listcount[e] = 0
      BY <1>1, <1>3, <3>2, FS_EmptySet DEF SizeInv
    <3>4. \A q \in Pids : entries[e][q] = 0
      BY <1>2, <3>2 DEF ListOf, Listed, ListsType
    <3> QED
      BY <3>1, <3>2, <3>3, <3>4 DEF listVars, ListOf, Listed
  <2> QED
    BY <2>1, <2>2
<1>7. SizeInv'
  <2> SUFFICES ASSUME NEW s \in Syscalls
               PROVE  /\ IsFiniteSet(ListOf(s)')
                      /\ listcount'[s] = Cardinality(ListOf(s)') + (IF Pending(s)' THEN 1 ELSE 0)
    BY DEF SizeInv
  <2>1. CASE s = e
    <3>1. listcount'[s] = 0 /\ ListOf(s)' = {} /\ Pending(s)' = FALSE
      BY <1>3, <1>6, <2>1
    <3> QED
      BY <3>1, FS_EmptySet
  <2>2. CASE s # e
    BY <1>1, <1>3, <1>4, <1>5, <2>2 DEF SizeInv
  <2> QED
    BY <2>1, <2>2
<1>8. ModeMatches'
  <2> SUFFICES ASSUME NEW s \in Syscalls
               PROVE  /\ \A q \in Pids : entries'[s][q] <= (IF q = ALL THEN 0 ELSE 1)
                      /\ monitored'[s] = 0 => ListOf(s)' = {}
                      /\ monitored'[s] = 1 => ListOf(s)' # {}
    BY DEF ModeMatches, ListOf
  <2>1. CASE s = e
    <3>1. \A q \in Pids : entries'[s][q] <= (IF q = ALL THEN 0 ELSE 1)
      BY <1>6, <2>1
    <3> QED
      BY <1>6, <2>1, <3>1
  <2>2. CASE s # e
    <3>1. /\ \A q \in Pids : entries[s][q] <= (IF q = ALL THEN 0 ELSE 1)
          /\ monitored[s] = 0 => ListOf(s) = {}
          /\ monitored[s] = 1 => ListOf(s) # {}
      BY <1>1, <1>3 DEF ModeMatches, ListOf
    <3> QED
      BY <1>4, <1>5, <2>2, <3>1
  <2> QED
    BY <2>1, <2>2
<1>9. TableType' /\ ListsType'
  <2>1. sysTable' = sysTable \/ sysTable' = [sysTable EXCEPT ![e] = f[e]]
    BY <1>i DEF Deintercept
  <2>2. TableType'
    BY <1>1, <1>2, <2>1 DEF TableType
  <2>3. UNCHANGED listVars \/ DestroyList(e, 0)
    BY <1>i DEF Deintercept
  <2>4. DestroyList(e, 0) => ListsType'
    BY <1>2, ListOpsType DEF Pids
  <2> QED
    BY <1>2, <2>2, <2>3, <2>4 DEF ListsType, listVars
<1>10. RemovedInv'
  <2>1. \A s \in Syscalls :
          /\ intercepted'[s] => f'[s] = Original(s)
          /\ s # ExitGroup => \/ sysTable'[s] = "orig"
                              \/ sysTable'[s] = "interceptor" /\ s >= i' /\ intercepted'[s]
          /\ s < i' \/ ~intercepted'[s] => ListOf(s)' = {}
    <3> TAKE s \in Syscalls
    <3>1. CASE s = e
      <4>1. intercepted[e] => sysTable'[e] = f[e] /\ f[e] = Original(e)
        BY <1>1, <1>2, <1>i DEF Deintercept, RemovedInv, TableType
      <4>2. ~intercepted[e] => sysTable'[e] = sysTable[e]
        BY <1>i DEF Deintercept
      <4> QED
        BY <1>1, <1>6, <3>1, <4>1, <4>2 DEF RemovedInv, Original
    <3>2. CASE s # e
      <4>1. s >= i => s >= i + 1
        BY <1>i, <3>2, SyscallsAssumption DEF Syscalls
      <4>2. s < i + 1 => s < i
        BY <1>i, <3>2, SyscallsAssumption DEF Syscalls
      <4> QED
        BY <1>1, <1>4, <1>5, <3>2, <4>1, <4>2 DEF RemovedInv
    <3> QED
      BY <3>1, <3>2
  <2>2. i' \in 1..(NSyscalls + 1)
    BY <1>1, SyscallsAssumption DEF Syscalls
  <2>3. \A s \in Syscalls : Original(s)' = Original(s)
    BY DEF Original
  <2> QED
    BY <1>1, <1>2, <1>4, <1>9, <2>1, <2>2, <2>3 DEF RemovedInv, lockVars
<1> QED
  BY <1>1, <1>7, <1>8, <1>10 DEF UInv, NoStalePid

LEMMA EndStep ==
  ASSUME UInv, UnloadEnd
  PROVE  UInv'
<1>1. /\ RemovedInv /\ SizeInv /\ ModeMatches /\ module = "exiting" /\ i = NSyscalls + 1
      /\ module' = "unloaded"
      /\ UNCHANGED <<sysTable, f, intercepted, listVars, tableLock, pc, frame, exits, i>>
  BY DEF UnloadEnd, UInv
<1>2. /\ \A s \in Syscalls : ListOf(s)' = ListOf(s) /\ Original(s)' = Original(s)
      /\ \A p \in Procs : NotInside(p)' = NotInside(p)
      /\ TableType' = TableType /\ ListsType' = ListsType
  BY <1>1 DEF ListOf, Listed, listVars, Original, NotInside, TableType, ListsType
<1>3. SizeInv' /\ ModeMatches'
  <2>1. \A s \in Syscalls : \A places \in {{"load", "store"}, {"load", "store", "clear"}} :
          Exiting(s, places)' = Exiting(s, places)
    BY <1>1 DEF Exiting
  <2> QED
    BY <1>1, <2>1, SameLists
<1>4. RemovedInv'
  BY <1>1, <1>2 DEF RemovedInv
<1> QED
  BY <1>1, <1>3, <1>4 DEF UInv, NoStalePid

LEMMA StutterStep ==
  ASSUME UInv, UNCHANGED allVars
  PROVE  UInv'
<1>1. /\ UNCHANGED <<sysTable, f, intercepted, lockVars, pc, frame, exits, module, i>>
      /\ UNCHANGED listVars /\ UNCHANGED vars
  BY DEF allVars, unloadVars, vars
<1>2. SizeInv' /\ ModeMatches'
  <2>1. \A s \in Syscalls : \A places \in {{"load", "store"}, {"load", "store", "clear"}} :
          Exiting(s, places)' = Exiting(s, places)
    BY <1>1 DEF Exiting
  <2> QED
    BY <1>1, <2>1, SameLists DEF UInv
<1>3. /\ \A s \in Syscalls : ListOf(s)' = ListOf(s) /\ Original(s)' = Original(s)
      /\ \A s \in Syscalls, q \in Pids : Listed(s, q)' = Listed(s, q)
      /\ \A p \in Procs : NotInside(p)' = NotInside(p)
      /\ TableType' = TableType /\ ListsType' = ListsType
  BY <1>1 DEF ListOf, Listed, listVars, Original, NotInside, TableType, ListsType
<1>4. NoStalePid'
  BY <1>1, <1>3 DEF UInv, NoStalePid, Pids
<1>5. LoadedInv => LoadedInv'
  <2>1. IInv => IInv'
    BY <1>1, StepInv
  <2>2. ExitInv => ExitInv'
    BY <1>1, <1>3 DEF ExitInv, listVars, Pids
  <2>3. PidInv => PidInv'
    BY <1>1 DEF PidInv
  <2> QED
    BY <1>1, <2>1, <2>2, <2>3 DEF LoadedInv
<1>6. RemovedInv => RemovedInv'
  BY <1>1, <1>3 DEF RemovedInv, lockVars
<1> QED
  BY <1>1, <1>2, <1>4, <1>5, <1>6 DEF UInv

LEMMA UnloadStep ==
  ASSUME ~Overlap
  PROVE  UInv /\ [UNext]_allVars => UInv'
<1> SUFFICES ASSUME UInv, [UNext]_allVars PROVE UInv'
  OBVIOUS
<1>0. module \in {"loaded", "exiting", "unloaded"}
  BY DEF UInv, RemovedInv
<1>1. CASE module # "unloaded" /\ Next /\ UNCHANGED unloadVars
  BY <1>0, <1>1, LoadedStep, ExitingStep
<1> QED
  BY <1>1, BeginStep, DeinterceptStep, EndStep, StutterStep DEF UNext

(* If my_exit_group and rmmod run alone, the invariant always holds.       *)
THEOREM UnloadInvariance ==
  ASSUME ~Overlap
  PROVE  USpec => []UInv
<1>1. UInit => UInv
  BY InitUnload
<1>2. UInv /\ [UNext]_allVars => UInv'
  BY UnloadStep
<1> QED
  BY <1>1, <1>2, PTL DEF USpec

(* The counter of each list of pids is the length of the list, but for an  *)
(* entry that an exiting process has unlinked and not yet counted.         *)
THEOREM CountsCorrect ==
  ASSUME ~Overlap
  PROVE  USpec => []CountsMatch
<1>1. UInv => CountsMatch
  <2> SUFFICES ASSUME UInv, NEW s \in Syscalls
               PROVE  listcount[s] = Cardinality(ListOf(s)) + Cardinality(Exiting(s, {"load", "store"}))
    BY DEF CountsMatch
  <2>1. listcount[s] = Cardinality(ListOf(s)) + (IF Pending(s) THEN 1 ELSE 0)
    BY DEF UInv, SizeInv
  <2>2. CASE Pending(s)
    <3>1. PICK p \in Procs : pc[p] \in {"load", "store"} /\ frame[p].syscall = s
      BY <2>2 DEF Pending
    <3>2. \A r \in Procs \ {p} : NotInside(r)
      BY <3>1 DEF UInv, LoadedInv, ExitInv, RemovedInv, NotInside, ExitPlaces
    <3>3. Exiting(s, {"load", "store"}) = {p}
      BY <3>1, <3>2 DEF Exiting, NotInside, ExitPlaces
    <3> QED
      BY <2>1, <2>2, <3>3, FS_Singleton
  <2>3. CASE ~Pending(s)
    <3>1. Exiting(s, {"load", "store"}) = {}
      BY <2>3 DEF Exiting, Pending
    <3> QED
      BY <2>1, <2>3, <3>1, FS_EmptySet
  <2> QED
    BY <2>2, <2>3
<1> QED
  BY <1>1, UnloadInvariance, PTL

(* The mode of every call agrees with its list, whatever the commands and  *)
(* exits: the last pid to leave it, also by exiting, ends the monitoring.  *)
THEOREM ModesMatch ==
  ASSUME ~Overlap
  PROVE  USpec => []ModeMatches
<1>1. UInv => ModeMatches
  BY DEF UInv
<1> QED
  BY <1>1, UnloadInvariance, PTL

(* No list keeps the pid of a process that has exited, although exits take *)
(* no lock and a command looks the pid up before it takes one.             *)
THEOREM PidsForgotten ==
  ASSUME ~Overlap
  PROVE  USpec => []NoStalePid
<1>1. UInv => NoStalePid
  BY DEF UInv
<1> QED
  BY <1>1, UnloadInvariance, PTL

(* rmmod gives every call but exit_group back and empties every list.      *)
THEOREM UnloadCorrect ==
  ASSUME ~Overlap
  PROVE  USpec => []UnloadRestores
<1>1. UInv => UnloadRestores
  <2> SUFFICES ASSUME UInv, module = "unloaded" PROVE UnloadRestores
    BY DEF UnloadRestores
  <2>1. RemovedInv /\ i = NSyscalls + 1
    BY DEF UInv, RemovedInv
  <2>2. \A s \in Syscalls : s < i /\ ~(s >= i)
    BY <2>1, SyscallsAssumption DEF Syscalls
  <2> QED
    BY <2>1, <2>2 DEF RemovedInv, UnloadRestores, ListOf
<1> QED
  BY <1>1, UnloadInvariance, PTL

(***************************************************************************)
(* Refinement of Monitoring.                                               *)
(***************************************************************************)
(* The pids monitored are those of the list, or with "all" the others.     *)
WatchedInv ==
  \A s \in Syscalls :
    /\ ListOf(s) \subseteq Procs
    /\ monitored[s] = 0 => ListOf(s) = {}
    /\ Watched(s) = IF monitored[s] = 2 THEN Procs \ ListOf(s) ELSE ListOf(s)

LEMMA WatchedSets == ListsType /\ ModeMatches => WatchedInv
<1> SUFFICES ASSUME ListsType, ModeMatches, NEW s \in Syscalls
             PROVE  /\ ListOf(s) \subseteq Procs
                    /\ monitored[s] = 0 => ListOf(s) = {}
                    /\ Watched(s) = IF monitored[s] = 2 THEN Procs \ ListOf(s) ELSE ListOf(s)
  BY DEF WatchedInv
<1>1. /\ monitored[s] \in 0..2
      /\ \A q \in Pids : entries[s][q] \in Nat /\ entries[s][q] <= (IF q = ALL THEN 0 ELSE 1)
      /\ monitored[s] = 0 => \A q \in Pids : ~Listed(s, q)
  BY DEF ListsType, ModeMatches
<1>2. ListOf(s) \subseteq Procs
  BY <1>1 DEF ListOf, Listed, Pids
<1>3. monitored[s] = 0 => ListOf(s) = {}
  BY <1>1 DEF ListOf
<1>4. ListOf(s) = {p \in Procs : Listed(s, p)}
  BY <1>2 DEF ListOf, Pids
<1> QED
  BY <1>1, <1>2, <1>3, <1>4 DEF Watched

LEMMA WatchedAfter == ListsType' /\ ModeMatches' => WatchedInv'
BY WatchedSets, PTL

(* A step that changes what is monitored for s only.                       *)
LEMMA WatchStep ==
  ASSUME NEW s \in Syscalls, NEW set, NEW a \in BOOLEAN,
         \A t \in Syscalls \ {s} : /\ Watched(t)' = Watched(t)
                                   /\ (monitored'[t] = 2) <=> (monitored[t] = 2),
         Watched(s)' = set, (monitored'[s] = 2) <=> a
  PROVE  Promise!Watch(s, set, a)
<1> DEFINE W == [t \in Syscalls |-> Watched(t)]
           A == [t \in Syscalls |-> monitored[t] = 2]
<1>1. W' = [W EXCEPT ![s] = set]
  OBVIOUS
<1>2. A' = [A EXCEPT ![s] = a]
  <2>1. \A t \in Syscalls : A'[t] = IF t = s THEN a ELSE A[t]
    OBVIOUS
  <2> QED
    BY <2>1
<1> QED
  BY <1>1, <1>2 DEF Promise!Watch

LEMMA WatchSame ==
  ASSUME UNCHANGED intercepted,
         \A t \in Syscalls : /\ Watched(t)' = Watched(t)
                             /\ (monitored'[t] = 2) <=> (monitored[t] = 2)
  PROVE  UNCHANGED Promise!vars
<1>1. [t \in Syscalls |-> Watched(t)]' = [t \in Syscalls |-> Watched(t)]
  OBVIOUS
<1>2. [t \in Syscalls |-> monitored[t] = 2]' = [t \in Syscalls |-> monitored[t] = 2]
  OBVIOUS
<1> QED
  BY <1>1, <1>2 DEF Promise!vars

LEMMA ListsSame ==
  ASSUME UNCHANGED listVars
  PROVE  \A t \in Syscalls : /\ Watched(t)' = Watched(t)
                             /\ (monitored'[t] = 2) <=> (monitored[t] = 2)
BY DEF listVars, Watched, Listed

(* An exit forgets one pid, or changes nothing that is promised.           *)
LEMMA ExitRefines ==
  ASSUME IInv, ListsInv, IInv', ListsInv', NEW p \in Procs, Exits(p)
  PROVE  Promise!Next \/ UNCHANGED Promise!vars
<1>1. /\ ListsType /\ ModeMatches /\ ListsType' /\ ModeMatches'
      /\ UNCHANGED intercepted
  BY DEF IInv, TypeOK, ListsInv, Exits, ExitScan, ExitUnlink, ExitLoad, ExitStore, ExitClear,
         ExitNextList, ExitProcess, exitRest
<1>2. CASE ExitScan(p) \/ ExitLoad(p) \/ ExitNextList(p) \/ ExitProcess(p)
  <2>1. UNCHANGED listVars
    BY <1>2 DEF ExitScan, ExitLoad, ExitNextList, ExitProcess
  <2> QED
    BY <1>1, <2>1, ListsSame, WatchSame
<1>3. CASE ExitStore(p)
  <2>1. UNCHANGED <<entries, monitored>>
    BY <1>3 DEF ExitStore
  <2> QED
    BY <1>1, <2>1, WatchSame DEF Watched, Listed
<1>4. PICK s : s = frame[p].syscall
  OBVIOUS
<1>5. CASE ExitClear(p)
  <2>1. s \in Syscalls /\ monitored[s] = 1 /\ listcount[s] = 0
    BY <1>4, <1>5, ExitFrame DEF ExitClear, ListsInv, ExitInv, ExitPlaces
  <2>2. monitored' = [monitored EXCEPT ![s] = 0] /\ UNCHANGED entries
    BY <1>4, <1>5 DEF ExitClear
  <2>3. ListOf(s) = {}
    <3>1. Cardinality(ListOf(s)) = 0 /\ IsFiniteSet(ListOf(s))
      BY <1>4, <1>5, <2>1, ExitFacts DEF ExitClear
    <3> QED
      BY <3>1, FS_EmptySet
  <2>4. Watched(s) = {} /\ Watched(s)' = {} /\ monitored'[s] = 0
    <3>1. monitored'[s] = 0
      BY <1>1, <2>1, <2>2 DEF ListsType
    <3> QED
      BY <1>1, <2>1, <2>3, <3>1, WatchedSets, WatchedAfter DEF WatchedInv
  <2>5. \A t \in Syscalls \ {s} : Watched(t)' = Watched(t) /\ monitored'[t] = monitored[t]
    BY <1>1, <2>2 DEF Watched, Listed, ListsType
  <2> QED
    BY <1>1, <2>1, <2>4, <2>5, WatchSame
<1>6. CASE ExitUnlink(p)
  <2>1. /\ s \in Syscalls /\ p \in ListOf(s) /\ p \in Pids
        /\ entries' = [entries EXCEPT ![s][p] = @ - 1] /\ UNCHANGED monitored
    BY <1>4, <1>6, ExitFrame DEF ExitUnlink, ListOf, Pids
  <2>2. entries[s][p] = 1 /\ IsFiniteSet(ListOf(s))
    <3>1. entries[s][p] \in Nat /\ entries[s][p] <= 1
      BY <1>1, <2>1, ProcsAssumption DEF ListsType, ModeMatches, ALL, Pids
    <3> QED
      BY <2>1, <3>1 DEF ListOf, Listed, ListsInv, SizeInv
  <2>3. ListOf(s)' = ListOf(s) \ {p}
    BY <1>1, <2>1, <2>2, DelList
  <2>4. \A t \in Syscalls \ {s} : Watched(t)' = Watched(t) /\ monitored'[t] = monitored[t]
    BY <1>1, <2>1 DEF Watched, Listed, ListsType
  <2>5. Watched(s) = IF monitored[s] = 2 THEN Procs \ ListOf(s) ELSE ListOf(s)
    BY <1>1, <2>1, WatchedSets DEF WatchedInv
  <2>6. Watched(s)' = IF monitored[s] = 2 THEN Procs \ ListOf(s)' ELSE ListOf(s)'
    BY <1>1, <2>1, WatchedAfter DEF WatchedInv
  <2>7. Watched(s)' = IF monitored[s] = 2 THEN Watched(s) \cup {p} ELSE Watched(s) \ {p}
    BY <2>1, <2>3, <2>5, <2>6
  <2>8. Promise!Forget(s, p)
    <3>1. CASE monitored[s] = 2
      <4>1. Promise!Watch(s, Watched(s) \cup {p}, TRUE)
        BY <2>1, <2>4, <2>7, <3>1, WatchStep
      <4> QED
        BY <1>1, <2>1, <3>1, <4>1 DEF Promise!Forget, Promise!Watch
    <3>2. CASE monitored[s] # 2
      <4>1. Promise!Watch(s, Watched(s) \ {p}, FALSE)
        BY <2>1, <2>4, <2>7, <3>2, WatchStep
      <4> QED
        BY <1>1, <2>1, <3>2, <4>1 DEF Promise!Forget, Promise!Watch
    <3> QED
      BY <3>1, <3>2
  <2> QED
    BY <2>1, <2>8 DEF Promise!Next
<1> QED
  BY <1>2, <1>3, <1>5, <1>6 DEF Exits

(* A command does to what is monitored what Monitoring says.               *)
LEMMA CommandRefines ==
  ASSUME IInv, ListsInv, IInv', ListsInv', NEW p \in Procs, ListCommand(p)
  PROVE  Promise!Next
<1>0. frame[p].syscall \in Syscalls /\ frame[p].pid \in Pids
  BY CommandFrame
<1>s. PICK s \in Syscalls, q \in Pids : s = frame[p].syscall /\ q = frame[p].pid
  BY <1>0
<1>1. /\ NobodyExits
      /\ \A t \in Syscalls \ {s} : /\ entries'[t] = entries[t]
                                   /\ listcount'[t] = listcount[t]
                                   /\ monitored'[t] = monitored[t]
  BY <1>s, CommandFrame
<1>2. /\ ListsType /\ ModeMatches /\ ListsType' /\ ModeMatches'
      /\ intercepted \in [Syscalls -> BOOLEAN]
  BY DEF IInv, TypeOK, TableType, ListsInv
<1>3. \A t \in Syscalls \ {s} : Watched(t)' = Watched(t) /\ monitored'[t] = monitored[t]
  BY <1>1 DEF Watched, Listed
<1>4. /\ Watched(s) = IF monitored[s] = 2 THEN Procs \ ListOf(s) ELSE ListOf(s)
      /\ Watched(s)' = IF monitored'[s] = 2 THEN Procs \ ListOf(s)' ELSE ListOf(s)'
      /\ monitored[s] = 0 => ListOf(s) = {}
      /\ monitored'[s] = 0 => ListOf(s)' = {}
      /\ ListOf(s) \subseteq Procs /\ monitored[s] \in 0..2
  BY <1>2, WatchedSets, WatchedAfter DEF WatchedInv, ListsType
<1>5. /\ IsFiniteSet(ListOf(s))
      /\ \A r \in Pids : entries[s][r] \in Nat /\ entries[s][r] <= 1
  BY <1>2 DEF ListsInv, SizeInv, ListsType, ModeMatches
<1>6. ASSUME NEW m \in 0..2, DestroyList(s, m)
      PROVE  ListOf(s)' = {} /\ monitored'[s] = m
  BY <1>2, <1>6, NoList DEF DestroyList, ListsType
<1>7. ASSUME DelPid(s, q), Listed(s, q)
      PROVE  /\ q \in ListOf(s) /\ ListOf(s)' = ListOf(s) \ {q}
             /\ monitored[s] = 2 => monitored'[s] = 2
             /\ monitored[s] # 2 => monitored'[s] # 2
  <2>1. entries[s][q] = 1
    BY <1>5, <1>7 DEF Listed
  <2>2. q \in ListOf(s) /\ ListOf(s)' = ListOf(s) \ {q}
    BY <1>2, <1>5, <1>7, <2>1, DelList DEF DelPid
  <2> QED
    BY <1>2, <1>7, <2>2 DEF DelPid, ListsType
<1>8. ASSUME AddPid(s, q), ~Listed(s, q)
      PROVE  q \notin ListOf(s) /\ ListOf(s)' = ListOf(s) \cup {q}
  BY <1>2, <1>5, <1>8, AddList DEF AddPid, ListOf
<1>9. CASE ReleaseMark(p)
  <2>1. /\ intercepted[s] /\ intercepted' = [intercepted EXCEPT ![s] = FALSE]
        /\ DestroyList(s, 0)
    BY <1>s, <1>9 DEF ReleaseMark
  <2>2. Promise!Watch(s, {}, FALSE)
    <3>1. Watched(s)' = {} /\ monitored'[s] = 0
      BY <1>4, <1>6, <2>1
    <3> QED
      BY <1>3, <1>4, <3>1, WatchStep
  <2>3. Promise!Release(s)
    BY <2>1, <2>2 DEF Promise!Release
  <2> QED
    BY <2>3 DEF Promise!Next
<1>10. CASE StopAll(p)
  <2>1. monitored[s] = 2 /\ DestroyList(s, 0) /\ UNCHANGED intercepted
    BY <1>s, <1>10 DEF StopAll, monitorRest
  <2>2. Promise!Watch(s, {}, FALSE)
    <3>1. Watched(s)' = {} /\ monitored'[s] = 0
      BY <1>4, <1>6, <2>1
    <3> QED
      BY <1>3, <1>4, <3>1, WatchStep
  <2>3. Promise!StopAll(s)
    BY <2>1, <2>2 DEF Promise!StopAll
  <2> QED
    BY <2>3 DEF Promise!Next
<1>11. CASE StartAll(p)
  <2>1. /\ intercepted[s] /\ monitored[s] # 2 /\ UNCHANGED intercepted
        /\ \/ DestroyList(s, 2)
           \/ /\ monitored[s] = 0 /\ monitored' = [monitored EXCEPT ![s] = 2]
              /\ UNCHANGED <<entries, listcount>>
    BY <1>s, <1>11 DEF StartAll, monitorRest
  <2>2. ListOf(s)' = {} /\ monitored'[s] = 2
    <3>1. CASE DestroyList(s, 2)
      BY <1>6, <3>1
    <3>2. CASE /\ monitored[s] = 0 /\ monitored' = [monitored EXCEPT ![s] = 2]
               /\ UNCHANGED <<entries, listcount>>
      BY <1>2, <1>4, <3>2 DEF ListsType, ListOf, Listed
    <3> QED
      BY <2>1, <3>1, <3>2
  <2>3. Promise!Watch(s, Procs, TRUE)
    <3>1. Watched(s)' = Procs
      BY <1>4, <2>2
    <3> QED
      BY <1>3, <2>2, <3>1, WatchStep
  <2>4. Promise!StartAll(s)
    BY <2>1, <2>3 DEF Promise!StartAll
  <2> QED
    BY <2>4 DEF Promise!Next
<1>12. CASE StartUnlist(p) \/ StartOne(p)
  <2>1. /\ intercepted[s] /\ UNCHANGED intercepted
        /\ \/ monitored[s] = 2 /\ DelPid(s, q) /\ Listed(s, q)
           \/ /\ monitored[s] # 2 /\ monitored'[s] = 1 /\ q # ALL
              /\ AddPid(s, q) /\ ~Listed(s, q)
    <3>1. CASE StartUnlist(p)
      BY <1>s, <3>1 DEF StartUnlist, monitorRest
    <3>2. CASE StartOne(p)
      <4>1. ~Listed(s, q)
        BY <1>s, <1>4, <3>2 DEF StartOne, ListOf, Listed
      <4> QED
        BY <1>s, <1>2, <3>2, <4>1 DEF StartOne, monitorRest, ListsType
    <3> QED
      BY <1>12, <3>1, <3>2
  <2>2. /\ q \in Procs /\ q \notin Watched(s) /\ Watched(s)' = Watched(s) \cup {q}
        /\ (monitored'[s] = 2) <=> (monitored[s] = 2)
    BY <1>4, <1>7, <1>8, <2>1 DEF Pids
  <2>3. Promise!Start(s, q)
    <3>1. CASE monitored[s] = 2
      <4>1. Promise!Watch(s, Watched(s) \cup {q}, TRUE)
        BY <1>3, <2>2, <3>1, WatchStep
      <4> QED
        BY <2>1, <2>2, <3>1, <4>1 DEF Promise!Start, Promise!Watch
    <3>2. CASE monitored[s] # 2
      <4>1. Promise!Watch(s, Watched(s) \cup {q}, FALSE)
        BY <1>3, <2>2, <3>2, WatchStep
      <4> QED
        BY <2>1, <2>2, <3>2, <4>1 DEF Promise!Start, Promise!Watch
    <3> QED
      BY <3>1, <3>2
  <2> QED
    BY <2>2, <2>3 DEF Promise!Next
<1>13. CASE StopOne(p) \/ StopExcept(p)
  <2>1. /\ UNCHANGED intercepted
        /\ \/ monitored[s] = 1 /\ DelPid(s, q) /\ Listed(s, q)
           \/ /\ monitored[s] = 2 /\ monitored'[s] = 2 /\ q # ALL
              /\ AddPid(s, q) /\ ~Listed(s, q)
    BY <1>s, <1>13 DEF StopOne, StopExcept, monitorRest
  <2>2. /\ q \in Procs /\ q \in Watched(s) /\ Watched(s)' = Watched(s) \ {q}
        /\ (monitored'[s] = 2) <=> (monitored[s] = 2)
    BY <1>4, <1>7, <1>8, <2>1 DEF Pids
  <2>3. Promise!Stop(s, q)
    <3>1. CASE monitored[s] = 2
      <4>1. Promise!Watch(s, Watched(s) \ {q}, TRUE)
        BY <1>3, <2>2, <3>1, WatchStep
      <4> QED
        BY <2>1, <2>2, <3>1, <4>1 DEF Promise!Stop, Promise!Watch
    <3>2. CASE monitored[s] # 2
      <4>1. Promise!Watch(s, Watched(s) \ {q}, FALSE)
        BY <1>3, <2>2, <3>2, WatchStep
      <4> QED
        BY <2>1, <2>2, <3>2, <4>1 DEF Promise!Stop, Promise!Watch
    <3> QED
      BY <3>1, <3>2
  <2> QED
    BY <2>2, <2>3 DEF Promise!Next
<1> QED
  BY <1>9, <1>10, <1>11, <1>12, <1>13 DEF ListCommand

(* A step of a loaded module.                                              *)
LEMMA LoadedRefines ==
  ASSUME ~Overlap, UInv, UInv', module = "loaded", Next, UNCHANGED unloadVars
  PROVE  Promise!Next \/ UNCHANGED Promise!vars
<1>1. IInv /\ ListsInv /\ module' = module
  BY DEF UInv, LoadedInv, ListsInv, unloadVars
<1>2. IInv' /\ ListsInv'
  BY <1>1 DEF UInv, LoadedInv, ListsInv
<1>3. PICK p \in Procs : Requests(p) \/ Locked(p) \/ Unlocked(p)
  BY DEF Next
<1>4. CASE ListCommand(p)
  BY <1>1, <1>2, <1>4, CommandRefines
<1>5. CASE Exits(p)
  BY <1>1, <1>2, <1>5, ExitRefines
<1>6. CASE InterceptMark(p)
  <2>1. PICK s \in Syscalls : s = frame[p].syscall
    BY <1>1, <1>6 DEF InterceptMark, Enters, IInv, FrameInv, CommandPlaces
  <2>2. /\ ~intercepted[s] /\ intercepted' = [intercepted EXCEPT ![s] = TRUE]
        /\ UNCHANGED listVars
    BY <1>6, <2>1 DEF InterceptMark
  <2>3. UNCHANGED <<[t \in Syscalls |-> Watched(t)], [t \in Syscalls |-> monitored[t] = 2]>>
    BY <2>2 DEF listVars, Watched, Listed
  <2>4. Promise!Intercept(s)
    BY <2>2, <2>3 DEF Promise!Intercept
  <2> QED
    BY <2>4 DEF Promise!Next
<1>7. CASE ~ListCommand(p) /\ ~Exits(p) /\ ~InterceptMark(p)
  <2>1. UNCHANGED listVars
    BY <1>1, <1>3, <1>7, ListKinds DEF Aside, Begins
  <2>2. UNCHANGED intercepted
    BY <1>1, <1>3, <1>7, StepKinds DEF Plain, Entry, ListCommand, InterceptSave, InterceptHijack,
       ReleaseRestore, ReleaseUnlock
  <2> QED
    BY <2>1, <2>2, ListsSame, WatchSame
<1> QED
  BY <1>4, <1>5, <1>6, <1>7

LEMMA DeinterceptRefines ==
  ASSUME UInv, UInv', Deintercept
  PROVE  Promise!Next \/ UNCHANGED Promise!vars
<1>1. PICK s \in Syscalls : s = i
  BY DEF Deintercept
<1>2. ListsType /\ ModeMatches /\ ListsType' /\ ModeMatches' /\ UNCHANGED intercepted
  BY DEF Deintercept, UInv, RemovedInv
<1>3. CASE intercepted[s] /\ monitored[s] > 0
  <2>1. DestroyList(s, 0)
    BY <1>1, <1>3 DEF Deintercept
  <2>2. monitored'[s] = 0 /\ Watched(s)' = {}
    <3>1. monitored'[s] = 0
      BY <1>2, <2>1 DEF DestroyList, ListsType
    <3> QED
      BY <1>2, <3>1, WatchedAfter DEF WatchedInv
  <2>3. \A t \in Syscalls \ {s} : Watched(t)' = Watched(t) /\ monitored'[t] = monitored[t]
    BY <1>2, <2>1 DEF DestroyList, Watched, Listed, ListsType
  <2>4. Promise!Watch(s, {}, FALSE)
    <3>1. (monitored'[s] = 2) <=> FALSE
      BY <2>2
    <3> QED
      BY <2>2, <2>3, <3>1, WatchStep
  <2>5. Promise!Unload(s)
    BY <1>2, <1>3, <2>4 DEF Promise!Unload
  <2> QED
    BY <2>5 DEF Promise!Next
<1>4. CASE ~(intercepted[s] /\ monitored[s] > 0)
  <2>1. UNCHANGED listVars
    BY <1>1, <1>4 DEF Deintercept
  <2> QED
    BY <1>2, <2>1, ListsSame, WatchSame
<1> QED
  BY <1>3, <1>4

LEMMA RefinesStep ==
  ASSUME ~Overlap
  PROVE  UInv /\ UInv' /\ [UNext]_allVars => [Promise!Next]_(Promise!vars)
<1> SUFFICES ASSUME UInv, UInv', [UNext]_allVars
             PROVE  Promise!Next \/ UNCHANGED Promise!vars
  OBVIOUS
<1>0. module \in {"loaded", "exiting", "unloaded"}
  BY DEF UInv, RemovedInv
<1>1. CASE module = "loaded" /\ Next /\ UNCHANGED unloadVars
  BY <1>1, LoadedRefines
<1>2. CASE module = "exiting" /\ Next /\ UNCHANGED unloadVars
  <2>1. UNCHANGED <<listVars, intercepted>>
    BY <1>2, ExitingQuiet
  <2> QED
    BY <2>1, ListsSame, WatchSame
<1>3. CASE UnloadBegin \/ UnloadEnd \/ UNCHANGED allVars
  <2>1. UNCHANGED <<listVars, intercepted>>
    BY <1>3 DEF UnloadBegin, UnloadEnd, allVars, vars
  <2> QED
    BY <2>1, ListsSame, WatchSame
<1> QED
  BY <1>0, <1>1, <1>2, <1>3, DeinterceptRefines DEF UNext

LEMMA RefinesInit == UInit => Promise!Init
<1> SUFFICES ASSUME UInit PROVE Promise!Init
  OBVIOUS
<1>1. \A s \in Syscalls : Watched(s) = {} /\ (monitored[s] = 2 <=> FALSE)
  BY DEF UInit, Init, Watched
<1>2. [s \in Syscalls |-> monitored[s] = 2] = [s \in Syscalls |-> FALSE]
  BY <1>1
<1> QED
  BY <1>1, <1>2 DEF UInit, Init, Promise!Init

(* Commands, exits and rmmod are, for their users, what Monitoring says:   *)
(* with "all" the list is the complement of what is monitored.             *)
THEOREM MonitoringRefinement ==
  ASSUME ~Overlap
  PROVE  USpec => ImplementsMonitoring
<1>1. UInit => Promise!Init
  BY RefinesInit
<1>2. UInv /\ UInv' /\ [UNext]_allVars => [Promise!Next]_(Promise!vars)
  BY RefinesStep
<1> QED
  BY <1>1, <1>2, UnloadInvariance, PTL DEF USpec, ImplementsMonitoring, Promise!Spec
=============================================================================
