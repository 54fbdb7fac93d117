------------------------- MODULE InterceptorProofs -------------------------
(***************************************************************************)
(* Proofs about the interceptor of A1, for any processes, owners and       *)
(* system calls, and with exits that overlap with anything.                *)
(*                                                                         *)
(* Only six steps touch sys_call_table, table[].f, table[].intercepted or  *)
(* a lock.  All others are plain: StepKinds says so, and the proofs about  *)
(* the locks and the entries treat them as one case.                       *)
(***************************************************************************)
EXTENDS InterceptorInv, TLAPS

Holding == {"save", "hijack", "restore", "unlock"}

(* A step of p that leaves locks and entries alone.                        *)
Plain(p) ==
  /\ UNCHANGED <<sysTable, f, intercepted, lockVars>>
  /\ pc[p] \notin Holding /\ pc'[p] \notin Holding
  /\ \A r \in Procs \ {p} : pc'[r] = pc[r] /\ frame'[r] = frame[r]

Entry(p) ==
  \/ InterceptMark(p) \/ InterceptSave(p) \/ InterceptHijack(p)
  \/ ReleaseMark(p) \/ ReleaseRestore(p) \/ ReleaseUnlock(p)

(* Where a system call takes its process.                                  *)
LEMMA RunsPlace ==
  ASSUME NEW g, NEW s
  PROVE  /\ Runs(g, s) \in {"user", "dead", "crashed", "scan", "interceptor"}
         /\ Runs(g, s) = "interceptor" <=> g = "interceptor"
         /\ Runs(g, s) = "scan" <=> g = "my_exit_group"
BY DEF Runs

Frames == [cmd : Commands \cup {"none", "call"}, syscall : 0..(NSyscalls + 1),
           pid : Pids, count : Int, left : Nat]

LEMMA FrameType ==
  ASSUME NEW cmd \in Commands \cup {"none", "call"}, NEW s \in 0..(NSyscalls + 1), NEW q \in Pids
  PROVE  Frame(cmd, s, q) \in Frames
BY DEF Frame, Frames

LEMMA RunsFrame ==
  ASSUME NEW g, NEW s \in Syscalls
  PROVE  /\ RunsOn(g, s) \in Frames
         /\ g = "interceptor" => RunsOn(g, s).syscall = s
         /\ g = "my_exit_group" => RunsOn(g, s).syscall = 1
<1>1. /\ NSyscalls \in Nat /\ ALL \in Pids
      /\ {0, 1, s} \subseteq 0..(NSyscalls + 1)
  BY SyscallsAssumption DEF Syscalls, Pids
<1>2. /\ Frame("none", 0, ALL) \in Frames
      /\ Frame("call", s, ALL) \in Frames
      /\ Frame("none", 1, ALL) \in Frames
  BY <1>1, FrameType
<1>3. Frame("call", s, ALL).syscall = s /\ Frame("none", 1, ALL).syscall = 1
  BY DEF Frame
<1> QED BY <1>2, <1>3 DEF RunsOn, Idle, CUSTOM

(* A step of the program is plain or one of six.                           *)
LEMMA StepKinds ==
  ASSUME IInv, NEW p \in Procs, Requests(p) \/ Locked(p) \/ Unlocked(p)
  PROVE  Plain(p) \/ Entry(p)
<1> USE DEF Plain, Holding, Goto, Return, lockVars
<1> pc \in [Procs -> Places] /\ frame = [r \in Procs |-> frame[r]]
  BY DEF IInv, TypeOK, ProcType
<1>1. ASSUME NEW cmd, NEW s, NEW q, Call(p, cmd, s, q) PROVE Plain(p)
  BY <1>1 DEF Call
<1>2. ASSUME NEW s, Syscall(p, s) PROVE Plain(p)
  BY <1>2, RunsPlace DEF Syscall
<1>3. ASSUME Spawn(p) PROVE Plain(p)
  BY <1>3 DEF Spawn, exitRest
<1>4. ASSUME InterceptBusy(p) \/ ReleaseRefused(p) PROVE Plain(p)
  BY <1>4 DEF InterceptBusy, ReleaseRefused, Enters
<1>5. ASSUME StartRefused(p) \/ StartUnlist(p) \/ StartAll(p) \/ StartOne(p) PROVE Plain(p)
  BY <1>5 DEF StartRefused, StartUnlist, StartAll, StartOne, Enters, monitorRest
<1>6. ASSUME StopRefused(p) \/ StopOne(p) \/ StopAll(p) \/ StopExcept(p) PROVE Plain(p)
  BY <1>6 DEF StopRefused, StopOne, StopAll, StopExcept, Enters, monitorRest
<1>7. ASSUME InterceptorCheck(p) PROVE Plain(p)
  BY <1>7 DEF InterceptorCheck
<1>8. ASSUME InterceptorCall(p) PROVE Plain(p)
  BY <1>8, RunsPlace DEF InterceptorCall
<1>9. ASSUME ExitScan(p) \/ ExitUnlink(p) \/ ExitLoad(p) PROVE Plain(p)
  BY <1>9 DEF ExitScan, ExitUnlink, ExitLoad, exitRest
<1>10. ASSUME ExitStore(p) PROVE Plain(p)
  BY <1>10 DEF ExitStore, exitRest
<1>11. ASSUME ExitClear(p) \/ ExitNextList(p) \/ ExitProcess(p) PROVE Plain(p)
  BY <1>11 DEF ExitClear, ExitNextList, ExitProcess, exitRest
<1> QED
  BY <1>1, <1>2, <1>3, <1>4, <1>5, <1>6, <1>7, <1>8, <1>9, <1>10, <1>11
  DEF Requests, Locked, Unlocked, Entry

(* Types.  FrameInv says that the indices used are in range.               *)
LEMMA GotoType ==
  ASSUME ProcType, NEW p \in Procs, NEW place \in Places, Goto(p, place)
  PROVE  pc' \in [Procs -> Places]
BY DEF ProcType, Goto

LEMMA ReturnType ==
  ASSUME ProcType, NEW p \in Procs, Return(p)
  PROVE  pc' \in [Procs -> Places] /\ frame' \in [Procs -> Frames]
<1>1. Idle \in Frames
  BY FrameType, SyscallsAssumption DEF Idle, CUSTOM, ALL, Pids
<1> QED BY <1>1 DEF ProcType, Return, Goto, Places, Frames

LEMMA ListOpsType ==
  ASSUME ListsType, NEW s \in Syscalls, NEW q \in Pids
  PROVE  /\ AddPid(s, q) => /\ listcount' \in [Syscalls -> Int]
                            /\ entries' \in [Syscalls -> [Pids -> Nat]]
         /\ DelPid(s, q) /\ Listed(s, q) => ListsType'
         /\ \A m \in 0..2 : DestroyList(s, m) => ListsType'
<1> USE DEF ListsType
<1>1. AddPid(s, q) => /\ listcount' \in [Syscalls -> Int]
                      /\ entries' \in [Syscalls -> [Pids -> Nat]]
  BY DEF AddPid
<1>2. DelPid(s, q) /\ Listed(s, q) => ListsType'
  <2> SUFFICES ASSUME DelPid(s, q), Listed(s, q) PROVE ListsType'
    OBVIOUS
  <2>1. entries[s] \in [Pids -> Nat] /\ entries[s][q] \in Nat /\ entries[s][q] > 0
    BY DEF Listed
  <2>2. entries[s][q] - 1 \in Nat
    BY <2>1
  <2>3. entries' \in [Syscalls -> [Pids -> Nat]]
    BY <2>1, <2>2 DEF DelPid
  <2>4. listcount' \in [Syscalls -> Int] /\ monitored' \in [Syscalls -> 0..2]
    BY DEF DelPid
  <2> QED BY <2>3, <2>4
<1>3. ASSUME NEW m \in 0..2, DestroyList(s, m) PROVE ListsType'
  BY <1>3 DEF DestroyList
<1> QED BY <1>1, <1>2, <1>3

LEMMA TypeStep ==
  ASSUME IInv, NEW p \in Procs, Requests(p) \/ Locked(p) \/ Unlocked(p)
  PROVE  TypeOK'
<1> DEFINE s == frame[p].syscall
           q == frame[p].pid
<1> TableType /\ ListsType /\ ProcType /\ FrameInv
  BY DEF IInv, TypeOK
<1>f. frame \in [Procs -> Frames] /\ frame[p] \in Frames
  BY DEF ProcType, Frames
<1>q. q \in Pids /\ s \in 0..(NSyscalls + 1) /\ NSyscalls \in Nat
  BY <1>f, SyscallsAssumption DEF Frames
<1>s. pc[p] \in {"command", "save", "hijack", "restore", "interceptor", "logged",
                 "silent", "walk", "load", "store", "clear"} => s \in Syscalls
  BY DEF FrameInv, CommandPlaces
<1>l. p \in Procs \cup {FREE} /\ FREE \in Procs \cup {FREE}
  OBVIOUS
<1>g. ASSUME NEW g, NEW z
      PROVE Runs(g, z) \in Places
  BY RunsPlace DEF Places
<1> HIDE DEF s, q
<1>1. ASSUME NEW cmd \in Commands, NEW z \in Syscalls, NEW r \in Pids, Call(p, cmd, z, r)
      PROVE  TypeOK'
  <2>1. Frame(cmd, z, r) \in Frames
    BY FrameType, SyscallsAssumption DEF Syscalls
  <2> QED BY <1>1, <1>f, <2>1 DEF Call, Goto, Places, TypeOK, TableType, ListsType, ProcType, Frames,
               listVars, lockVars
<1>2. ASSUME NEW z \in Syscalls, Syscall(p, z) PROVE TypeOK'
  <2>1. RunsOn(sysTable[z], z) \in Frames
    BY RunsFrame
  <2>2. Runs(sysTable[z], z) \in Places
    BY <1>g
  <2> QED BY <1>2, <1>f, <2>1, <2>2 DEF Syscall, Goto, TypeOK, TableType, ListsType, ProcType, Frames,
               listVars, lockVars
<1>3. ASSUME Spawn(p) PROVE TypeOK'
  BY <1>3 DEF Spawn, Goto, Places, TypeOK, TableType, ListsType, ProcType, exitRest, listVars, lockVars
<1>4. ASSUME InterceptBusy(p) \/ ReleaseRefused(p) \/ StartRefused(p) \/ StopRefused(p)
      PROVE  TypeOK'
  <2>1. Return(p) /\ UNCHANGED <<sysTable, f, intercepted, listVars, lockVars, exits>>
    BY <1>4 DEF InterceptBusy, ReleaseRefused, StartRefused, StopRefused, monitorRest, lockVars
  <2> QED BY <2>1, ReturnType DEF TypeOK, TableType, ListsType, ProcType, Frames, listVars, lockVars
<1>5. ASSUME InterceptMark(p) PROVE TypeOK'
  BY <1>5, <1>l DEF InterceptMark, Goto, Places, TypeOK, TableType, ListsType, ProcType, listVars
<1>6. ASSUME InterceptSave(p) PROVE TypeOK'
  <2>1. s \in Syscalls /\ sysTable[s] \in Functions
    BY <1>6, <1>s DEF InterceptSave, TableType
  <2> QED BY <1>6, <1>l, <2>1 DEF InterceptSave, Goto, Places, TypeOK, TableType, ListsType, ProcType, listVars, s
<1>7. ASSUME InterceptHijack(p) PROVE TypeOK'
  BY <1>7, <1>l, ReturnType
  DEF InterceptHijack, TypeOK, TableType, ListsType, ProcType, listVars, Frames, Functions
<1>8. ASSUME ReleaseMark(p) PROVE TypeOK'
  <2>1. s \in Syscalls
    BY <1>8, <1>s DEF ReleaseMark, Enters
  <2>2. ListsType'
    BY <2>1, <1>8, <1>q, ListOpsType DEF ReleaseMark, s
  <2> QED BY <1>8, <2>2, <1>l DEF ReleaseMark, Goto, Places, TypeOK, TableType, ProcType
<1>9. ASSUME ReleaseRestore(p) PROVE TypeOK'
  <2>1. s \in Syscalls /\ f[s] \in Functions
    BY <1>9, <1>s DEF ReleaseRestore, TableType
  <2> QED BY <1>9, <1>l, <2>1 DEF ReleaseRestore, Goto, Places, TypeOK, TableType, ListsType, ProcType, listVars, s
<1>10. ASSUME ReleaseUnlock(p) PROVE TypeOK'
  BY <1>10, <1>l, ReturnType DEF ReleaseUnlock, TypeOK, TableType, ListsType, ProcType, listVars, Frames
<1>11. ASSUME StartUnlist(p) \/ StopOne(p) PROVE TypeOK'
  <2>1. /\ Enters(p, "start") \/ Enters(p, "stop")
        /\ Listed(s, q) /\ DelPid(s, q) /\ Return(p) /\ UNCHANGED monitorRest
    BY <1>11 DEF StartUnlist, StopOne, s, q
  <2>2. s \in Syscalls
    BY <2>1, <1>s DEF Enters
  <2>3. ListsType'
    BY <2>1, <2>2, <1>q, ListOpsType
  <2> QED BY <2>1, <2>3, ReturnType DEF TypeOK, TableType, ProcType, Frames, monitorRest, lockVars
<1>12. ASSUME StartAll(p) \/ StopAll(p) PROVE TypeOK'
  <2>1. /\ Enters(p, "start") \/ Enters(p, "stop")
        /\ \/ DestroyList(s, 0) \/ DestroyList(s, 2)
           \/ monitored' = [monitored EXCEPT ![s] = 2] /\ UNCHANGED <<entries, listcount>>
        /\ Return(p) /\ UNCHANGED monitorRest
    BY <1>12 DEF StartAll, StopAll, s
  <2>2. s \in Syscalls
    BY <2>1, <1>s DEF Enters
  <2>3. ListsType'
    <3>1. CASE DestroyList(s, 0) \/ DestroyList(s, 2)
      BY <3>1, <2>2, <1>q, ListOpsType
    <3>2. CASE monitored' = [monitored EXCEPT ![s] = 2] /\ UNCHANGED <<entries, listcount>>
      BY <3>2, <2>2 DEF ListsType
    <3> QED BY <2>1, <3>1, <3>2
  <2> QED BY <2>1, <2>3, ReturnType DEF TypeOK, TableType, ProcType, Frames, monitorRest, lockVars
<1>13. ASSUME StartOne(p) \/ StopExcept(p) PROVE TypeOK'
  <2>1. /\ Enters(p, "start") \/ Enters(p, "stop")
        /\ AddPid(s, q) /\ Return(p) /\ UNCHANGED monitorRest
        /\ monitored' = [monitored EXCEPT ![s] = 1] \/ UNCHANGED monitored
    BY <1>13 DEF StartOne, StopExcept, s, q
  <2>2. s \in Syscalls
    BY <2>1, <1>s DEF Enters
  <2>3. ListsType'
    BY <2>1, <2>2, <1>q, ListOpsType DEF ListsType
  <2> QED BY <2>1, <2>3, ReturnType DEF TypeOK, TableType, ProcType, Frames, monitorRest, lockVars
<1>14. ASSUME InterceptorCheck(p) PROVE TypeOK'
  BY <1>14 DEF InterceptorCheck, Goto, Places, TypeOK, TableType, ListsType, ProcType, listVars, lockVars
<1>15. ASSUME InterceptorCall(p) PROVE TypeOK'
  <2>1. s \in Syscalls
    BY <1>15, <1>s DEF InterceptorCall
  <2>2. RunsOn(f[s], s) \in Frames /\ Runs(f[s], s) \in Places
    BY <2>1, RunsFrame, <1>g
  <2> QED BY <1>15, <1>f, <2>2 DEF InterceptorCall, Goto, TypeOK, TableType, ListsType, ProcType, Frames,
               listVars, lockVars, s
<1>16. ASSUME ExitScan(p) PROVE TypeOK'
  <2>1. s \in Syscalls
    BY <1>16 DEF ExitScan, s
  <2>2. p \in Pids /\ entries[s][p] \in Nat
    BY <2>1 DEF ListsType, Pids
  <2>3. [frame[p] EXCEPT !.left = entries[s][p]] \in Frames
    BY <2>2, <1>f DEF Frames
  <2> QED BY <1>16, <1>f, <2>3 DEF ExitScan, Goto, Places, TypeOK, TableType, ListsType, ProcType, Frames,
               exitRest, listVars, lockVars, s
<1>17. ASSUME ExitUnlink(p) PROVE TypeOK'
  <2>1. s \in Syscalls /\ p \in Pids
    BY <1>17, <1>s DEF ExitUnlink, Pids
  <2>2. entries[s] \in [Pids -> Nat] /\ entries[s][p] - 1 \in Nat
    BY <2>1, <1>17 DEF ListsType, ExitUnlink, Listed, s
  <2>3. entries' \in [Syscalls -> [Pids -> Nat]]
    BY <2>1, <2>2, <1>17 DEF ListsType, ExitUnlink, s
  <2>4. frame[p].left \in Nat /\ frame[p].left > 0
    BY <1>f, <1>17 DEF Frames, ExitUnlink
  <2>5. [frame[p] EXCEPT !.left = frame[p].left - 1] \in Frames
    BY <2>4, <1>f DEF Frames
  <2> QED BY <1>17, <1>f, <2>3, <2>5 DEF ExitUnlink, Goto, Places, TypeOK, TableType, ListsType, ProcType, Frames,
               exitRest, lockVars
<1>18. ASSUME ExitLoad(p) PROVE TypeOK'
  <2>1. s \in Syscalls /\ listcount[s] \in Int
    BY <1>18, <1>s DEF ExitLoad, ListsType
  <2>2. [frame[p] EXCEPT !.count = listcount[s]] \in Frames
    BY <2>1, <1>f DEF Frames
  <2> QED BY <1>18, <1>f, <2>2 DEF ExitLoad, Goto, Places, TypeOK, TableType, ListsType, ProcType, Frames,
               exitRest, listVars, lockVars, s
<1>19. ASSUME ExitStore(p) PROVE TypeOK'
  <2>1. frame[p].count - 1 \in Int
    BY <1>f DEF Frames
  <2> QED BY <1>19, <2>1 DEF ExitStore, Goto, Places, TypeOK, TableType, ListsType, ProcType,
               exitRest, lockVars
<1>20. ASSUME ExitClear(p) PROVE TypeOK'
  <2>s. s \in Syscalls /\ monitored' = [monitored EXCEPT ![s] = 0]
    BY <1>20, <1>s DEF ExitClear, s
  <2>1. monitored' \in [Syscalls -> 0..2]
    BY <2>s DEF ListsType
  <2> QED BY <1>20, <2>1 DEF ExitClear, Goto, Places, TypeOK, TableType, ListsType, ProcType, exitRest, lockVars
<1>21. ASSUME ExitNextList(p) PROVE TypeOK'
  <2>1. s \in Syscalls /\ s + 1 \in 0..(NSyscalls + 1)
    BY <1>21, <1>s, <1>q DEF ExitNextList, Syscalls
  <2>2. Frame("none", s + 1, ALL) \in Frames
    BY <2>1, FrameType DEF Pids
  <2> QED BY <1>21, <1>f, <2>2 DEF ExitNextList, Goto, Places, TypeOK, TableType, ListsType, ProcType, Frames,
               exitRest, listVars, lockVars, s
<1>22. ASSUME ExitProcess(p) PROVE TypeOK'
  <2>1. Idle \in Frames
    BY FrameType, SyscallsAssumption DEF Idle, CUSTOM, ALL, Pids
  <2> QED BY <1>22, <1>f, <2>1 DEF ExitProcess, Goto, Places, TypeOK, TableType, ListsType, ProcType, Frames,
               exitRest, listVars, lockVars
<1> QED
  BY <1>1, <1>2, <1>3, <1>4, <1>5, <1>6, <1>7, <1>8, <1>9, <1>10, <1>11, <1>12, <1>13, <1>14,
     <1>15, <1>16, <1>17, <1>18, <1>19, <1>20, <1>21, <1>22
  DEF Requests, Locked, Unlocked

(* The owner of a lock is the process in its critical section.             *)
LEMMA LockStep ==
  ASSUME IInv, NEW p \in Procs, Requests(p) \/ Locked(p) \/ Unlocked(p)
  PROVE  LockInv'
<1> pc \in [Procs -> Places] /\ LockInv
  BY DEF IInv, TypeOK, ProcType
<1>p. \A r \in Procs : r # FREE
  BY ProcsAssumption DEF FREE
<1>1. CASE Plain(p)
  BY <1>1 DEF Plain, Holding, LockInv, lockVars
<1>2. CASE InterceptMark(p)
  BY <1>2, <1>p DEF InterceptMark, Enters, Goto, LockInv
<1>3. CASE InterceptSave(p)
  BY <1>3, <1>p DEF InterceptSave, Goto, LockInv
<1>4. CASE InterceptHijack(p)
  BY <1>4, <1>p DEF InterceptHijack, Return, Goto, LockInv
<1>5. CASE ReleaseMark(p)
  BY <1>5, <1>p DEF ReleaseMark, Enters, Goto, LockInv
<1>6. CASE ReleaseRestore(p)
  BY <1>6, <1>p DEF ReleaseRestore, Goto, LockInv
<1>7. CASE ReleaseUnlock(p)
  BY <1>7, <1>p DEF ReleaseUnlock, Return, Goto, LockInv
<1> QED BY StepKinds, <1>1, <1>2, <1>3, <1>4, <1>5, <1>6, <1>7 DEF Entry

(* At most one process holds each lock, so at most one is at each place    *)
(* of a critical section.                                                  *)
LEMMA OneHolder ==
  ASSUME LockInv, NEW p \in Procs, NEW r \in Procs,
         \/ pc[p] \in {"save", "restore"} /\ pc[r] \in {"save", "restore"}
         \/ pc[p] \in {"hijack", "unlock"} /\ pc[r] \in {"hijack", "unlock"}
  PROVE  p = r
BY DEF LockInv

(* No process that waits for a lock is in a critical section of it.        *)
LEMMA NobodyInside ==
  ASSUME LockInv
  PROVE  /\ tableLock = FREE => \A r \in Procs : pc[r] \notin {"save", "restore"}
         /\ sysLock = FREE => \A r \in Procs : pc[r] \notin {"hijack", "unlock"}
BY ProcsAssumption DEF LockInv, FREE

(* Arguments and loop counters are in range where they are used.           *)
LEMMA FrameStep ==
  ASSUME IInv, NEW p \in Procs, Requests(p) \/ Locked(p) \/ Unlocked(p)
  PROVE  FrameInv'
<1> DEFINE Working(x) == pc[x] \in CommandPlaces \cup {"interceptor", "logged", "silent",
                                       "walk", "load", "store", "clear"}
           Fine(x) == /\ Working(x) => frame[x].syscall \in Syscalls
                      /\ pc[x] = "scan" => frame[x].syscall \in 1..(NSyscalls + 1)
<1> pc \in [Procs -> Places] /\ frame \in [Procs -> Frames]
  BY DEF IInv, TypeOK, ProcType, Frames
<1>f. \A x \in Procs : Fine(x)
  BY DEF IInv, FrameInv
<1>0. \A x \in Procs \ {p} : pc'[x] = pc[x] /\ frame'[x] = frame[x]
  BY StepKinds DEF Plain, Entry, InterceptMark, InterceptSave, InterceptHijack, ReleaseMark,
     ReleaseRestore, ReleaseUnlock, Goto, Return
<1> SUFFICES Fine(p)'
  BY <1>f, <1>0 DEF FrameInv
<1>1. ASSUME NEW cmd, NEW z \in Syscalls, NEW q, Call(p, cmd, z, q) PROVE Fine(p)'
  BY <1>1 DEF Call, Goto, Frame
<1>2. ASSUME NEW z \in Syscalls, Syscall(p, z) PROVE Fine(p)'
  BY <1>2, RunsPlace, RunsFrame, SyscallsAssumption DEF Syscall, Goto, CommandPlaces, Syscalls
<1>3. ASSUME Return(p) PROVE Fine(p)'
  BY <1>3 DEF Return, Goto, CommandPlaces
<1>4. ASSUME Working(p), Working(p)' \/ pc'[p] \in {"user", "dead"}, UNCHANGED frame PROVE Fine(p)'
  BY <1>4, <1>f DEF CommandPlaces
<1>5. ASSUME InterceptorCall(p) PROVE Fine(p)'
  <2>1. frame[p].syscall \in Syscalls
    BY <1>5, <1>f DEF InterceptorCall
  <2> QED BY <1>5, <2>1, RunsPlace, RunsFrame, SyscallsAssumption DEF InterceptorCall, Goto, CommandPlaces, Syscalls
<1>6. ASSUME Requests(p) PROVE Fine(p)'
  <2>1. CASE Spawn(p)
    BY <2>1 DEF Spawn, Goto, CommandPlaces
  <2> QED BY <1>6, <1>1, <1>2, <2>1 DEF Requests
<1>7. ASSUME Locked(p) PROVE Fine(p)'
  <2>1. CASE InterceptMark(p) \/ InterceptSave(p) \/ ReleaseMark(p) \/ ReleaseRestore(p)
    BY <2>1, <1>4 DEF InterceptMark, InterceptSave, ReleaseMark, ReleaseRestore, Enters, Goto, CommandPlaces
  <2>2. CASE InterceptorCheck(p)
    BY <2>2, <1>4 DEF InterceptorCheck, Goto
  <2> QED BY <1>7, <2>1, <2>2, <1>3 DEF Locked, InterceptBusy, ReleaseRefused, StartRefused, StartUnlist,
            StartAll, StartOne, StopRefused, StopOne, StopAll, StopExcept
<1>8. ASSUME Unlocked(p) PROVE Fine(p)'
  <2>1. CASE InterceptHijack(p) \/ ReleaseUnlock(p)
    BY <2>1, <1>3 DEF InterceptHijack, ReleaseUnlock
  <2>2. CASE ExitScan(p)
    BY <2>2 DEF ExitScan, Goto, Frames
  <2>3. CASE ExitUnlink(p) \/ ExitLoad(p)
    BY <2>3, <1>f DEF ExitUnlink, ExitLoad, Goto, Frames
  <2>4. CASE ExitStore(p)
    BY <2>4, <1>4 DEF ExitStore, Goto
  <2>5. CASE ExitClear(p)
    BY <2>5, <1>4 DEF ExitClear, Goto
  <2>6. CASE ExitNextList(p)
    <3>1. frame[p].syscall \in Syscalls
      BY <2>6, <1>f DEF ExitNextList
    <3> QED BY <2>6, <3>1, SyscallsAssumption DEF ExitNextList, Goto, Frame, Syscalls, CommandPlaces
  <2>7. CASE ExitProcess(p)
    BY <2>7 DEF ExitProcess, Goto, CommandPlaces
  <2> QED BY <1>8, <1>5, <2>1, <2>2, <2>3, <2>4, <2>5, <2>6, <2>7 DEF Unlocked
<1> QED BY <1>6, <1>7, <1>8

(* The entries of sys_call_table, the saved calls and intercepted, along   *)
(* the two lock-coupled commands.                                          *)
EntryOK(s) ==
  /\ sysTable[s] \in {Original(s), "interceptor"}
  /\ sysTable[s] = "interceptor" => f[s] = Original(s)
  /\ f[s] \in {"NULL", Original(s)}
  /\ \A p \in Procs :
       /\ At(p, "save", s) => intercepted[s] /\ sysTable[s] = Original(s)
       /\ At(p, "hijack", s) =>
            /\ f[s] = Original(s) /\ sysTable[s] = Original(s)
            /\ intercepted[s] \/ \E r \in Procs : At(r, "restore", s)
       /\ At(p, "restore", s) => ~intercepted[s] /\ f[s] = Original(s)
  /\ (\A p \in Procs : \A place \in {"save", "hijack", "restore"} : ~At(p, place, s))
       => sysTable[s] = IF intercepted[s] THEN "interceptor" ELSE Original(s)
  /\ \A p, r \in Procs : At(p, "save", s) => ~At(r, "hijack", s)

LEMMA EntrySplit ==
  IInv => \A s \in Syscalls : EntryOK(s)
BY DEF IInv, EntryInv, OriginalKept, HookMatches, TurnInv, EntryOK

(* A step that leaves entry s, its metadata and the places at it alone.    *)
LEMMA EntryKeep ==
  ASSUME NEW s \in Syscalls, EntryOK(s),
         sysTable'[s] = sysTable[s], f'[s] = f[s], intercepted'[s] = intercepted[s],
         \A r \in Procs, place \in {"save", "hijack", "restore"} :
           At(r, place, s)' <=> At(r, place, s)
  PROVE  EntryOK(s)'
BY DEF EntryOK, Original

LEMMA EntryStep ==
  ASSUME IInv, NEW p \in Procs, Requests(p) \/ Locked(p) \/ Unlocked(p),
         NEW s \in Syscalls
  PROVE  EntryOK(s)'
<1> DEFINE P3 == {"save", "hijack", "restore"}
<1>t. /\ pc \in [Procs -> Places] /\ frame \in [Procs -> Frames]
      /\ sysTable \in [Syscalls \cup {CUSTOM} -> Functions] /\ f \in [Syscalls -> Functions]
      /\ intercepted \in [Syscalls -> BOOLEAN] /\ LockInv /\ LockInv'
  BY LockStep DEF IInv, TypeOK, ProcType, TableType, Frames
<1>e. EntryOK(s)
  BY EntrySplit
<1>p. pc[p] \in P3 => frame[p].syscall \in Syscalls
  BY DEF IInv, FrameInv, CommandPlaces
<1>1. CASE Plain(p)
  <2>1. \A r \in Procs, place \in P3 : At(r, place, s)' <=> At(r, place, s)
    BY <1>1 DEF Plain, At, Holding
  <2> QED BY <1>1, <1>e, <2>1, EntryKeep DEF Plain
<1>2. CASE Entry(p) /\ frame[p].syscall # s
  <2>1. \A r \in Procs : r # p => pc'[r] = pc[r] /\ frame'[r] = frame[r]
    BY <1>2, <1>t DEF Entry, InterceptMark, InterceptSave, InterceptHijack, ReleaseMark,
       ReleaseRestore, ReleaseUnlock, Goto, Return
  <2>2. frame'[p] = frame[p] \/ pc'[p] = "user"
    BY <1>2, <1>t DEF Entry, InterceptMark, InterceptSave, InterceptHijack, ReleaseMark,
       ReleaseRestore, ReleaseUnlock, Goto, Return
  <2>3. \A r \in Procs, place \in P3 : At(r, place, s)' <=> At(r, place, s)
    BY <1>2, <2>1, <2>2 DEF At
  <2>4. sysTable'[s] = sysTable[s] /\ f'[s] = f[s] /\ intercepted'[s] = intercepted[s]
    BY <1>2, <1>t DEF Entry, InterceptMark, InterceptSave, InterceptHijack, ReleaseMark,
       ReleaseRestore, ReleaseUnlock
  <2> QED BY <1>e, <2>3, <2>4, EntryKeep
<1>3. CASE InterceptMark(p) /\ frame[p].syscall = s
  <2>1. /\ ~intercepted[s] /\ tableLock = FREE
        /\ intercepted'[s] /\ UNCHANGED <<sysTable, f, frame>>
        /\ pc' = [pc EXCEPT ![p] = "save"] /\ pc[p] = "command"
    BY <1>3, <1>t DEF InterceptMark, Enters, Goto
  <2>2. \A r \in Procs : ~At(r, "save", s) /\ ~At(r, "restore", s)
    BY <2>1, <1>t, NobodyInside DEF At
  <2>3. \A r \in Procs : ~At(r, "hijack", s)
    BY <2>1, <2>2, <1>e DEF EntryOK
  <2>4. sysTable[s] = Original(s)
    BY <2>1, <2>2, <2>3, <1>e DEF EntryOK
  <2>5. /\ At(p, "save", s)' /\ ~At(p, "hijack", s)' /\ ~At(p, "restore", s)'
        /\ \A r \in Procs \ {p}, place \in P3 : ~At(r, place, s)'
    BY <1>3, <1>t, <2>1, <2>2, <2>3 DEF At
  <2>6. Original(s) # "interceptor" /\ Original(s)' = Original(s)
    BY DEF Original
  <2> QED BY <1>e, <1>t, <2>1, <2>4, <2>5, <2>6 DEF EntryOK
<1>4. CASE InterceptSave(p) /\ frame[p].syscall = s
  <2>1. /\ At(p, "save", s) /\ sysLock = FREE
        /\ f'[s] = sysTable[s] /\ UNCHANGED <<sysTable, intercepted, frame>>
        /\ pc' = [pc EXCEPT ![p] = "hijack"]
    BY <1>4, <1>t DEF InterceptSave, Goto, At
  <2>2. \A r \in Procs : ~At(r, "hijack", s)
    BY <2>1, <1>t, NobodyInside DEF At
  <2>3. \A r \in Procs \ {p} : ~At(r, "save", s) /\ ~At(r, "restore", s)
    BY <2>1, <1>t, OneHolder DEF At
  <2>4. intercepted[s] /\ sysTable[s] = Original(s)
    BY <2>1, <1>e DEF EntryOK
  <2>5. /\ At(p, "hijack", s)' /\ ~At(p, "save", s)' /\ ~At(p, "restore", s)'
        /\ \A r \in Procs \ {p}, place \in P3 : ~At(r, place, s)'
    BY <1>4, <1>t, <2>1, <2>2, <2>3 DEF At
  <2>6. Original(s) # "interceptor" /\ Original(s)' = Original(s)
    BY DEF Original
  <2> QED BY <1>e, <1>t, <2>1, <2>4, <2>5, <2>6 DEF EntryOK
<1>5. CASE InterceptHijack(p) /\ frame[p].syscall = s
  <2>1. /\ At(p, "hijack", s) /\ sysTable'[s] = "interceptor"
        /\ UNCHANGED <<f, intercepted>>
        /\ pc' = [pc EXCEPT ![p] = "user"]
        /\ \A r \in Procs \ {p} : frame'[r] = frame[r]
    BY <1>5, <1>t DEF InterceptHijack, Return, Goto, At
  <2>2. \A r \in Procs : ~At(r, "save", s)
    BY <2>1, <1>e DEF EntryOK
  <2>3. \A r \in Procs \ {p} : ~At(r, "hijack", s)
    BY <2>1, <1>t, OneHolder DEF At
  <2>4. f[s] = Original(s) /\ (intercepted[s] \/ \E r \in Procs : At(r, "restore", s))
    BY <2>1, <1>e DEF EntryOK
  <2>5. /\ \A r \in Procs : ~At(r, "save", s)' /\ ~At(r, "hijack", s)'
        /\ \A r \in Procs : At(r, "restore", s)' <=> At(r, "restore", s)
    BY <1>t, <2>1, <2>2, <2>3 DEF At
  <2>6. Original(s)' = Original(s)
    BY DEF Original
  <2> QED BY <1>e, <1>t, <2>1, <2>4, <2>5, <2>6 DEF EntryOK
<1>6. CASE ReleaseMark(p) /\ frame[p].syscall = s
  <2>1. /\ intercepted[s] /\ tableLock = FREE
        /\ ~intercepted'[s] /\ UNCHANGED <<sysTable, f, frame>>
        /\ pc' = [pc EXCEPT ![p] = "restore"] /\ pc[p] = "command"
    BY <1>6, <1>t DEF ReleaseMark, Enters, Goto
  <2>2. \A r \in Procs : ~At(r, "save", s) /\ ~At(r, "restore", s)
    BY <2>1, <1>t, NobodyInside DEF At
  <2>3. f[s] = Original(s)
    <3>1. CASE \E r \in Procs : At(r, "hijack", s)
      BY <3>1, <1>e DEF EntryOK
    <3>2. CASE \A r \in Procs : ~At(r, "hijack", s)
      BY <3>2, <2>1, <2>2, <1>e DEF EntryOK
    <3> QED BY <3>1, <3>2
  <2>4. /\ At(p, "restore", s)' /\ ~At(p, "save", s)' /\ ~At(p, "hijack", s)'
        /\ \A r \in Procs \ {p} : ~At(r, "save", s)' /\ ~At(r, "restore", s)'
        /\ \A r \in Procs \ {p} : At(r, "hijack", s)' <=> At(r, "hijack", s)
    BY <1>6, <1>t, <2>1, <2>2 DEF At
  <2>5. Original(s)' = Original(s)
    BY DEF Original
  <2>6. \A r \in Procs : At(r, "hijack", s)' =>
          /\ f'[s] = Original(s) /\ sysTable'[s] = Original(s)
          /\ \E t \in Procs : At(t, "restore", s)'
    BY <1>e, <2>1, <2>4 DEF EntryOK
  <2>7. \A r \in Procs : ~At(r, "save", s)'
    BY <2>4
  <2>8. /\ sysTable'[s] \in {Original(s), "interceptor"}
        /\ sysTable'[s] = "interceptor" => f'[s] = Original(s)
        /\ f'[s] \in {"NULL", Original(s)}
    BY <1>e, <2>1 DEF EntryOK
  <2>9. ~(\A r \in Procs : \A place \in P3 : ~At(r, place, s)')
    BY <2>4
  <2> QED BY <2>1, <2>3, <2>5, <2>6, <2>7, <2>8, <2>9 DEF EntryOK
<1>7. CASE ReleaseRestore(p) /\ frame[p].syscall = s
  <2>1. /\ At(p, "restore", s) /\ sysLock = FREE
        /\ sysTable'[s] = f[s] /\ UNCHANGED <<f, intercepted, frame>>
        /\ pc' = [pc EXCEPT ![p] = "unlock"]
    BY <1>7, <1>t DEF ReleaseRestore, Goto, At
  <2>2. \A r \in Procs : ~At(r, "hijack", s)
    BY <2>1, <1>t, NobodyInside DEF At
  <2>3. \A r \in Procs \ {p} : ~At(r, "save", s) /\ ~At(r, "restore", s)
    BY <2>1, <1>t, OneHolder DEF At
  <2>4. ~intercepted[s] /\ f[s] = Original(s)
    BY <2>1, <1>e DEF EntryOK
  <2>5. \A r \in Procs, place \in P3 : ~At(r, place, s)'
    BY <1>t, <2>1, <2>2, <2>3 DEF At
  <2>6. Original(s) # "interceptor" /\ Original(s)' = Original(s)
    BY DEF Original
  <2> QED BY <1>e, <1>t, <2>1, <2>4, <2>5, <2>6 DEF EntryOK
<1>8. CASE ReleaseUnlock(p) /\ frame[p].syscall = s
  <2>1. /\ pc[p] = "unlock" /\ pc' = [pc EXCEPT ![p] = "user"]
        /\ UNCHANGED <<sysTable, f, intercepted>>
        /\ \A r \in Procs \ {p} : frame'[r] = frame[r]
    BY <1>8, <1>t DEF ReleaseUnlock, Return, Goto
  <2>2. \A r \in Procs, place \in P3 : At(r, place, s)' <=> At(r, place, s)
    BY <1>t, <2>1 DEF At
  <2> QED BY <1>e, <2>1, <2>2, EntryKeep
<1> QED BY StepKinds, <1>1, <1>2, <1>3, <1>4, <1>5, <1>6, <1>7, <1>8 DEF Entry

(* A process in the interceptor always finds the original call in f.       *)
LEMMA CallerStep ==
  ASSUME IInv, NEW p \in Procs, Requests(p) \/ Locked(p) \/ Unlocked(p),
         NEW r \in Procs
  PROVE  (pc[r] \in {"interceptor", "logged", "silent"}
            => f[frame[r].syscall] = Original(frame[r].syscall))'
<1> DEFINE In(x) == pc[x] \in {"interceptor", "logged", "silent"}
<1>t. /\ pc \in [Procs -> Places] /\ frame \in [Procs -> Frames]
      /\ f \in [Syscalls -> Functions] /\ \A s \in Syscalls : EntryOK(s)
  BY EntrySplit DEF IInv, TypeOK, ProcType, TableType, Frames
<1>o. \A x \in Procs : In(x) => /\ frame[x].syscall \in Syscalls
                              /\ f[frame[x].syscall] = Original(frame[x].syscall)
  BY DEF IInv, FrameInv, OriginalKept
<1>f. \A s \in Syscalls : f[s] = Original(s) => f'[s] = Original(s)
  <2>1. CASE UNCHANGED f
    BY <2>1
  <2>2. CASE InterceptSave(p)
    <3>1. frame[p].syscall \in Syscalls
      BY <2>2 DEF InterceptSave, IInv, FrameInv, CommandPlaces
    <3>2. At(p, "save", frame[p].syscall)
      BY <2>2 DEF InterceptSave, At
    <3>3. sysTable[frame[p].syscall] = Original(frame[p].syscall)
      BY <3>1, <3>2, <1>t DEF EntryOK
    <3> QED BY <2>2, <3>1, <3>3, <1>t DEF InterceptSave
  <2> QED BY <2>1, <2>2, StepKinds DEF Plain, Entry, InterceptMark, InterceptHijack, ReleaseMark,
          ReleaseRestore, ReleaseUnlock
<1>n. Original(frame[r].syscall)' = Original(frame'[r].syscall)
  BY DEF Original
<1>1. CASE In(r) /\ frame'[r].syscall = frame[r].syscall
  BY <1>1, <1>o, <1>f, <1>n
<1>2. CASE ~In(r)'
  BY <1>2
<1>3. CASE \E s \in Syscalls : r = p /\ Syscall(p, s) /\ In(p)'
  <2> PICK s \in Syscalls : r = p /\ Syscall(p, s) /\ In(p)'
    BY <1>3
  <2>1. sysTable[s] = "interceptor" /\ frame'[p].syscall = s
    BY RunsPlace, RunsFrame, <1>t DEF Syscall, Goto
  <2> QED BY <2>1, <1>t, <1>f, <1>n DEF EntryOK
<1>4. CASE r = p /\ InterceptorCall(p)
  <2>1. f[frame[p].syscall] # "interceptor"
    BY <1>4, <1>o DEF InterceptorCall, Original
  <2>2. ~In(p)'
    BY <1>4, <2>1, RunsPlace, <1>t DEF InterceptorCall, Goto
  <2> QED BY <1>4, <2>2
<1>5. CASE r = p /\ InterceptorCheck(p)
  BY <1>5, <1>1 DEF InterceptorCheck
<1>6. CASE r = p /\ ~InterceptorCheck(p) /\ ~InterceptorCall(p) /\ ~\E s \in Syscalls : Syscall(p, s)
  <2>1. CASE Requests(p)
    <3>1. pc' = [pc EXCEPT ![p] = "command"] \/ pc' = [pc EXCEPT ![p] = "user"]
      BY <1>6, <2>1 DEF Requests, Call, Spawn, Goto
    <3> QED BY <1>6, <3>1, <1>2, <1>t
  <2>2. CASE Locked(p)
    BY <1>6, <2>2, <1>2, <1>t DEF Locked, InterceptBusy, InterceptMark, InterceptSave, ReleaseRefused,
       ReleaseMark, ReleaseRestore, StartRefused, StartUnlist, StartAll, StartOne, StopRefused,
       StopOne, StopAll, StopExcept, Return, Goto
  <2>3. CASE Unlocked(p)
    BY <1>6, <2>3, <1>2, <1>t DEF Unlocked, InterceptHijack, ReleaseUnlock, ExitScan, ExitUnlink, ExitLoad,
       ExitStore, ExitClear, ExitNextList, ExitProcess, Return, Goto
  <2> QED BY <2>1, <2>2, <2>3
<1>7. CASE r # p
  <2>1. pc'[r] = pc[r] /\ frame'[r] = frame[r]
    BY <1>7, <1>t, StepKinds DEF Plain, Entry, InterceptMark, InterceptSave, InterceptHijack,
       ReleaseMark, ReleaseRestore, ReleaseUnlock, Goto, Return
  <2> QED BY <2>1, <1>1, <1>2
<1> QED BY <1>2, <1>3, <1>4, <1>5, <1>6, <1>7

(* A call that is not intercepted keeps an empty list.                     *)
LEMMA OnlyInterceptedStep ==
  ASSUME IInv, NEW p \in Procs, Requests(p) \/ Locked(p) \/ Unlocked(p)
  PROVE  OnlyInterceptedMonitored'
<1> DEFINE s == frame[p].syscall
           q == frame[p].pid
           Clean(x) == monitored[x] = 0 /\ \A y \in Pids : entries[x][y] = 0
<1>t. /\ monitored \in [Syscalls -> 0..2] /\ entries \in [Syscalls -> [Pids -> Nat]]
      /\ intercepted \in [Syscalls -> BOOLEAN] /\ q \in Pids
  BY DEF IInv, TypeOK, ListsType, TableType, ProcType
<1>c. \A x \in Syscalls : ~intercepted[x] => Clean(x)
  BY DEF IInv, OnlyInterceptedMonitored
<1>s. pc[p] \in {"command", "save", "hijack", "restore", "walk", "load", "store", "clear"}
        => s \in Syscalls
  BY DEF IInv, FrameInv, CommandPlaces
<1> SUFFICES \A x \in Syscalls : ~intercepted'[x] => Clean(x)'
  BY DEF OnlyInterceptedMonitored
<1> HIDE DEF s, q
<1>1. CASE UNCHANGED <<intercepted, monitored, entries>>
  BY <1>1, <1>c
<1>2. CASE InterceptMark(p)
  BY <1>2, <1>c, <1>t DEF InterceptMark, listVars
<1>3. CASE ReleaseMark(p)
  <2>1. s \in Syscalls /\ intercepted' = [intercepted EXCEPT ![s] = FALSE] /\ DestroyList(s, 0)
    BY <1>3, <1>s DEF ReleaseMark, Enters, s
  <2> QED BY <2>1, <1>c, <1>t DEF DestroyList
(* A list that is changed belongs to an intercepted call, or was changed   *)
(* by an exit, which only takes away.                                      *)
<1>4. CASE /\ s \in Syscalls /\ intercepted[s] /\ UNCHANGED intercepted
           /\ \A x \in Syscalls \ {s} : monitored'[x] = monitored[x] /\ entries'[x] = entries[x]
  BY <1>4, <1>c
<1>5. CASE StartUnlist(p) \/ StartAll(p) \/ StartOne(p) \/ StopOne(p) \/ StopAll(p) \/ StopExcept(p)
  <2>1. pc[p] = "command" /\ s \in Syscalls /\ UNCHANGED intercepted
    BY <1>5, <1>s DEF StartUnlist, StartAll, StartOne, StopOne, StopAll, StopExcept, Enters, monitorRest
  <2>2. intercepted[s] \/ monitored[s] # 0
    BY <1>5 DEF StartUnlist, StartAll, StartOne, StopOne, StopAll, StopExcept, s
  <2>3. intercepted[s]
    BY <2>1, <2>2, <1>c, <1>t
  <2>4. \A x \in Syscalls \ {s} : monitored'[x] = monitored[x] /\ entries'[x] = entries[x]
    BY <1>5, <1>t, <2>1 DEF StartUnlist, StartAll, StartOne, StopOne, StopAll, StopExcept,
       AddPid, DelPid, DestroyList, s
  <2> QED BY <2>1, <2>3, <2>4, <1>4
<1>6. CASE ExitUnlink(p)
  <2>1. s \in Syscalls /\ p \in Pids /\ entries[s][p] > 0 /\ UNCHANGED <<intercepted, monitored>>
        /\ entries' = [entries EXCEPT ![s][p] = @ - 1]
    BY <1>6, <1>s DEF ExitUnlink, Listed, exitRest, Pids, s
  <2>2. intercepted[s]
    BY <2>1, <1>c, <1>t
  <2>3. \A x \in Syscalls \ {s} : monitored'[x] = monitored[x] /\ entries'[x] = entries[x]
    BY <2>1, <1>t
  <2> QED BY <2>1, <2>2, <2>3, <1>4
<1>7. CASE ExitClear(p)
  <2>1. s \in Syscalls /\ UNCHANGED <<intercepted, entries>>
        /\ monitored' = [monitored EXCEPT ![s] = 0]
    BY <1>7, <1>s DEF ExitClear, exitRest, s
  <2> QED BY <2>1, <1>c, <1>t
<1>8. CASE ~ExitUnlink(p) /\ ~ExitClear(p) /\ Unlocked(p)
  BY <1>8, <1>1 DEF Unlocked, InterceptHijack, ReleaseUnlock, InterceptorCall, ExitScan, ExitLoad,
     ExitStore, ExitNextList, ExitProcess, exitRest, listVars
<1>9. CASE Requests(p)
  BY <1>9, <1>1 DEF Requests, Call, Syscall, Spawn, exitRest, listVars
<1>10. CASE Locked(p)
  <2>1. CASE InterceptBusy(p) \/ InterceptSave(p) \/ ReleaseRefused(p) \/ ReleaseRestore(p)
             \/ StartRefused(p) \/ StopRefused(p) \/ InterceptorCheck(p)
    BY <2>1, <1>1 DEF InterceptBusy, InterceptSave, ReleaseRefused, ReleaseRestore, StartRefused,
       StopRefused, InterceptorCheck, monitorRest, listVars
  <2> QED BY <1>10, <2>1, <1>2, <1>3, <1>5 DEF Locked
<1> QED BY <1>6, <1>7, <1>8, <1>9, <1>10

(* IInv is inductive.                                                      *)
LEMMA InitInv == Init => IInv
<1> SUFFICES ASSUME Init PROVE IInv
  OBVIOUS
<1>1. TypeOK
  <2>1. Idle \in Frames
    BY FrameType, SyscallsAssumption DEF Idle, CUSTOM, ALL, Pids
  <2> QED BY <2>1 DEF Init, TypeOK, TableType, ListsType, ProcType, Frames, Places, Functions, Original
<1>2. LockInv /\ FrameInv
  BY ProcsAssumption DEF Init, LockInv, FrameInv, CommandPlaces, FREE
<1>3. \A s \in Syscalls : s # CUSTOM
  BY SyscallsAssumption DEF Syscalls, CUSTOM
<1>4. EntryInv /\ TurnInv /\ OriginalKept /\ HookMatches
  <2>1. \A s \in Syscalls : /\ sysTable[s] = Original(s) /\ Original(s) # "interceptor"
                            /\ f[s] = "NULL" /\ ~intercepted[s]
    BY <1>3 DEF Init, Original
  <2>2. \A p \in Procs : pc[p] = "user"
    BY DEF Init
  <2> QED BY <2>1, <2>2 DEF EntryInv, TurnInv, OriginalKept, HookMatches, At
<1>5. OnlyInterceptedMonitored
  BY DEF Init, OnlyInterceptedMonitored
<1> QED BY <1>1, <1>2, <1>4, <1>5 DEF IInv

LEMMA StepInv == IInv /\ [Next]_vars => IInv'
<1> SUFFICES ASSUME IInv, [Next]_vars PROVE IInv'
  OBVIOUS
<1>1. CASE Next
  <2> PICK p \in Procs : Requests(p) \/ Locked(p) \/ Unlocked(p)
    BY <1>1 DEF Next
  <2>1. TypeOK' /\ LockInv' /\ FrameInv' /\ OnlyInterceptedMonitored'
    BY TypeStep, LockStep, FrameStep, OnlyInterceptedStep
  <2>2. \A s \in Syscalls : EntryOK(s)'
    BY EntryStep
  <2>3. EntryInv' /\ TurnInv' /\ HookMatches' /\ (\A s \in Syscalls : f[s] \in {"NULL", Original(s)})'
    BY <2>2 DEF EntryOK, EntryInv, TurnInv, HookMatches
  <2>4. OriginalKept'
    BY <2>3, CallerStep DEF OriginalKept
  <2> QED BY <2>1, <2>3, <2>4 DEF IInv
<1>2. CASE UNCHANGED vars
  BY <1>2 DEF vars, listVars, lockVars, IInv, TypeOK, TableType, ListsType, ProcType, LockInv, FrameInv,
     EntryInv, TurnInv, OriginalKept, HookMatches, OnlyInterceptedMonitored, At, Original
<1> QED BY <1>1, <1>2

(* Whatever overlaps with what, IInv always holds.                         *)
THEOREM Invariance == Spec => []IInv
<1>1. Init => IInv
  BY InitInv
<1>2. IInv /\ [Next]_vars => IInv'
  BY StepInv
<1> QED BY <1>1, <1>2, PTL DEF Spec

(* Types: no list ever has a negative number of entries for a pid.         *)
THEOREM TypeCorrect == Spec => []TypeOK
<1>1. IInv => TypeOK
  BY DEF IInv
<1> QED BY <1>1, Invariance, PTL

(* The interceptor always finds the original call: no endless recursion    *)
(* and no jump to NULL, for any commands and exits at the same time.       *)
THEOREM OriginalsSafe == Spec => []OriginalKept
<1>1. IInv => OriginalKept
  BY DEF IInv
<1> QED BY <1>1, Invariance, PTL

(* sys_call_table agrees with table[].intercepted outside the commands     *)
(* that change them, although these hand over from one lock to the other.  *)
THEOREM HooksCorrect == Spec => []HookMatches
<1>1. IInv => HookMatches
  BY DEF IInv
<1> QED BY <1>1, Invariance, PTL

(* No pid is monitored for a call that is not intercepted, although exits  *)
(* change the lists without a lock.                                        *)
THEOREM CleanLists == Spec => []OnlyInterceptedMonitored
<1>1. IInv => OnlyInterceptedMonitored
  BY DEF IInv
<1> QED BY <1>1, Invariance, PTL

(* Any number of processes never spin on each other: the holder of         *)
(* sys_call_table_lock waits for nobody, and if there is none the holder   *)
(* of my_table_lock can take it.                                           *)
THEOREM NobodySpinsForAll == Spec => []NoSpinDeadlock
<1>1. ASSUME IInv, NEW p \in Procs, Spins(p)
      PROVE  \E r \in Procs : r \in {tableLock, sysLock} /\ ~Spins(r)
  <2>1. LockInv /\ tableLock \in Procs \cup {FREE} /\ sysLock \in Procs \cup {FREE}
    BY <1>1 DEF IInv, TypeOK, ProcType
  <2>2. CASE sysLock # FREE
    <3>1. sysLock \in Procs /\ pc[sysLock] \in {"hijack", "unlock"}
      BY <2>1, <2>2 DEF LockInv
    <3> QED
      BY <3>1 DEF Spins
  <2>3. CASE sysLock = FREE
    <3>1. tableLock # FREE
      BY <1>1, <2>3 DEF Spins
    <3>2. tableLock \in Procs /\ pc[tableLock] \in {"save", "restore"}
      BY <2>1, <3>1 DEF LockInv
    <3> QED
      BY <2>3, <3>2 DEF Spins
  <2> QED
    BY <2>2, <2>3
<1>2. IInv => NoSpinDeadlock
  BY <1>1 DEF NoSpinDeadlock
<1> QED
  BY <1>2, Invariance, PTL

(* The steps of an exit, one after the other.                              *)
LEMMA ExitCloser ==
  ASSUME IInv, IInv', NEW p \in Procs, pc[p] \in ExitPlaces,
         Requests(p) \/ Locked(p) \/ Unlocked(p)
  PROVE  pc'[p] = "dead" \/ (frame'[p].syscall <= NSyscalls + 1 /\ Closer(p))
<1>1. /\ pc \in [Procs -> Places] /\ frame \in [Procs -> Frames]
      /\ pc'[p] \in Places /\ frame'[p] \in Frames
  BY DEF IInv, TypeOK, ProcType, Frames
<1>2. frame[p].syscall \in Int /\ frame[p].left \in Nat /\ frame'[p].syscall \in 0..(NSyscalls + 1)
  BY <1>1, SyscallsAssumption DEF Frames
<1>3. frame'[p].syscall <= NSyscalls + 1
  BY <1>2, SyscallsAssumption
<1>4. ExitScan(p) \/ ExitUnlink(p) \/ ExitLoad(p) \/ ExitStore(p) \/ ExitClear(p)
      \/ ExitNextList(p) \/ ExitProcess(p)
  BY DEF Requests, Call, Syscall, Spawn, Locked, Unlocked, ExitPlaces, Enters, InterceptBusy,
     InterceptMark, InterceptSave, ReleaseRefused, ReleaseMark, ReleaseRestore, StartRefused,
     StartUnlist, StartAll, StartOne, StopRefused, StopOne, StopAll, StopExcept,
     InterceptorCheck, InterceptHijack, ReleaseUnlock, InterceptorCall
<1>5. CASE ExitScan(p)
  BY <1>1, <1>3, <1>5 DEF ExitScan, Goto, Closer, Frames
<1>6. CASE ExitUnlink(p)
  <2>1. /\ frame'[p].left = frame[p].left - 1 /\ frame'[p].syscall = frame[p].syscall
        /\ pc'[p] = "load"
    BY <1>1, <1>6 DEF ExitUnlink, Goto, Frames
  <2>2. frame'[p].left < frame[p].left
    BY <1>2, <2>1
  <2> QED
    BY <1>3, <2>1, <2>2 DEF Closer
<1>7. CASE ExitLoad(p)
  BY <1>1, <1>3, <1>7 DEF ExitLoad, Goto, Closer, Frames
<1>8. CASE ExitStore(p)
  BY <1>1, <1>3, <1>8 DEF ExitStore, Goto, Closer
<1>9. CASE ExitClear(p)
  BY <1>1, <1>3, <1>9 DEF ExitClear, Goto, Closer
<1>10. CASE ExitNextList(p)
  <2>1. frame'[p].syscall = frame[p].syscall + 1
    BY <1>1, <1>10 DEF ExitNextList, Frame
  <2>2. frame'[p].syscall > frame[p].syscall
    BY <1>2, <2>1
  <2> QED
    BY <1>3, <2>2 DEF Closer
<1>11. CASE ExitProcess(p)
  BY <1>1, <1>11 DEF ExitProcess, Goto
<1> QED
  BY <1>4, <1>5, <1>6, <1>7, <1>8, <1>9, <1>10, <1>11

(* A process that exits passes over every list once, and unlinks what it   *)
(* found there at most, however often the lists change meanwhile.          *)
THEOREM ExitsComeToAnEnd == Spec => ExitsAdvance
<1> DEFINE Advances(p) == \/ UNCHANGED <<pc[p], frame[p]>>
                          \/ pc'[p] = "dead"
                          \/ frame'[p].syscall <= NSyscalls + 1 /\ Closer(p)
<1>1. ASSUME IInv, IInv', [Next]_vars, NEW p \in Procs, pc[p] \in ExitPlaces
      PROVE  Advances(p)
  <2>1. CASE UNCHANGED vars
    BY <2>1 DEF vars
  <2>2. ASSUME NEW r \in Procs, Requests(r) \/ Locked(r) \/ Unlocked(r)
        PROVE  Advances(p)
    <3>1. CASE r = p
      BY <1>1, <2>2, <3>1, ExitCloser
    <3>2. CASE r # p
      <4>1. pc'[p] = pc[p] /\ frame'[p] = frame[p]
        BY <1>1, <2>2, <3>2, StepKinds DEF Plain, Entry, InterceptMark, InterceptSave, InterceptHijack,
           ReleaseMark, ReleaseRestore, ReleaseUnlock, Goto, Return, IInv, TypeOK, ProcType
      <4> QED
        BY <4>1
    <3> QED
      BY <3>1, <3>2
  <2> QED
    BY <1>1, <2>1, <2>2 DEF Next
<1>2. IInv /\ IInv' /\ [Next]_vars =>
        [\A p \in Procs : pc[p] \in ExitPlaces => Advances(p)]_vars
  BY <1>1
<1> QED
  BY <1>2, Invariance, PTL DEF Spec, ExitsAdvance
=============================================================================
