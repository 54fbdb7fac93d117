---------------------------- MODULE Interceptor ----------------------------
(***************************************************************************)
(* The system call interceptor of A1, from the end of init_function on:    *)
(* my_syscall with its four commands, the generic interceptor, and         *)
(* my_exit_group, run by any number of processes at once.                  *)
(*                                                                         *)
(* A critical section that nothing can observe half-way is one step.       *)
(* my_exit_group takes no lock, so every access it makes to the table is a *)
(* step of its own.  Calls that fail before they touch the table are no    *)
(* steps.  A list of pids is the number of its entries for each pid.       *)
(***************************************************************************)
EXTENDS Integers

CONSTANTS
  Procs,      \* the pids a process may have
  Uid,        \* the owner of each process; 0 is root
  NSyscalls,  \* system calls 1..NSyscalls may be intercepted
  ExitGroup,  \* __NR_exit_group
  Overlap,    \* may my_exit_group run at the same time as other module code?
  MaxExits    \* bound on the calls of exit_group

CUSTOM   == 0                 \* MY_CUSTOM_SYSCALL
ALL      == 0                 \* the pid that stands for all pids
Syscalls == 1..NSyscalls
Pids     == Procs \cup {ALL}
FREE     == 0                 \* the owner of a free spinlock
RMMOD    == -1                \* rmmod as an owner (InterceptorUnload)

ASSUME ProcsAssumption    == Procs \subseteq Nat \ {0}
ASSUME UidAssumption      == Uid \in [Procs -> Nat]
ASSUME SyscallsAssumption == NSyscalls \in Nat /\ ExitGroup \in Syscalls
ASSUME BoundsAssumption   == Overlap \in BOOLEAN /\ MaxExits \in Nat

VARIABLES
  sysTable,     \* sys_call_table
  f, intercepted, monitored, listcount, entries,    \* table[]
  tableLock, sysLock,  \* the holders of my_table_lock and sys_call_table_lock
  pc, frame,    \* each process: where it is, the arguments and locals there
  exits         \* calls of exit_group so far

listVars == <<monitored, listcount, entries>>
lockVars == <<tableLock, sysLock>>
vars == <<sysTable, f, intercepted, listVars, lockVars, pc, frame, exits>>

Functions == {"orig", "interceptor", "my_exit_group", "my_syscall", "NULL"}
Commands  == {"intercept", "release", "start", "stop"}
Places == {"user", "dead", "crashed", "command", "save", "hijack", "restore",
           "unlock", "interceptor", "logged", "silent",
           "scan", "walk", "load", "store", "clear"}
Frame(cmd, s, q) == [cmd |-> cmd, syscall |-> s, pid |-> q, count |-> 0, left |-> 0]
Idle == Frame("none", CUSTOM, ALL)

(* The places of my_syscall and of my_exit_group.                          *)
CommandPlaces == {"command", "save", "hijack", "restore", "unlock"}
ExitPlaces    == {"scan", "walk", "load", "store", "clear"}

TableType ==
  /\ sysTable \in [Syscalls \cup {CUSTOM} -> Functions]
  /\ f \in [Syscalls -> Functions] /\ intercepted \in [Syscalls -> BOOLEAN]
ListsType ==
  /\ monitored \in [Syscalls -> 0..2] /\ listcount \in [Syscalls -> Int]
  /\ entries \in [Syscalls -> [Pids -> Nat]]
ProcType ==
  /\ tableLock \in Procs \cup {FREE} /\ sysLock \in Procs \cup {FREE}
  /\ pc \in [Procs -> Places] /\ exits \in Nat
  /\ frame \in [Procs -> [cmd : Commands \cup {"none", "call"},
                          syscall : 0..(NSyscalls + 1), pid : Pids, count : Int, left : Nat]]
TypeOK == TableType /\ ListsType /\ ProcType

(* init_function has hijacked MY_CUSTOM_SYSCALL and exit_group.            *)
Original(s) == IF s = ExitGroup THEN "my_exit_group" ELSE "orig"

Init ==
  /\ sysTable = [s \in Syscalls \cup {CUSTOM} |->
                   IF s = CUSTOM THEN "my_syscall" ELSE Original(s)]
  /\ f = [s \in Syscalls |-> "NULL"]
  /\ intercepted = [s \in Syscalls |-> FALSE]
  /\ monitored = [s \in Syscalls |-> 0]
  /\ listcount = [s \in Syscalls |-> 0]
  /\ entries = [s \in Syscalls |-> [q \in Pids |-> 0]]
  /\ tableLock = FREE /\ sysLock = FREE
  /\ pc = [p \in Procs |-> "user"] /\ frame = [p \in Procs |-> Idle]
  /\ exits = 0

(***************************************************************************)
(* Operations on the lists of pids, under my_table_lock.                   *)
(***************************************************************************)
Listed(s, q) == entries[s][q] > 0      \* check_pid_monitored

AddPid(s, q) ==
  /\ entries' = [entries EXCEPT ![s][q] = @ + 1]
  /\ listcount' = [listcount EXCEPT ![s] = @ + 1]

(* Seeded bug: the last pid leaves the list and monitored stays 1.         *)
DelPidKeepMode(s, q) ==
  /\ entries' = [entries EXCEPT ![s][q] = @ - 1]
  /\ listcount' = [listcount EXCEPT ![s] = @ - 1]
  /\ UNCHANGED monitored

DelPid(s, q) ==
  /\ entries' = [entries EXCEPT ![s][q] = @ - 1]
  /\ listcount' = [listcount EXCEPT ![s] = @ - 1]
  /\ monitored' = [monitored EXCEPT ![s] = IF listcount[s] = 1 /\ @ = 1 THEN 0 ELSE @]

(* Seeded bug: listcount is not reset.                                     *)
DestroyListOnly(s, m) ==
  /\ entries' = [entries EXCEPT ![s] = [q \in Pids |-> 0]]
  /\ monitored' = [monitored EXCEPT ![s] = m]
  /\ UNCHANGED listcount

(* destroy_list, followed by the assignment of m to monitored              *)
DestroyList(s, m) ==
  /\ entries' = [entries EXCEPT ![s] = [q \in Pids |-> 0]]
  /\ listcount' = [listcount EXCEPT ![s] = 0]
  /\ monitored' = [monitored EXCEPT ![s] = m]

Goto(p, place) == pc' = [pc EXCEPT ![p] = place]
Return(p) == Goto(p, "user") /\ frame' = [frame EXCEPT ![p] = Idle]

(***************************************************************************)
(* my_syscall: the checks before the lock.  The pid must exist now; it is  *)
(* not looked at again once the lock is held.                              *)
(***************************************************************************)
Exists(q) == q \in {ALL} \cup {r \in Procs : pc[r] # "dead"}   \* check_valid_pid
MayManage(p, q) == Uid[p] = 0 \/ (q # ALL /\ Uid[p] = Uid[q])

Permitted(p, cmd, q) == IF cmd \in {"start", "stop"}
                          THEN Exists(q) /\ MayManage(p, q)
                          ELSE Uid[p] = 0 /\ q = ALL

Apart(p) == Overlap \/ \A r \in Procs \ {p} : pc[r] \notin ExitPlaces

Call(p, cmd, s, q) ==
  /\ pc[p] = "user" /\ sysTable[CUSTOM] = "my_syscall"
  /\ Permitted(p, cmd, q) /\ Apart(p)
  /\ Goto(p, "command")
  /\ frame' = [frame EXCEPT ![p] = Frame(cmd, s, q)]
  /\ UNCHANGED <<sysTable, f, intercepted, listVars, lockVars, exits>>

(* p gets my_table_lock to execute cmd.                                    *)
Enters(p, cmd) == pc[p] = "command" /\ frame[p].cmd = cmd /\ tableLock = FREE

(***************************************************************************)
(* REQUEST_SYSCALL_INTERCEPT and REQUEST_SYSCALL_RELEASE                   *)
(***************************************************************************)
InterceptBusy(p) ==
  /\ Enters(p, "intercept") /\ intercepted[frame[p].syscall]
  /\ Return(p)
  /\ UNCHANGED <<sysTable, f, intercepted, listVars, lockVars, exits>>

(* Seeded bug: a call that is intercepted already is intercepted again.    *)
InterceptMarkTwice(p) ==
  /\ Enters(p, "intercept")
  /\ intercepted' = [intercepted EXCEPT ![frame[p].syscall] = TRUE]
  /\ tableLock' = p
  /\ Goto(p, "save")
  /\ UNCHANGED <<sysTable, f, listVars, sysLock, frame, exits>>

InterceptMark(p) ==
  /\ Enters(p, "intercept") /\ ~intercepted[frame[p].syscall]
  /\ intercepted' = [intercepted EXCEPT ![frame[p].syscall] = TRUE]
  /\ tableLock' = p
  /\ Goto(p, "save")
  /\ UNCHANGED <<sysTable, f, listVars, sysLock, frame, exits>>

(* Seeded bug: my_table_lock is not released.                              *)
InterceptSaveHold(p) ==
  /\ pc[p] = "save" /\ sysLock = FREE
  /\ f' = [f EXCEPT ![frame[p].syscall] = sysTable[frame[p].syscall]]
  /\ sysLock' = p
  /\ Goto(p, "hijack")
  /\ UNCHANGED <<sysTable, intercepted, listVars, tableLock, frame, exits>>

(* Takes sys_call_table_lock, saves the entry, releases my_table_lock.     *)
InterceptSave(p) ==
  /\ pc[p] = "save" /\ sysLock = FREE
  /\ f' = [f EXCEPT ![frame[p].syscall] = sysTable[frame[p].syscall]]
  /\ sysLock' = p /\ tableLock' = FREE
  /\ Goto(p, "hijack")
  /\ UNCHANGED <<sysTable, intercepted, listVars, frame, exits>>

InterceptHijack(p) ==
  /\ pc[p] = "hijack"
  /\ sysTable' = [sysTable EXCEPT ![frame[p].syscall] = "interceptor"]
  /\ sysLock' = FREE
  /\ Return(p)
  /\ UNCHANGED <<f, intercepted, listVars, tableLock, exits>>

ReleaseRefused(p) ==
  /\ Enters(p, "release") /\ ~intercepted[frame[p].syscall]
  /\ Return(p)
  /\ UNCHANGED <<sysTable, f, intercepted, listVars, lockVars, exits>>

(* Seeded bugs: intercepted is not reset; the list is kept.                *)
ReleaseMarkStill(p) ==
  /\ Enters(p, "release") /\ intercepted[frame[p].syscall]
  /\ DestroyList(frame[p].syscall, 0)
  /\ tableLock' = p
  /\ Goto(p, "restore")
  /\ UNCHANGED <<sysTable, f, intercepted, sysLock, frame, exits>>
ReleaseMarkKeep(p) ==
  /\ Enters(p, "release") /\ intercepted[frame[p].syscall]
  /\ intercepted' = [intercepted EXCEPT ![frame[p].syscall] = FALSE]
  /\ tableLock' = p
  /\ Goto(p, "restore")
  /\ UNCHANGED <<sysTable, f, listVars, sysLock, frame, exits>>

ReleaseMark(p) ==
  /\ Enters(p, "release") /\ intercepted[frame[p].syscall]
  /\ intercepted' = [intercepted EXCEPT ![frame[p].syscall] = FALSE]
  /\ DestroyList(frame[p].syscall, 0)
  /\ tableLock' = p
  /\ Goto(p, "restore")
  /\ UNCHANGED <<sysTable, f, sysLock, frame, exits>>

(* Takes sys_call_table_lock, restores the entry, releases my_table_lock.  *)
ReleaseRestore(p) ==
  /\ pc[p] = "restore" /\ sysLock = FREE
  /\ sysTable' = [sysTable EXCEPT ![frame[p].syscall] = f[frame[p].syscall]]
  /\ sysLock' = p /\ tableLock' = FREE
  /\ Goto(p, "unlock")
  /\ UNCHANGED <<f, intercepted, listVars, frame, exits>>

ReleaseUnlock(p) ==
  /\ pc[p] = "unlock"
  /\ sysLock' = FREE
  /\ Return(p)
  /\ UNCHANGED <<sysTable, f, intercepted, listVars, tableLock, exits>>

(***************************************************************************)
(* REQUEST_START_MONITORING.  With monitored = 2 the list holds the pids   *)
(* that are not monitored.                                                 *)
(***************************************************************************)
monitorRest == <<sysTable, f, intercepted, lockVars, exits>>

(* -EINVAL, -EBUSY, or -ENOMEM when an entry cannot be allocated           *)
StartRefused(p) ==
  LET s == frame[p].syscall  q == frame[p].pid IN
  /\ Enters(p, "start")
  /\ \/ ~intercepted[s]
     \/ monitored[s] = 2 /\ ~Listed(s, q)
     \/ monitored[s] = 1 /\ Listed(s, q)
     \/ monitored[s] # 2 /\ q # ALL
  /\ Return(p)
  /\ UNCHANGED <<monitorRest, listVars>>

StartUnlist(p) ==
  LET s == frame[p].syscall  q == frame[p].pid IN
  /\ Enters(p, "start") /\ intercepted[s]
  /\ monitored[s] = 2 /\ Listed(s, q)
  /\ DelPid(s, q)
  /\ Return(p)
  /\ UNCHANGED monitorRest

(* Seeded bug: the monitored pids stay in the list and become the          *)
(* exceptions.                                                             *)
StartAllKeep(p) ==
  LET s == frame[p].syscall IN
  /\ Enters(p, "start") /\ intercepted[s] /\ frame[p].pid = ALL
  /\ monitored[s] # 2
  /\ monitored' = [monitored EXCEPT ![s] = 2]
  /\ Return(p)
  /\ UNCHANGED <<monitorRest, entries, listcount>>

(* The list is destroyed only if monitored was 1.                          *)
StartAll(p) ==
  LET s == frame[p].syscall IN
  /\ Enters(p, "start") /\ intercepted[s] /\ frame[p].pid = ALL
  /\ \/ monitored[s] = 1 /\ ~Listed(s, ALL) /\ DestroyList(s, 2)
     \/ /\ monitored[s] = 0
        /\ monitored' = [monitored EXCEPT ![s] = 2]
        /\ UNCHANGED <<entries, listcount>>
  /\ Return(p)
  /\ UNCHANGED monitorRest

(* With monitored = 0 the list is not searched for the pid.                *)
StartOne(p) ==
  LET s == frame[p].syscall  q == frame[p].pid IN
  /\ Enters(p, "start") /\ intercepted[s] /\ q # ALL
  /\ monitored[s] = 0 \/ (monitored[s] = 1 /\ ~Listed(s, q))
  /\ AddPid(s, q)
  /\ monitored' = [monitored EXCEPT ![s] = 1]
  /\ Return(p)
  /\ UNCHANGED monitorRest

(***************************************************************************)
(* REQUEST_STOP_MONITORING                                                 *)
(***************************************************************************)
StopRefused(p) ==
  LET s == frame[p].syscall  q == frame[p].pid IN
  /\ Enters(p, "stop")
  /\ \/ monitored[s] = 0
     \/ monitored[s] = 1 /\ ~Listed(s, q)
     \/ monitored[s] = 2 /\ q # ALL
  /\ Return(p)
  /\ UNCHANGED <<monitorRest, listVars>>

StopOne(p) ==
  LET s == frame[p].syscall  q == frame[p].pid IN
  /\ Enters(p, "stop") /\ monitored[s] = 1 /\ Listed(s, q)
  /\ DelPid(s, q)
  /\ Return(p)
  /\ UNCHANGED monitorRest

StopAll(p) ==
  /\ Enters(p, "stop") /\ monitored[frame[p].syscall] = 2 /\ frame[p].pid = ALL
  /\ DestroyList(frame[p].syscall, 0)
  /\ Return(p)
  /\ UNCHANGED monitorRest

StopExcept(p) ==
  LET s == frame[p].syscall  q == frame[p].pid IN
  /\ Enters(p, "stop") /\ monitored[s] = 2 /\ q # ALL /\ ~Listed(s, q)
  /\ AddPid(s, q)
  /\ Return(p)
  /\ UNCHANGED <<monitorRest, monitored>>

(***************************************************************************)
(* A process issues system call s, and the kernel calls function g.        *)
(***************************************************************************)
Runs(g, s) ==
  CASE g = "my_exit_group" -> "scan"
    [] g = "interceptor"   -> "interceptor"
    [] g = "orig"          -> IF s = ExitGroup THEN "dead" ELSE "user"
    [] OTHER               -> "crashed"

(* Seeded bug: del_pid starts at the second list.                          *)
RunsOnSecond(g, s) == IF g = "interceptor" THEN Frame("call", s, ALL)
                      ELSE IF g = "my_exit_group" THEN Frame("none", 2, ALL)
                      ELSE Idle

(* Argument or loop counter that g starts with; del_pid starts at 1.       *)
RunsOn(g, s) == IF g = "interceptor" THEN Frame("call", s, ALL)
                ELSE IF g = "my_exit_group" THEN Frame("none", 1, ALL)
                ELSE Idle

Quiet(p) ==
  \/ Overlap
  \/ /\ sysLock # RMMOD
     /\ \A r \in Procs \ {p} : pc[r] \notin CommandPlaces \cup ExitPlaces

Syscall(p, s) ==
  /\ pc[p] = "user"
  /\ s = ExitGroup => exits < MaxExits /\ Quiet(p)
  /\ exits' = IF s = ExitGroup THEN exits + 1 ELSE exits
  /\ Goto(p, Runs(sysTable[s], s))
  /\ frame' = [frame EXCEPT ![p] = RunsOn(sysTable[s], s)]
  /\ UNCHANGED <<sysTable, f, intercepted, listVars, lockVars>>

(* interceptor: the decision to log, under my_table_lock.                  *)
Logs(p, s) == monitored[s] = 2 \/ (monitored[s] = 1 /\ Listed(s, p))

InterceptorCheck(p) ==
  /\ pc[p] = "interceptor" /\ tableLock = FREE
  /\ Goto(p, IF Logs(p, frame[p].syscall) THEN "logged" ELSE "silent")
  /\ UNCHANGED <<sysTable, f, intercepted, listVars, lockVars, frame, exits>>

(* table[syscall].f is read after the lock is released.                    *)
InterceptorCall(p) ==
  LET g == f[frame[p].syscall] IN
  /\ pc[p] \in {"logged", "silent"}
  /\ g = "my_exit_group" => Quiet(p)
  /\ Goto(p, Runs(g, frame[p].syscall))
  /\ frame' = [frame EXCEPT ![p] = RunsOn(g, frame[p].syscall)]
  /\ UNCHANGED <<sysTable, f, intercepted, listVars, lockVars, exits>>

(***************************************************************************)
(* my_exit_group: del_pid(current->pid) without a lock, list by list, then *)
(* the original exit_group.                                                *)
(***************************************************************************)
exitRest == <<sysTable, f, intercepted, lockVars, exits>>

(* One pass over a list meets the entries that are in it when the pass     *)
(* starts: list_add puts later ones before the point the pass is at.       *)
ExitScan(p) ==
  /\ pc[p] = "scan" /\ frame[p].syscall \in Syscalls
  /\ frame' = [frame EXCEPT ![p].left = entries[frame[p].syscall][p]]
  /\ Goto(p, "walk")
  /\ UNCHANGED <<exitRest, listVars>>

ExitUnlink(p) ==
  LET s == frame[p].syscall IN
  /\ pc[p] = "walk" /\ frame[p].left > 0 /\ Listed(s, p)
  /\ entries' = [entries EXCEPT ![s][p] = @ - 1]
  /\ frame' = [frame EXCEPT ![p].left = @ - 1]
  /\ Goto(p, "load")
  /\ UNCHANGED <<exitRest, monitored, listcount>>

(* listcount-- is a load and a store.                                      *)
ExitLoad(p) ==
  /\ pc[p] = "load"
  /\ frame' = [frame EXCEPT ![p].count = listcount[frame[p].syscall]]
  /\ Goto(p, "store")
  /\ UNCHANGED <<exitRest, listVars>>

ExitStore(p) ==
  LET s == frame[p].syscall  n == frame[p].count - 1 IN
  /\ pc[p] = "store"
  /\ listcount' = [listcount EXCEPT ![s] = n]
  /\ Goto(p, IF n = 0 /\ monitored[s] = 1 THEN "clear" ELSE "walk")
  /\ UNCHANGED <<exitRest, monitored, entries, frame>>

ExitClear(p) ==
  /\ pc[p] = "clear"
  /\ monitored' = [monitored EXCEPT ![frame[p].syscall] = 0]
  /\ Goto(p, "walk")
  /\ UNCHANGED <<exitRest, listcount, entries, frame>>

ExitNextList(p) ==
  /\ pc[p] = "walk" /\ (frame[p].left = 0 \/ ~Listed(frame[p].syscall, p))
  /\ frame' = [frame EXCEPT ![p] = Frame("none", frame[p].syscall + 1, ALL)]
  /\ Goto(p, "scan")
  /\ UNCHANGED <<exitRest, listVars>>

ExitProcess(p) ==
  /\ pc[p] = "scan" /\ frame[p].syscall = NSyscalls + 1
  /\ Goto(p, "dead")
  /\ frame' = [frame EXCEPT ![p] = Idle]
  /\ UNCHANGED <<exitRest, listVars>>

(* The kernel gives the pid to a new process of the same owner.            *)
Spawn(p) ==
  /\ pc[p] = "dead"
  /\ Goto(p, "user")
  /\ UNCHANGED <<exitRest, listVars, frame>>

Requests(p) ==
  \/ \E cmd \in Commands, s \in Syscalls, q \in Pids : Call(p, cmd, s, q)
  \/ \E s \in Syscalls : Syscall(p, s)
  \/ Spawn(p)

Locked(p) ==
  \/ InterceptBusy(p) \/ InterceptMark(p) \/ InterceptSave(p)
  \/ ReleaseRefused(p) \/ ReleaseMark(p) \/ ReleaseRestore(p)
  \/ StartRefused(p) \/ StartUnlist(p) \/ StartAll(p) \/ StartOne(p)
  \/ StopRefused(p) \/ StopOne(p) \/ StopAll(p) \/ StopExcept(p)
  \/ InterceptorCheck(p)

Unlocked(p) ==
  \/ InterceptHijack(p) \/ ReleaseUnlock(p) \/ InterceptorCall(p)
  \/ ExitScan(p) \/ ExitUnlink(p) \/ ExitLoad(p) \/ ExitStore(p) \/ ExitClear(p)
  \/ ExitNextList(p) \/ ExitProcess(p)

Next == \E p \in Procs : Requests(p) \/ Locked(p) \/ Unlocked(p)

Spec == Init /\ [][Next]_vars

(* A process on a CPU makes steps; spin_lock is a ticket lock, so a        *)
(* process that finds the lock free again and again gets it.               *)
Fairness == \A p \in Procs : SF_vars(Locked(p)) /\ WF_vars(Unlocked(p))
FairSpec == Spec /\ Fairness
=============================================================================
