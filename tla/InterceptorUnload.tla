------------------------- MODULE InterceptorUnload -------------------------
(***************************************************************************)
(* The interceptor of A1 and its removal: exit_function holds              *)
(* sys_call_table_lock from beginning to end, but deinterceptor reads and  *)
(* changes table[] without my_table_lock, entry by entry.                  *)
(***************************************************************************)
EXTENDS InterceptorInv, FiniteSets

VARIABLES
  module,   \* "loaded", "exiting", "unloaded"
  i         \* loop counter of deinterceptor

unloadVars == <<module, i>>
allVars == <<vars, unloadVars>>

UnloadType == module \in {"loaded", "exiting", "unloaded"} /\ i \in 1..(NSyscalls + 1)

UInit == Init /\ module = "loaded" /\ i = 1

(* rmmod.  Takes the lock, restores MY_CUSTOM_SYSCALL and exit_group.      *)
UnloadBegin ==
  /\ module = "loaded" /\ sysLock = FREE
  /\ Overlap \/ \A p \in Procs : pc[p] \notin CommandPlaces \cup ExitPlaces
  /\ module' = "exiting"
  /\ sysTable' = [sysTable EXCEPT ![CUSTOM] = "orig", ![ExitGroup] = "orig"]
  /\ sysLock' = RMMOD
  /\ UNCHANGED <<f, intercepted, listVars, tableLock, pc, frame, exits, i>>

Deintercept ==
  /\ module = "exiting" /\ i \in Syscalls
  /\ i' = i + 1
  /\ IF intercepted[i]
       THEN /\ sysTable' = [sysTable EXCEPT ![i] = f[i]]
            /\ IF monitored[i] > 0 THEN DestroyList(i, 0) ELSE UNCHANGED listVars
       ELSE UNCHANGED <<sysTable, listVars>>
  /\ UNCHANGED <<f, intercepted, lockVars, pc, frame, exits, module>>

(* Seeded bug: deinterceptor stops before the last entry.                  *)
UnloadEndEarly ==
  /\ module = "exiting" /\ i = NSyscalls
  /\ module' = "unloaded"
  /\ sysLock' = FREE
  /\ UNCHANGED <<sysTable, f, intercepted, listVars, tableLock, pc, frame, exits, i>>

UnloadEnd ==
  /\ module = "exiting" /\ i = NSyscalls + 1
  /\ module' = "unloaded"
  /\ sysLock' = FREE
  /\ UNCHANGED <<sysTable, f, intercepted, listVars, tableLock, pc, frame, exits, i>>

UNext ==
  \/ module # "unloaded" /\ Next /\ UNCHANGED unloadVars
  \/ UnloadBegin \/ Deintercept \/ UnloadEnd

USpec == UInit /\ [][UNext]_allVars

(***************************************************************************)
(* Properties.  The first four need my_exit_group not to overlap with      *)
(* other code of the module, nor rmmod with a command (Overlap = FALSE).   *)
(***************************************************************************)
ListOf(s) == {q \in Pids : Listed(s, q)}
Exiting(s, places) == {p \in Procs : pc[p] \in places /\ frame[p].syscall = s}

(* listcount is the length of the list, but for an entry that an exiting   *)
(* process has unlinked and not yet counted.                               *)
CountsMatch ==
  \A s \in Syscalls :
    listcount[s] = Cardinality(ListOf(s)) + Cardinality(Exiting(s, {"load", "store"}))

(* monitored = 1 exactly if there are pids in the list, monitored = 0 only *)
(* if there are none, and no list ever holds pid 0 or a pid twice, which   *)
(* would make the start and stop commands answer wrongly later.            *)
ModeMatches ==
  \A s \in Syscalls :
    /\ \A q \in Pids : entries[s][q] <= (IF q = ALL THEN 0 ELSE 1)
    /\ monitored[s] = 0 => \A q \in Pids : ~Listed(s, q)
    /\ monitored[s] = 1 => \/ \E q \in Pids : Listed(s, q)
                          \/ Exiting(s, {"load", "store", "clear"}) # {}

(* The pid of a process that has exited is in no list, also if exit_group  *)
(* is intercepted itself: the next owner of the pid starts afresh.         *)
NoStalePid ==
  module = "loaded" =>
    \A p \in Procs : pc[p] = "dead" => \A s \in Syscalls : ~Listed(s, p)

(* After rmmod every call but exit_group is the kernel's own, and nothing  *)
(* is left in any list.                                                    *)
UnloadRestores ==
  module = "unloaded" =>
    /\ \A s \in Syscalls \ {ExitGroup} : sysTable[s] = "orig"
    /\ sysTable[CUSTOM] = "orig"
    /\ \A s \in Syscalls, q \in Pids : ~Listed(s, q)

(* exit_function: "Restore __NR_exit_group to its original syscall"        *)
ExitGroupRestored == module = "unloaded" => sysTable[ExitGroup] = "orig"

(* deinterceptor: "de-intercepts (resets to original state) all system     *)
(* calls", also when rmmod comes between the two halves of an intercept,   *)
(* or of a release, that waits for sys_call_table_lock.                    *)
CallsReset == module = "unloaded" => \A s \in Syscalls \ {ExitGroup} : sysTable[s] = "orig"

(* The metadata implement the monitoring that Monitoring describes: with   *)
(* monitored = 2 the list is the complement of what is monitored.          *)
Watched(s) == CASE monitored[s] = 0 -> {}
                [] monitored[s] = 1 -> {p \in Procs : Listed(s, p)}
                [] monitored[s] = 2 -> {p \in Procs : ~Listed(s, p)}
Promise == INSTANCE Monitoring WITH
  on <- intercepted,
  watched <- [s \in Syscalls |-> Watched(s)],
  all <- [s \in Syscalls |-> monitored[s] = 2]
ImplementsMonitoring == Promise!Spec

(* INFO.txt: the list of the blacklist case holds the "pids not being      *)
(* monitored"; the interceptor logs exactly the monitored processes.       *)
LogsWatched ==
  \A s \in Syscalls : \A p \in Procs : Logs(p, s) <=> p \in Watched(s)

(***************************************************************************)
(* The inductive invariant behind ModeMatches, NoStalePid, UnloadRestores  *)
(* and ImplementsMonitoring, without overlap.                              *)
(***************************************************************************)
NotInside(p) == pc[p] \notin CommandPlaces \cup ExitPlaces
Pending(s) == \E p \in Procs : pc[p] \in {"load", "store"} /\ frame[p].syscall = s

(* CountsMatch, said without counting the processes that exit.             *)
SizeInv ==
  \A s \in Syscalls :
    /\ IsFiniteSet(ListOf(s))
    /\ listcount[s] = Cardinality(ListOf(s)) + (IF Pending(s) THEN 1 ELSE 0)

(* While a process exits it is alone; it has left the lists before the one *)
(* it is at, and what it has read is still so.                             *)
ExitInv ==
  \A p \in Procs :
    LET s == frame[p].syscall IN
    /\ pc[p] \in ExitPlaces =>
         /\ \A r \in Procs \ {p} : NotInside(r)
         /\ \A t \in Syscalls : t < s => ~Listed(t, p)
    /\ pc[p] \in ExitPlaces \ {"scan"} => frame[p].left = entries[s][p]
    /\ pc[p] = "store" => frame[p].count = listcount[s]
    /\ pc[p] = "clear" => listcount[s] = 0 /\ monitored[s] = 1

(* The pid of a command has not exited since it was looked up.             *)
PidInv ==
  \A p \in Procs :
    pc[p] = "command" /\ frame[p].cmd \in {"start", "stop"} =>
      frame[p].pid = ALL \/ pc[frame[p].pid] # "dead"

LoadedInv == IInv /\ ExitInv /\ PidInv /\ i = 1

(* What rmmod has done up to entry i.                                      *)
RemovedInv ==
  /\ module \in {"exiting", "unloaded"}
  /\ module = "exiting" => sysLock = RMMOD
  /\ module = "unloaded" => i = NSyscalls + 1
  /\ i \in 1..(NSyscalls + 1)
  /\ TableType /\ ListsType /\ pc \in [Procs -> Places]
  /\ \A p \in Procs : NotInside(p)
  /\ sysTable[CUSTOM] = "orig"
  /\ \A s \in Syscalls :
       /\ intercepted[s] => f[s] = Original(s)
       /\ s # ExitGroup => \/ sysTable[s] = "orig"
                           \/ sysTable[s] = "interceptor" /\ s >= i /\ intercepted[s]
       /\ s < i \/ ~intercepted[s] => ListOf(s) = {}

UInv ==
  /\ SizeInv /\ ModeMatches /\ NoStalePid
  /\ IF module = "loaded" THEN LoadedInv ELSE RemovedInv
=============================================================================
