-------------------------- MODULE InterceptorInv --------------------------
(***************************************************************************)
(* What the interceptor of A1 keeps true, whatever overlaps, and the       *)
(* inductive invariant behind it.                                          *)
(***************************************************************************)
EXTENDS Interceptor

At(p, place, s) == pc[p] = place /\ frame[p].syscall = s

(* table[s].f is never the interceptor itself, and a process inside the    *)
(* interceptor, which reads f without the lock, finds the original call    *)
(* there: it neither calls itself for ever nor jumps to NULL, even when    *)
(* the call is released and intercepted again meanwhile.                   *)
OriginalKept ==
  /\ \A s \in Syscalls : f[s] \in {"NULL", Original(s)}
  /\ \A p \in Procs : pc[p] \in {"interceptor", "logged", "silent"} =>
                        f[frame[p].syscall] = Original(frame[p].syscall)

(* When no intercept or release of s is under way, the entry of s in       *)
(* sys_call_table is hijacked exactly if the metadata says so, although    *)
(* the two are changed under two locks that are handed over.               *)
HookMatches ==
  \A s \in Syscalls :
    (\A p \in Procs : \A place \in {"save", "hijack", "restore"} : ~At(p, place, s))
      => sysTable[s] = IF intercepted[s] THEN "interceptor" ELSE Original(s)

(* A call that is not intercepted has no monitored pids, so a later        *)
(* intercept starts from a clean list, even if processes exit meanwhile.   *)
OnlyInterceptedMonitored ==
  \A s \in Syscalls : ~intercepted[s] =>
    monitored[s] = 0 /\ \A q \in Pids : entries[s][q] = 0

(* Who holds which lock.                                                   *)
LockInv ==
  \A p \in Procs :
    /\ (tableLock = p) <=> pc[p] \in {"save", "restore"}
    /\ (sysLock = p) <=> pc[p] \in {"hijack", "unlock"}

FrameInv ==
  \A p \in Procs :
    /\ pc[p] \in CommandPlaces \cup {"interceptor", "logged", "silent",
                   "walk", "load", "store", "clear"} => frame[p].syscall \in Syscalls
    /\ pc[p] = "scan" => frame[p].syscall \in 1..(NSyscalls + 1)

(* The entry of s along an intercept and a release.                        *)
EntryInv ==
  \A s \in Syscalls :
    /\ sysTable[s] \in {Original(s), "interceptor"}
    /\ sysTable[s] = "interceptor" => f[s] = Original(s)
    /\ \A p \in Procs :
         /\ At(p, "save", s) => intercepted[s] /\ sysTable[s] = Original(s)
         /\ At(p, "hijack", s) =>
              /\ f[s] = Original(s) /\ sysTable[s] = Original(s)
              /\ intercepted[s] \/ \E r \in Procs : At(r, "restore", s)
         /\ At(p, "restore", s) => ~intercepted[s] /\ f[s] = Original(s)

(* While one process works on s, who else may.                             *)
TurnInv ==
  \A p, r \in Procs : \A s \in Syscalls :
    At(p, "save", s) => ~At(r, "hijack", s)

IInv == TypeOK /\ LockInv /\ FrameInv /\ EntryInv /\ TurnInv /\ OriginalKept
        /\ HookMatches /\ OnlyInterceptedMonitored

(***************************************************************************)
(* Why every process leaves the module again, but for the fairness it      *)
(* needs: of those inside there is always one that can go on, and an exit, *)
(* which takes no lock, comes to an end.                                   *)
(***************************************************************************)
(* p spins on a lock that another process holds.                           *)
Spins(p) ==
  \/ pc[p] \in {"command", "interceptor"} /\ tableLock # FREE
  \/ pc[p] \in {"save", "restore"} /\ sysLock # FREE

(* While a process spins, a holder of a lock does not, although intercept  *)
(* and release take sys_call_table_lock inside my_table_lock               *)
(* (interceptor.c:463, 499): nobody spins on everybody.                    *)
NoSpinDeadlock ==
  \A p \in Procs : Spins(p) =>
    \E r \in Procs : r \in {tableLock, sysLock} /\ ~Spins(r)

(* A step of an exiting process brings it closer to its end: to a later    *)
(* list, from its head into the list, to fewer entries that are left, or   *)
(* from one access of listcount-- to the next.                             *)
Closer(p) ==
  \/ frame'[p].syscall > frame[p].syscall
  \/ /\ frame'[p].syscall = frame[p].syscall /\ pc'[p] # "scan"
     /\ \/ pc[p] = "scan"
        \/ frame'[p].left < frame[p].left
        \/ /\ frame'[p].left = frame[p].left
           /\ <<pc[p], pc'[p]>> \in {<<"load", "store">>, <<"store", "clear">>,
                                    <<"store", "walk">>, <<"clear", "walk">>}

(* Whatever commands and other exits do to the lists that my_exit_group    *)
(* walks without the lock (interceptor.c:265), it never goes back.         *)
ExitsAdvance ==
  [][\A p \in Procs : pc[p] \in ExitPlaces =>
       \/ UNCHANGED <<pc[p], frame[p]>>
       \/ pc'[p] = "dead"
       \/ frame'[p].syscall <= NSyscalls + 1 /\ Closer(p)]_vars

(* Every process that enters the module leaves it again: nobody spins for  *)
(* ever on one of the two locks, and no exit is held up for ever by the    *)
(* commands that change the lists it walks.                                *)
CallsReturn ==
  \A p \in Procs : pc[p] \notin {"user", "dead"} ~> pc[p] \in {"user", "dead"}

(* my_exit_group ends the monitoring of a call only "if there are no more  *)
(* pids in sysc's list of pids".                                           *)
StopsWhenEmpty ==
  [][\A s \in Syscalls : monitored[s] = 1 /\ monitored'[s] = 0 =>
       \A q \in Pids : entries'[s][q] = 0]_vars
=============================================================================
