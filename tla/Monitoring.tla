----------------------------- MODULE Monitoring -----------------------------
(***************************************************************************)
(* What the interceptor of A1 promises its users: for every system call,   *)
(* whether it is intercepted, which pids are monitored, and whether pids   *)
(* that come later will be ("all" was requested).                          *)
(***************************************************************************)
EXTENDS Integers

CONSTANTS Procs, Syscalls

VARIABLES on, watched, all

vars == <<on, watched, all>>

Init ==
  /\ on = [s \in Syscalls |-> FALSE]
  /\ watched = [s \in Syscalls |-> {}]
  /\ all = [s \in Syscalls |-> FALSE]

Watch(s, set, a) ==
  /\ watched' = [watched EXCEPT ![s] = set]
  /\ all' = [all EXCEPT ![s] = a]

Intercept(s) ==
  /\ ~on[s]
  /\ on' = [on EXCEPT ![s] = TRUE]
  /\ UNCHANGED <<watched, all>>

Release(s) ==
  /\ on[s]
  /\ on' = [on EXCEPT ![s] = FALSE]
  /\ Watch(s, {}, FALSE)

(* -EBUSY if the pid, or all pids, are monitored already.                  *)
Start(s, p) ==
  /\ on[s] /\ p \notin watched[s]
  /\ Watch(s, watched[s] \cup {p}, all[s])
  /\ UNCHANGED on

StartAll(s) ==
  /\ on[s] /\ ~all[s]
  /\ Watch(s, Procs, TRUE)
  /\ UNCHANGED on

(* -EINVAL if the pid is not monitored.                                    *)
Stop(s, p) ==
  /\ p \in watched[s]
  /\ Watch(s, watched[s] \ {p}, all[s])
  /\ UNCHANGED on

StopAll(s) ==
  /\ all[s]
  /\ Watch(s, {}, FALSE)
  /\ UNCHANGED on

(* Process p exits: the pid is again like one that never existed.          *)
Forget(s, p) ==
  /\ Watch(s, IF all[s] THEN watched[s] \cup {p} ELSE watched[s] \ {p}, all[s])
  /\ UNCHANGED on

(* The module is unloaded.                                                 *)
Unload(s) ==
  /\ on[s]
  /\ Watch(s, {}, FALSE)
  /\ UNCHANGED on

Next ==
  \E s \in Syscalls :
    \/ Intercept(s) \/ Release(s) \/ StartAll(s) \/ StopAll(s) \/ Unload(s)
    \/ \E p \in Procs : Start(s, p) \/ Stop(s, p) \/ Forget(s, p)

Spec == Init /\ [][Next]_vars
=============================================================================
