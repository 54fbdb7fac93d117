--------------------------- MODULE MCInterceptor ---------------------------
(* Small instances of the interceptor for TLC.                             *)
EXTENDS InterceptorInv

(* Process 1 belongs to root, the others to one user.                      *)
RootAndUser == [p \in Procs |-> IF p = 1 THEN 0 ELSE 7]
=============================================================================
