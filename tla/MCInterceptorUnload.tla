------------------------ MODULE MCInterceptorUnload ------------------------
(* Small instances of the interceptor and its removal for TLC.             *)
EXTENDS MCInterceptor, InterceptorUnload
=============================================================================
