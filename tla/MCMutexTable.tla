---------------------------- MODULE MCMutexTable ----------------------------
(* The creator and two users, who may be late with their handles.          *)
EXTENDS MutexTable

CONSTANTS c, u, w
Users == {c, u, w}
=============================================================================
