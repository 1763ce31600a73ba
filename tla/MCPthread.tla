----------------------------- MODULE MCPthread -----------------------------
(***************************************************************************)
(* Small instances of Pthread.                                             *)
(***************************************************************************)
EXTENDS Pthread

CONSTANTS t1, t2, t3, a, b

=============================================================================
