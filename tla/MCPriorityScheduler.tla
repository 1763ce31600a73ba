------------------------ MODULE MCPriorityScheduler ------------------------
(***************************************************************************)
(* Small instances of PriorityScheduler.                                   *)
(***************************************************************************)
EXTENDS PriorityScheduler

CONSTANTS idle, main, t1, t2

=============================================================================
