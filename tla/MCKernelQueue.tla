--------------------------- MODULE MCKernelQueue ---------------------------
(***************************************************************************)
(* Small instances of KernelQueue.                                         *)
(***************************************************************************)
EXTENDS KernelQueue, TLC

CONSTANTS c, p, v1, v2, v3

=============================================================================
