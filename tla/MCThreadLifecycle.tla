------------------------- MODULE MCThreadLifecycle -------------------------
(***************************************************************************)
(* Small instances of ThreadLifecycle.                                     *)
(***************************************************************************)
EXTENDS ThreadLifecycle, TLC

CONSTANTS main, t1, t2, t3, null

\* What joins returned and which addresses were used influence nothing when
\* addresses are used again.
WithoutHistory == <<occupant, created, claimed, deleted, detached, joinWait, joinData,
                    existDeleted, pc, target>>

Interchangeable == Permutations({t1, t2, t3})

=============================================================================
