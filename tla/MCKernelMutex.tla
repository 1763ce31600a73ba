--------------------------- MODULE MCKernelMutex ---------------------------
(***************************************************************************)
(* Small instances of KernelMutex.                                         *)
(***************************************************************************)
EXTENDS KernelMutex, TLC

CONSTANTS a, b, t1, t2, t3, t4

\* a may be held while locking b; a recursive mutex may be locked again.
Ordered == {<<a, b>>} \cup {<<m, m>> : m \in Recursive}
Flat    == {}
Free    == Mutexes \X Mutexes

TwoLevels   == 0..1
ThreeLevels == 0..2

SymmetricBut1 == Permutations(Threads \ {t1})

=============================================================================
