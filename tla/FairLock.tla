------------------------------ MODULE FairLock ------------------------------
(***************************************************************************)
(* What the FastMutexes promise to the threads that lock them: for each    *)
(* lock one thread holds it, the others stand in line, and it passes to    *)
(* the one that has waited longest.                                        *)
(***************************************************************************)
EXTENDS Integers, Sequences

CONSTANTS Threads, Locks

VARIABLE lines   \* for each lock its holder, then those who wait

InLine(l, t) == \E i \in DOMAIN lines[l] : lines[l][i] = t

Init == lines = [l \in Locks |-> <<>>]

Enter(l, t) ==
    /\ ~InLine(l, t)
    /\ lines' = [lines EXCEPT ![l] = Append(lines[l], t)]

Leave(l) ==
    /\ lines[l] # <<>>
    /\ lines' = [lines EXCEPT ![l] = Tail(lines[l])]

Next == \E l \in Locks : Leave(l) \/ \E t \in Threads : Enter(l, t)

Spec == Init /\ [][Next]_lines

=============================================================================
