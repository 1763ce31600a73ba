---------------------------- MODULE TailDropFifo ----------------------------
(***************************************************************************)
(* What the receiving half of a serial port promises to its reader: bytes  *)
(* are read in the order they arrived, none is duplicated, altered or      *)
(* invented, and of those once taken in only the newest are lost, where    *)
(* more than Capacity wait to be read.                                     *)
(***************************************************************************)
EXTENDS Integers, Sequences

CONSTANTS Capacity, Values

VARIABLES
    queue,   \* taken in and not yet read, oldest first
    got      \* read last

Init == queue = <<>> /\ got \notin Values

Put(v) == queue' = Append(queue, v) /\ UNCHANGED got

Get ==
    /\ queue # <<>>
    /\ got' = Head(queue)
    /\ queue' = Tail(queue)

Overflow ==
    /\ Len(queue) > Capacity
    /\ queue' = SubSeq(queue, 1, Capacity)
    /\ UNCHANGED got

Next == (\E v \in Values : Put(v)) \/ Get \/ Overflow

Spec == Init /\ [][Next]_<<queue, got>>

=============================================================================
