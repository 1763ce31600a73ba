---------------------------- MODULE BoundedFifo ----------------------------
(***************************************************************************)
(* What a bounded queue promises to the code that uses it: elements leave  *)
(* in the order they entered, none is lost, duplicated or altered, and at  *)
(* most Capacity are held.  It abstracts the queues of miosix/kernel/      *)
(* queue.h and of include/containers.                                      *)
(***************************************************************************)
EXTENDS Integers, Sequences

CONSTANTS Capacity, Values

VARIABLES
    queue,   \* elements held, oldest first
    got      \* the element the last successful get delivered

Init == queue = <<>> /\ got \notin Values

Put(v) ==
    /\ Len(queue) < Capacity
    /\ queue' = Append(queue, v)
    /\ UNCHANGED got

Get ==
    /\ queue # <<>>
    /\ got' = Head(queue)
    /\ queue' = Tail(queue)

Reset ==
    /\ queue' = <<>>
    /\ UNCHANGED got

Next == (\E v \in Values : Put(v)) \/ Get \/ Reset

Spec == Init /\ [][Next]_<<queue, got>>

=============================================================================
