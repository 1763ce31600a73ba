----------------------------- MODULE LossyFifo -----------------------------
(***************************************************************************)
(* What a queue that overwrites promises: elements leave in the order they *)
(* entered, none is duplicated or altered, the newest is always kept, and  *)
(* only the oldest is lost, when there is no room.                         *)
(***************************************************************************)
EXTENDS Integers, Sequences

CONSTANTS Capacity, Values

VARIABLES
    queue,   \* elements held, oldest first
    got      \* the element taken, while its taker uses it

Init == queue = <<>> /\ got \notin Values

Kept == IF Len(queue) = Capacity THEN Tail(queue) ELSE queue

Put(v) == queue' = Append(Kept, v) /\ UNCHANGED got

Get ==
    /\ queue # <<>>
    /\ got' = Head(queue)
    /\ queue' = Tail(queue)

Release == got' \notin Values /\ UNCHANGED queue

Next == (\E v \in Values : Put(v)) \/ Get \/ Release

Spec == Init /\ [][Next]_<<queue, got>>

=============================================================================
