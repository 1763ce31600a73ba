--------------------------- MODULE CircularBuffer ---------------------------
(***************************************************************************)
(* CircularBuffer with the overwriting policy (include/containers/         *)
(* circular_buffer.h), as operators on its fields.  The head starts one    *)
(* position after the tail, so there must be at least two positions.       *)
(***************************************************************************)
EXTENDS Integers, Sequences

CONSTANTS
    BufferSize,
    Unset        \* what a position holds before it is written

ASSUME BufferAssumption == BufferSize \in Nat \ {0, 1}

Positions == 0..(BufferSize - 1)

\* The constructor.
NewBuffer == [slots |-> [i \in Positions |-> Unset], head |-> 1, tail |-> 0, size |-> 0]

empty(b) == b.size = 0
front(b) == b.slots[b.head]

After(i) == IF i + 1 = BufferSize THEN 0 ELSE i + 1

pop(b) ==
    IF b.size = 0 THEN b
    ELSE [slots |-> b.slots, head |-> After(b.head), tail |-> b.tail, size |-> b.size - 1]

\* advance_tail, and the item is stored there.
store(b, item) ==
    [slots |-> [b.slots EXCEPT ![After(b.tail)] = item],
     head |-> b.head, tail |-> After(b.tail), size |-> b.size + 1]

\* Faulty variants: the new element is discarded when there is no room, as
\* with the other policy; the head stays where it is.
pushDiscards(b, item) == IF b.size = BufferSize THEN b ELSE store(b, item)
pushKeepsHead(b, item) ==
    store(IF b.size = BufferSize THEN [b EXCEPT !.size = b.size - 1] ELSE b, item)
push(b, item) == store(IF b.size = BufferSize THEN pop(b) ELSE b, item)

\* The elements, oldest first.
Position(b, i) ==
    IF b.head + i - 1 < BufferSize THEN b.head + i - 1 ELSE b.head + i - 1 - BufferSize
Contents(b) == [i \in 1..b.size |-> b.slots[Position(b, i)]]

\* The type of a buffer of Elements, whose tail is the position of the last.
Buffer(Elements) ==
    {b \in [slots : [Positions -> Elements \cup {Unset}], head : Positions,
            tail : Positions, size : 0..BufferSize] :
        /\ After(b.tail) = (IF b.head + b.size < BufferSize THEN b.head + b.size
                            ELSE b.head + b.size - BufferSize)
        /\ \A i \in 1..b.size : b.slots[Position(b, i)] \in Elements}

=============================================================================
