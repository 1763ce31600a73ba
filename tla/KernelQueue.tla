---------------------------- MODULE KernelQueue ----------------------------
(***************************************************************************)
(* miosix::Queue<T, len> (miosix/kernel/queue.h): a ring buffer between    *)
(* two threads, or between a thread and an interrupt.                      *)
(*                                                                         *)
(* Every method runs with interrupts disabled up to the point where it     *)
(* waits, so a call, or what follows a wakeup, is one step.  The single    *)
(* pointer "waiting" is enough only because at any time one side at most   *)
(* has a reason to sleep.                                                  *)
(***************************************************************************)
EXTENDS Integers, Sequences, FiniteSets

CONSTANTS
    QLen,       \* len
    Values,     \* elements of type T
    Getters,    \* threads that call get and waitUntilNotEmpty
    Putters,    \* threads that call put and waitUntilNotFull
    IrqPuts,    \* TRUE if an interrupt calls IRQput
    IrqGets,    \* TRUE if an interrupt calls IRQget
    Resets,     \* TRUE if a thread calls reset
    NoThread,   \* the null pointer
    NoValue     \* an element that was never assigned

Threads == Getters \cup Putters

\* One thread at each end at most.  The doc of Queue asks for two threads, or
\* one thread and an interrupt; here interrupts may join in at either end.
ASSUME QueueAssumption ==
    /\ QLen \in Nat \ {0}
    /\ NoValue \notin Values
    /\ NoThread \notin Threads
    /\ \A g, h \in Getters : g = h
    /\ \A p, q \in Putters : p = q
    /\ Getters \cap Putters = {}
    /\ {IrqPuts, IrqGets, Resets} \subseteq BOOLEAN

VARIABLES
    buffer,    \* the ring
    numElem,
    putPos,
    getPos,
    waiting,   \* the thread to wake, or NoThread
    waitFlag,  \* ThreadFlags::WAIT of each thread
    pc,        \* the method a thread sleeps in, or "idle"
    elem,      \* the argument of a put that sleeps
    got        \* the element the last successful get delivered

ring   == <<buffer, numElem, putPos, getPos, got>>
vars   == <<buffer, numElem, putPos, getPos, waiting, waitFlag, pc, elem, got>>

Init ==
    /\ buffer = [i \in 0..(QLen - 1) |-> NoValue]
    /\ numElem = 0 /\ putPos = 0 /\ getPos = 0
    /\ waiting = NoThread
    /\ waitFlag = [t \in Threads |-> FALSE]
    /\ pc = [t \in Threads |-> "idle"]
    /\ elem = [t \in Threads |-> NoValue]
    /\ got = NoValue

-----------------------------------------------------------------------------
\* The ring.

Advance(pos) == IF pos + 1 = QLen THEN 0 ELSE pos + 1

isEmpty == numElem = 0
isFull  == numElem = QLen

Insert(v) ==
    /\ numElem' = numElem + 1
    /\ buffer' = [buffer EXCEPT ![putPos] = v]
    /\ putPos' = Advance(putPos)
    /\ UNCHANGED <<getPos, got>>

\* Faulty variant: the element is read after the index has moved on.
RemoveNext ==
    /\ numElem' = numElem - 1
    /\ getPos' = Advance(getPos)
    /\ got' = buffer[getPos']
    /\ UNCHANGED <<buffer, putPos>>
Remove ==
    /\ numElem' = numElem - 1
    /\ got' = buffer[getPos]
    /\ getPos' = Advance(getPos)
    /\ UNCHANGED <<buffer, putPos>>

\* IRQwakeWaitingThread: the wait flags it leaves.
\* Faulty variant: the pointer is forgotten and the thread is not woken.
WokenNot == waitFlag
Woken == [t \in Threads |-> waitFlag[t] /\ t # waiting]

-----------------------------------------------------------------------------
\* The four methods that may sleep; body is what each does in the end.

Blocked(op) == IF op \in {"get", "notEmpty"} THEN isEmpty ELSE isFull

Finish(t, op, v) ==
    /\ ~Blocked(op)
    /\ waiting' = NoThread
    /\ waitFlag' = Woken
    /\ pc' = [pc EXCEPT ![t] = "idle"]
    /\ elem' = [elem EXCEPT ![t] = NoValue]
    /\ CASE op = "get" -> Remove
         [] op = "put" -> Insert(v)
         [] OTHER -> UNCHANGED ring

Sleep(t, op, v) ==
    /\ Blocked(op)
    /\ waiting' = t
    /\ waitFlag' = [Woken EXCEPT ![t] = TRUE]
    /\ pc' = [pc EXCEPT ![t] = op]
    /\ elem' = [elem EXCEPT ![t] = v]
    /\ UNCHANGED ring

Attempt(t, op, v) == Finish(t, op, v) \/ Sleep(t, op, v)

Get(t) == t \in Getters /\ pc[t] = "idle" /\ Attempt(t, "get", NoValue)

WaitUntilNotEmpty(t) ==
    t \in Getters /\ pc[t] = "idle" /\ Attempt(t, "notEmpty", NoValue)

Put(t, v) == t \in Putters /\ pc[t] = "idle" /\ Attempt(t, "put", v)

WaitUntilNotFull(t) ==
    t \in Putters /\ pc[t] = "idle" /\ Attempt(t, "notFull", NoValue)

\* A thread that was woken tests the condition of its loop again.
Resume(t) == pc[t] # "idle" /\ ~waitFlag[t] /\ Attempt(t, pc[t], elem[t])

\* Some other code calls wakeup() on a sleeping thread.
SpuriousWakeup(t) ==
    /\ waitFlag[t]
    /\ waitFlag' = [waitFlag EXCEPT ![t] = FALSE]
    /\ UNCHANGED <<ring, waiting, pc, elem>>

-----------------------------------------------------------------------------
\* The methods that never sleep.

Wake == waiting' = NoThread /\ waitFlag' = Woken /\ UNCHANGED <<pc, elem>>

IRQget ==
    /\ IrqGets
    /\ Wake
    /\ IF isEmpty THEN UNCHANGED ring ELSE Remove

IRQput(v) ==
    /\ IrqPuts
    /\ Wake
    /\ IF isFull THEN UNCHANGED ring ELSE Insert(v)

\* reset, by a thread that is not asleep in the queue, or IRQreset.
\* Faulty variant: the positions are kept.
ResetCount == numElem' = 0 /\ UNCHANGED <<buffer, putPos, getPos, got>>
ResetRing == numElem' = 0 /\ putPos' = 0 /\ getPos' = 0 /\ UNCHANGED <<buffer, got>>

Reset ==
    /\ Resets
    /\ Wake
    /\ ResetRing

Next ==
    \/ \E t \in Threads :
          Get(t) \/ WaitUntilNotEmpty(t) \/ WaitUntilNotFull(t)
             \/ Resume(t) \/ SpuriousWakeup(t)
    \/ \E t \in Threads, v \in Values : Put(t, v)
    \/ IRQget \/ Reset
    \/ \E v \in Values : IRQput(v)

Spec == Init /\ [][Next]_vars

\* A woken thread is eventually scheduled.
FairSpec == Spec /\ \A t \in Threads : WF_vars(Resume(t))

-----------------------------------------------------------------------------

TypeOK ==
    /\ buffer \in [0..(QLen - 1) -> Values \cup {NoValue}]
    /\ numElem \in 0..QLen
    /\ putPos \in 0..(QLen - 1)
    /\ getPos \in 0..(QLen - 1)
    /\ waiting \in Threads \cup {NoThread}
    /\ waitFlag \in [Threads -> BOOLEAN]
    /\ pc \in [Threads -> {"idle", "get", "put", "notEmpty", "notFull"}]
    /\ elem \in [Threads -> Values \cup {NoValue}]
    /\ got \in Values \cup {NoValue}

\* A thread asleep in the queue is the one the next call will wake, and it
\* has a reason to sleep: no element or free place goes unnoticed, although
\* one pointer serves both sides.
NoLostWakeup ==
    \A t \in Threads : waitFlag[t] => pc[t] # "idle" /\ waiting = t /\ Blocked(pc[t])

\* The i-th oldest element is at this place of the ring.
Slot(i) == IF getPos + i - 1 < QLen THEN getPos + i - 1 ELSE getPos + i - 1 - QLen

Contents == [i \in 1..numElem |-> buffer[Slot(i)]]

\* The ring is a bounded first-in first-out queue.
Fifo == INSTANCE BoundedFifo WITH Capacity <- QLen, queue <- Contents
RefinesFifo == Fifo!Spec

\* A getter asleep when the queue holds an element, or a putter asleep when
\* it has room, returns, unless somebody else is quicker.
SleeperReturns ==
    \A t \in Threads :
        pc[t] # "idle" /\ ~Blocked(pc[t]) ~> pc[t] = "idle" \/ Blocked(pc[t])

=============================================================================
