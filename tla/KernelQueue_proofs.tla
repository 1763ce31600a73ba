------------------------- MODULE KernelQueue_proofs -------------------------
(***************************************************************************)
(* For a queue of any length and any set of elements: the ring implements  *)
(* the bounded first-in first-out queue, and no wakeup is lost.            *)
(***************************************************************************)
EXTENDS KernelQueue, SequenceTheorems, TLAPS

\* The position to write to is one past the newest element, and the places
\* of the ring in use hold elements.
RingOK ==
    /\ putPos = IF getPos + numElem < QLen THEN getPos + numElem
                                           ELSE getPos + numElem - QLen
    /\ \A i \in 1..numElem : buffer[Slot(i)] \in Values

\* A thread sleeps in a method of its side, and a put keeps its element.
Sides ==
    \A t \in Threads :
        /\ t \in Getters => pc[t] \in {"idle", "get", "notEmpty"}
        /\ t \in Putters => pc[t] \in {"idle", "put", "notFull"}
        /\ pc[t] = "put" => elem[t] \in Values

IInv == TypeOK /\ RingOK /\ Sides /\ NoLostWakeup

LEMMA InitIInv == Init => IInv
BY QueueAssumption DEF Init, IInv, TypeOK, RingOK, Sides, NoLostWakeup, Slot, Threads

-----------------------------------------------------------------------------
\* The ring.

LEMMA AdvanceType == ASSUME NEW p \in 0..(QLen - 1) PROVE Advance(p) \in 0..(QLen - 1)
BY QueueAssumption DEF Advance

LEMMA SlotType ==
    ASSUME TypeOK, NEW i \in 1..QLen
    PROVE  Slot(i) \in 0..(QLen - 1)
BY QueueAssumption DEF TypeOK, Slot

\* Two different elements are in two different places.
LEMMA SlotInjective ==
    ASSUME TypeOK, NEW i \in 1..QLen, NEW j \in 1..QLen, Slot(i) = Slot(j)
    PROVE  i = j
BY QueueAssumption DEF TypeOK, Slot

\* Insert writes behind the newest element and touches no other.
LEMMA InsertRing ==
    ASSUME TypeOK, RingOK, ~isFull, NEW v \in Values, Insert(v)
    PROVE  /\ numElem' = numElem + 1 /\ numElem' \in 1..QLen
           /\ buffer' \in [0..(QLen - 1) -> Values \cup {NoValue}]
           /\ putPos' \in 0..(QLen - 1) /\ getPos' = getPos /\ got' = got
           /\ RingOK'
           /\ \A i \in 1..numElem : buffer'[Slot(i)'] = buffer[Slot(i)]
           /\ \A i : i = numElem + 1 => buffer'[Slot(i)'] = v
<1> USE QueueAssumption
<1>1. /\ numElem' = numElem + 1
      /\ buffer' = [buffer EXCEPT ![putPos] = v]
      /\ putPos' = Advance(putPos)
      /\ getPos' = getPos /\ got' = got
  BY DEF Insert
<1>2. numElem \in 0..(QLen - 1) /\ numElem' \in 1..QLen
  BY <1>1 DEF TypeOK, isFull
<1>3. /\ buffer' \in [0..(QLen - 1) -> Values \cup {NoValue}]
      /\ putPos' \in 0..(QLen - 1)
  BY <1>1, AdvanceType DEF TypeOK
<1>4. putPos = Slot(numElem + 1) /\ numElem + 1 \in 1..QLen
  BY <1>2 DEF TypeOK, RingOK, Slot
<1>5. \A i : Slot(i)' = Slot(i)
  BY <1>1 DEF Slot
<1>6. \A i \in 1..numElem : buffer'[Slot(i)'] = buffer[Slot(i)]
  <2> SUFFICES ASSUME NEW i \in 1..numElem
               PROVE  buffer'[Slot(i)] = buffer[Slot(i)]
    BY <1>5
  <2>1. i \in 1..QLen /\ i # numElem + 1
    BY <1>2
  <2>2. Slot(i) # putPos
    BY <1>4, <2>1, SlotInjective
  <2>3. Slot(i) \in 0..(QLen - 1)
    BY <2>1, SlotType
  <2> QED BY <1>1, <2>2, <2>3 DEF TypeOK
<1>7. \A i : i = numElem + 1 => buffer'[Slot(i)'] = v
  <2>1. buffer'[putPos] = v
    BY <1>1 DEF TypeOK
  <2> QED BY <2>1, <1>4, <1>5
<1>8. RingOK'
  <2>1. putPos' = IF getPos' + numElem' < QLen THEN getPos' + numElem'
                                               ELSE getPos' + numElem' - QLen
    BY <1>1, <1>2 DEF RingOK, TypeOK, Advance
  <2>2. ASSUME NEW i \in 1..numElem'
        PROVE  buffer'[Slot(i)'] \in Values
    <3>1. i \in 1..numElem \/ i = numElem + 1
      BY <1>1, <1>2
    <3>2. CASE i \in 1..numElem
      BY <1>6, <3>2 DEF RingOK
    <3> QED BY <1>7, <3>1, <3>2
  <2> QED BY <2>1, <2>2 DEF RingOK
<1> QED BY <1>1, <1>2, <1>3, <1>6, <1>7, <1>8

\* Remove takes the oldest element and moves the others one place up.
LEMMA RemoveRing ==
    ASSUME TypeOK, RingOK, ~isEmpty, Remove
    PROVE  /\ numElem' = numElem - 1 /\ numElem' \in 0..QLen
           /\ buffer' = buffer /\ putPos' = putPos
           /\ getPos' \in 0..(QLen - 1)
           /\ got' = buffer[Slot(1)] /\ got' \in Values
           /\ RingOK'
           /\ \A i \in 1..numElem' : Slot(i)' = Slot(i + 1)
<1> USE QueueAssumption
<1>1. /\ numElem' = numElem - 1
      /\ got' = buffer[getPos]
      /\ getPos' = Advance(getPos)
      /\ buffer' = buffer /\ putPos' = putPos
  BY DEF Remove
<1>2. numElem \in 1..QLen /\ numElem' \in 0..QLen
  BY <1>1 DEF TypeOK, isEmpty
<1>3. getPos' \in 0..(QLen - 1)
  BY <1>1, AdvanceType DEF TypeOK
<1>4. Slot(1) = getPos
  BY DEF Slot, TypeOK
<1>5. got' \in Values
  BY <1>1, <1>2, <1>4 DEF RingOK
<1>6. ASSUME NEW i \in 1..QLen
      PROVE  Slot(i)' = Slot(i + 1)
  <2>1. getPos \in 0..(QLen - 1) /\ QLen \in Nat \ {0}
    BY DEF TypeOK
  <2>2. CASE getPos + 1 = QLen
    BY <1>1, <2>1, <2>2 DEF Slot, Advance
  <2>3. CASE getPos + 1 # QLen
    BY <1>1, <2>1, <2>3 DEF Slot, Advance
  <2> QED BY <2>2, <2>3
<1>7. RingOK'
  <2>1. putPos' = IF getPos' + numElem' < QLen THEN getPos' + numElem'
                                               ELSE getPos' + numElem' - QLen
    <3>1. getPos \in 0..(QLen - 1) /\ QLen \in Nat \ {0}
      BY DEF TypeOK
    <3>2. CASE getPos + 1 = QLen
      BY <1>1, <1>2, <3>1, <3>2 DEF RingOK, Advance
    <3>3. CASE getPos + 1 # QLen
      BY <1>1, <1>2, <3>1, <3>3 DEF RingOK, Advance
    <3> QED BY <3>2, <3>3
  <2>2. ASSUME NEW i \in 1..numElem'
        PROVE  buffer'[Slot(i)'] \in Values
    <3>1. i \in 1..QLen /\ i + 1 \in 1..numElem
      BY <1>1, <1>2
    <3>2. Slot(i)' = Slot(i + 1)
      BY <1>6, <3>1
    <3>3. buffer[Slot(i + 1)] \in Values
      BY <3>1 DEF RingOK
    <3> QED BY <1>1, <3>2, <3>3
  <2> QED BY <2>1, <2>2 DEF RingOK
<1>8. \A i \in 1..numElem' : Slot(i)' = Slot(i + 1)
  BY <1>2, <1>6
<1> QED BY <1>1, <1>2, <1>3, <1>4, <1>5, <1>7, <1>8

\* What a step may do to the ring and to the element delivered.
RingStep ==
    \/ UNCHANGED ring
    \/ ~isEmpty /\ Remove
    \/ ~isFull /\ \E v \in Values : Insert(v)
    \/ ResetRing

LEMMA RingStepOK ==
    ASSUME TypeOK, RingOK, RingStep
    PROVE  /\ buffer' \in [0..(QLen - 1) -> Values \cup {NoValue}]
           /\ numElem' \in 0..QLen
           /\ putPos' \in 0..(QLen - 1) /\ getPos' \in 0..(QLen - 1)
           /\ got' \in Values \cup {NoValue}
           /\ RingOK'
<1>1. CASE UNCHANGED ring
  BY <1>1 DEF ring, TypeOK, RingOK, Slot
<1>2. CASE ~isEmpty /\ Remove
  BY <1>2, RemoveRing DEF TypeOK
<1>3. ASSUME NEW v \in Values, ~isFull, Insert(v)
      PROVE  /\ buffer' \in [0..(QLen - 1) -> Values \cup {NoValue}]
             /\ numElem' \in 0..QLen
             /\ putPos' \in 0..(QLen - 1) /\ getPos' \in 0..(QLen - 1)
             /\ got' \in Values \cup {NoValue}
             /\ RingOK'
  <2>1. numElem' \in 0..QLen
    BY <1>3, InsertRing, QueueAssumption
  <2> QED BY <1>3, <2>1, InsertRing DEF TypeOK
<1>4. CASE ResetRing
  BY <1>4, QueueAssumption DEF ResetRing, TypeOK, RingOK
<1> QED BY <1>1, <1>2, <1>3, <1>4 DEF RingStep

-----------------------------------------------------------------------------
\* The threads.

\* Waking the one thread that may be asleep leaves nobody asleep.
LEMMA WokenAll ==
    ASSUME TypeOK, NoLostWakeup
    PROVE  Woken = [t \in Threads |-> FALSE]
BY DEF TypeOK, NoLostWakeup, Woken

\* What a call of op with argument v, made by t, finds.
Call(t, op, v) ==
    /\ op \in {"get", "put", "notEmpty", "notFull"}
    /\ t \in Getters => op \in {"get", "notEmpty"}
    /\ t \in Putters => op \in {"put", "notFull"}
    /\ v \in Values \cup {NoValue}
    /\ op = "put" => v \in Values

LEMMA AttemptOK ==
    ASSUME IInv, NEW t \in Threads, NEW op, NEW v, Call(t, op, v), Attempt(t, op, v)
    PROVE  IInv' /\ RingStep
<1> USE DEF IInv
<1>1. Woken = [u \in Threads |-> FALSE]
  BY WokenAll
<1>2. CASE Finish(t, op, v)
  <2>1. RingStep
    <3>1. CASE op = "get"
      BY <1>2, <3>1 DEF Finish, Blocked, RingStep
    <3>2. CASE op = "put"
      BY <1>2, <3>2 DEF Finish, Blocked, RingStep, Call
    <3>3. CASE op \notin {"get", "put"}
      BY <1>2, <3>3 DEF Finish, RingStep
    <3> QED BY <3>1, <3>2, <3>3
  <2>2. /\ waiting' = NoThread
        /\ waitFlag' = [u \in Threads |-> FALSE]
        /\ pc' = [pc EXCEPT ![t] = "idle"]
        /\ elem' = [elem EXCEPT ![t] = NoValue]
    BY <1>1, <1>2 DEF Finish
  <2>3. TypeOK' /\ RingOK'
    BY <2>1, <2>2, RingStepOK DEF TypeOK
  <2>4. Sides'
    BY <2>2 DEF TypeOK, Sides
  <2>5. NoLostWakeup'
    BY <2>2 DEF NoLostWakeup
  <2> QED BY <2>1, <2>3, <2>4, <2>5
<1>3. CASE Sleep(t, op, v)
  <2>1. UNCHANGED ring /\ RingStep /\ Blocked(op)'
    BY <1>3 DEF Sleep, RingStep, Blocked, ring, isEmpty, isFull
  <2>2. /\ waiting' = t
        /\ waitFlag' = [[u \in Threads |-> FALSE] EXCEPT ![t] = TRUE]
        /\ pc' = [pc EXCEPT ![t] = op]
        /\ elem' = [elem EXCEPT ![t] = v]
    BY <1>1, <1>3 DEF Sleep
  <2>3. TypeOK' /\ RingOK'
    BY <2>1, <2>2, RingStepOK DEF TypeOK, Call
  <2>4. Sides'
    BY <2>2 DEF TypeOK, Sides, Call
  <2>5. NoLostWakeup'
    <3> SUFFICES ASSUME NEW u \in Threads, waitFlag'[u]
                 PROVE  pc'[u] # "idle" /\ waiting' = u /\ Blocked(pc[u])'
      BY DEF NoLostWakeup
    <3>1. u = t
      BY <2>2
    <3>2. pc'[u] = op
      BY <2>2, <3>1 DEF TypeOK
    <3>3. Blocked(pc[u])'
      BY <2>1, <3>2 DEF Blocked
    <3> QED BY <2>2, <3>1, <3>2, <3>3 DEF Call
  <2> QED BY <2>1, <2>3, <2>4, <2>5
<1> QED BY <1>2, <1>3 DEF Attempt

\* The methods that never sleep.
LEMMA WakeOK ==
    ASSUME IInv, Wake, RingStep
    PROVE  IInv'
<1> USE DEF IInv
<1>1. /\ waiting' = NoThread /\ pc' = pc /\ elem' = elem
      /\ waitFlag' = [u \in Threads |-> FALSE]
  BY WokenAll DEF Wake
<1>2. TypeOK' /\ RingOK'
  BY <1>1, RingStepOK DEF TypeOK
<1>3. Sides' /\ NoLostWakeup'
  BY <1>1 DEF Sides, NoLostWakeup
<1> QED BY <1>2, <1>3

LEMMA StepOK == IInv /\ [Next]_vars => IInv' /\ RingStep
<1> SUFFICES ASSUME IInv, [Next]_vars
             PROVE  IInv' /\ RingStep
  OBVIOUS
<1>1. ASSUME NEW t \in Threads, Get(t) \/ WaitUntilNotEmpty(t)
      PROVE  IInv' /\ RingStep
  <2>1. Call(t, "get", NoValue) /\ Call(t, "notEmpty", NoValue)
    BY <1>1, QueueAssumption DEF Get, WaitUntilNotEmpty, Call
  <2> QED BY <1>1, <2>1, AttemptOK DEF Get, WaitUntilNotEmpty
<1>2. ASSUME NEW t \in Threads, WaitUntilNotFull(t)
      PROVE  IInv' /\ RingStep
  <2>1. Call(t, "notFull", NoValue)
    BY <1>2, QueueAssumption DEF WaitUntilNotFull, Call
  <2> QED BY <1>2, <2>1, AttemptOK DEF WaitUntilNotFull
<1>3. ASSUME NEW t \in Threads, NEW v \in Values, Put(t, v)
      PROVE  IInv' /\ RingStep
  <2>1. Call(t, "put", v)
    BY <1>3, QueueAssumption DEF Put, Call
  <2> QED BY <1>3, <2>1, AttemptOK DEF Put
<1>4. ASSUME NEW t \in Threads, Resume(t)
      PROVE  IInv' /\ RingStep
  <2>1. Call(t, pc[t], elem[t])
    BY <1>4 DEF Resume, Call, IInv, Sides, TypeOK
  <2> QED BY <1>4, <2>1, AttemptOK DEF Resume
<1>5. ASSUME NEW t \in Threads, SpuriousWakeup(t)
      PROVE  IInv' /\ RingStep
  <2>1. /\ waitFlag' = [waitFlag EXCEPT ![t] = FALSE]
        /\ UNCHANGED <<buffer, numElem, putPos, getPos, got, waiting, pc, elem>>
    BY <1>5 DEF SpuriousWakeup, ring
  <2>2. TypeOK' /\ RingOK' /\ Sides' /\ RingStep
    BY <2>1 DEF IInv, TypeOK, RingOK, Sides, RingStep, ring, Slot
  <2>3. NoLostWakeup'
    BY <2>1 DEF IInv, TypeOK, NoLostWakeup, Blocked, isEmpty, isFull
  <2> QED BY <2>2, <2>3 DEF IInv
<1>6. CASE IRQget
  BY <1>6, WakeOK DEF IRQget, RingStep
<1>7. ASSUME NEW v \in Values, IRQput(v)
      PROVE  IInv' /\ RingStep
  BY <1>7, WakeOK DEF IRQput, RingStep
<1>8. CASE Reset
  BY <1>8, WakeOK DEF Reset, RingStep
<1>9. CASE UNCHANGED vars
  <2>1. RingStep
    BY <1>9 DEF vars, RingStep, ring
  <2> QED BY <1>9, <2>1
         DEF vars, IInv, TypeOK, RingOK, Sides, NoLostWakeup, Slot, Blocked, isEmpty, isFull
<1> QED BY <1>1, <1>2, <1>3, <1>4, <1>5, <1>6, <1>7, <1>8, <1>9 DEF Next

LEMMA Inductive == Spec => []IInv
<1>1. Init => IInv
  BY InitIInv
<1>2. IInv /\ [Next]_vars => IInv'
  BY StepOK
<1> QED BY <1>1, <1>2, PTL DEF Spec

\* Every variable keeps its type: in particular the two positions never
\* leave the ring and the count never leaves 0..len.
THEOREM TypeCorrect == Spec => []TypeOK
<1>1. IInv => TypeOK
  BY DEF IInv
<1> QED BY <1>1, Inductive, PTL

\* No wakeup is lost: with one reader and one writer a single pointer to the
\* sleeping thread is enough.
THEOREM WakeupsArrive == Spec => []NoLostWakeup
<1>1. IInv => NoLostWakeup
  BY DEF IInv
<1> QED BY <1>1, Inductive, PTL

-----------------------------------------------------------------------------
\* The refinement.

LEMMA ContentsType ==
    ASSUME IInv
    PROVE  Contents \in Seq(Values) /\ Len(Contents) = numElem
<1>1. numElem \in Nat /\ \A i \in 1..numElem : buffer[Slot(i)] \in Values
  BY QueueAssumption DEF IInv, TypeOK, RingOK
<1> QED BY <1>1 DEF Contents

LEMMA StepRefines == IInv /\ IInv' /\ RingStep => [Fifo!Next]_<<Contents, got>>
<1> SUFFICES ASSUME IInv, IInv', RingStep
             PROVE  [Fifo!Next]_<<Contents, got>>
  OBVIOUS
<1>1. /\ Contents \in Seq(Values) /\ Len(Contents) = numElem
      /\ Contents' \in Seq(Values) /\ Len(Contents') = numElem'
  <2>1. Contents' \in Seq(Values) /\ Len(Contents') = numElem'
    <3>1. numElem' \in Nat /\ \A i \in 1..numElem' : buffer'[Slot(i)'] \in Values
      BY QueueAssumption DEF IInv, TypeOK, RingOK
    <3> QED BY <3>1 DEF Contents
  <2> QED BY <2>1, ContentsType
<1>2. CASE UNCHANGED ring
  BY <1>2 DEF ring, Contents, Slot
<1>3. CASE ~isEmpty /\ Remove
  <2>1. /\ numElem' = numElem - 1 /\ buffer' = buffer
        /\ got' = buffer[Slot(1)]
        /\ \A i \in 1..numElem' : Slot(i)' = Slot(i + 1)
        /\ numElem \in Nat \ {0}
    <3>1. TypeOK /\ RingOK
      BY DEF IInv
    <3>2. numElem \in Nat \ {0}
      BY <1>3, <3>1, QueueAssumption DEF TypeOK, isEmpty
    <3> QED BY <1>3, <3>1, <3>2, RemoveRing
  <2>2. Contents # <<>> /\ got' = Head(Contents)
    BY <1>1, <2>1 DEF Contents
  <2>3. /\ Tail(Contents) \in Seq(Values) /\ Len(Tail(Contents)) = numElem'
        /\ \A i \in 1..numElem' : Tail(Contents)[i] = Contents[i + 1]
    BY <1>1, <2>1, <2>2, HeadTailProperties
  <2>4. \A i \in 1..numElem' : Contents'[i] = Contents[i + 1]
    <3> SUFFICES ASSUME NEW i \in 1..numElem'
                 PROVE  Contents'[i] = Contents[i + 1]
      OBVIOUS
    <3>1. i + 1 \in 1..numElem
      BY <2>1
    <3>2. Contents[i + 1] = buffer[Slot(i + 1)]
      BY <3>1 DEF Contents
    <3>3. Contents'[i] = buffer'[Slot(i)']
      BY DEF Contents
    <3> QED BY <2>1, <3>2, <3>3
  <2>5. Contents' = Tail(Contents)
    BY <1>1, <2>3, <2>4, SeqEqual
  <2> QED BY <2>2, <2>5 DEF Fifo!Next, Fifo!Get
<1>4. ASSUME NEW v \in Values, ~isFull, Insert(v)
      PROVE  Fifo!Put(v)
  <2>1. /\ numElem' = numElem + 1 /\ got' = got
        /\ \A i \in 1..numElem : buffer'[Slot(i)'] = buffer[Slot(i)]
        /\ \A i : i = numElem + 1 => buffer'[Slot(i)'] = v
    BY <1>4, InsertRing DEF IInv
  <2>2. numElem \in Nat /\ Len(Contents) < QLen
    BY <1>1, <1>4, QueueAssumption DEF IInv, TypeOK, isFull
  <2>3. /\ Append(Contents, v) \in Seq(Values)
        /\ Len(Append(Contents, v)) = numElem + 1
        /\ \A i \in 1..numElem : Append(Contents, v)[i] = Contents[i]
        /\ Append(Contents, v)[numElem + 1] = v
    BY <1>1, <2>2, AppendProperties
  <2>4. ASSUME NEW i \in 1..numElem'
        PROVE  Contents'[i] = Append(Contents, v)[i]
    <3>1. Contents'[i] = buffer'[Slot(i)']
      BY DEF Contents
    <3>2. CASE i \in 1..numElem
      BY <2>1, <2>3, <3>1, <3>2 DEF Contents
    <3>3. CASE i = numElem + 1
      BY <2>1, <2>3, <3>1, <3>3
    <3>4. i \in 1..numElem \/ i = numElem + 1
      <4>1. numElem' = numElem + 1 /\ numElem \in Nat
        BY <2>1, <2>2
      <4> QED BY <4>1
    <3> QED BY <3>2, <3>3, <3>4
  <2>5. Contents' = Append(Contents, v)
    <3>1. Len(Contents') = Len(Append(Contents, v))
      BY <1>1, <2>1, <2>3
    <3>2. \A i \in 1..Len(Contents') : Contents'[i] = Append(Contents, v)[i]
      BY <1>1, <2>4
    <3> QED BY <1>1, <2>3, <3>1, <3>2, SeqEqual
  <2> QED BY <2>1, <2>2, <2>5 DEF Fifo!Put
<1>5. CASE ResetRing
  <2>1. numElem' = 0 /\ got' = got
    BY <1>5 DEF ResetRing
  <2>2. Contents' = <<>>
    BY <1>1, <2>1
  <2> QED BY <2>1, <2>2 DEF Fifo!Next, Fifo!Reset
<1> QED BY <1>2, <1>3, <1>4, <1>5 DEF RingStep, Fifo!Next

\* The ring, with its wraparound, its count and the threads that sleep in it,
\* implements the bounded first-in first-out queue.
THEOREM QueueRefinesFifo == Spec => RefinesFifo
<1>1. Init => Contents = <<>>
  <2> SUFFICES ASSUME Init
               PROVE  Contents = <<>>
    OBVIOUS
  <2>1. IInv /\ numElem = 0
    BY InitIInv DEF Init
  <2>2. Contents \in Seq(Values) /\ Len(Contents) = 0
    BY <2>1, ContentsType
  <2> QED BY <2>2
<1>2. Init => Fifo!Init
  BY <1>1, QueueAssumption DEF Init, Fifo!Init
<1>3. IInv /\ [Next]_vars => [Fifo!Next]_<<Contents, got>>
  BY StepOK, StepRefines
<1> QED BY <1>2, <1>3, Inductive, PTL DEF Spec, RefinesFifo, Fifo!Spec

=============================================================================
