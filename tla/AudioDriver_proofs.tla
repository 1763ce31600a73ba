------------------------- MODULE AudioDriver_proofs -------------------------
(***************************************************************************)
(* The audio output path for any number of buffers.  What holds whenever   *)
(* the interrupt arrives is proved without assumption; that the DMA and    *)
(* the thread never share a buffer, that the buffers are a first-in        *)
(* first-out queue and that what is played has no gap, from the assumption *)
(* the code leaves to its caller: no interrupt between the accesses of     *)
(* bufferFilled to the counter.                                            *)
(***************************************************************************)
EXTENDS AudioDriver, SequenceTheorems, TLAPS

\* What holds at every step of the thread, whenever transfers end.
Steps ==
    /\ pc = "boot" => cnt = 0 /\ put = 0 /\ get = 0 /\ dma = NoDma
    /\ pc = "start" => dma = NoDma /\ cnt = 1 /\ put = 1 /\ get = 0
    /\ pc \notin {"boot", "start"} => dma # NoDma
    /\ pc = "load" => cnt < NumBuf
    /\ pc = "store" => reg < NumBuf

IInv == TypeOK /\ Steps /\ NoLostWakeup

LEMMA AdvanceType == ASSUME NEW p \in Buffers PROVE Advance(p) \in Buffers
BY AudioAssumption DEF Advance, Buffers

LEMMA BlockType == ASSUME NEW b \in Blocks PROVE NextBlock(b) \in Blocks
BY AudioAssumption DEF NextBlock, Blocks

LEMMA Zero == 0 \in Buffers /\ 1 \in Buffers /\ 0 \in Blocks /\ NumBuf \in Nat
BY AudioAssumption DEF Buffers, Blocks

LEMMA InitIInv == Init => IInv
<1> SUFFICES ASSUME Init
             PROVE  IInv
  OBVIOUS
<1>1. TypeOK
  <2>1. buf \in [Buffers -> Blocks \cup {Unset}]
    BY DEF Init
  <2>2. put \in Buffers /\ get \in Buffers /\ writable \in Buffers /\ block \in Blocks
    BY Zero DEF Init
  <2>3. cnt \in 0..NumBuf /\ reg \in 0..NumBuf
    BY Zero DEF Init
  <2>4. dma \in Buffers \cup {Silence, NoDma} /\ freed \in Blocks \cup {Unset}
    BY DEF Init
  <2>5. pc \in WriterSteps
    BY DEF Init, WriterSteps
  <2>6. rebooted \in BOOLEAN
    BY DEF Init
  <2> QED BY <2>1, <2>2, <2>3, <2>4, <2>5, <2>6 DEF TypeOK
<1>2. Steps /\ NoLostWakeup
  BY DEF Init, Steps, NoLostWakeup
<1> QED BY <1>1, <1>2 DEF IInv

LEMMA NextIInv == IInv /\ [Next]_vars => IInv'
<1> SUFFICES ASSUME IInv, [Next]_vars
             PROVE  IInv'
  OBVIOUS
<1> USE AudioAssumption DEF IInv, TypeOK, Steps, NoLostWakeup, WriterSteps
<1>1. CASE Construct
  <2>1. Advance(put) = 1 /\ put = 0
    BY <1>1 DEF Construct, Advance
  <2>2. PICK noise \in Blocks : buf' = [buf EXCEPT ![put] = noise] /\ block' = noise
    BY <1>1 DEF Construct
  <2>3. UNCHANGED <<get, dma, writable, reg, freed, rebooted>>
    BY <1>1 DEF Construct
  <2>4. cnt' = 1 /\ put' = 1 /\ pc' = "start" /\ 1 \in 0..NumBuf
    BY <1>1, <2>1 DEF Construct
  <2>5. buf' \in [Buffers -> Blocks \cup {Unset}] /\ block' \in Blocks
    BY <2>2
  <2>6. put' \in Buffers /\ get' \in Buffers /\ get' = 0 /\ dma' = NoDma
    BY <1>1, <2>3, <2>4, Zero DEF Construct
  <2>7. TypeOK'
    <3>1. dma' \in Buffers \cup {Silence, NoDma} /\ pc' \in WriterSteps
      BY <2>4, <2>6
    <3>2. cnt' \in 0..NumBuf /\ reg' \in 0..NumBuf
      BY <2>3, <2>4
    <3>3. writable' \in Buffers /\ freed' \in Blocks \cup {Unset} /\ rebooted' \in BOOLEAN
      BY <2>3
    <3> QED BY <2>5, <2>6, <3>1, <3>2, <3>3
  <2>8. Steps' /\ NoLostWakeup'
    BY <2>3, <2>4, <2>6
  <2> HIDE DEF TypeOK, Steps, NoLostWakeup
  <2> QED BY <2>7, <2>8
<1>2. CASE Start
  BY <1>2 DEF Start, Readable, Buffers, Silence, NoDma
<1>3. CASE Take
  BY <1>3 DEF Take, isFull
<1>4. CASE Process
  BY <1>4, BlockType DEF Process
<1>5. CASE FilledCheck
  <2>1. UNCHANGED <<buf, put, get, cnt, dma, writable, reg, block, freed>>
    BY <1>5 DEF FilledCheck
  <2>2. rebooted' \in BOOLEAN
    BY <1>5 DEF FilledCheck
  <2>3. pc' = pc \/ (pc' = "load" /\ cnt < NumBuf)
    BY <1>5 DEF FilledCheck, isFull
  <2>4. TypeOK'
    BY <2>1, <2>2, <2>3
  <2>5. Steps' /\ NoLostWakeup'
    BY <1>5, <2>1, <2>3 DEF FilledCheck
  <2> HIDE DEF TypeOK, Steps, NoLostWakeup
  <2> QED BY <2>4, <2>5
<1>6. CASE FilledLoad
  BY <1>6 DEF FilledLoad
<1>7. CASE FilledStore
  <2>1. Byte(reg + 1) = reg + 1 /\ reg + 1 \in 0..NumBuf
    BY <1>7 DEF FilledStore, Byte
  <2>2. Advance(put) \in Buffers
    BY AdvanceType
  <2> QED BY <1>7, <2>1, <2>2 DEF FilledStore
<1>8. CASE TransferEnd
  <2>1. CASE isEmpty
    BY <1>8, <2>1 DEF TransferEnd
  <2>2. CASE ~isEmpty
    <3>1. Advance(get) \in Buffers /\ cnt - 1 \in 0..NumBuf
      BY <2>2, AdvanceType DEF isEmpty
    <3>2. NextPlayed \in Buffers \cup {Silence} /\ NextPlayed # NoDma
      BY <3>1 DEF NextPlayed, Readable, Buffers, Silence, NoDma
    <3>3. Woken \in WriterSteps \ {"asleep"} /\ (Woken = pc \/ Woken = "take")
      BY DEF Woken
    <3> QED BY <1>8, <2>2, <3>1, <3>2, <3>3 DEF TransferEnd
  <2> QED BY <2>1, <2>2
<1>9. CASE Reboot
  <2>1. Init'
    BY <1>9 DEF Reboot, Init
  <2> HIDE DEF IInv
  <2> QED BY <2>1, InitIInv, PTL
<1>10. CASE UNCHANGED vars
  BY <1>10 DEF vars
<1> QED BY <1>1, <1>2, <1>3, <1>4, <1>5, <1>6, <1>7, <1>8, <1>9, <1>10 DEF Next, Writer

LEMMA Inductive == Spec => []IInv
<1>1. Init => IInv
  BY InitIInv
<1>2. IInv /\ [Next]_vars => IInv'
  BY NextIInv
<1> QED BY <1>1, <1>2, PTL DEF Spec

\* Every variable keeps its type, whenever transfers end: the counter never
\* exceeds the number of buffers, although its update can be lost.
THEOREM TypeCorrect == Spec => []TypeOK
<1>1. IInv => TypeOK
  BY DEF IInv
<1> QED BY <1>1, Inductive, PTL

\* Whenever transfers end, the thread sleeps only with every buffer filled
\* and a transfer running, so the next interrupt wakes it.
THEOREM WakeupsArrive == Spec => []NoLostWakeup
<1>1. IInv => NoLostWakeup
  BY DEF IInv
<1> QED BY <1>1, Inductive, PTL

-----------------------------------------------------------------------------
\* What the code leaves to its caller.

\* No interrupt between the load and the store of the counter.
RaceFree == Interruptible \cap {"load", "store"} = {}

\* The position to write to is one past the newest buffer.
Positions == put = IF get + cnt < NumBuf THEN get + cnt ELSE get + cnt - NumBuf

\* The buffers in use hold blocks, and so does the one just filled.
Filled ==
    /\ \A i \in 1..cnt : buf[Slot(i)] \in Blocks
    /\ pc \in {"check", "load", "store"} => buf[writable] \in Blocks

\* Who uses which buffer.
Users ==
    /\ dma \in Buffers => dma = get /\ cnt > 0
    /\ Filling => writable = put /\ cnt < NumBuf
    /\ pc = "store" => reg = cnt

RInv == IInv /\ Positions /\ Filled /\ Users

LEMMA Numbers ==
    ASSUME TypeOK
    PROVE  NumBuf \in 2..255 /\ get \in 0..(NumBuf - 1) /\ cnt \in 0..NumBuf
BY AudioAssumption DEF TypeOK, Buffers

\* The buffer being filled is none of those in use.
LEMMA PutUnused ==
    ASSUME TypeOK, Positions, cnt < NumBuf
    PROVE  /\ put \in Buffers
           /\ put = Slot(cnt + 1)
           /\ \A i \in 1..cnt : Slot(i) \in Buffers /\ Slot(i) # put
           /\ cnt > 0 => put # get
BY SMTT(20), Numbers DEF Positions, Slot, Buffers

LEMMA Push ==
    ASSUME TypeOK, Positions, cnt < NumBuf,
           cnt' = cnt + 1, get' = get, put' = Advance(put)
    PROVE  Positions'
<1>1. CASE put + 1 = NumBuf
  BY Numbers, <1>1 DEF Positions, Advance
<1>2. CASE put + 1 # NumBuf
  BY Numbers, <1>2 DEF Positions, Advance
<1> QED BY <1>1, <1>2

LEMMA Pop ==
    ASSUME TypeOK, Positions, cnt > 0,
           cnt' = cnt - 1, get' = Advance(get), put' = put
    PROVE  /\ Positions'
           /\ Slot(1) = get
           /\ \A i \in 1..(cnt - 1) : Slot(i)' = Slot(i + 1)
<1>1. Slot(1) = get
  BY Numbers DEF Slot
<1>2. ASSUME NEW i \in 1..(cnt - 1)
      PROVE  Slot(i)' = Slot(i + 1)
  <2>1. NumBuf \in 2..255 /\ get \in 0..(NumBuf - 1) /\ i \in 1..(NumBuf - 1)
    BY Numbers
  <2>2. CASE get + 1 = NumBuf
    BY <2>1, <2>2 DEF Slot, Advance
  <2>3. CASE get + 1 # NumBuf
    <3>1. get' = get + 1 /\ get + 1 \in 1..(NumBuf - 1)
      BY <2>1, <2>3 DEF Advance
    <3>2. (get + 1) + i - 1 = get + (i + 1) - 1
      BY <2>1
    <3> QED BY <2>1, <3>1, <3>2 DEF Slot
  <2> QED BY <2>2, <2>3
<1>3. Positions'
  <2>1. CASE get + 1 = NumBuf
    BY Numbers, <2>1 DEF Positions, Advance
  <2>2. CASE get + 1 # NumBuf
    BY Numbers, <2>2 DEF Positions, Advance
  <2> QED BY <2>1, <2>2
<1> QED BY <1>1, <1>2, <1>3

LEMMA InitRInv == Init => RInv
<1> SUFFICES ASSUME Init
             PROVE  RInv
  OBVIOUS
<1>1. IInv /\ dma \notin Buffers
  BY InitIInv, AudioAssumption DEF Init, NoDma, Buffers
<1>2. Positions /\ Filled /\ Users
  BY <1>1, AudioAssumption DEF Init, Positions, Filled, Users, Filling, Slot
<1> QED BY <1>1, <1>2 DEF RInv

LEMMA NextRInv == RaceFree /\ RInv /\ [Next]_vars => RInv'
<1> SUFFICES ASSUME RaceFree, RInv, [Next]_vars
             PROVE  RInv'
  OBVIOUS
<1>1. IInv /\ IInv' /\ TypeOK /\ Steps /\ Positions /\ Filled /\ Users
  BY NextIInv DEF RInv, IInv
<1>2. SUFFICES Positions' /\ Filled' /\ Users'
  BY <1>1 DEF RInv
<1>3. Silence \notin Buffers /\ NoDma \notin Buffers
  BY AudioAssumption DEF Silence, NoDma, Buffers
<1>4. CASE Construct
  <2>1. put = 0 /\ get = 0 /\ cnt = 0 /\ dma = NoDma
    BY <1>1, <1>4 DEF Construct, Steps
  <2>2. PICK noise \in Blocks : buf' = [buf EXCEPT ![put] = noise]
    BY <1>4 DEF Construct
  <2>3. /\ cnt' = 1 /\ get' = 0 /\ dma' = NoDma /\ pc' = "start"
        /\ put' = Advance(0)
    <3>1. cnt' = cnt + 1 /\ UNCHANGED <<get, dma>> /\ put' = Advance(put) /\ pc' = "start"
      BY <1>4 DEF Construct
    <3> QED BY <2>1, <3>1
  <2>4. Positions'
    <3>1. put' = 1
      BY <1>1, <2>1, <2>3, Numbers DEF Advance
    <3> QED BY <1>1, <2>3, <3>1, Numbers DEF Positions
  <2>5. Filled'
    <3>1. \A i : i = 1 => Slot(i)' = 0
      BY <2>3, AudioAssumption DEF Slot
    <3>2. buf'[0] \in Blocks
      BY <1>1, <2>1, <2>2, Zero DEF TypeOK
    <3> QED BY <2>3, <3>1, <3>2 DEF Filled
  <2>6. Users'
    BY <1>3, <2>3 DEF Users, Filling
  <2> QED BY <2>4, <2>5, <2>6
<1>5. CASE Start
  <2>1. dma' = Readable(cnt, get) /\ pc' = "take" /\ UNCHANGED <<buf, put, get, cnt, writable, reg>>
    BY <1>5 DEF Start
  <2>2. Positions' /\ Filled'
    BY <1>1, <2>1 DEF Positions, Filled, Slot
  <2>3. dma' \in Buffers => dma' = get /\ cnt > 0
    BY <1>1, <1>3, <2>1, Numbers DEF Readable
  <2> QED BY <2>1, <2>2, <2>3 DEF Users, Filling
<1>6. CASE Take
  <2>1. UNCHANGED <<buf, put, get, cnt, dma, reg>>
    BY <1>6 DEF Take
  <2>2. pc' = "asleep" \/ (pc' = "process" /\ writable' = put /\ cnt # NumBuf)
    BY <1>6 DEF Take, isFull
  <2>3. Positions' /\ Filled'
    BY <1>1, <2>1, <2>2 DEF Positions, Filled, Slot
  <2>4. cnt # NumBuf => cnt < NumBuf
    BY <1>1, Numbers
  <2> QED BY <1>1, <2>1, <2>2, <2>3, <2>4 DEF Users, Filling
<1>7. CASE Process
  <2>1. /\ buf' = [buf EXCEPT ![writable] = NextBlock(block)] /\ pc' = "check"
        /\ UNCHANGED <<put, get, cnt, dma, writable, reg>>
    BY <1>7 DEF Process
  <2>2. pc = "process" /\ writable = put /\ cnt < NumBuf
    BY <1>1, <1>7 DEF Process, Users, Filling
  <2>3. Positions' /\ Users'
    BY <1>1, <2>1, <2>2 DEF Positions, Users, Filling
  <2>4. ASSUME NEW i \in 1..cnt
        PROVE  buf'[Slot(i)'] \in Blocks
    <3>1. Slot(i) \in Buffers /\ Slot(i) # put /\ Slot(i)' = Slot(i)
      BY <1>1, <2>1, <2>2, PutUnused DEF Slot
    <3>2. buf'[Slot(i)] = buf[Slot(i)]
      BY <1>1, <2>1, <2>2, <3>1 DEF TypeOK
    <3> QED BY <1>1, <3>1, <3>2 DEF Filled
  <2>5. buf'[writable'] \in Blocks
    BY <1>1, <2>1, BlockType DEF TypeOK
  <2> QED BY <2>1, <2>3, <2>4, <2>5 DEF Filled
<1>8. CASE FilledCheck \/ FilledLoad
  <2>1. /\ UNCHANGED <<buf, put, get, cnt, dma, writable>>
        /\ pc \in {"check", "load"} /\ pc' \in {"check", "load", "store"}
        /\ pc' = "store" => reg' = cnt
    BY <1>8 DEF FilledCheck, FilledLoad
  <2>2. Positions' /\ Filled'
    BY <1>1, <2>1 DEF Positions, Filled, Slot
  <2>3. Users'
    BY <1>1, <2>1 DEF Users, Filling
  <2> QED BY <2>2, <2>3
<1>9. CASE FilledStore
  <2>1. pc = "store" /\ writable = put /\ cnt < NumBuf /\ reg = cnt
    BY <1>1, <1>9 DEF FilledStore, Users, Filling
  <2>2. Byte(reg + 1) = cnt + 1
    BY <1>1, <2>1, Numbers DEF Byte
  <2>3. /\ cnt' = cnt + 1 /\ put' = Advance(put) /\ pc' = "take"
        /\ UNCHANGED <<buf, get, dma, writable, reg>>
    BY <1>9, <2>2 DEF FilledStore
  <2>4. Positions'
    BY <1>1, <2>1, <2>3, Push
  <2>5. ASSUME NEW i \in 1..(cnt + 1)
        PROVE  buf'[Slot(i)'] \in Blocks
    <3>1. Slot(i)' = Slot(i) /\ buf' = buf
      BY <2>3 DEF Slot
    <3>2. CASE i = cnt + 1
      BY <1>1, <2>1, <3>1, <3>2, PutUnused DEF Filled
    <3>3. CASE i \in 1..cnt
      BY <1>1, <3>1, <3>3 DEF Filled
    <3>4. cnt \in Nat
      BY <1>1, Numbers
    <3> QED BY <3>2, <3>3, <3>4
  <2>6. dma \in Buffers => cnt + 1 > 0
    BY <1>1, Numbers
  <2> QED BY <1>1, <2>3, <2>4, <2>5, <2>6 DEF Filled, Users, Filling
<1>10. CASE TransferEnd
  <2>1. pc \notin {"load", "store"} /\ UNCHANGED <<buf, put, writable, reg>>
    BY <1>10 DEF TransferEnd, RaceFree
  <2>2. CASE isEmpty
    BY <1>1, <1>10, <2>1, <2>2 DEF TransferEnd, Positions, Filled, Users, Filling, Slot
  <2>3. CASE ~isEmpty
    <3>1. /\ cnt' = cnt - 1 /\ get' = Advance(get)
          /\ dma' = NextPlayed /\ pc' = Woken
      BY <1>10, <2>3 DEF TransferEnd
    <3>2. cnt > 0 /\ cnt \in Nat
      BY <1>1, <2>3, Numbers DEF isEmpty
    <3>3. Positions' /\ \A i \in 1..(cnt - 1) : Slot(i)' = Slot(i + 1)
      BY <1>1, <2>1, <3>1, <3>2, Pop
    <3>4. Filled'
      <4>1. ASSUME NEW i \in 1..cnt'
            PROVE  buf'[Slot(i)'] \in Blocks
        <5>1. i \in 1..(cnt - 1) /\ i + 1 \in 1..cnt
          BY <3>1, <3>2
        <5> QED BY <1>1, <2>1, <3>3, <5>1 DEF Filled
      <4>2. pc' \in {"check", "load", "store"} => pc' = pc
        BY <3>1 DEF Woken
      <4> QED BY <1>1, <2>1, <4>1, <4>2 DEF Filled
    <3>5. dma' \in Buffers => dma' = get' /\ cnt' > 0
      BY <1>3, <3>1, <3>2 DEF NextPlayed, Readable
    <3>6. pc' \in {"process", "check", "load", "store"} => pc' = pc
      BY <3>1 DEF Woken
    <3>7. Users'
      <4>1. Filling' => Filling
        BY <3>6 DEF Filling
      <4>2. cnt < NumBuf => cnt' < NumBuf
        BY <1>1, <3>1, <3>2, Numbers
      <4> QED BY <1>1, <2>1, <3>5, <3>6, <4>1, <4>2 DEF Users
    <3> QED BY <3>3, <3>4, <3>7
  <2> QED BY <2>2, <2>3
<1>11. CASE Reboot
  <2>1. Init'
    BY <1>11 DEF Reboot, Init
  <2>2. RInv'
    BY <2>1, InitRInv, PTL
  <2> QED BY <2>2 DEF RInv
<1>12. CASE UNCHANGED vars
  BY <1>1, <1>12 DEF vars, Positions, Filled, Users, Filling, Slot
<1> QED BY <1>4, <1>5, <1>6, <1>7, <1>8, <1>9, <1>10, <1>11, <1>12 DEF Next, Writer

LEMMA RaceFreeInductive == RaceFree => (Spec => []RInv)
<1> SUFFICES ASSUME RaceFree
             PROVE  Spec => []RInv
  OBVIOUS
<1>1. Init => RInv
  BY InitRInv
<1>2. RInv /\ [Next]_vars => RInv'
  BY NextRInv
<1> QED BY <1>1, <1>2, PTL DEF Spec

\* If no interrupt falls between the load and the store of the counter, the
\* DMA never reads the buffer that the thread is filling, however late the
\* thread is.
THEOREM BuffersNotShared == RaceFree => (Spec => []NoSharedBuffer)
<1> SUFFICES ASSUME RaceFree
             PROVE  Spec => []NoSharedBuffer
  OBVIOUS
<1>1. RInv => NoSharedBuffer
  <2> SUFFICES ASSUME RInv, Filling, dma = writable
               PROVE  FALSE
    BY DEF NoSharedBuffer
  <2>1. TypeOK /\ Positions /\ cnt < NumBuf /\ writable = put
    BY DEF RInv, IInv, Users
  <2>2. dma = get /\ cnt > 0
    BY <2>1 DEF RInv, Users, TypeOK
  <2> QED BY <2>1, <2>2, PutUnused
<1> QED BY <1>1, RaceFreeInductive, PTL

-----------------------------------------------------------------------------
\* The refinement.

LEMMA ContentsType ==
    ASSUME RInv
    PROVE  Contents \in Seq(Blocks) /\ Len(Contents) = cnt
<1>1. cnt \in Nat /\ \A i \in 1..cnt : buf[Slot(i)] \in Blocks
  BY Numbers DEF RInv, IInv, Filled
<1> QED BY <1>1 DEF Contents

\* A buffer is appended.
LEMMA ContentsPush ==
    ASSUME RInv, RInv', cnt < NumBuf, NEW v \in Blocks,
           cnt' = cnt + 1, get' = get, buf' = [buf EXCEPT ![put] = v]
    PROVE  Contents' = Append(Contents, v)
<1>1. /\ Contents \in Seq(Blocks) /\ Len(Contents) = cnt /\ cnt \in Nat
      /\ Contents' \in Seq(Blocks) /\ Len(Contents') = cnt'
  <2>1. cnt' \in Nat /\ \A i \in 1..cnt' : buf'[Slot(i)'] \in Blocks
    <3>1. cnt \in Nat
      BY Numbers DEF RInv, IInv
    <3> QED BY <3>1 DEF RInv, Filled
  <2>2. Contents' \in Seq(Blocks) /\ Len(Contents') = cnt'
    BY <2>1 DEF Contents
  <2> QED BY <2>2, ContentsType, Numbers DEF RInv, IInv
<1>2. TypeOK /\ Positions
  BY DEF RInv, IInv
<1>3. \A i : Slot(i)' = Slot(i)
  BY DEF Slot
<1>4. \A i \in 1..cnt : buf'[Slot(i)'] = buf[Slot(i)]
  BY <1>2, <1>3, PutUnused DEF TypeOK
<1>5. buf'[put] = v /\ put = Slot(cnt + 1)
  BY <1>2, PutUnused DEF TypeOK
<1>6. /\ Append(Contents, v) \in Seq(Blocks)
      /\ Len(Append(Contents, v)) = cnt + 1
      /\ \A i \in 1..cnt : Append(Contents, v)[i] = Contents[i]
      /\ Append(Contents, v)[cnt + 1] = v
  BY <1>1, AppendProperties
<1>7. ASSUME NEW i \in 1..cnt'
      PROVE  Contents'[i] = Append(Contents, v)[i]
  <2>1. Contents'[i] = buf'[Slot(i)']
    BY DEF Contents
  <2>2. CASE i \in 1..cnt
    BY <1>4, <1>6, <2>1, <2>2 DEF Contents
  <2>3. CASE i = cnt + 1
    BY <1>3, <1>5, <1>6, <2>1, <2>3
  <2>4. i \in 1..cnt \/ i = cnt + 1
    BY <1>1
  <2> QED BY <2>2, <2>3, <2>4
<1>8. Len(Contents') = Len(Append(Contents, v))
  BY <1>1, <1>6
<1>9. \A i \in 1..Len(Contents') : Contents'[i] = Append(Contents, v)[i]
  BY <1>1, <1>7
<1> QED BY <1>1, <1>6, <1>8, <1>9, SeqEqual

\* The oldest buffer is removed.
LEMMA ContentsPop ==
    ASSUME RInv, RInv', cnt > 0,
           cnt' = cnt - 1, get' = Advance(get), put' = put, buf' = buf
    PROVE  /\ Contents # <<>> /\ buf[get] = Head(Contents)
           /\ Contents' = Tail(Contents)
<1>1. TypeOK /\ Positions /\ cnt \in Nat
  BY Numbers DEF RInv, IInv
<1>2. Slot(1) = get /\ \A i \in 1..(cnt - 1) : Slot(i)' = Slot(i + 1)
  BY <1>1, Pop
<1>3. /\ Contents \in Seq(Blocks) /\ Len(Contents) = cnt
      /\ Contents' \in Seq(Blocks) /\ Len(Contents') = cnt - 1
  <2>1. cnt' \in Nat /\ \A i \in 1..cnt' : buf'[Slot(i)'] \in Blocks
    BY <1>1 DEF RInv, Filled
  <2>2. Contents' \in Seq(Blocks) /\ Len(Contents') = cnt'
    BY <2>1 DEF Contents
  <2> QED BY <2>2, ContentsType
<1>4. Contents # <<>> /\ Contents[1] = buf[get]
  BY <1>1, <1>2, <1>3 DEF Contents
<1>5. /\ Tail(Contents) \in Seq(Blocks) /\ Len(Tail(Contents)) = cnt - 1
      /\ \A i \in 1..(cnt - 1) : Tail(Contents)[i] = Contents[i + 1]
  BY <1>3, <1>4, HeadTailProperties
<1>6. ASSUME NEW i \in 1..(cnt - 1)
      PROVE  Contents'[i] = Contents[i + 1]
  <2>1. i \in 1..cnt' /\ i + 1 \in 1..cnt
    BY <1>1
  <2>2. Contents'[i] = buf'[Slot(i)'] /\ Contents[i + 1] = buf[Slot(i + 1)]
    BY <2>1 DEF Contents
  <2> QED BY <1>2, <2>2
<1>7. Len(Contents') = Len(Tail(Contents))
  BY <1>3, <1>5
<1>8. \A i \in 1..Len(Contents') : Contents'[i] = Tail(Contents)[i]
  BY <1>3, <1>5, <1>6
<1>9. Contents' = Tail(Contents)
  BY <1>3, <1>5, <1>7, <1>8, SeqEqual
<1> QED BY <1>3, <1>4, <1>9

LEMMA StepRefines ==
    RInv /\ RInv' /\ [Next]_vars => [Fifo!Next \/ Restart]_<<Contents, freed>>
<1> SUFFICES ASSUME RInv, RInv', [Next]_vars
             PROVE  [Fifo!Next \/ Restart]_<<Contents, freed>>
  OBVIOUS
<1>1. TypeOK /\ Steps /\ Positions /\ Filled /\ Users /\ cnt \in Nat /\ NumBuf \in Nat
  BY Numbers DEF RInv, IInv
<1>2. Len(Contents) = cnt
  BY ContentsType
<1>3. CASE Construct
  <2>1. PICK noise \in Blocks : buf' = [buf EXCEPT ![put] = noise]
    BY <1>3 DEF Construct
  <2>2. cnt' = cnt + 1 /\ get' = get /\ freed' = freed /\ cnt = 0 /\ 0 < NumBuf
    BY <1>1, <1>3, AudioAssumption DEF Construct, Steps
  <2>3. Contents' = Append(Contents, noise) /\ Len(Contents) < NumBuf
    BY <1>2, <2>1, <2>2, ContentsPush
  <2> QED BY <2>2, <2>3 DEF Fifo!Next, Fifo!Put
<1>4. CASE Start \/ Take \/ FilledCheck \/ FilledLoad
  <2>1. UNCHANGED <<buf, get, cnt, freed>>
    BY <1>4 DEF Start, Take, FilledCheck, FilledLoad
  <2> QED BY <2>1 DEF Contents, Slot
<1>5. CASE Process
  <2>1. UNCHANGED <<get, cnt, freed>> /\ buf' = [buf EXCEPT ![put] = NextBlock(block)]
    BY <1>1, <1>5 DEF Process, Users, Filling
  <2>2. cnt < NumBuf
    BY <1>1, <1>5 DEF Process, Users, Filling
  <2>3. \A i \in 1..cnt : Slot(i)' = Slot(i) /\ buf'[Slot(i)] = buf[Slot(i)]
    BY <1>1, <2>1, <2>2, PutUnused DEF TypeOK, Slot
  <2>4. Contents' = Contents
    BY <2>1, <2>3 DEF Contents
  <2> QED BY <2>1, <2>4
<1>6. CASE FilledStore
  <2>1. writable = put /\ cnt < NumBuf /\ reg = cnt /\ buf[put] \in Blocks
    BY <1>1, <1>6 DEF FilledStore, Users, Filling, Filled
  <2>2. Byte(reg + 1) = cnt + 1
    BY <1>1, <2>1, Numbers DEF Byte
  <2>3. cnt' = cnt + 1 /\ get' = get /\ freed' = freed
    BY <1>6, <2>2 DEF FilledStore
  <2>4. buf' = [buf EXCEPT ![put] = buf[put]]
    BY <1>1, <1>6 DEF FilledStore, TypeOK
  <2>5. Contents' = Append(Contents, buf[put])
    BY <2>1, <2>3, <2>4, ContentsPush
  <2> QED BY <1>2, <2>1, <2>3, <2>5 DEF Fifo!Next, Fifo!Put
<1>7. CASE TransferEnd
  <2>1. CASE isEmpty
    BY <1>7, <2>1 DEF TransferEnd, Contents, Slot
  <2>2. CASE ~isEmpty
    <3>1. /\ cnt' = cnt - 1 /\ get' = Advance(get) /\ put' = put /\ buf' = buf
          /\ freed' = buf[get]
      BY <1>7, <2>2 DEF TransferEnd
    <3>2. cnt > 0
      BY <1>1, <2>2 DEF isEmpty
    <3> QED BY <3>1, <3>2, ContentsPop DEF Fifo!Next, Fifo!Get
  <2> QED BY <2>1, <2>2
<1>8. CASE Reboot
  BY <1>8 DEF Reboot, Restart
<1>9. CASE UNCHANGED vars
  BY <1>9 DEF vars, Contents, Slot
<1> QED BY <1>3, <1>4, <1>5, <1>6, <1>7, <1>8, <1>9 DEF Next, Writer

\* Under the same assumption the buffers between the thread and the
\* interrupt are a bounded first-in first-out queue, which a reboot empties:
\* no block is freed twice, skipped in the queue or out of order.
THEOREM BuffersAreFifo == RaceFree => (Spec => RefinesFifo)
<1> SUFFICES ASSUME RaceFree
             PROVE  Spec => RefinesFifo
  OBVIOUS
<1>1. Init => Fifo!Init
  <2> SUFFICES ASSUME Init
               PROVE  Fifo!Init
    OBVIOUS
  <2>1. Contents \in Seq(Blocks) /\ Len(Contents) = 0
    BY InitRInv, ContentsType DEF Init
  <2>2. Contents = <<>> /\ freed \notin Blocks
    BY <2>1, AudioAssumption DEF Init, Blocks
  <2> QED BY <2>2 DEF Fifo!Init
<1>2. RInv /\ RInv' /\ [Next]_vars => [Fifo!Next \/ Restart]_<<Contents, freed>>
  BY StepRefines
<1> QED BY <1>1, <1>2, RaceFreeInductive, PTL DEF Spec, RefinesFifo

-----------------------------------------------------------------------------
\* The sequence that is played.

\* bufferFilled has still to count the buffer that was just written.
Counting == pc \in {"check", "load", "store"}

\* The buffers in use hold blocks in the order they were computed, and the last
\* block computed is in the newest of them or in the one just written.
Sequel ==
    /\ \A i \in 1..(cnt - 1) : buf[Slot(i + 1)] = NextBlock(buf[Slot(i)])
    /\ Counting => buf[writable] = block
    /\ cnt > 0 => block = IF Counting THEN NextBlock(buf[Slot(cnt)]) ELSE buf[Slot(cnt)]

\* Blocks stay where they are while the thread writes beyond them.
LEMMA SequelKept ==
    ASSUME RInv, Sequel, cnt' = cnt, get' = get,
           buf' = buf \/ (cnt < NumBuf /\ \E v : buf' = [buf EXCEPT ![put] = v])
    PROVE  /\ \A i \in 1..(cnt' - 1) : buf'[Slot(i + 1)'] = NextBlock(buf'[Slot(i)'])
           /\ cnt > 0 => buf'[Slot(cnt)'] = buf[Slot(cnt)]
<1>1. TypeOK /\ Positions /\ cnt \in Nat
  BY Numbers DEF RInv, IInv
<1>2. \A i : Slot(i)' = Slot(i)
  BY DEF Slot
<1>3. \A i \in 1..cnt : buf'[Slot(i)] = buf[Slot(i)]
  BY <1>1, PutUnused DEF TypeOK
<1>4. \A i \in 1..(cnt - 1) : i \in 1..cnt /\ i + 1 \in 1..cnt
  BY <1>1
<1>5. cnt > 0 => cnt \in 1..cnt
  BY <1>1
<1>6. Slot(cnt)' = Slot(cnt)
  BY DEF Slot
<1>7. \A i \in 1..(cnt - 1) : buf[Slot(i + 1)] = NextBlock(buf[Slot(i)])
  BY DEF Sequel
<1>8. \A i \in 1..(cnt' - 1) : buf'[Slot(i + 1)'] = NextBlock(buf'[Slot(i)'])
  <2> SUFFICES ASSUME NEW i \in 1..(cnt' - 1)
               PROVE  buf'[Slot(i + 1)'] = NextBlock(buf'[Slot(i)'])
    OBVIOUS
  <2>1. i \in 1..(cnt - 1)
    OBVIOUS
  <2>2. buf'[Slot(i + 1)] = buf[Slot(i + 1)] /\ buf'[Slot(i)] = buf[Slot(i)]
    BY <1>3, <1>4, <2>1
  <2>3. Slot(i + 1)' = Slot(i + 1) /\ Slot(i)' = Slot(i)
    BY <1>2
  <2> QED BY <1>7, <2>1, <2>2, <2>3
<1> QED BY <1>3, <1>5, <1>6, <1>8

LEMMA NextSequel == RaceFree /\ RInv /\ RInv' /\ Sequel /\ [Next]_vars => Sequel'
<1> SUFFICES ASSUME RaceFree, RInv, RInv', Sequel, [Next]_vars
             PROVE  Sequel'
  OBVIOUS
<1>1. TypeOK /\ Steps /\ Positions /\ Users /\ cnt \in Nat
  BY Numbers DEF RInv, IInv
<1>2. CASE Construct
  <2>1. cnt' = 1 /\ pc' = "start" /\ get' = 0 /\ put = 0
    BY <1>1, <1>2 DEF Construct, Steps
  <2>2. PICK noise \in Blocks : buf' = [buf EXCEPT ![put] = noise] /\ block' = noise
    BY <1>2 DEF Construct
  <2>3. Slot(cnt)' = 0
    BY <2>1, AudioAssumption DEF Slot
  <2>4. buf'[0] = block'
    BY <1>1, <2>1, <2>2, Zero DEF TypeOK
  <2> QED BY <2>1, <2>3, <2>4 DEF Sequel, Counting
<1>3. CASE Start \/ Take
  <2>1. UNCHANGED <<buf, get, cnt, block>> /\ ~Counting /\ ~Counting'
    BY <1>3 DEF Start, Take, Counting
  <2> QED BY <2>1, SequelKept DEF Sequel
<1>4. CASE Process
  <2>1. /\ buf' = [buf EXCEPT ![put] = NextBlock(block)] /\ block' = NextBlock(block)
        /\ UNCHANGED <<get, cnt, writable>> /\ ~Counting /\ Counting'
        /\ cnt < NumBuf /\ writable = put
    BY <1>1, <1>4 DEF Process, Users, Filling, Counting
  <2>2. buf'[writable'] = block'
    BY <1>1, <2>1 DEF TypeOK
  <2> QED BY <2>1, <2>2, SequelKept DEF Sequel
<1>5. CASE FilledCheck \/ FilledLoad
  <2>1. UNCHANGED <<buf, get, cnt, block, writable>> /\ Counting /\ Counting'
    BY <1>5 DEF FilledCheck, FilledLoad, Counting
  <2> QED BY <2>1, SequelKept DEF Sequel
<1>6. CASE FilledStore
  <2>1. Counting /\ writable = put /\ cnt < NumBuf /\ reg = cnt
    BY <1>1, <1>6 DEF FilledStore, Users, Filling, Counting
  <2>2. Byte(reg + 1) = cnt + 1
    BY <1>1, <2>1, Numbers DEF Byte
  <2>3. cnt' = cnt + 1 /\ UNCHANGED <<buf, get, block>> /\ ~Counting'
    BY <1>6, <2>2 DEF FilledStore, Counting
  <2>4. Slot(cnt + 1) = put /\ buf[put] = block
    BY <1>1, <2>1, PutUnused DEF Sequel
  <2>5. Slot(cnt)' = put
    BY <2>3, <2>4 DEF Slot
  <2>6. ASSUME NEW i \in 1..cnt
        PROVE  buf'[Slot(i + 1)'] = NextBlock(buf'[Slot(i)'])
    <3>1. Slot(i + 1)' = Slot(i + 1) /\ Slot(i)' = Slot(i)
      BY <2>3 DEF Slot
    <3>2. CASE i = cnt
      BY <1>1, <2>1, <2>3, <2>4, <3>1, <3>2 DEF Sequel
    <3>3. CASE i # cnt
      <4>1. i \in 1..(cnt - 1)
        BY <1>1, <3>3
      <4> QED BY <2>3, <3>1, <4>1 DEF Sequel
    <3> QED BY <3>2, <3>3
  <2>7. cnt' - 1 = cnt
    BY <1>1, <2>3
  <2> QED BY <2>3, <2>4, <2>5, <2>6, <2>7 DEF Sequel
<1>7. CASE TransferEnd
  <2>1. UNCHANGED <<buf, put, block, writable>>
    BY <1>7 DEF TransferEnd
  <2>2. CASE isEmpty
    <3>1. UNCHANGED <<get, cnt, pc>>
      BY <1>7, <2>2 DEF TransferEnd
    <3> QED BY <2>1, <3>1, SequelKept DEF Sequel, Counting
  <2>3. CASE ~isEmpty
    <3>1. cnt' = cnt - 1 /\ get' = Advance(get) /\ pc' = Woken /\ cnt > 0
      BY <1>1, <1>7, <2>3 DEF TransferEnd, isEmpty
    <3>2. Counting' = Counting
      BY <3>1 DEF Woken, Counting
    <3>3. \A i \in 1..(cnt - 1) : Slot(i)' = Slot(i + 1)
      BY <1>1, <2>1, <3>1, Pop
    <3>4. ASSUME NEW i \in 1..(cnt' - 1)
          PROVE  buf'[Slot(i + 1)'] = NextBlock(buf'[Slot(i)'])
      <4>1. i \in 1..(cnt - 1) /\ i + 1 \in 1..(cnt - 1)
        BY <1>1, <3>1
      <4>2. Slot(i)' = Slot(i + 1) /\ Slot(i + 1)' = Slot((i + 1) + 1)
        BY <3>3, <4>1
      <4> QED BY <2>1, <4>1, <4>2 DEF Sequel
    <3>5. cnt' > 0 => Slot(cnt)' = Slot(cnt)
      <4>1. SUFFICES ASSUME cnt > 1
                     PROVE  Slot(cnt)' = Slot(cnt)
        BY <1>1, <3>1
      <4>2. PICK k \in 1..(cnt - 1) : k = cnt - 1
        BY <1>1, <4>1
      <4>3. Slot(k)' = Slot(k + 1) /\ k + 1 = cnt
        BY <1>1, <3>3, <4>2
      <4>4. Slot(cnt)' = Slot(k)'
        BY <3>1, <4>2 DEF Slot
      <4> QED BY <4>3, <4>4
    <3>6. cnt' > 0 => cnt > 0
      BY <3>1
    <3> QED BY <2>1, <3>2, <3>4, <3>5, <3>6 DEF Sequel
  <2> QED BY <2>2, <2>3
<1>8. CASE Reboot
  BY <1>8 DEF Reboot, Sequel, Counting
<1>9. CASE UNCHANGED vars
  BY <1>9, SequelKept DEF vars, Sequel, Counting
<1> QED BY <1>2, <1>3, <1>4, <1>5, <1>6, <1>7, <1>8, <1>9 DEF Next, Writer

\* A transfer that ends is followed by the next older buffer.
LEMMA FollowsOn ==
    ASSUME RInv, Sequel, TransferEnd, dma \in Buffers, cnt > 1
    PROVE  dma' \in Buffers /\ buf[dma'] = NextBlock(buf[dma])
<1>1. TypeOK /\ Positions /\ Users /\ cnt \in Nat
  BY Numbers DEF RInv, IInv
<1>2. dma = get
  BY <1>1 DEF Users
<1>3. dma' = Advance(get) /\ Advance(get) \in Buffers
  BY <1>1, AdvanceType DEF TransferEnd, isEmpty, NextPlayed, Readable, TypeOK
<1>4. Slot(1) = get /\ Slot(1 + 1) = Advance(get)
  BY <1>1, Numbers DEF Slot, Advance
<1>5. 1 \in 1..(cnt - 1)
  BY <1>1
<1> QED BY <1>2, <1>3, <1>4, <1>5 DEF Sequel

\* Under the same assumption, whenever a second buffer is filled when a transfer
\* ends, that buffer follows, and it holds the block computed after the one just
\* played: no repetition, gap or silence inside what is played.
THEOREM PlayedInOrder == RaceFree => (Spec => Gapless)
<1> SUFFICES ASSUME RaceFree
             PROVE  Spec => Gapless
  OBVIOUS
<1>1. Init => Sequel
  <2>1. Init => cnt = 0 /\ pc = "boot"
    BY DEF Init
  <2> QED BY <2>1 DEF Sequel, Counting
<1>2. RInv /\ RInv' /\ Sequel /\ [Next]_vars => Sequel'
  BY NextSequel
<1>3. RInv /\ Sequel /\ [Next]_vars
        => [TransferEnd /\ dma \in Buffers /\ cnt > 1 =>
               dma' \in Buffers /\ buf[dma'] = NextBlock(buf[dma])]_vars
  BY FollowsOn
<1> QED BY <1>1, <1>2, <1>3, RaceFreeInductive, PTL DEF Spec, Gapless

=============================================================================
