------------------------ MODULE MidiPipeline_proofs ------------------------
(***************************************************************************)
(* The MIDI pipeline for buffers of any size.  First the circular buffer:  *)
(* what pop and push do to the sequence of its elements.  Then the         *)
(* pipeline: the notes between the two threads are a queue that loses only *)
(* the oldest; the parser is in step again after three whole messages;     *)
(* and once the notes are processed the gate is where the keyboard wants   *)
(* it.                                                                     *)
(***************************************************************************)
EXTENDS MidiPipeline, SequenceTheorems, TLAPS

-----------------------------------------------------------------------------
\* CircularBuffer.

LEMMA Fields ==
    ASSUME NEW E, NEW b \in Buffer(E)
    PROVE  /\ b \in [slots : [Positions -> E \cup {Unset}], head : Positions,
                     tail : Positions, size : 0..BufferSize]
           /\ b.slots \in [Positions -> E \cup {Unset}]
           /\ b.head \in 0..(BufferSize - 1) /\ b.tail \in 0..(BufferSize - 1)
           /\ b.size \in 0..BufferSize /\ BufferSize \in Nat \ {0, 1}
           /\ After(b.tail) = (IF b.head + b.size < BufferSize THEN b.head + b.size
                               ELSE b.head + b.size - BufferSize)
           /\ \A i \in 1..b.size : b.slots[Position(b, i)] \in E
BY BufferAssumption DEF Buffer, Positions

LEMMA PositionType ==
    ASSUME NEW E, NEW b \in Buffer(E), NEW i \in 1..BufferSize
    PROVE  Position(b, i) \in Positions
BY Fields DEF Position, Positions

LEMMA AfterType == ASSUME NEW i \in Positions PROVE After(i) \in Positions
BY BufferAssumption DEF After, Positions

LEMMA ContentsType ==
    ASSUME NEW E, NEW b \in Buffer(E)
    PROVE  Contents(b) \in Seq(E) /\ Len(Contents(b)) = b.size
<1>1. b.size \in Nat /\ \A i \in 1..b.size : b.slots[Position(b, i)] \in E
  BY Fields
<1> QED BY <1>1 DEF Contents

LEMMA NewBufferType ==
    ASSUME NEW E
    PROVE  NewBuffer \in Buffer(E) /\ Contents(NewBuffer) = <<>>
<1>1. /\ NewBuffer.slots \in [Positions -> E \cup {Unset}]
      /\ NewBuffer.head = 1 /\ NewBuffer.tail = 0 /\ NewBuffer.size = 0
  BY DEF NewBuffer
<1>2. 0 \in Positions /\ 1 \in Positions /\ 0 \in 0..BufferSize /\ 1 < BufferSize
  BY BufferAssumption DEF Positions
<1>3. NewBuffer \in [slots : [Positions -> E \cup {Unset}], head : Positions,
                     tail : Positions, size : 0..BufferSize]
  BY <1>2 DEF NewBuffer
<1>4. After(0) = 1
  BY BufferAssumption DEF After
<1>5. NewBuffer \in Buffer(E)
  BY <1>1, <1>2, <1>3, <1>4 DEF Buffer
<1>6. Contents(NewBuffer) \in Seq(E) /\ Len(Contents(NewBuffer)) = 0
  BY <1>1, <1>5, ContentsType
<1> QED BY <1>5, <1>6, EmptySeq

\* pop takes the oldest element.
LEMMA PopTakesOldest ==
    ASSUME NEW E, NEW b \in Buffer(E), b.size > 0
    PROVE  /\ pop(b) \in Buffer(E)
           /\ pop(b).size = b.size - 1 /\ pop(b).tail = b.tail /\ pop(b).slots = b.slots
           /\ front(b) \in E
           /\ Contents(b) # <<>>
           /\ front(b) = Head(Contents(b))
           /\ Contents(pop(b)) = Tail(Contents(b))
<1> DEFINE r == [slots |-> b.slots, head |-> After(b.head), tail |-> b.tail,
                 size |-> b.size - 1]
<1>1. pop(b) = r
  BY DEF pop
<1>2. r.slots = b.slots /\ r.head = After(b.head) /\ r.tail = b.tail /\ r.size = b.size - 1
  OBVIOUS
<1> HIDE DEF r
<1>3. ASSUME NEW i \in 1..(b.size - 1)
      PROVE  Position(r, i) = Position(b, i + 1) /\ i + 1 \in 1..b.size
  BY Fields, <1>2 DEF Position, After
<1>4. r \in Buffer(E)
  <2>1. r \in [slots : [Positions -> E \cup {Unset}], head : Positions,
               tail : Positions, size : 0..BufferSize]
    <3>1. After(b.head) \in Positions /\ b.size - 1 \in 0..BufferSize /\ b.tail \in Positions
      BY Fields, AfterType DEF Positions
    <3> QED BY <3>1, Fields DEF r
  <2>2. After(r.tail) = (IF r.head + r.size < BufferSize THEN r.head + r.size
                         ELSE r.head + r.size - BufferSize)
    <3>1. CASE b.head + 1 = BufferSize
      BY Fields, <1>2, <3>1 DEF After
    <3>2. CASE b.head + 1 # BufferSize
      BY Fields, <1>2, <3>2 DEF After
    <3> QED BY <3>1, <3>2
  <2>3. \A i \in 1..r.size : r.slots[Position(r, i)] \in E
    BY Fields, <1>2, <1>3
  <2> QED BY <2>1, <2>2, <2>3 DEF Buffer
<1>5. /\ Contents(b) \in Seq(E) /\ Len(Contents(b)) = b.size
      /\ Contents(r) \in Seq(E) /\ Len(Contents(r)) = b.size - 1
  BY <1>2, <1>4, ContentsType
<1>6. Contents(b) # <<>> /\ Head(Contents(b)) = front(b) /\ front(b) \in E
  <2>1. Position(b, 1) = b.head /\ 1 \in 1..b.size
    BY Fields DEF Position
  <2>2. Contents(b)[1] = front(b) /\ front(b) \in E
    BY Fields, <2>1 DEF Contents, front
  <2> QED BY <1>5, <2>2
<1>7. /\ Tail(Contents(b)) \in Seq(E) /\ Len(Tail(Contents(b))) = b.size - 1
      /\ \A i \in 1..(b.size - 1) : Tail(Contents(b))[i] = Contents(b)[i + 1]
  BY <1>5, <1>6, HeadTailProperties
<1>8. ASSUME NEW i \in 1..(b.size - 1)
      PROVE  Contents(r)[i] = Contents(b)[i + 1]
  BY <1>2, <1>3 DEF Contents
<1>9. Contents(r) = Tail(Contents(b))
  BY <1>5, <1>7, <1>8, SeqEqual
<1> QED BY <1>1, <1>2, <1>4, <1>6, <1>9

\* An element is stored after the newest one.
LEMMA StoreAppends ==
    ASSUME NEW E, NEW b \in Buffer(E), NEW item \in E, b.size < BufferSize,
           NEW r, r = store(b, item)
    PROVE  /\ r \in Buffer(E)
           /\ r.size = b.size + 1 /\ r.slots[r.tail] = item
           /\ Contents(r) = Append(Contents(b), item)
<1>1. /\ r = [slots |-> [b.slots EXCEPT ![After(b.tail)] = item], head |-> b.head,
              tail |-> After(b.tail), size |-> b.size + 1]
  BY DEF store
<1>2. /\ r.slots = [b.slots EXCEPT ![After(b.tail)] = item] /\ r.head = b.head
      /\ r.tail = After(b.tail) /\ r.size = b.size + 1
  BY <1>1
<1>3. After(b.tail) \in Positions /\ Position(b, b.size + 1) = After(b.tail)
  BY Fields DEF Position, Positions
<1>4. ASSUME NEW i \in 1..b.size
      PROVE  Position(b, i) # After(b.tail) /\ Position(b, i) \in Positions
  BY SMTT(20), Fields, <1>3 DEF Position, Positions
<1>5. \A i : Position(r, i) = Position(b, i)
  BY <1>2 DEF Position
<1>6. r.slots[After(b.tail)] = item
  BY Fields, <1>2, <1>3
<1>7. \A i \in 1..b.size : r.slots[Position(r, i)] = b.slots[Position(b, i)]
  BY Fields, <1>2, <1>4, <1>5
<1>8. r \in Buffer(E)
  <2>1. r \in [slots : [Positions -> E \cup {Unset}], head : Positions,
               tail : Positions, size : 0..BufferSize]
    <3>1. [b.slots EXCEPT ![After(b.tail)] = item] \in [Positions -> E \cup {Unset}]
      BY Fields
    <3>2. b.size + 1 \in 0..BufferSize /\ b.head \in Positions
      BY Fields DEF Positions
    <3> QED BY <1>1, <1>3, <3>1, <3>2
  <2>2. After(r.tail) = (IF r.head + r.size < BufferSize THEN r.head + r.size
                         ELSE r.head + r.size - BufferSize)
    <3> DEFINE t == After(b.tail)
    <3>1. t = IF b.head + b.size < BufferSize THEN b.head + b.size
              ELSE b.head + b.size - BufferSize
      BY Fields
    <3>2. r.tail = t
      BY <1>2
    <3> HIDE DEF t
    <3>3. After(t) = IF t + 1 = BufferSize THEN 0 ELSE t + 1
      BY DEF After
    <3> QED BY Fields, <1>2, <3>1, <3>2, <3>3
  <2>3. \A i \in 1..r.size : r.slots[Position(r, i)] \in E
    <3>1. \A i \in 1..r.size : i \in 1..b.size \/ i = b.size + 1
      BY Fields, <1>2
    <3> QED BY Fields, <1>3, <1>5, <1>6, <1>7, <3>1
  <2> QED BY <2>1, <2>2, <2>3 DEF Buffer
<1>9. /\ Contents(b) \in Seq(E) /\ Len(Contents(b)) = b.size
      /\ Contents(r) \in Seq(E) /\ Len(Contents(r)) = b.size + 1
      /\ b.size \in Nat
  BY Fields, <1>2, <1>8, ContentsType
<1>10. /\ Append(Contents(b), item) \in Seq(E)
       /\ Len(Append(Contents(b), item)) = b.size + 1
       /\ \A i \in 1..b.size : Append(Contents(b), item)[i] = Contents(b)[i]
       /\ Append(Contents(b), item)[b.size + 1] = item
  BY <1>9, AppendProperties
<1>11. ASSUME NEW i \in 1..(b.size + 1)
       PROVE  Contents(r)[i] = Append(Contents(b), item)[i]
  <2>1. Contents(r)[i] = r.slots[Position(r, i)]
    BY <1>2 DEF Contents
  <2>2. CASE i \in 1..b.size
    BY <1>7, <1>10, <2>1, <2>2 DEF Contents
  <2>3. CASE i = b.size + 1
    BY <1>3, <1>5, <1>6, <1>10, <2>1, <2>3
  <2>4. i \in 1..b.size \/ i = b.size + 1
    BY <1>9
  <2> QED BY <2>2, <2>3, <2>4
<1>12. Contents(r) = Append(Contents(b), item)
  BY <1>9, <1>10, <1>11, SeqEqual
<1> QED BY <1>2, <1>6, <1>8, <1>12

\* push overwrites the oldest element when there is no room.
LEMMA PushOverwrites ==
    ASSUME NEW E, NEW b \in Buffer(E), NEW item \in E
    PROVE  /\ push(b, item) \in Buffer(E)
           /\ push(b, item).size > 0
           /\ push(b, item).slots[push(b, item).tail] = item
           /\ Contents(push(b, item)) =
                Append(IF Len(Contents(b)) = BufferSize THEN Tail(Contents(b))
                       ELSE Contents(b), item)
<1> DEFINE k == IF b.size = BufferSize THEN pop(b) ELSE b
<1>1. /\ k \in Buffer(E) /\ k.size < BufferSize /\ k.size >= 0
      /\ Contents(k) = IF Len(Contents(b)) = BufferSize THEN Tail(Contents(b))
                       ELSE Contents(b)
  <2>1. CASE b.size = BufferSize
    <3>1. b.size > 0 /\ b.size - 1 < BufferSize /\ b.size - 1 >= 0
      BY Fields, <2>1
    <3> QED BY <2>1, <3>1, PopTakesOldest, ContentsType
  <2>2. CASE b.size # BufferSize
    <3>1. b.size < BufferSize /\ b.size >= 0
      BY Fields, <2>2
    <3> QED BY <2>2, <3>1, ContentsType
  <2> QED BY <2>1, <2>2
<1>2. push(b, item) = store(k, item)
  BY DEF push
<1> HIDE DEF k
<1>3. k.size \in Nat
  BY <1>1, Fields
<1> QED BY SMTT(20), <1>1, <1>2, <1>3, StoreAppends

-----------------------------------------------------------------------------
\* Types.  A note that is popped was pushed, and has a type.

TInv ==
    /\ TypeOK
    /\ pc = "pop" => noteMessageBuffer.size > 0
    /\ pc = "gate" => note \in MidiNotes
    /\ state \in {"NOTE_DATA1", "NOTE_DATA2"} \/ lastState = "NOTE_DATA2"
          => currentType # Unset

\* What a byte does to the parser.
LEMMA Parsed ==
    ASSUME TInv, NEW byte \in Bytes, parseByte(byte)
    PROVE  /\ state' \in States /\ lastState' \in {"STATUS", "NOTE_DATA2", "CC_DATA2"}
           /\ currentType' \in {"on", "off", Unset}
           /\ state' \in {"NOTE_DATA1", "NOTE_DATA2"} \/ lastState' = "NOTE_DATA2"
                 => currentType' # Unset
           /\ noteMessageBuffer' \in Buffer(MidiNotes)
           /\ noteMessageBuffer.size > 0 => noteMessageBuffer'.size > 0
           /\ \/ noteMessageBuffer' = noteMessageBuffer
              \/ /\ state = "NOTE_DATA2" /\ currentType \in {"on", "off"}
                 /\ [msgType |-> currentType, velocity |-> byte # "zero"] \in MidiNotes
                 /\ noteMessageBuffer' =
                        push(noteMessageBuffer,
                             [msgType |-> currentType, velocity |-> byte # "zero"])
<1> USE DEF TInv, TypeOK
<1>0. "on" # Unset /\ "off" # Unset
  BY MidiAssumption DEF Bytes, Statuses
<1>1. CASE parseStatus(byte)
  BY <1>0, <1>1 DEF parseStatus, Running, States
<1>2. CASE parseData1(byte)
  BY <1>2 DEF parseData1, Running, States
<1>3. CASE parseNote(byte)
  <2>1. currentType \in {"on", "off"}
    BY <1>3 DEF parseNote
  <2>2. [msgType |-> currentType, velocity |-> byte # "zero"] \in MidiNotes
    BY <2>1 DEF MidiNotes
  <2>3. noteMessageBuffer' = push(noteMessageBuffer,
                                  [msgType |-> currentType, velocity |-> byte # "zero"])
    BY <1>3 DEF parseNote
  <2>4. noteMessageBuffer' \in Buffer(MidiNotes) /\ noteMessageBuffer'.size > 0
    BY <2>2, <2>3, PushOverwrites
  <2>5. state = "NOTE_DATA2" /\ state' = "STATUS" /\ lastState' = "NOTE_DATA2" /\ UNCHANGED currentType
    BY <1>3 DEF parseNote
  <2> QED BY <1>0, <2>1, <2>2, <2>3, <2>4, <2>5 DEF States
<1>4. CASE parseCC(byte)
  BY <1>4 DEF parseCC, States
<1> QED BY <1>1, <1>2, <1>3, <1>4 DEF parseByte

LEMMA InitTInv == Init => TInv
<1> SUFFICES ASSUME Init
             PROVE  TInv
  OBVIOUS
<1>1. noteMessageBuffer \in Buffer(MidiNotes)
  BY NewBufferType DEF Init
<1>2. /\ state \in States /\ lastState \in {"STATUS", "NOTE_DATA2", "CC_DATA2"}
      /\ currentType \in {"on", "off", Unset}
      /\ state \notin {"NOTE_DATA1", "NOTE_DATA2"} /\ lastState # "NOTE_DATA2"
  BY DEF Init, States
<1>3. pc \in {"check", "pop", "gate"} /\ pc \notin {"pop", "gate"} /\ note \in MidiNotes \cup {Unset}
  BY DEF Init
<1>4. gate \in BOOLEAN /\ whole \in BOOLEAN /\ wanted \in BOOLEAN \cup {Unset}
  BY DEF Init
<1>5. kind \in Statuses \cup {"other"} /\ left \in 0..2 /\ good \in 0..Recovery
  BY MidiAssumption DEF Init
<1> QED BY <1>1, <1>2, <1>3, <1>4, <1>5 DEF TInv, TypeOK

\* The keyboard's part of a step.
KeyboardType ==
    /\ kind \in Statuses \cup {"other"} /\ left \in 0..2
    /\ whole \in BOOLEAN /\ good \in 0..Recovery
    /\ wanted \in BOOLEAN \cup {Unset}

LEMMA MisledType ==
    ASSUME Misled
    PROVE  whole' \in BOOLEAN /\ good' \in 0..Recovery /\ wanted' \in BOOLEAN \cup {Unset}
<1>1. good' \in 0..Recovery
  <2>1. good' = 0
    BY DEF Misled
  <2> QED BY <2>1, MidiAssumption
<1>2. wanted' \in BOOLEAN \cup {Unset}
  BY DEF Misled
<1>3. whole' \in BOOLEAN
  BY DEF Misled
<1> QED BY <1>1, <1>2, <1>3

LEMMA SendSteps ==
    ASSUME TInv,
           \/ \E k \in Statuses : SendStatus(k)
           \/ \E byte \in Data : SendData(byte)
           \/ \E byte \in Data \cup {"other"} : SendOther(byte)
           \/ SendRealTime
    PROVE  /\ KeyboardType'
           /\ UNCHANGED processing
           /\ UNCHANGED parser \/ \E byte \in Bytes : parseByte(byte)
<1>0. KeyboardType
  BY DEF TInv, TypeOK, KeyboardType
<1> DEFINE Kept == /\ kind' \in Statuses \cup {"other"} /\ left' \in 0..2
                      /\ UNCHANGED processing
           Trusted == /\ whole' \in BOOLEAN /\ good' \in 0..Recovery
                      /\ wanted' \in BOOLEAN \cup {Unset}
           Parses == UNCHANGED parser \/ \E byte \in Bytes : parseByte(byte)
<1>1. ASSUME NEW k \in Statuses, SendStatus(k)
      PROVE  Kept /\ Trusted /\ Parses
  <2>1. Kept
    BY <1>1 DEF SendStatus
  <2>2. k \in Bytes
    BY DEF Bytes
  <2>3. Lost => Trusted /\ UNCHANGED parser
    BY MisledType DEF Lost
  <2>4. whole' = TRUE /\ UNCHANGED <<good, wanted>> => Trusted
    BY <1>0 DEF KeyboardType
  <2> HIDE DEF Kept, Trusted
  <2> QED BY <1>1, <2>1, <2>2, <2>3, <2>4 DEF SendStatus
<1>2. ASSUME NEW byte \in Data, SendData(byte)
      PROVE  Kept /\ Trusted /\ Parses
  <2>1. Kept
    BY <1>0, <1>2 DEF SendData, KeyboardType
  <2>2. byte \in Bytes
    BY DEF Bytes
  <2>3. Lost => Trusted /\ UNCHANGED parser
    BY MisledType DEF Lost
  <2>4. ASSUME Whole(byte)
        PROVE  Trusted
    <3>1. whole' \in BOOLEAN
      BY <2>4 DEF Whole
    <3>2. good' \in 0..Recovery
      BY <1>0, <2>4, MidiAssumption DEF Whole, KeyboardType
    <3>3. wanted' = wanted \/ wanted' = (kind = "on" /\ byte = "some")
      BY <2>4, Zenon DEF Whole
    <3>4. wanted' \in BOOLEAN \cup {Unset}
      BY <1>0, <3>3 DEF KeyboardType
    <3> QED BY <3>1, <3>2, <3>4
  <2>5. UNCHANGED <<whole, good, wanted>> => Trusted
    BY <1>0 DEF KeyboardType
  <2> HIDE DEF Kept, Trusted
  <2> QED BY <1>2, <2>1, <2>2, <2>3, <2>4, <2>5 DEF SendData
<1>3. ASSUME NEW byte \in Data \cup {"other"}, SendOther(byte)
      PROVE  Kept /\ Trusted /\ Parses
  <2>1. Kept
    BY <1>0, <1>3 DEF SendOther, KeyboardType
  <2>2. byte \in Bytes
    BY DEF Bytes
  <2>3. Misled => Trusted
    BY MisledType
  <2> HIDE DEF Kept, Trusted
  <2> QED BY <1>3, <2>1, <2>2, <2>3 DEF SendOther, Lost
<1>4. ASSUME SendRealTime
      PROVE  Kept /\ Trusted /\ Parses
  <2>1. Kept
    BY <1>0, <1>4 DEF SendRealTime, KeyboardType
  <2>2. "other" \in Bytes
    BY DEF Bytes
  <2>3. Misled => Trusted
    BY MisledType
  <2>4. UNCHANGED <<whole, good, wanted>> => Trusted
    BY <1>0 DEF KeyboardType
  <2> HIDE DEF Kept, Trusted
  <2> QED BY <1>4, <2>1, <2>2, <2>3, <2>4 DEF SendRealTime
<1> QED BY <1>1, <1>2, <1>3, <1>4 DEF KeyboardType

LEMMA PopStep ==
    ASSUME TInv, popNote
    PROVE  /\ noteMessageBuffer.size > 0 /\ note' \in MidiNotes
           /\ noteMessageBuffer' = pop(noteMessageBuffer) /\ noteMessageBuffer' \in Buffer(MidiNotes)
           /\ Contents(noteMessageBuffer) # <<>>
           /\ note' = Head(Contents(noteMessageBuffer))
           /\ Contents(noteMessageBuffer)' = Tail(Contents(noteMessageBuffer))
           /\ noteMessageBuffer'.size = noteMessageBuffer.size - 1
           /\ noteMessageBuffer'.tail = noteMessageBuffer.tail
           /\ noteMessageBuffer'.slots = noteMessageBuffer.slots
<1>1. /\ noteMessageBuffer \in Buffer(MidiNotes) /\ noteMessageBuffer.size > 0
      /\ noteMessageBuffer' = pop(noteMessageBuffer) /\ note' = front(noteMessageBuffer)
  BY DEF popNote, TInv, TypeOK
<1>2. Contents(noteMessageBuffer)' = Contents(noteMessageBuffer')
  BY DEF Contents, Position
<1> QED BY <1>1, <1>2, PopTakesOldest

LEMMA NextTInv == TInv /\ [Next]_vars => TInv'
<1> SUFFICES ASSUME TInv, [Next]_vars
             PROVE  TInv'
  OBVIOUS
<1>1. CASE \/ \E k \in Statuses : SendStatus(k)
           \/ \E byte \in Data : SendData(byte)
           \/ \E byte \in Data \cup {"other"} : SendOther(byte)
           \/ SendRealTime
  <2>1. KeyboardType' /\ UNCHANGED processing
    BY <1>1, SendSteps
  <2>2. CASE UNCHANGED parser
    BY <2>1, <2>2 DEF TInv, TypeOK, KeyboardType, processing, parser
  <2>3. ASSUME NEW byte \in Bytes, parseByte(byte)
        PROVE  TInv'
    BY <2>1, <2>3, Parsed DEF TInv, TypeOK, KeyboardType, processing
  <2> QED BY <1>1, <2>2, <2>3, SendSteps
<1>2. CASE Check
  <2>1. noteMessageBuffer.size > 0
    BY <1>2, Fields DEF Check, empty, TInv, TypeOK
  <2> QED BY <1>2, <2>1 DEF Check, TInv, TypeOK, parser, keyboard
<1>3. CASE popNote
  BY <1>3, PopStep DEF popNote, TInv, TypeOK, keyboard
<1>4. CASE setGate
  <2>1. Sounds(note) \in BOOLEAN
    BY <1>4 DEF setGate, TInv, Sounds, MidiNotes
  <2> QED BY <1>4, <2>1 DEF setGate, TInv, TypeOK, parser, keyboard
<1>5. CASE UNCHANGED vars
  BY <1>5 DEF vars, TInv, TypeOK, parser, processing, keyboard
<1> QED BY <1>1, <1>2, <1>3, <1>4, <1>5 DEF Next, midiProcessing

LEMMA TypeInductive == Spec => []TInv
<1>1. Init => TInv
  BY InitTInv
<1>2. TInv /\ [Next]_vars => TInv'
  BY NextTInv
<1> QED BY <1>1, <1>2, PTL DEF Spec

\* Every variable keeps its type, for buffers of any size: positions stay in
\* range, and no note without a type is ever pushed.
THEOREM TypeCorrect == Spec => []TypeOK
<1>1. TInv => TypeOK
  BY DEF TInv
<1> QED BY <1>1, TypeInductive, PTL

-----------------------------------------------------------------------------
\* The notes between the two threads are a queue.

LEMMA StepRefines ==
    ASSUME TInv, TInv', [Next]_vars
    PROVE  [Notes!Next]_<<Contents(noteMessageBuffer), note>>
<1> DEFINE q == Contents(noteMessageBuffer)
<1>0. noteMessageBuffer \in Buffer(MidiNotes)
  BY DEF TInv, TypeOK
<1>1. UNCHANGED noteMessageBuffer => q' = q
  BY DEF Contents, Position
<1>2. CASE \/ \E k \in Statuses : SendStatus(k)
           \/ \E byte \in Data : SendData(byte)
           \/ \E byte \in Data \cup {"other"} : SendOther(byte)
           \/ SendRealTime
  <2>1. note' = note
    BY <1>2, SendSteps DEF processing
  <2>2. CASE UNCHANGED noteMessageBuffer
    BY <1>1, <2>1, <2>2
  <2>3. ASSUME NEW v \in MidiNotes, noteMessageBuffer' = push(noteMessageBuffer, v)
        PROVE  Notes!Next
    <3>1. q' = Contents(push(noteMessageBuffer, v))
      BY <2>3 DEF Contents, Position
    <3>2. q' = Append(IF Len(q) = BufferSize THEN Tail(q) ELSE q, v)
      BY <1>0, <3>1, PushOverwrites
    <3>3. Notes!Put(v)
      BY <2>1, <3>2 DEF Notes!Put, Notes!Kept
    <3> QED BY <3>3 DEF Notes!Next
  <2>4. UNCHANGED parser => UNCHANGED noteMessageBuffer
    BY DEF parser
  <2>5. ASSUME NEW byte \in Bytes, parseByte(byte)
        PROVE  \/ UNCHANGED noteMessageBuffer
               \/ \E v \in MidiNotes : noteMessageBuffer' = push(noteMessageBuffer, v)
    BY <2>5, Parsed
  <2> QED BY <1>2, <2>2, <2>3, <2>4, <2>5, SendSteps
<1>3. CASE Check
  BY <1>1, <1>3 DEF Check, parser
<1>4. CASE popNote
  <2>1. q # <<>> /\ note' = Head(q) /\ q' = Tail(q)
    BY <1>4, PopStep
  <2> QED BY <2>1 DEF Notes!Next, Notes!Get
<1>5. CASE setGate
  <2>1. note' \notin MidiNotes /\ q' = q
    BY <1>1, <1>5, MidiAssumption DEF setGate, parser
  <2> QED BY <2>1 DEF Notes!Next, Notes!Release
<1>6. CASE UNCHANGED vars
  BY <1>1, <1>6 DEF vars, parser, processing
<1> QED BY <1>2, <1>3, <1>4, <1>5, <1>6 DEF Next, midiProcessing

\* The notes between the two threads are a queue in which a new note
\* overwrites the oldest, for buffers of any size from two: the processing
\* thread never pops an empty buffer, and takes the notes in order.
THEOREM NotesAreLossyFifo == Spec => RefinesLossyFifo
<1>1. Init => Notes!Init
  BY NewBufferType, MidiAssumption DEF Init, Notes!Init
<1>2. TInv /\ TInv' /\ [Next]_vars => [Notes!Next]_<<Contents(noteMessageBuffer), note>>
  BY StepRefines
<1> QED BY <1>1, <1>2, TypeInductive, PTL DEF Spec, RefinesLossyFifo, Notes!Spec

-----------------------------------------------------------------------------
\* The parser and the keyboard.  A parser that was misled may expect up to
\* two bytes of data where a status comes.  One whole message leaves at most
\* one such byte, the second none, and the third tells the parser its kind.

\* The parser expects at most one byte of data between two messages.
Nearly == left = 0 => state \notin {"NOTE_DATA1", "CC_DATA1"}

\* It will expect none at the end of this message.
Aligned ==
    /\ left = 0 => state = "STATUS"
    /\ left = 1 => \/ state \in {"NOTE_DATA2", "CC_DATA2"}
                   \/ state = "STATUS" /\ lastState = "STATUS"
    /\ left = 2 => state \in {"NOTE_DATA1", "CC_DATA1", "STATUS"}

\* And it knows the kind of the message.
Known ==
    /\ state = Expected
    /\ kind \in {"on", "off"} => currentType = kind
    /\ left = 0 /\ kind \in {"on", "off"} => lastState = "NOTE_DATA2"
    /\ left = 0 /\ kind = "cc" => lastState = "CC_DATA2"

Trust ==
    /\ left > 0 => kind \in Statuses
    /\ whole => left > 0
    /\ good >= 1 => Nearly
    /\ good >= 2 \/ (good >= 1 /\ whole) => Aligned
    /\ good >= 3 \/ (good >= 2 /\ whole) => Known

\* A byte of data that is parsed.
LEMMA DataParsed ==
    ASSUME TInv, NEW byte \in Data, parseByte(byte)
    PROVE  /\ state = "STATUS" /\ lastState = "STATUS" => state' = "STATUS" /\ lastState' = lastState
           /\ state = "STATUS" /\ lastState = "NOTE_DATA2" => state' = "NOTE_DATA2"
           /\ state = "STATUS" /\ lastState = "CC_DATA2" => state' = "CC_DATA2"
           /\ state = "NOTE_DATA1" => state' = "NOTE_DATA2"
           /\ state = "CC_DATA1" => state' = "CC_DATA2"
           /\ state = "NOTE_DATA2" => state' = "STATUS" /\ lastState' = "NOTE_DATA2"
           /\ state = "CC_DATA2" => state' = "STATUS" /\ lastState' = "CC_DATA2"
           /\ currentType' = currentType
<1> USE DEF TInv, TypeOK, States, Data
<1>1. CASE parseStatus(byte)
  BY <1>1 DEF parseStatus, Running
<1>2. CASE parseData1(byte)
  BY <1>2 DEF parseData1, Running
<1>3. CASE parseNote(byte)
  BY <1>3 DEF parseNote
<1>4. CASE parseCC(byte)
  BY <1>4 DEF parseCC
<1> QED BY <1>1, <1>2, <1>3, <1>4 DEF parseByte

\* A status that is parsed.
LEMMA StatusParsed ==
    ASSUME TInv, NEW byte \in Statuses \cup {"other"}, parseByte(byte)
    PROVE  /\ state = "STATUS" /\ byte \in {"on", "off"}
                 => state' = "NOTE_DATA1" /\ currentType' = byte
           /\ state = "STATUS" /\ byte = "cc" => state' = "CC_DATA1"
           /\ state = "STATUS" /\ byte = "other" => state' = "STATUS" /\ currentType' = currentType
           /\ state = "STATUS" => lastState' = lastState
           /\ state \in {"NOTE_DATA2", "CC_DATA2"} => state' = "STATUS"
           /\ state \in {"NOTE_DATA1", "CC_DATA1"} => state' \in {"NOTE_DATA2", "CC_DATA2"}
<1> USE DEF TInv, TypeOK, States, Statuses, Data
<1>1. CASE parseStatus(byte)
  BY <1>1 DEF parseStatus, Running
<1>2. CASE parseData1(byte)
  BY <1>2 DEF parseData1, Running
<1>3. CASE parseNote(byte)
  BY <1>3 DEF parseNote
<1>4. CASE parseCC(byte)
  BY <1>4 DEF parseCC
<1> QED BY <1>1, <1>2, <1>3, <1>4 DEF parseByte

LEMMA MisledTrusts ==
    ASSUME Misled, left' > 0 => kind' \in Statuses
    PROVE  Trust'
BY DEF Misled, Trust

LEMMA NextTrust ==
    ASSUME TInv, Trust, [Next]_vars
    PROVE  Trust'
<1> USE DEF TInv, TypeOK
<1>1. ASSUME NEW k \in Statuses, SendStatus(k)
      PROVE  Trust'
  <2>1. left = 0 /\ kind' = k /\ left' = 2
    BY <1>1 DEF SendStatus
  <2>2. CASE Lost
    BY <2>1, <2>2, MisledTrusts DEF Lost
  <2>3. CASE parseByte(k) /\ whole' = TRUE /\ UNCHANGED <<good, wanted>>
    <3>1. good >= 1 => state \in {"STATUS", "NOTE_DATA2", "CC_DATA2"}
      BY <2>1 DEF Trust, Nearly, States
    <3>2. good >= 1 => Aligned'
      BY <2>1, <2>3, <3>1, StatusParsed DEF Aligned, Statuses
    <3>3. good >= 2 => state = "STATUS"
      BY <2>1 DEF Trust, Aligned
    <3>4. good >= 2 => Known'
      BY <2>1, <2>3, <3>3, StatusParsed DEF Known, Expected, Statuses
    <3> QED BY <2>1, <2>3, <3>2, <3>4 DEF Trust, Nearly
  <2> QED BY <1>1, <2>2, <2>3 DEF SendStatus
<1>2. ASSUME NEW byte \in Data, SendData(byte)
      PROVE  Trust'
  <2>1. /\ kind \in Statuses /\ kind' = kind
        /\ left' = (IF left = 0 THEN 1 ELSE left - 1)
    BY <1>2 DEF SendData
  <2>2. CASE Lost
    BY <2>1, <2>2, MisledTrusts DEF Lost
  <2>3. CASE parseByte(byte) /\ IF left = 1 THEN Whole(byte) ELSE UNCHANGED <<whole, good, wanted>>
    <3>1. Nearly'
      BY <2>3, DataParsed DEF Nearly, States
    <3>2. Aligned => Aligned'
      BY <2>1, <2>3, DataParsed DEF Aligned, States
    <3>3. Known => Known'
      <4>1. CASE left = 0
        BY <2>1, <2>3, <4>1, DataParsed DEF Known, Expected, Statuses
      <4>2. CASE left = 1
        BY <2>1, <2>3, <4>2, DataParsed DEF Known, Expected, Statuses
      <4>3. CASE left = 2
        BY <2>1, <2>3, <4>3, DataParsed DEF Known, Expected, Statuses
      <4> QED BY <4>1, <4>2, <4>3
    <3>4. left = 1 => whole' = FALSE /\ good' = IF whole /\ good < Recovery THEN good + 1 ELSE good
      BY <2>3 DEF Whole
    <3>5. left # 1 => whole' = whole /\ good' = good /\ left' > 0
      BY <2>1, <2>3
    <3>6. whole' => left' > 0
      BY <3>4, <3>5 DEF Trust
    <3>7. good' >= 2 \/ (good' >= 1 /\ whole') => Aligned
      BY <3>4, <3>5 DEF Trust
    <3>8. good' >= 3 \/ (good' >= 2 /\ whole') => Known
      BY <3>4, <3>5 DEF Trust
    <3> QED BY <2>1, <3>1, <3>2, <3>3, <3>6, <3>7, <3>8 DEF Trust
  <2> QED BY <1>2, <2>2, <2>3 DEF SendData
<1>3. ASSUME NEW byte \in Data \cup {"other"}, SendOther(byte)
      PROVE  Trust'
  <2>1. Misled /\ left' = 0
    BY <1>3 DEF SendOther, Lost
  <2> QED BY <2>1, MisledTrusts
<1>4. CASE SendRealTime
  <2>1. UNCHANGED <<kind, left>>
    BY <1>4 DEF SendRealTime
  <2>2. CASE Misled
    BY <2>1, <2>2, MisledTrusts DEF Trust
  <2>3. CASE parseByte("other") /\ left = 0 /\ UNCHANGED <<whole, good, wanted>>
    <3>1. Nearly => Nearly'
      BY <2>1, <2>3, StatusParsed DEF Nearly, States
    <3>2. Aligned => Aligned'
      BY <2>1, <2>3, StatusParsed DEF Aligned
    <3>3. Known => Known'
      BY <2>1, <2>3, StatusParsed DEF Known, Expected
    <3> QED BY <2>1, <2>3, <3>1, <3>2, <3>3 DEF Trust
  <2>4. CASE UNCHANGED <<parser, whole, good, wanted>>
    BY <2>1, <2>4 DEF parser, Trust, Nearly, Aligned, Known, Expected
  <2> QED BY <1>4, <2>2, <2>3, <2>4 DEF SendRealTime
<1>5. CASE UNCHANGED <<state, lastState, currentType, keyboard>>
  BY <1>5 DEF keyboard, Trust, Nearly, Aligned, Known, Expected
<1>6. midiProcessing \/ UNCHANGED vars => UNCHANGED <<state, lastState, currentType, keyboard>>
  BY DEF midiProcessing, Check, popNote, setGate, vars, parser
<1> QED BY <1>1, <1>2, <1>3, <1>4, <1>5, <1>6 DEF Next

LEMMA TrustInductive == Spec => []Trust
<1>1. Init => Trust
  BY DEF Init, Trust, Nearly, Aligned, Known, Expected
<1>2. TInv /\ Trust /\ [Next]_vars => Trust'
  BY NextTrust
<1> QED BY <1>1, <1>2, TypeInductive, PTL DEF Spec

\* However the parser was misled, three whole messages put it in step with
\* the keyboard again.
THEOREM ParserRecovers == Recovery >= 3 => (Spec => []InStep)
<1> SUFFICES ASSUME Recovery >= 3
             PROVE  Spec => []InStep
  OBVIOUS
<1>1. TInv /\ Trust => InStep
  BY DEF TInv, TypeOK, Trust, InStep, Known
<1> QED BY <1>1, TypeInductive, TrustInductive, PTL

-----------------------------------------------------------------------------
\* The gate.  The newest note on its way decides: the last one in the buffer,
\* else the one that was popped, else the gate as it is.

Newest(g) ==
    IF noteMessageBuffer.size > 0
    THEN Sounds(noteMessageBuffer.slots[noteMessageBuffer.tail]) = g
    ELSE IF pc = "gate" THEN Sounds(note) = g ELSE gate = g

GInv == wanted # Unset => good = Recovery /\ Newest(wanted)

LEMMA SingleIsNewest ==
    ASSUME NEW E, NEW b \in Buffer(E), b.size = 1
    PROVE  b.head = b.tail
BY Fields DEF After

LEMMA NothingPushed ==
    ASSUME TInv, NEW byte \in Bytes, parseByte(byte), state # "NOTE_DATA2",
           GInv, UNCHANGED <<processing, good, wanted>>
    PROVE  GInv'
<1>1. noteMessageBuffer' = noteMessageBuffer
  BY Parsed
<1> QED BY <1>1 DEF GInv, Newest, processing

LEMMA MessageComplete ==
    ASSUME Recovery >= 3, TInv, Trust, GInv, NEW byte \in Data,
           kind \in Statuses, left = 1, parseByte(byte), Whole(byte), UNCHANGED processing
    PROVE  GInv'
<1> SUFFICES ASSUME wanted' # Unset
             PROVE  good' = Recovery /\ Newest(wanted)'
  BY DEF GInv
<1>1. good \in 0..Recovery /\ Recovery \in Nat /\ byte \in Bytes
  BY MidiAssumption DEF TInv, TypeOK, Bytes
<1>2. good' = IF whole /\ good < Recovery THEN good + 1 ELSE good
  BY DEF Whole
<1>3. good' = Recovery
  <2>1. CASE wanted = Unset
    BY <2>1 DEF Whole
  <2>2. CASE wanted # Unset
    BY <1>1, <1>2, <2>2 DEF GInv
  <2> QED BY <2>1, <2>2
<1>4. Known
  <2>1. good >= 3 \/ (good >= 2 /\ whole)
    BY <1>1, <1>2, <1>3
  <2> QED BY <2>1 DEF Trust
<1>5. CASE kind \in {"on", "off"}
  <2>1. state = "NOTE_DATA2" /\ currentType = kind
    BY <1>4, <1>5 DEF Known, Expected
  <2>2. noteMessageBuffer' = push(noteMessageBuffer, [msgType |-> kind, velocity |-> byte # "zero"])
    BY <2>1 DEF parseByte, parseNote, parseStatus, parseData1, parseCC, Running
  <2>3. [msgType |-> kind, velocity |-> byte # "zero"] \in MidiNotes
    BY <1>5 DEF MidiNotes
  <2>4. /\ noteMessageBuffer'.size > 0
        /\ noteMessageBuffer'.slots[noteMessageBuffer'.tail]
             = [msgType |-> kind, velocity |-> byte # "zero"]
    BY <2>2, <2>3, PushOverwrites DEF TInv, TypeOK
  <2>5. wanted' = (kind = "on" /\ byte = "some")
    BY <1>3, <1>5 DEF Whole
  <2>6. byte # "zero" <=> byte = "some"
    BY DEF Data
  <2>7. Sounds([msgType |-> kind, velocity |-> byte # "zero"]) = wanted'
    BY <2>5, <2>6 DEF Sounds
  <2> QED BY <1>3, <2>4, <2>7 DEF Newest
<1>6. CASE kind = "cc"
  <2>1. state = "CC_DATA2"
    BY <1>4, <1>6 DEF Known, Expected
  <2>2. noteMessageBuffer' = noteMessageBuffer
    BY <1>1, <2>1, Parsed
  <2>3. wanted' = wanted
    BY <1>6 DEF Whole
  <2>4. Newest(wanted)
    BY <2>3 DEF GInv
  <2> QED BY <1>3, <2>2, <2>3, <2>4 DEF Newest, processing
<1> QED BY <1>5, <1>6 DEF Statuses

LEMMA NextGInv ==
    ASSUME Recovery >= 3, TInv, Trust, GInv, [Next]_vars
    PROVE  GInv'
<1>0. ASSUME Misled
      PROVE  GInv'
  BY <1>0 DEF Misled, GInv
<1>1. ASSUME NEW k \in Statuses, SendStatus(k)
      PROVE  GInv'
  <2>1. CASE parseByte(k) /\ UNCHANGED <<good, wanted>>
    <3>1. CASE wanted = Unset
      BY <2>1, <3>1 DEF GInv
    <3>2. CASE wanted # Unset
      <4>1. state = "STATUS"
        BY <1>1, <3>2 DEF SendStatus, GInv, Trust, Known, Expected
      <4> QED BY <1>1, <2>1, <4>1, NothingPushed DEF SendStatus, Bytes
    <3> QED BY <3>1, <3>2
  <2> QED BY <1>0, <1>1, <2>1 DEF SendStatus, Lost
<1>2. ASSUME NEW byte \in Data, SendData(byte)
      PROVE  GInv'
  <2>1. CASE left = 1 /\ parseByte(byte) /\ Whole(byte)
    BY <1>2, <2>1, MessageComplete DEF SendData, processing
  <2>2. CASE left # 1 /\ parseByte(byte) /\ UNCHANGED <<good, wanted>>
    <3>1. CASE wanted = Unset
      BY <2>2, <3>1 DEF GInv
    <3>2. CASE wanted # Unset
      <4>1. Known /\ left \in 0..2
        BY <3>2 DEF GInv, Trust, TInv, TypeOK
      <4>2. state # "NOTE_DATA2"
        BY <2>2, <4>1 DEF Known, Expected
      <4> QED BY <1>2, <2>2, <4>2, NothingPushed DEF SendData, Bytes
    <3> QED BY <3>1, <3>2
  <2> QED BY <1>0, <1>2, <2>1, <2>2 DEF SendData, Lost
<1>3. ASSUME NEW byte \in Data \cup {"other"}, SendOther(byte)
      PROVE  GInv'
  BY <1>0, <1>3 DEF SendOther, Lost
<1>4. CASE SendRealTime
  <2>1. CASE left = 0 /\ parseByte("other") /\ UNCHANGED <<good, wanted>>
    <3>1. CASE wanted = Unset
      BY <2>1, <3>1 DEF GInv
    <3>2. CASE wanted # Unset
      <4>1. state = "STATUS"
        BY <2>1, <3>2 DEF GInv, Trust, Known, Expected
      <4> QED BY <1>4, <2>1, <4>1, NothingPushed DEF SendRealTime, Bytes
    <3> QED BY <3>1, <3>2
  <2>2. CASE UNCHANGED <<parser, whole, good, wanted>>
    BY <1>4, <2>2 DEF SendRealTime, parser, processing, GInv, Newest
  <2> QED BY <1>0, <1>4, <2>1, <2>2 DEF SendRealTime
<1>5. CASE Check
  BY <1>5 DEF Check, parser, keyboard, GInv, Newest
<1>6. CASE popNote
  <2>1. UNCHANGED <<good, wanted>> /\ pc' = "gate"
    BY <1>6 DEF popNote, keyboard
  <2>2. CASE noteMessageBuffer'.size > 0
    BY <1>6, <2>1, <2>2, PopStep DEF GInv, Newest
  <2>3. CASE ~(noteMessageBuffer'.size > 0)
    <3>1. noteMessageBuffer \in Buffer(MidiNotes) /\ noteMessageBuffer.size > 0
      BY <1>6, PopStep DEF TInv, TypeOK
    <3>2. noteMessageBuffer.size = 1
      BY <1>6, <2>3, <3>1, PopStep, Fields
    <3>3. note' = noteMessageBuffer.slots[noteMessageBuffer.tail]
      BY <1>6, <3>1, <3>2, SingleIsNewest DEF popNote, front
    <3> QED BY <2>1, <2>3, <3>1, <3>3 DEF GInv, Newest
  <2> QED BY <2>2, <2>3
<1>7. CASE setGate
  BY <1>7 DEF setGate, parser, keyboard, GInv, Newest
<1>8. CASE UNCHANGED vars
  BY <1>8 DEF vars, parser, processing, keyboard, GInv, Newest
<1> QED BY <1>1, <1>2, <1>3, <1>4, <1>5, <1>6, <1>7, <1>8 DEF Next, midiProcessing

\* Once the notes are processed the gate is where the last note sent in step
\* puts it: overwriting the oldest notes never loses the one that counts.
THEOREM GateIsRight == Recovery >= 3 => (Spec => []GateFollowsKeyboard)
<1> SUFFICES ASSUME Recovery >= 3
             PROVE  Spec => []GateFollowsKeyboard
  OBVIOUS
<1>1. Init => GInv
  <2> SUFFICES ASSUME Init
               PROVE  GInv
    OBVIOUS
  <2>1. gate = wanted
    BY DEF Init
  <2>2. pc # "gate" /\ good = Recovery /\ noteMessageBuffer.size = 0
    BY DEF Init, NewBuffer
  <2> QED BY <2>1, <2>2 DEF GInv, Newest
<1>2. TInv /\ Trust /\ GInv /\ [Next]_vars => GInv'
  BY NextGInv
<1>3. GInv => GateFollowsKeyboard
  BY DEF GInv, Newest, GateFollowsKeyboard, empty
<1> QED BY <1>1, <1>2, <1>3, TypeInductive, TrustInductive, PTL DEF Spec

=============================================================================
