---------------------------- MODULE MidiPipeline ----------------------------
(***************************************************************************)
(* From the bytes of the MIDI input to the gate of the synthesizer         *)
(* (src/midi/midi_parser.cpp and the two MIDI threads of src/main.cpp).    *)
(* The parsing thread turns bytes into messages and the processing thread  *)
(* takes the notes; the buffers between them are protected by bufferMutex, *)
(* so each access is one step.                                             *)
(*                                                                         *)
(* Of a byte the model keeps whether it is a status, and which, or data,   *)
(* and whether that is zero; the channel and the pitch change nothing.     *)
(* What is in ccMessageBuffer is left out: no thread calls popCC.          *)
(* At the other end of the wire is a keyboard that sends complete          *)
(* messages, with or without running status, and also messages the parser  *)
(* does not support; the serial port may lose any byte.                    *)
(***************************************************************************)
EXTENDS CircularBuffer

CONSTANT Recovery   \* messages after which the parser is in step again

Statuses  == {"on", "off", "cc"}   \* the statuses parseByte looks for
Data      == {"zero", "some"}
Bytes     == Statuses \cup Data \cup {"other"}
MidiNotes == [msgType : {"on", "off"}, velocity : BOOLEAN]   \* TRUE: not zero
States    == {"STATUS", "NOTE_DATA1", "NOTE_DATA2", "CC_DATA1", "CC_DATA2"}

ASSUME MidiAssumption ==
    /\ Recovery \in Nat \ {0}
    /\ Unset \notin MidiNotes \cup Bytes \cup BOOLEAN

VARIABLES
    state,
    lastState,
    currentType,         \* currentNote.msgType
    noteMessageBuffer,
    pc,                  \* the next step of midiProcessing
    note,                \* the note popped, while it is processed
    gate,                \* the gate of the synthesizer
    \* The keyboard and what it may count on.
    kind,     \* the last status it sent
    left,     \* data bytes left of the message being sent
    whole,    \* the message being sent began with its status and no byte of it was lost
    good,     \* whole messages since the parser was last misled, up to Recovery
    wanted    \* where the last note that was sent in step puts the gate

parser == <<state, lastState, currentType, noteMessageBuffer>>
processing == <<pc, note, gate>>
keyboard == <<kind, left, whole, good, wanted>>
vars == <<parser, processing, keyboard>>

Init ==
    /\ state = "STATUS" /\ lastState = "STATUS"
    /\ currentType = Unset
    /\ noteMessageBuffer = NewBuffer
    /\ pc = "check" /\ note = Unset /\ gate = FALSE
    /\ kind = "other" /\ left = 0 /\ whole = FALSE
    /\ good = Recovery /\ wanted = FALSE

-----------------------------------------------------------------------------
\* parseByte.

\* The state in which a byte is handled: data after a complete message
\* belongs to another one of the same kind.
Running(byte) ==
    IF state = "STATUS" /\ byte \in Data
    THEN CASE lastState = "NOTE_DATA2" -> "NOTE_DATA1"
           [] lastState = "CC_DATA2"   -> "CC_DATA1"
           [] OTHER                    -> state
    ELSE state

parseStatus(byte) ==
    /\ Running(byte) = "STATUS"
    /\ state' = CASE byte \in {"on", "off"} -> "NOTE_DATA1"
                  [] byte = "cc"            -> "CC_DATA1"
                  [] OTHER                  -> "STATUS"
    /\ currentType' = IF byte \in {"on", "off"} THEN byte ELSE currentType
    /\ UNCHANGED <<lastState, noteMessageBuffer>>

parseData1(byte) ==
    /\ Running(byte) \in {"NOTE_DATA1", "CC_DATA1"}
    /\ state' = IF Running(byte) = "NOTE_DATA1" THEN "NOTE_DATA2" ELSE "CC_DATA2"
    /\ UNCHANGED <<lastState, currentType, noteMessageBuffer>>

\* Faulty variant: running status is not remembered.
parseNoteForgets(byte) ==
    /\ state = "NOTE_DATA2"
    /\ state' = "STATUS"
    /\ noteMessageBuffer' = push(noteMessageBuffer,
                                 [msgType |-> currentType, velocity |-> byte # "zero"])
    /\ UNCHANGED <<lastState, currentType>>
parseNote(byte) ==
    /\ state = "NOTE_DATA2"
    /\ state' = "STATUS"
    /\ lastState' = "NOTE_DATA2"
    /\ noteMessageBuffer' = push(noteMessageBuffer,
                                 [msgType |-> currentType, velocity |-> byte # "zero"])
    /\ UNCHANGED currentType

parseCC(byte) ==
    /\ state = "CC_DATA2"
    /\ state' = "STATUS"
    /\ lastState' = "CC_DATA2"
    /\ UNCHANGED <<currentType, noteMessageBuffer>>

parseByte(byte) ==
    parseStatus(byte) \/ parseData1(byte) \/ parseNote(byte) \/ parseCC(byte)

-----------------------------------------------------------------------------
\* The keyboard and the wire.

\* The parser may have been misled.
Misled == whole' = FALSE /\ good' = 0 /\ wanted' = Unset

\* A byte arrives, or is lost: a full rxQueue drops it.
Lost == Misled /\ UNCHANGED parser

SendStatus(k) ==
    /\ left = 0
    /\ kind' = k /\ left' = 2
    /\ \/ parseByte(k) /\ whole' = TRUE /\ UNCHANGED <<good, wanted>>
       \/ Lost
    /\ UNCHANGED processing

\* The message is complete.
Whole(byte) ==
    /\ whole' = FALSE
    /\ good' = IF whole /\ good < Recovery THEN good + 1 ELSE good
    /\ wanted' = IF good' = Recovery /\ kind \in {"on", "off"}
                 THEN kind = "on" /\ byte = "some"
                 ELSE wanted

\* A data byte of a message of a kind the parser supports; the first one may
\* follow another message of that kind directly.
SendData(byte) ==
    /\ kind \in Statuses
    /\ left' = IF left = 0 THEN 1 ELSE left - 1
    /\ \/ /\ parseByte(byte)
          /\ IF left = 1 THEN Whole(byte) ELSE UNCHANGED <<whole, good, wanted>>
       \/ Lost
    /\ UNCHANGED <<kind, processing>>

\* A status the parser does not support, and data that belongs to it.
SendOther(byte) ==
    /\ left = 0
    /\ \/ byte = "other" /\ kind' = "other"
       \/ byte \in Data /\ kind = "other" /\ UNCHANGED kind
    /\ \/ parseByte(byte) /\ Misled
       \/ Lost
    /\ UNCHANGED <<left, processing>>

\* A real-time byte, at any moment; between two messages it misleads nobody.
SendRealTime ==
    /\ \/ /\ parseByte("other")
          /\ IF left = 0 THEN UNCHANGED <<whole, good, wanted>> ELSE Misled
       \/ UNCHANGED <<parser, whole, good, wanted>>
    /\ UNCHANGED <<kind, left, processing>>

-----------------------------------------------------------------------------
\* midiProcessing, which sleeps between two checks: when the next one comes
\* is left open.

\* isNoteAvaiable
Check ==
    /\ pc = "check"
    /\ ~empty(noteMessageBuffer)
    /\ pc' = "pop"
    /\ UNCHANGED <<note, gate, parser, keyboard>>

popNote ==
    /\ pc = "pop"
    /\ note' = front(noteMessageBuffer)
    /\ noteMessageBuffer' = pop(noteMessageBuffer)
    /\ pc' = "gate"
    /\ UNCHANGED <<gate, state, lastState, currentType, keyboard>>

\* Faulty variant: a note on with velocity zero is not a note off.
SoundsAnyway(n) == n.msgType = "on"
Sounds(n) == n.msgType = "on" /\ n.velocity

setGate ==
    /\ pc = "gate"
    /\ gate' = Sounds(note)
    /\ note' = Unset
    /\ pc' = "check"
    /\ UNCHANGED <<parser, keyboard>>

midiProcessing == Check \/ popNote \/ setGate

Next ==
    \/ \E k \in Statuses : SendStatus(k)
    \/ \E byte \in Data : SendData(byte)
    \/ \E byte \in Data \cup {"other"} : SendOther(byte)
    \/ SendRealTime
    \/ midiProcessing

Spec == Init /\ [][Next]_vars

\* The processing thread runs; the keyboard may stop at any time.
FairSpec == Spec /\ WF_vars(midiProcessing)

-----------------------------------------------------------------------------

TypeOK ==
    /\ state \in States /\ lastState \in {"STATUS", "NOTE_DATA2", "CC_DATA2"}
    /\ currentType \in {"on", "off", Unset}
    /\ noteMessageBuffer \in Buffer(MidiNotes)
    /\ pc \in {"check", "pop", "gate"}
    /\ note \in MidiNotes \cup {Unset}
    /\ gate \in BOOLEAN
    /\ kind \in Statuses \cup {"other"} /\ left \in 0..2
    /\ whole \in BOOLEAN /\ good \in 0..Recovery
    /\ wanted \in BOOLEAN \cup {Unset}

\* The notes between the two threads are a queue in which a new note
\* overwrites the oldest: popNote never returns what was never or already
\* taken, although the parser may overwrite between its check and its pop.
Notes == INSTANCE LossyFifo
         WITH Capacity <- BufferSize, Values <- MidiNotes,
              queue <- Contents(noteMessageBuffer), got <- note
RefinesLossyFifo == Notes!Spec

\* However the parser was misled, it is in step with the keyboard again once
\* Recovery whole messages have arrived: it expects a status exactly when the
\* keyboard is between messages, and knows the kind of the one being sent.
Expected ==
    CASE left = 0                -> "STATUS"
      [] left = 2 /\ kind = "cc" -> "CC_DATA1"
      [] left = 1 /\ kind = "cc" -> "CC_DATA2"
      [] left = 2 /\ kind # "cc" -> "NOTE_DATA1"
      [] left = 1 /\ kind # "cc" -> "NOTE_DATA2"
InStep ==
    good = Recovery =>
        /\ state = Expected
        /\ kind \in {"on", "off"} => currentType = kind

\* When the notes are processed the gate is where the last note sent in step
\* puts it, even after notes were overwritten.
GateFollowsKeyboard ==
    wanted # Unset /\ empty(noteMessageBuffer) /\ pc # "gate" => gate = wanted

\* The gate gets there unless the keyboard plays on or the parser is misled.
GateSettles ==
    \A g \in BOOLEAN : wanted = g ~> gate = g \/ wanted # g

=============================================================================
