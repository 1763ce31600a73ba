---------------------------- MODULE AudioDriver ----------------------------
(***************************************************************************)
(* The audio output path (src/drivers/stm32f407vg_discovery/audio.cpp):    *)
(* the thread in AudioDriver::start fills the buffers of a BufferQueue     *)
(* (miosix/kernel/queue.h) and the interrupt at the end of each DMA        *)
(* transfer frees the buffer just played and starts the next one.          *)
(*                                                                         *)
(* The interrupt handler is one step.  The thread disables interrupts to   *)
(* take a buffer but not in bufferFilled, where the shared counter is      *)
(* loaded, incremented and stored: there every access is a step.           *)
(* When the interrupt arrives is a matter of time, which the model does    *)
(* not have: Interruptible names the steps of the thread at which it may.  *)
(***************************************************************************)
EXTENDS Integers, Sequences, FiniteSets

CONSTANTS
    NumBuf,         \* numbuf, DOUBLE_BUFFER_BUFFERS
    NumBlocks,      \* blocks of samples are numbered modulo NumBlocks
    Interruptible,  \* where the thread may be when a transfer ends
    Unset           \* what a buffer holds before it is written

WriterSteps == {"boot", "start", "take", "asleep", "process", "check", "load", "store"}

ASSUME AudioAssumption ==
    /\ NumBuf \in 2..255
    /\ NumBlocks \in Nat \ {0}
    /\ Interruptible \subseteq WriterSteps
    /\ Unset \notin 0..(NumBlocks - 1)

Blocks  == 0..(NumBlocks - 1)
Buffers == 0..(NumBuf - 1)
Silence == NumBuf       \* emptyBuffer
NoDma   == NumBuf + 1   \* no transfer was started yet

VARIABLES
    buf,       \* the block each buffer holds
    put,
    get,
    cnt,
    dma,       \* the buffer the DMA reads, Silence or NoDma
    pc,        \* the next step of writerThread
    writable,  \* writableRawBuffer
    reg,       \* cnt as loaded by bufferFilled
    block,     \* the last block of samples computed
    freed,     \* what the buffer freed last holds
    rebooted   \* errorHandler was called

vars == <<buf, put, get, cnt, dma, pc, writable, reg, block, freed, rebooted>>

Init ==
    /\ buf = [b \in Buffers |-> Unset]
    /\ put = 0 /\ get = 0 /\ cnt = 0
    /\ dma = NoDma
    /\ pc = "boot"
    /\ writable = 0 /\ reg = 0
    /\ block = 0
    /\ freed = Unset
    /\ rebooted = FALSE

-----------------------------------------------------------------------------
\* BufferQueue.

isEmpty == cnt = 0
isFull  == cnt = NumBuf

Advance(pos) == IF pos + 1 >= NumBuf THEN 0 ELSE pos + 1

NextBlock(b) == IF b + 1 = NumBlocks THEN 0 ELSE b + 1

\* unsigned char arithmetic
Byte(n) == n % 256

\* The buffer a transfer is started with.
Readable(count, pos) == IF count = 0 THEN Silence ELSE pos

-----------------------------------------------------------------------------
\* The thread.

\* The constructor, with interrupts disabled; the buffers are not cleared,
\* so what the first transfer plays is whatever the memory held.
Construct ==
    /\ pc = "boot"
    /\ \E noise \in Blocks : buf' = [buf EXCEPT ![put] = noise] /\ block' = noise
    /\ cnt' = cnt + 1
    /\ put' = Advance(put)
    /\ pc' = "start"
    /\ UNCHANGED <<get, dma, writable, reg, freed, rebooted>>

\* start() up to its loop: refillDMA.
Start ==
    /\ pc = "start"
    /\ dma' = Readable(cnt, get)
    /\ pc' = "take"
    /\ UNCHANGED <<buf, put, get, cnt, writable, reg, block, freed, rebooted>>

\* One turn of the loop in tryGetWritableBuffer.
\* Faulty variant: the full queue is not noticed.
TakeAlways ==
    /\ pc = "take"
    /\ writable' = put
    /\ pc' = "process"
    /\ UNCHANGED <<buf, put, get, cnt, dma, reg, block, freed, rebooted>>
Take ==
    /\ pc = "take"
    /\ IF isFull
       THEN pc' = "asleep" /\ UNCHANGED writable
       ELSE pc' = "process" /\ writable' = put
    /\ UNCHANGED <<buf, put, get, cnt, dma, reg, block, freed, rebooted>>

\* process() and writeToOutputBuffer.
Process ==
    /\ pc = "process"
    /\ block' = NextBlock(block)
    /\ buf' = [buf EXCEPT ![writable] = NextBlock(block)]
    /\ pc' = "check"
    /\ UNCHANGED <<put, get, cnt, dma, writable, reg, freed, rebooted>>

\* bufferFilled, outside any lock.
FilledCheck ==
    /\ pc = "check"
    /\ IF isFull
       THEN rebooted' = TRUE /\ UNCHANGED pc
       ELSE pc' = "load" /\ UNCHANGED rebooted
    /\ UNCHANGED <<buf, put, get, cnt, dma, writable, reg, block, freed>>

FilledLoad ==
    /\ pc = "load"
    /\ reg' = cnt
    /\ pc' = "store"
    /\ UNCHANGED <<buf, put, get, cnt, dma, writable, block, freed, rebooted>>

FilledStore ==
    /\ pc = "store"
    /\ cnt' = Byte(reg + 1)
    /\ put' = Advance(put)
    /\ pc' = "take"
    /\ UNCHANGED <<buf, get, dma, writable, reg, block, freed, rebooted>>

Writer ==
    /\ ~rebooted
    /\ \/ Construct \/ Start \/ Take \/ Process
       \/ FilledCheck \/ FilledLoad \/ FilledStore

-----------------------------------------------------------------------------
\* The interrupt, I2SdmaHandlerImpl: bufferEmptied, refillDMA_IRQ and the
\* wakeup of the thread.

\* Faulty variants: the next buffer is chosen before the one played is
\* freed; the thread is not woken.
NextPlayedStale == Readable(cnt, get)
NextPlayed == Readable(cnt - 1, Advance(get))

WokenNot == pc
Woken == IF pc = "asleep" THEN "take" ELSE pc

TransferEnd ==
    /\ ~rebooted
    /\ dma # NoDma
    /\ pc \in Interruptible
    /\ IF isEmpty
       THEN rebooted' = TRUE /\ UNCHANGED <<cnt, get, dma, pc, freed>>
       ELSE /\ cnt' = cnt - 1
            /\ get' = Advance(get)
            /\ freed' = buf[get]
            /\ dma' = NextPlayed
            /\ pc' = Woken
            /\ UNCHANGED rebooted
    /\ UNCHANGED <<buf, put, writable, reg, block>>

\* errorHandler: the board restarts from the reset vector.
Reboot ==
    /\ rebooted
    /\ buf' = [b \in Buffers |-> Unset]
    /\ put' = 0 /\ get' = 0 /\ cnt' = 0
    /\ dma' = NoDma
    /\ pc' = "boot"
    /\ writable' = 0 /\ reg' = 0
    /\ block' = 0
    /\ freed' = Unset
    /\ rebooted' = FALSE

Next == Writer \/ TransferEnd \/ Reboot

Spec == Init /\ [][Next]_vars

\* The thread runs when it can, transfers end, and the board restarts.
FairSpec == Spec /\ WF_vars(Writer) /\ WF_vars(TransferEnd) /\ WF_vars(Reboot)

-----------------------------------------------------------------------------

TypeOK ==
    /\ buf \in [Buffers -> Blocks \cup {Unset}]
    /\ put \in Buffers /\ get \in Buffers /\ writable \in Buffers
    /\ cnt \in 0..NumBuf /\ reg \in 0..NumBuf
    /\ dma \in Buffers \cup {Silence, NoDma}
    /\ pc \in WriterSteps
    /\ block \in Blocks
    /\ freed \in Blocks \cup {Unset}
    /\ rebooted \in BOOLEAN

Filling == pc \in {"process", "check", "load", "store"}

\* The DMA never reads the buffer the thread is filling.
NoSharedBuffer == Filling => dma # writable

\* The thread sleeps only while a transfer is running whose end wakes it.
NoLostWakeup == pc = "asleep" => dma # NoDma /\ cnt = NumBuf

\* Buffers filled and not yet freed, oldest first.
Slot(i) == IF get + i - 1 < NumBuf THEN get + i - 1 ELSE get + i - 1 - NumBuf
Contents == [i \in 1..cnt |-> buf[Slot(i)]]

\* The buffers between the thread and the interrupt are a bounded first-in
\* first-out queue of blocks, which a reboot empties.
Fifo == INSTANCE BoundedFifo
        WITH Capacity <- NumBuf, Values <- Blocks, queue <- Contents, got <- freed
Restart == rebooted /\ rebooted' = FALSE
RefinesFifo ==
    Fifo!Init /\ [][Fifo!Next \/ Restart]_<<Contents, freed>>

\* A transfer that ends with another buffer filled is followed by that buffer,
\* and it holds the block computed next: no repetition, gap or silence.
Gapless ==
    [][TransferEnd /\ dma \in Buffers /\ cnt > 1 =>
          dma' \in Buffers /\ buf[dma'] = NextBlock(buf[dma])]_vars

\* A thread that waits for a buffer is woken while one is free for it, and
\* the board does not reboot under it.
WriterServed ==
    /\ [][pc = "asleep" => ~rebooted']_vars
    /\ pc = "asleep" ~> pc = "take" /\ ~isFull

=============================================================================
