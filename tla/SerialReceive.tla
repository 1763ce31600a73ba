--------------------------- MODULE SerialReceive ---------------------------
(***************************************************************************)
(* The receiving half of STM32Serial (arch/common/drivers/serial_stm32.cpp)*)
(* with its DynUnsyncQueue (kernel/queue.h): bytes arrive one by one or    *)
(* through the DMA, the interrupts of the port and of the DMA move them to *)
(* rxQueue, and readBlock takes them out.                                  *)
(*                                                                         *)
(* An interrupt handler is one step: no byte arrives while one runs.  The  *)
(* reader runs with interrupts disabled except between two bytes and while *)
(* it sleeps.  rxMutex lets in one reader at a time, so there is one.      *)
(***************************************************************************)
EXTENDS Integers, Sequences

CONSTANTS
    Capacity,     \* of rxQueue, rxQueueMin+baudrate/500
    rxQueueMin,   \* size of rxBuffer and the filling that wakes the reader
    MaxRead,      \* most bytes a call of readBlock asks for
    Bytes,
    Unset         \* memory that was never written

ASSUME ReceiveAssumption ==
    /\ rxQueueMin \in Nat \ {0}
    /\ Capacity \in Nat /\ Capacity >= rxQueueMin
    /\ MaxRead \in Nat
    /\ Unset \notin Bytes

VARIABLES
    dmaRx,      \* the port has a DMA channel: chosen once
    data, putPos, getPos, queueSize,   \* rxQueue
    idle,       \* "Receiver idle"
    rxWaiting,  \* it points to the reader
    rxBuffer,   \* what the DMA has written of it
    \* The hardware.
    busy,       \* a byte arrived since the line was last found idle
    register,   \* the data register: <<>> or the byte in it
    framing,    \* USART_SR_FE of that byte
    idleFlag,   \* USART_SR_IDLE
    halfFlag,   \* the DMA's interrupt is pending
    \* The thread in readBlock.
    reader,     \* "out", "read" or "wait"
    size, result,
    rxFlag,     \* its ThreadFlags::WAIT
    byte        \* the last byte it read

ring  == <<data, putPos, getPos, queueSize>>
rxLine  == <<busy, register, framing, idleFlag, halfFlag>>
reading  == <<reader, size, result, byte>>
rxVars == <<dmaRx, data, putPos, getPos, queueSize, idle, rxWaiting, rxBuffer, busy,
            register, framing, idleFlag, halfFlag, reader, size, result, rxFlag, byte>>

RxInit ==
    /\ dmaRx \in BOOLEAN
    /\ data = [i \in 0..(Capacity - 1) |-> Unset]
    /\ putPos = 0 /\ getPos = 0 /\ queueSize = 0
    /\ idle = TRUE /\ rxWaiting = FALSE /\ rxBuffer = <<>>
    /\ busy = FALSE /\ register = <<>> /\ framing = FALSE
    /\ idleFlag = FALSE /\ halfFlag = FALSE
    /\ reader = "out" /\ size = 0 /\ result = 0 /\ rxFlag = FALSE /\ byte = Unset

-----------------------------------------------------------------------------
(***************************************************************************)
(* The hardware.                                                           *)
(***************************************************************************)
\* A byte arrives.  One that finds no room in the register, or that the DMA,
\* which stops at the end of rxBuffer, does not fetch, is lost.
Receive(b, error) ==
    /\ busy' = TRUE
    /\ IF dmaRx
         THEN /\ rxBuffer' = IF Len(rxBuffer) < rxQueueMin THEN Append(rxBuffer, b)
                                                          ELSE rxBuffer
              /\ halfFlag' = (halfFlag \/ (/\ Len(rxBuffer) < rxQueueMin
                                           /\ 2 * (Len(rxBuffer) + 1) = rxQueueMin))
              /\ UNCHANGED <<register, framing>>
         ELSE /\ register' = IF register = <<>> THEN <<b>> ELSE register
              /\ framing' = IF register = <<>> THEN error ELSE framing
              /\ UNCHANGED <<rxBuffer, halfFlag>>
    /\ UNCHANGED <<dmaRx, ring, idle, rxWaiting, idleFlag, reading, rxFlag>>

\* No byte for the time of one.
LineIdle ==
    /\ busy
    /\ busy' = FALSE /\ idleFlag' = TRUE
    /\ UNCHANGED <<dmaRx, ring, idle, rxWaiting, rxBuffer, register, framing,
                   halfFlag, reading, rxFlag>>

-----------------------------------------------------------------------------
(***************************************************************************)
(* The interrupts.                                                         *)
(***************************************************************************)
\* DynUnsyncQueue::tryPut for each byte of s: those that find no room are lost.
\* Faulty variant: the oldest are overwritten.
Fitting(s) == IF Len(s) <= Capacity - queueSize THEN Len(s) ELSE Capacity - queueSize

Wrap(i) == IF i >= Capacity THEN i - Capacity ELSE i

\* Where in s the byte is that goes to slot i.
Offset(i) == IF i >= putPos THEN i - putPos + 1 ELSE i - putPos + 1 + Capacity

TryPutLate(s) ==
    /\ data' = [i \in 0..(Capacity - 1) |->
                   IF Offset(i) \in 1..Len(s) THEN s[Offset(i)] ELSE data[i]]
    /\ putPos' = Wrap(putPos + Len(s))
    /\ queueSize' = queueSize + Fitting(s)
    /\ UNCHANGED getPos
TryPut(s) ==
    /\ data' = [i \in 0..(Capacity - 1) |->
                   IF Offset(i) \in 1..Fitting(s) THEN s[Offset(i)] ELSE data[i]]
    /\ putPos' = Wrap(putPos + Fitting(s))
    /\ queueSize' = queueSize + Fitting(s)
    /\ UNCHANGED getPos

\* The reader is woken, if it waits, when there is a reason.
Wake(reason) ==
    /\ rxWaiting' = (rxWaiting /\ ~reason)
    /\ rxFlag' = (rxFlag /\ ~(rxWaiting /\ reason))

\* The interrupt of the DMA has the higher priority, "to ensure IRQhandleDMArx() is
\* called before IRQhandleInterrupt(), so that idle is set correctly".
\* Faulty variant: it has not.
PortFirst == TRUE
DmaFirst == ~halfFlag

\* With the DMA only the idle line interrupts, and IRQreadDma empties rxBuffer.
Taken == IF dmaRx THEN rxBuffer ELSE IF framing THEN <<>> ELSE register

IRQhandleInterrupt ==
    /\ register # <<>> \/ idleFlag
    /\ DmaFirst
    /\ TryPut(Taken)
    /\ rxBuffer' = <<>>
    /\ register' = <<>> /\ framing' = FALSE
    /\ idle' = idleFlag
    /\ idleFlag' = FALSE
    /\ Wake(idleFlag \/ queueSize' >= rxQueueMin)
    /\ UNCHANGED <<dmaRx, busy, halfFlag, reading>>

IRQhandleDMArx ==
    /\ halfFlag
    /\ TryPut(rxBuffer)
    /\ rxBuffer' = <<>> /\ halfFlag' = FALSE
    /\ idle' = FALSE
    /\ Wake(TRUE)
    /\ UNCHANGED <<dmaRx, busy, register, framing, idleFlag, reading>>

-----------------------------------------------------------------------------
(***************************************************************************)
(* readBlock.                                                              *)
(***************************************************************************)
ReadBlock(n) ==
    /\ reader = "out"
    /\ reader' = "read" /\ size' = n /\ result' = 0
    /\ UNCHANGED <<dmaRx, ring, idle, rxWaiting, rxBuffer, rxLine, rxFlag, byte>>

\* One byte; then interrupts are enabled for a moment.
TryGet ==
    /\ reader = "read" /\ result < size /\ queueSize > 0
    /\ byte' = data[getPos]
    /\ getPos' = Wrap(getPos + 1)
    /\ queueSize' = queueSize - 1
    /\ result' = result + 1
    /\ UNCHANGED <<dmaRx, data, putPos, idle, rxWaiting, rxBuffer, rxLine, reader, size, rxFlag>>

\* Faulty variant: what was read before the line fell idle is forgotten.
EnoughFull == result = size
Enough == (idle /\ result > 0) \/ result = size

\* The queue is empty or the call complete.
Return ==
    /\ reader = "read" /\ (queueSize = 0 \/ result = size) /\ Enough
    /\ reader' = "out"
    /\ UNCHANGED <<dmaRx, ring, idle, rxWaiting, rxBuffer, rxLine, size, result, rxFlag, byte>>

IRQwait ==
    /\ rxWaiting' = TRUE /\ rxFlag' = TRUE
    /\ UNCHANGED <<dmaRx, ring, idle, rxBuffer, rxLine, size, result, byte>>

Sleep ==
    /\ reader = "read" /\ queueSize = 0 /\ ~Enough
    /\ reader' = "wait"
    /\ IRQwait

\* The reader runs again; while rxWaiting is set the wakeup was not for it.
Awake ==
    /\ reader = "wait" /\ ~rxFlag
    /\ IF rxWaiting
         THEN IRQwait /\ UNCHANGED reader
         ELSE /\ reader' = "read"
              /\ UNCHANGED <<dmaRx, ring, idle, rxWaiting, rxBuffer, rxLine, size, result,
                             rxFlag, byte>>

RxSpurious ==
    /\ rxFlag
    /\ rxFlag' = FALSE
    /\ UNCHANGED <<dmaRx, ring, idle, rxWaiting, rxBuffer, rxLine, reading>>

-----------------------------------------------------------------------------
Interrupt == IRQhandleInterrupt \/ IRQhandleDMArx
Reading == TryGet \/ Return \/ Sleep \/ Awake

RxNext ==
    \/ \E b \in Bytes, error \in BOOLEAN : Receive(b, error)
    \/ LineIdle \/ Interrupt
    \/ \E n \in 0..MaxRead : ReadBlock(n)
    \/ Reading \/ RxSpurious

RxSpec == RxInit /\ [][RxNext]_rxVars

\* Interrupts are served, the reader gets the processor, and the sender pauses now and
\* then for the time of a byte.
RxFairness == WF_rxVars(Interrupt) /\ WF_rxVars(Reading) /\ WF_rxVars(LineIdle)

-----------------------------------------------------------------------------
(***************************************************************************)
(* Properties.                                                             *)
(***************************************************************************)
RxTypeOK ==
    /\ dmaRx \in BOOLEAN
    /\ data \in [0..(Capacity - 1) -> Bytes \cup {Unset}]
    /\ putPos \in 0..(Capacity - 1) /\ getPos \in 0..(Capacity - 1)
    /\ queueSize \in 0..Capacity
    /\ {idle, rxWaiting, busy, framing, idleFlag, halfFlag, rxFlag} \subseteq BOOLEAN
    /\ rxBuffer \in Seq(Bytes) /\ Len(rxBuffer) <= rxQueueMin
    /\ register \in Seq(Bytes) /\ Len(register) <= 1
    /\ reader \in {"out", "read", "wait"}
    /\ size \in 0..MaxRead /\ result \in 0..size
    /\ byte \in Bytes \cup {Unset}

\* What waits to be read: in the ring, then on its way there.
Stored == [i \in 1..queueSize |-> data[Wrap(getPos + i - 1)]]
Unread == Stored \o Taken

\* Bytes are read in the order they arrived, through the register, the two buffers
\* and the wrapping ring, and are dropped only where the ring is full.
Port == INSTANCE TailDropFifo WITH Values <- Bytes, queue <- Unread, got <- byte

RefinesTailDrop == Port!Init /\ [][Port!Next]_<<Unread, byte>>

\* While the reader sleeps with something to return, an interrupt that wakes it is
\* still to come: no order of bytes, pauses and interrupts leaves it asleep with them.
ReaderServed ==
    rxFlag =>
        /\ rxWaiting /\ queueSize < rxQueueMin
        /\ queueSize > 0 \/ result > 0 \/ rxBuffer # <<>> => busy \/ idleFlag

\* On a line without errors, a call that has read a byte returns.
ReaderReturns ==
    <>[][~framing']_rxVars => (reader # "out" /\ result > 0 ~> reader = "out")

=============================================================================
