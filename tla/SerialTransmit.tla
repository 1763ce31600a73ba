--------------------------- MODULE SerialTransmit ---------------------------
(***************************************************************************)
(* The transmitting half of STM32Serial (arch/common/drivers/              *)
(* serial_stm32.cpp): writeBlock sends all but the end of a large buffer   *)
(* with the DMA straight from the caller's memory, and the end from        *)
(* txBuffer, so that it can return while the DMA still runs.               *)
(*                                                                         *)
(* txMutex lets in one writer at a time, so there is one.  The bytes given *)
(* to writeBlock are the numbers 1, 2, 3 ... in the order of the calls.    *)
(***************************************************************************)
EXTENDS Integers, Sequences

CONSTANTS
    txBufferSize,
    MaxTransfer,   \* "DMA is limited to 64K"
    MaxWrite,      \* bound: bytes of one call
    MaxTotal,      \* bound: bytes of all calls
    Junk           \* what memory holds that is not the caller's bytes

ASSUME TransmitAssumption ==
    /\ txBufferSize \in Nat \ {0} /\ MaxTransfer \in Nat \ {0}
    /\ MaxWrite \in Nat /\ MaxTotal \in Nat
    /\ Junk \notin Nat

VARIABLES
    dmaTx,            \* the port has a DMA channel: chosen once
    txBuffer,
    dmaTxInProgress,
    txWaiting,        \* it points to the writer
    \* The hardware.
    dma,              \* where the DMA reads, from which byte, how many are left
    txIrq,            \* its interrupt is pending
    wire,             \* history: what writeBlock has had sent
    \* The thread in writeBlock.
    writer,           \* "out", "next" (top of a loop), "wait" or "start"
    buffer,           \* the caller's memory, given back at the return
    ccm,              \* isInCCMarea(buffer)
    remaining,
    txFlag,           \* its ThreadFlags::WAIT
    total             \* history: bytes given to writeBlock

writing == <<writer, buffer, ccm, remaining, total>>
txVars == <<dmaTx, txBuffer, dmaTxInProgress, txWaiting, dma, txIrq, wire, writer, buffer,
            ccm, remaining, txFlag, total>>

TxInit ==
    /\ dmaTx \in BOOLEAN
    /\ txBuffer = [i \in 1..txBufferSize |-> Junk]
    /\ dmaTxInProgress = FALSE /\ txWaiting = FALSE
    /\ dma = [from |-> "txBuffer", pos |-> 1, left |-> 0] /\ txIrq = FALSE
    /\ wire = <<>>
    /\ writer = "out" /\ buffer = <<>> /\ ccm = FALSE /\ remaining = 0
    /\ txFlag = FALSE /\ total = 0

Least(i, j) == IF i <= j THEN i ELSE j

-----------------------------------------------------------------------------
(***************************************************************************)
(* writeBlock.                                                             *)
(***************************************************************************)
\* Bytes of the buffer already handed on.
Done == Len(buffer) - remaining

WriteBlock(n, inCCM) ==
    /\ writer = "out" /\ total + n <= MaxTotal
    /\ writer' = "next"
    /\ buffer' = [i \in 1..n |-> total + i] /\ ccm' = inCCM
    /\ remaining' = n /\ total' = total + n
    /\ UNCHANGED <<dmaTx, txBuffer, dmaTxInProgress, txWaiting, dma, txIrq, wire, txFlag>>

\* Without the DMA the writer waits for the port itself.
Poll ==
    /\ writer = "next" /\ ~dmaTx /\ remaining > 0
    /\ wire' = Append(wire, buffer[Done + 1])
    /\ remaining' = remaining - 1
    /\ UNCHANGED <<dmaTx, txBuffer, dmaTxInProgress, txWaiting, dma, txIrq, writer, buffer,
                   ccm, txFlag, total>>

\* Faulty variant: the previous transfer is not waited for.
NeverMustWait == FALSE
MustWait == dmaTxInProgress

WaitDmaTxCompletion ==
    /\ writer = "next" /\ dmaTx /\ remaining > 0
    /\ IF MustWait
         THEN writer' = "wait" /\ txWaiting' = TRUE /\ txFlag' = TRUE
         ELSE writer' = "start" /\ UNCHANGED <<txWaiting, txFlag>>
    /\ UNCHANGED <<dmaTx, txBuffer, dmaTxInProgress, dma, txIrq, wire, buffer, ccm,
                   remaining, total>>

\* While txWaiting is set the wakeup was not for the writer.
WriterAwake ==
    /\ writer = "wait" /\ ~txFlag
    /\ IF txWaiting THEN txFlag' = TRUE /\ UNCHANGED writer
                    ELSE writer' = "start" /\ UNCHANGED txFlag
    /\ UNCHANGED <<dmaTx, txBuffer, dmaTxInProgress, txWaiting, dma, txIrq, wire, buffer,
                   ccm, remaining, total>>

\* "Use zero copy for all but the last txBufferSize bytes, if possible".
\* Faulty variant: for those as well.
ZeroCopyAll == IF ccm THEN 0 ELSE Least(remaining, MaxTransfer)
ZeroCopy == IF ccm \/ remaining <= txBufferSize THEN 0
            ELSE Least(remaining - txBufferSize, MaxTransfer)

\* The DMA sends n bytes; writeBlock goes on to the next.
WriteDma(place, first, n) ==
    /\ dma' = [from |-> place, pos |-> first, left |-> n]
    /\ dmaTxInProgress' = TRUE
    /\ remaining' = remaining - n
    /\ writer' = "next"
    /\ UNCHANGED <<dmaTx, txWaiting, txIrq, wire, buffer, ccm, txFlag, total>>

StartZeroCopy ==
    /\ writer = "start" /\ ZeroCopy > 0
    /\ WriteDma("caller", Done + 1, ZeroCopy)
    /\ UNCHANGED txBuffer

StartCopied ==
    /\ writer = "start" /\ ZeroCopy = 0
    /\ LET n == Least(remaining, txBufferSize)
       IN /\ txBuffer' = [i \in 1..txBufferSize |->
                             IF i <= n THEN buffer[Done + i] ELSE txBuffer[i]]
          /\ WriteDma("txBuffer", 1, n)

ReturnSize ==
    /\ writer = "next" /\ remaining = 0
    /\ writer' = "out" /\ buffer' = <<>>
    /\ UNCHANGED <<dmaTx, txBuffer, dmaTxInProgress, txWaiting, dma, txIrq, wire, ccm,
                   remaining, txFlag, total>>

-----------------------------------------------------------------------------
(***************************************************************************)
(* The DMA and its interrupt.                                              *)
(***************************************************************************)
\* The i-th byte the DMA is still to fetch.  It reaches no memory in the CCM.
Fetch(i) ==
    LET p == dma.pos + i - 1
    IN IF dma.from = "txBuffer" THEN txBuffer[p]
       ELSE IF p <= Len(buffer) /\ ~ccm THEN buffer[p] ELSE Junk

\* It sends n bytes, and interrupts after the last.
Transfer(n) ==
    /\ wire' = wire \o [i \in 1..n |-> Fetch(i)]
    /\ dma' = [dma EXCEPT !.pos = dma.pos + n, !.left = dma.left - n]
    /\ txIrq' = (dma.left = n)
    /\ UNCHANGED <<dmaTx, txBuffer, dmaTxInProgress, txWaiting, writing, txFlag>>

DmaStep == dma.left > 0 /\ Transfer(1)

\* IRQwrite holds interrupts off until the DMA is done; what it then prints itself is
\* left out.
IRQwrite == dma.left > 0 /\ Transfer(dma.left)

\* Faulty variant: the flag is not cleared.
CompletedNot == dmaTxInProgress
Completed == FALSE

\* Faulty variant: nobody is woken.
AwakenedNot == txFlag
Awakened == txFlag /\ ~txWaiting

IRQhandleDMAtx ==
    /\ txIrq
    /\ txIrq' = FALSE
    /\ dmaTxInProgress' = Completed
    /\ txFlag' = Awakened
    /\ txWaiting' = FALSE
    /\ UNCHANGED <<dmaTx, txBuffer, dma, wire, writing>>

TxSpurious ==
    /\ txFlag
    /\ txFlag' = FALSE
    /\ UNCHANGED <<dmaTx, txBuffer, dmaTxInProgress, txWaiting, dma, txIrq, wire, writing>>

-----------------------------------------------------------------------------
Writing == Poll \/ WaitDmaTxCompletion \/ WriterAwake \/ StartZeroCopy \/ StartCopied
              \/ ReturnSize

TxNext ==
    \/ \E n \in 0..MaxWrite, inCCM \in BOOLEAN : WriteBlock(n, inCCM)
    \/ Writing \/ DmaStep \/ IRQwrite \/ IRQhandleDMAtx \/ TxSpurious

TxSpec == TxInit /\ [][TxNext]_txVars

\* The writer gets the processor, the DMA runs and its interrupt is served.
TxFairness == WF_txVars(Writing) /\ WF_txVars(DmaStep) /\ WF_txVars(IRQhandleDMAtx)

-----------------------------------------------------------------------------
(***************************************************************************)
(* Properties.                                                             *)
(***************************************************************************)
TxTypeOK ==
    /\ {dmaTx, dmaTxInProgress, txWaiting, txIrq, ccm, txFlag} \subseteq BOOLEAN
    /\ txBuffer \in [1..txBufferSize -> Nat \cup {Junk}]
    /\ dma \in [from : {"txBuffer", "caller"}, pos : Nat \ {0}, left : Nat]
    /\ wire \in Seq(Nat \cup {Junk})
    /\ writer \in {"out", "next", "wait", "start"}
    /\ buffer \in Seq(Nat)
    /\ remaining \in 0..Len(buffer)
    /\ total \in 0..MaxTotal

\* Every byte given to writeBlock is sent, once and in order: those sent, those the DMA
\* will fetch from where it reads now, and those the caller's buffer still holds are the
\* bytes of all calls.  The DMA never reads memory that the caller was given back, that
\* it cannot reach, or that was filled again before it was done.
InOrder ==
    /\ \A i \in 1..Len(wire) : wire[i] = i
    /\ \A i \in 1..dma.left : Fetch(i) = Len(wire) + i
    /\ \A i \in 1..remaining : buffer[Done + i] = Len(wire) + dma.left + i
    /\ total = Len(wire) + dma.left + remaining

\* A call of writeBlock returns.
WriterReturns == writer # "out" ~> writer = "out"

=============================================================================
