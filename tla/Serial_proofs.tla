--------------------------- MODULE Serial_proofs ---------------------------
(***************************************************************************)
(* Both halves of the serial port, for any sizes of their buffers and any  *)
(* bytes: the receiving one implements the queue that drops what is newest *)
(* and leaves no reader asleep with bytes to return, and the transmitting  *)
(* one sends the bytes it is given, all of them, once and in order.        *)
(***************************************************************************)
EXTENDS SerialReceive, SerialTransmit, SequenceTheorems, TLAPS

-----------------------------------------------------------------------------
(***************************************************************************)
(* The transmitting half.                                                  *)
(***************************************************************************)
\* The interrupt of the last transfer is still to come or was served, and who starts
\* the next has waited for it.
Awaited ==
    /\ dma.left > 0 => dmaTxInProgress /\ ~txIrq
    /\ txIrq => dmaTxInProgress
    /\ dmaTxInProgress => dmaTx
    /\ writer \in {"wait", "start"} => dmaTx /\ remaining > 0
    /\ writer = "wait" /\ dmaTxInProgress => txWaiting
    /\ writer = "start" => ~dmaTxInProgress
    /\ writer = "out" => remaining = 0

\* While the DMA reads the caller's memory there is more to write.
Borrowed ==
    dma.left > 0 /\ dma.from = "caller" =>
        /\ writer # "out" /\ remaining > 0 /\ ~ccm
        /\ dma.pos + dma.left - 1 <= Len(buffer)

TxIInv == TxTypeOK /\ InOrder /\ Awaited /\ Borrowed

LEMMA TxInitIInv == TxInit => TxIInv
<1> SUFFICES ASSUME TxInit
             PROVE  TxIInv
  OBVIOUS
<1> USE TransmitAssumption DEF TxInit
<1>1. TxTypeOK
  <2>1. <<>> \in Seq(Nat) /\ <<>> \in Seq(Nat \cup {Junk}) /\ Len(<<>>) = 0
    OBVIOUS
  <2>2. txBuffer \in [1..txBufferSize -> Nat \cup {Junk}]
    OBVIOUS
  <2>3. dma \in [from : {"txBuffer", "caller"}, pos : Nat \ {0}, left : Nat]
    OBVIOUS
  <2>4. /\ {dmaTx, dmaTxInProgress, txWaiting, txIrq, ccm, txFlag} \subseteq BOOLEAN
        /\ wire = <<>> /\ buffer = <<>> /\ writer = "out" /\ remaining = 0 /\ total = 0
    OBVIOUS
  <2> HIDE DEF TxInit
  <2> QED BY <2>1, <2>2, <2>3, <2>4 DEF TxTypeOK
<1>2. InOrder
  BY DEF InOrder
<1>3. Awaited /\ Borrowed
  BY DEF Awaited, Borrowed
<1> QED BY <1>1, <1>2, <1>3 DEF TxIInv

\* What TxTypeOK says of one state, for the arithmetic below.
LEMMA TxTypes ==
    ASSUME TxTypeOK
    PROVE  /\ dma.left \in Nat /\ dma.pos \in Nat \ {0} /\ dma.from \in {"txBuffer", "caller"}
           /\ Len(buffer) \in Nat /\ remaining \in Nat /\ remaining <= Len(buffer)
           /\ Done \in Nat /\ Done + remaining = Len(buffer)
           /\ \A i \in 1..Len(buffer) : buffer[i] \in Nat
           /\ Len(wire) \in Nat /\ total \in Nat
<1>1. /\ dma.left \in Nat /\ dma.pos \in Nat \ {0} /\ dma.from \in {"txBuffer", "caller"}
      /\ buffer \in Seq(Nat) /\ wire \in Seq(Nat \cup {Junk})
      /\ remaining \in 0..Len(buffer) /\ total \in 0..MaxTotal
  BY DEF TxTypeOK
<1>2. Len(buffer) \in Nat /\ Len(wire) \in Nat /\ \A i \in 1..Len(buffer) : buffer[i] \in Nat
  BY <1>1, ElementOfSeq
<1> QED BY <1>1, <1>2, TransmitAssumption DEF Done

LEMMA WriteBlockStep ==
    ASSUME TxIInv, NEW n \in 0..MaxWrite, NEW inCCM \in BOOLEAN, WriteBlock(n, inCCM)
    PROVE  TxIInv'
<1> USE TransmitAssumption DEF TxIInv
<1>1. /\ writer = "out" /\ total + n <= MaxTotal /\ writer' = "next"
      /\ buffer' = [i \in 1..n |-> total + i] /\ ccm' = inCCM
      /\ remaining' = n /\ total' = total + n
      /\ UNCHANGED <<dmaTx, txBuffer, dmaTxInProgress, txWaiting, dma, txIrq, wire, txFlag>>
  BY DEF WriteBlock
<1>2. n \in Nat /\ total \in Nat /\ dma.left \in Nat /\ Len(wire) \in Nat
  BY TxTypes
<1>3. /\ buffer' \in Seq(Nat) /\ Len(buffer') = n
      /\ \A i \in 1..n : buffer'[i] = total + i
  <2>1. \A i \in 1..n : total + i \in Nat
    BY <1>2
  <2> QED BY <1>1, <1>2, <2>1, IsASeq
<1>4. TxTypeOK'
  BY <1>1, <1>2, <1>3 DEF TxTypeOK
<1>5. dma.left > 0 => dma.from = "txBuffer"
  BY <1>1, TxTypes DEF Borrowed
<1>6. ASSUME NEW i \in 1..dma.left
      PROVE  Fetch(i)' = Fetch(i)
  BY <1>1, <1>2, <1>5, <1>6 DEF Fetch
<1>7. InOrder'
  <2>1. remaining = 0
    BY <1>1 DEF Awaited
  <2> QED BY <1>1, <1>2, <1>3, <1>6, <2>1 DEF InOrder, Done
<1>8. Awaited' /\ Borrowed'
  BY <1>1, <1>2, <1>5 DEF Awaited, Borrowed
<1> QED BY <1>4, <1>7, <1>8

LEMMA PollStep ==
    ASSUME TxIInv, Poll
    PROVE  TxIInv'
<1> USE TransmitAssumption DEF TxIInv
<1>1. /\ writer = "next" /\ ~dmaTx /\ remaining > 0
      /\ wire' = Append(wire, buffer[Done + 1])
      /\ remaining' = remaining - 1
      /\ UNCHANGED <<dmaTx, txBuffer, dmaTxInProgress, txWaiting, dma, txIrq, writer, buffer,
                     ccm, txFlag, total>>
  BY DEF Poll
<1>2. /\ dma.left = 0 /\ Done \in Nat /\ Done + 1 \in 1..Len(buffer)
      /\ remaining \in Nat /\ Len(wire) \in Nat
      /\ Done' = Done + 1 /\ Len(buffer) \in Nat
  BY SMTT(20), <1>1, TxTypes DEF Awaited, Done
<1>3. buffer[Done + 1] = Len(wire) + 1 /\ buffer[Done + 1] \in Nat
  BY <1>1, <1>2, TxTypes DEF InOrder
<1>4. /\ wire' \in Seq(Nat \cup {Junk}) /\ Len(wire') = Len(wire) + 1
      /\ \A i \in 1..Len(wire) : wire'[i] = wire[i]
      /\ wire'[Len(wire) + 1] = Len(wire) + 1
  BY <1>1, <1>3, AppendProperties DEF TxTypeOK
<1>5. TxTypeOK'
  BY SMTT(20), <1>1, <1>2, <1>4 DEF TxTypeOK
<1>6. InOrder'
  <2>1. \A i \in 1..Len(wire') : wire'[i] = i
    BY <1>2, <1>4 DEF InOrder
  <2>2. \A i \in 1..remaining' : buffer'[Done' + i] = Len(wire') + dma.left + i
    <3>1. ASSUME NEW i \in 1..remaining'
          PROVE  buffer[Done + (i + 1)] = Len(wire) + dma.left + (i + 1)
      <4>1. i + 1 \in 1..remaining
        BY <1>1, <1>2
      <4> QED BY <4>1 DEF InOrder
    <3> QED BY <1>1, <1>2, <1>4, <3>1
  <2> QED BY <1>1, <1>2, <1>4, <2>1, <2>2 DEF InOrder
<1>7. Awaited' /\ Borrowed'
  BY <1>1, <1>2 DEF Awaited, Borrowed
<1> QED BY <1>5, <1>6, <1>7

LEMMA WaitStep ==
    ASSUME TxIInv, WaitDmaTxCompletion \/ WriterAwake \/ TxSpurious
    PROVE  TxIInv'
<1> USE TransmitAssumption DEF TxIInv
<1>1. UNCHANGED <<dmaTx, txBuffer, dmaTxInProgress, dma, txIrq, wire, buffer, ccm, remaining, total>>
  BY DEF WaitDmaTxCompletion, WriterAwake, TxSpurious, writing
<1>2. InOrder'
  <2>1. \A i \in 1..dma.left : Fetch(i)' = Fetch(i)
    BY <1>1 DEF Fetch
  <2> QED BY <1>1, <2>1 DEF InOrder, Done
<1>3. TxTypeOK'
  BY <1>1 DEF TxTypeOK, WaitDmaTxCompletion, WriterAwake, TxSpurious, writing
<1>4. Awaited'
  BY <1>1 DEF Awaited, WaitDmaTxCompletion, MustWait, WriterAwake, TxSpurious, writing
<1>5. Borrowed'
  BY <1>1 DEF Borrowed, WaitDmaTxCompletion, WriterAwake, TxSpurious, writing
<1> QED BY <1>2, <1>3, <1>4, <1>5

\* What the two ways of starting the DMA share: it will fetch the next n bytes.
LEMMA StartStep ==
    ASSUME TxIInv, writer = "start",
           NEW place \in {"txBuffer", "caller"}, NEW first \in Nat \ {0}, NEW n \in 1..remaining,
           WriteDma(place, first, n),
           txBuffer' \in [1..txBufferSize -> Nat \cup {Junk}],
           \A i \in 1..n : Fetch(i)' = buffer[Done + i],
           place = "caller" => n < remaining /\ ~ccm /\ first + n - 1 <= Len(buffer)
    PROVE  TxIInv'
<1> USE TransmitAssumption DEF TxIInv
<1>1. /\ dma' = [from |-> place, pos |-> first, left |-> n]
      /\ dmaTxInProgress' = TRUE /\ remaining' = remaining - n /\ writer' = "next"
      /\ UNCHANGED <<dmaTx, txWaiting, txIrq, wire, buffer, ccm, txFlag, total>>
  BY DEF WriteDma
<1>2. dma'.from = place /\ dma'.pos = first /\ dma'.left = n
  BY <1>1
<1>3. /\ remaining \in Nat /\ n \in Nat /\ Done \in Nat /\ Len(wire) \in Nat
      /\ Len(buffer) \in Nat /\ Done + remaining = Len(buffer) /\ Done' = Done + n
  <2>1. n \in Nat /\ remaining \in Nat
    BY TxTypes
  <2> QED BY <1>1, <2>1, TxTypes DEF Done
<1>4. dma.left = 0 /\ dmaTx
  BY TxTypes DEF Awaited
<1>5. TxTypeOK'
  <2>1. dma' \in [from : {"txBuffer", "caller"}, pos : Nat \ {0}, left : Nat]
    BY <1>1, <1>3
  <2>2. remaining' \in 0..Len(buffer)
    BY <1>1, <1>3
  <2> QED BY <1>1, <2>1, <2>2 DEF TxTypeOK
<1>6. InOrder'
  <2>1. \A i \in 1..remaining : buffer[Done + i] = Len(wire) + i
    BY <1>3, <1>4 DEF InOrder
  <2>2. \A i \in 1..n : Fetch(i)' = Len(wire) + i
    BY <1>3, <2>1
  <2>3. ASSUME NEW i \in 1..remaining'
        PROVE  buffer'[Done' + i] = Len(wire') + n + i
    <3>1. n + i \in 1..remaining
      BY <1>1, <1>3
    <3>2. buffer[Done + (n + i)] = Len(wire) + (n + i)
      BY <2>1, <3>1
    <3> QED BY <1>1, <1>3, <3>2
  <2>4. total' = Len(wire') + n + remaining'
    BY <1>1, <1>3, <1>4 DEF InOrder
  <2>5. \A i \in 1..Len(wire') : wire'[i] = i
    BY <1>1 DEF InOrder
  <2> QED BY <1>1, <1>2, <2>2, <2>3, <2>4, <2>5 DEF InOrder
<1>7. Awaited' /\ Borrowed'
  BY <1>1, <1>2, <1>3, <1>4 DEF Awaited, Borrowed
<1> QED BY <1>5, <1>6, <1>7

LEMMA StartZeroCopyStep ==
    ASSUME TxIInv, StartZeroCopy
    PROVE  TxIInv'
<1> USE TransmitAssumption
<1>1. /\ remaining \in Nat /\ Done \in Nat /\ Len(buffer) \in Nat /\ Done + remaining = Len(buffer)
  BY TxTypes DEF TxIInv
<1>2. /\ ~ccm /\ ZeroCopy \in 1..remaining /\ ZeroCopy < remaining
  BY <1>1 DEF StartZeroCopy, ZeroCopy, Least
<1>3. /\ writer = "start" /\ WriteDma("caller", Done + 1, ZeroCopy) /\ txBuffer' = txBuffer
  BY DEF StartZeroCopy
<1> DEFINE n == ZeroCopy
<1> HIDE DEF n
<1>4. n \in 1..remaining /\ n < remaining /\ Done + 1 \in Nat \ {0}
      /\ WriteDma("caller", Done + 1, n)
  BY <1>1, <1>2, <1>3 DEF n
<1>5. ASSUME NEW i \in 1..n
      PROVE  Fetch(i)' = buffer[Done + i]
  <2>1. dma'.from = "caller" /\ dma'.pos = Done + 1 /\ buffer' = buffer /\ ccm' = ccm
    BY <1>4 DEF WriteDma
  <2>2. (Done + 1) + i - 1 = Done + i /\ Done + i <= Len(buffer)
    BY <1>1, <1>4
  <2> QED BY <1>2, <2>1, <2>2 DEF Fetch
<1>6. (Done + 1) + n - 1 <= Len(buffer)
  BY <1>1, <1>4
<1>7. txBuffer' \in [1..txBufferSize -> Nat \cup {Junk}]
  BY <1>3 DEF TxIInv, TxTypeOK
<1> QED BY <1>2, <1>3, <1>4, <1>5, <1>6, <1>7, StartStep

LEMMA StartCopiedStep ==
    ASSUME TxIInv, StartCopied
    PROVE  TxIInv'
<1> USE TransmitAssumption
<1> DEFINE n == Least(remaining, txBufferSize)
<1>1. /\ remaining \in Nat /\ Done \in Nat /\ Len(buffer) \in Nat /\ Done + remaining = Len(buffer)
      /\ \A i \in 1..Len(buffer) : buffer[i] \in Nat
  BY TxTypes DEF TxIInv
<1>2. n \in 1..remaining /\ n <= txBufferSize
  BY <1>1 DEF Least, StartCopied, TxIInv, Awaited
<1>3. /\ writer = "start" /\ WriteDma("txBuffer", 1, n)
      /\ txBuffer' = [i \in 1..txBufferSize |-> IF i <= n THEN buffer[Done + i] ELSE txBuffer[i]]
  BY DEF StartCopied
<1> HIDE DEF n
<1>4. \A i \in 1..n : Done + i \in 1..Len(buffer) /\ i \in 1..txBufferSize
  BY <1>1, <1>2
<1>5. txBuffer' \in [1..txBufferSize -> Nat \cup {Junk}]
  <2>1. txBuffer \in [1..txBufferSize -> Nat \cup {Junk}]
    BY DEF TxIInv, TxTypeOK
  <2> QED BY <1>1, <1>2, <1>3, <1>4, <2>1
<1>6. ASSUME NEW i \in 1..n
      PROVE  Fetch(i)' = buffer[Done + i]
  <2>1. dma'.from = "txBuffer" /\ dma'.pos = 1
    BY <1>3 DEF WriteDma
  <2>2. 1 + i - 1 = i /\ i <= n
    BY <1>2
  <2> QED BY <1>3, <1>4, <2>1, <2>2 DEF Fetch
<1>7. 1 \in Nat \ {0}
  OBVIOUS
<1> QED BY <1>2, <1>3, <1>5, <1>6, <1>7, StartStep

LEMMA ReturnStep ==
    ASSUME TxIInv, ReturnSize
    PROVE  TxIInv'
<1> USE TransmitAssumption DEF TxIInv
<1>1. /\ writer = "next" /\ remaining = 0 /\ writer' = "out" /\ buffer' = <<>>
      /\ UNCHANGED <<dmaTx, txBuffer, dmaTxInProgress, txWaiting, dma, txIrq, wire, ccm,
                     remaining, txFlag, total>>
  BY DEF ReturnSize
<1>2. dma.left > 0 => dma.from = "txBuffer"
  BY <1>1, TxTypes DEF Borrowed
<1>3. \A i \in 1..dma.left : Fetch(i)' = Fetch(i)
  BY <1>1, <1>2, TxTypes DEF Fetch
<1>4. TxTypeOK'
  <2>1. <<>> \in Seq(Nat) /\ Len(<<>>) = 0
    OBVIOUS
  <2> QED BY <1>1, <2>1 DEF TxTypeOK
<1>5. InOrder' /\ Awaited' /\ Borrowed'
  BY <1>1, <1>2, <1>3 DEF InOrder, Awaited, Borrowed
<1> QED BY <1>4, <1>5

LEMMA TransferStep ==
    ASSUME TxIInv, NEW n \in 1..dma.left, Transfer(n)
    PROVE  TxIInv'
<1> USE TransmitAssumption DEF TxIInv
<1> DEFINE sent == [i \in 1..n |-> Fetch(i)]
<1>1. /\ wire' = wire \o sent
      /\ dma' = [dma EXCEPT !.pos = dma.pos + n, !.left = dma.left - n]
      /\ txIrq' = (dma.left = n)
      /\ UNCHANGED <<dmaTx, txBuffer, dmaTxInProgress, txWaiting, writer, buffer, ccm,
                     remaining, total, txFlag>>
  BY DEF Transfer, writing
<1>2. /\ n \in Nat /\ dma.left \in Nat /\ n <= dma.left /\ dma.pos \in Nat \ {0}
      /\ Len(wire) \in Nat /\ Len(buffer) \in Nat /\ remaining \in Nat /\ Done \in Nat
  BY TxTypes
<1>3. dma'.from = dma.from /\ dma'.pos = dma.pos + n /\ dma'.left = dma.left - n
  BY <1>1 DEF TxTypeOK
<1>4. /\ sent \in Seq(Nat \cup {Junk}) /\ Len(sent) = n
      /\ \A i \in 1..n : sent[i] = Len(wire) + i
  <2>1. \A i \in 1..n : Fetch(i) = Len(wire) + i
    BY <1>2 DEF InOrder
  <2>2. \A i \in 1..n : Fetch(i) \in Nat \cup {Junk}
    BY <1>2, <2>1
  <2> QED BY <1>2, <2>1, <2>2, IsASeq
<1> HIDE DEF sent
<1>5. /\ wire' \in Seq(Nat \cup {Junk}) /\ Len(wire') = Len(wire) + n
      /\ \A i \in 1..(Len(wire) + n) :
            wire'[i] = IF i <= Len(wire) THEN wire[i] ELSE sent[i - Len(wire)]
  BY <1>1, <1>4, ConcatProperties DEF TxTypeOK
<1>6. TxTypeOK'
  <2>1. dma' \in [from : {"txBuffer", "caller"}, pos : Nat \ {0}, left : Nat]
    <3>1. dma' = [from |-> dma.from, pos |-> dma.pos + n, left |-> dma.left - n]
      BY <1>1 DEF TxTypeOK
    <3>2. dma.pos + n \in Nat \ {0} /\ dma.left - n \in Nat
      BY <1>2
    <3> QED BY <3>1, <3>2, TxTypes
  <2>2. txIrq' \in BOOLEAN
    BY <1>1
  <2> QED BY <1>1, <1>5, <2>1, <2>2 DEF TxTypeOK
<1>7. ASSUME NEW i \in 1..dma'.left
      PROVE  Fetch(i)' = Len(wire') + i
  <2>1. n + i \in 1..dma.left /\ dma'.pos + i - 1 = dma.pos + (n + i) - 1
    BY <1>2, <1>3
  <2>2. Fetch(i)' = Fetch(n + i)
    BY <1>1, <1>3, <2>1 DEF Fetch
  <2>3. Fetch(n + i) = Len(wire) + (n + i)
    BY <2>1 DEF InOrder
  <2> QED BY <1>2, <1>3, <1>5, <2>2, <2>3
<1>8. ASSUME NEW i \in 1..Len(wire')
      PROVE  wire'[i] = i
  <2>1. CASE i <= Len(wire)
    <3>1. i \in 1..(Len(wire) + n) /\ i \in 1..Len(wire)
      BY <1>2, <1>5, <1>8, <2>1
    <3> QED BY <1>5, <2>1, <3>1 DEF InOrder
  <2>2. CASE ~(i <= Len(wire))
    <3>1. i - Len(wire) \in 1..n /\ Len(wire) + (i - Len(wire)) = i
      BY <1>2, <1>5, <1>8, <2>2
    <3> QED BY <1>4, <1>5, <2>2, <3>1
  <2> QED BY <2>1, <2>2
<1>9. InOrder'
  <2>1. Len(wire') + dma'.left = Len(wire) + dma.left
    BY <1>2, <1>3, <1>5
  <2>2. \A i \in 1..remaining' : buffer'[Done' + i] = Len(wire') + dma'.left + i
    BY <1>1, <2>1 DEF InOrder, Done
  <2>3. total' = Len(wire') + dma'.left + remaining'
    BY <1>1, <2>1 DEF InOrder
  <2> QED BY <1>7, <1>8, <2>2, <2>3 DEF InOrder
<1>10. Awaited' /\ Borrowed'
  <2>1. dma.left > 0 /\ dmaTxInProgress /\ dmaTxInProgress' = dmaTxInProgress
    BY <1>1, <1>2 DEF Awaited
  <2>2. dma'.left > 0 => ~txIrq'
    <3>1. txIrq' => dma.left = n
      BY <1>1, Zenon
    <3>2. dma.left = n => ~(dma'.left > 0)
      BY <1>2, <1>3
    <3> QED BY <3>1, <3>2, Zenon
  <2>3. Awaited'
    BY <1>1, <2>1, <2>2 DEF Awaited
  <2>4. dma'.pos + dma'.left - 1 = dma.pos + dma.left - 1
    BY SMTT(20), <1>2, <1>3
  <2>5. Borrowed'
    BY <1>1, <1>3, <2>1, <2>4 DEF Borrowed
  <2> QED BY <2>3, <2>5
<1> QED BY <1>6, <1>9, <1>10

LEMMA InterruptTxStep ==
    ASSUME TxIInv, IRQhandleDMAtx
    PROVE  TxIInv'
<1> USE TransmitAssumption DEF TxIInv
<1>1. /\ txIrq /\ txIrq' = FALSE /\ dmaTxInProgress' = FALSE /\ txWaiting' = FALSE
      /\ txFlag' = (txFlag /\ ~txWaiting)
      /\ UNCHANGED <<dmaTx, txBuffer, dma, wire, writer, buffer, ccm, remaining, total>>
  BY DEF IRQhandleDMAtx, Completed, Awakened, writing
<1>2. dma.left = 0
  BY <1>1, TxTypes DEF Awaited
<1>3. TxTypeOK'
  BY <1>1 DEF TxTypeOK
<1>4. InOrder'
  BY <1>1, <1>2 DEF InOrder, Done
<1>5. Awaited' /\ Borrowed'
  BY <1>1, <1>2 DEF Awaited, Borrowed
<1> QED BY <1>3, <1>4, <1>5

LEMMA TxStepIInv == TxIInv /\ [TxNext]_txVars => TxIInv'
<1> SUFFICES ASSUME TxIInv, [TxNext]_txVars
             PROVE  TxIInv'
  OBVIOUS
<1>1. ASSUME DmaStep \/ IRQwrite
      PROVE  TxIInv'
  <2>1. dma.left > 0 /\ \E n \in {1, dma.left} : Transfer(n)
    BY <1>1 DEF DmaStep, IRQwrite
  <2>2. dma.left \in Nat
    BY TxTypes DEF TxIInv
  <2>3. \A n \in {1, dma.left} : n \in 1..dma.left
    BY <2>1, <2>2
  <2> QED BY <2>1, <2>3, TransferStep
<1>2. CASE UNCHANGED txVars
  BY <1>2 DEF txVars, TxIInv, TxTypeOK, InOrder, Fetch, Done, Awaited, Borrowed
<1>3. ASSUME Writing
      PROVE  TxIInv'
  BY <1>3, PollStep, WaitStep, StartZeroCopyStep, StartCopiedStep, ReturnStep, Zenon DEF Writing
<1>4. ASSUME NEW n \in 0..MaxWrite, NEW inCCM \in BOOLEAN, WriteBlock(n, inCCM)
      PROVE  TxIInv'
  BY <1>4, WriteBlockStep, Zenon
<1> QED BY <1>1, <1>2, <1>3, <1>4, WaitStep, InterruptTxStep, Zenon DEF TxNext

LEMMA TxInductive == TxSpec => []TxIInv
BY TxInitIInv, TxStepIInv, PTL DEF TxSpec

\* Every variable of the transmitting half keeps its type.
THEOREM TransmitTypes == TxSpec => []TxTypeOK
<1>1. TxIInv => TxTypeOK
  BY DEF TxIInv
<1> QED BY <1>1, TxInductive, PTL

\* Whatever the sizes, the bytes sent, in transfer and still to be handed on are those
\* given to writeBlock, in order: no buffer is reused or given back too early.
THEOREM SentInOrder == TxSpec => []InOrder
<1>1. TxIInv => InOrder
  BY DEF TxIInv
<1> QED BY <1>1, TxInductive, PTL

\* While a transfer counts as running its interrupt is pending or to come, and a writer
\* asleep is the one that interrupt wakes.
WriterAwaited ==
    /\ dmaTxInProgress => dma.left > 0 \/ txIrq
    /\ txFlag => writer = "wait" /\ txWaiting /\ dmaTxInProgress

Owed == WriterAwaited /\ (txWaiting => writer = "wait" /\ dmaTxInProgress)

LEMMA StepOwed == TxIInv /\ Owed /\ [TxNext]_txVars => Owed'
<1> SUFFICES ASSUME TxIInv, Owed, [TxNext]_txVars
             PROVE  Owed'
  OBVIOUS
<1> USE TransmitAssumption DEF Owed, WriterAwaited
<1>1. /\ {dmaTx, dmaTxInProgress, txWaiting, txIrq, ccm, txFlag} \subseteq BOOLEAN
      /\ dma \in [from : {"txBuffer", "caller"}, pos : Nat \ {0}, left : Nat]
      /\ remaining \in Nat /\ dma.left \in Nat
      /\ writer = "start" => remaining > 0
  BY TxTypes DEF TxIInv, TxTypeOK, Awaited
<1>2. CASE UNCHANGED <<dmaTxInProgress, txWaiting, dma, txIrq, txFlag, writer>>
  BY <1>2
<1>3. ASSUME NEW n \in 0..MaxWrite, NEW inCCM \in BOOLEAN, WriteBlock(n, inCCM)
      PROVE  Owed'
  BY <1>3 DEF WriteBlock
<1>4. CASE Poll \/ ReturnSize \/ UNCHANGED txVars
  BY <1>4 DEF Poll, ReturnSize, txVars
<1>5. CASE WaitDmaTxCompletion
  BY <1>5 DEF WaitDmaTxCompletion, MustWait
<1>6. CASE WriterAwake
  BY <1>6 DEF WriterAwake
<1>7. ASSUME NEW place, NEW first, NEW n \in Nat, n > 0, WriteDma(place, first, n),
             writer = "start"
      PROVE  Owed'
  BY <1>7 DEF WriteDma
<1>8. CASE StartZeroCopy
  <2>1. ZeroCopy \in Nat /\ ZeroCopy > 0
    BY <1>1, <1>8 DEF StartZeroCopy, ZeroCopy, Least
  <2> QED BY <1>7, <1>8, <2>1 DEF StartZeroCopy
<1>9. CASE StartCopied
  <2>1. Least(remaining, txBufferSize) \in Nat /\ Least(remaining, txBufferSize) > 0
    BY <1>1, <1>9 DEF StartCopied, Least
  <2> QED BY <1>7, <1>9, <2>1 DEF StartCopied
<1>10. CASE DmaStep \/ IRQwrite
  <2>1. PICK n \in {1, dma.left} : Transfer(n)
    BY <1>10 DEF DmaStep, IRQwrite
  <2>2. dma'.left = dma.left - n /\ txIrq' = (dma.left = n) /\ dma.left > 0 /\ n \in Nat
    BY <1>1, <1>10, <2>1 DEF Transfer, DmaStep, IRQwrite
  <2>3. UNCHANGED <<dmaTxInProgress, txWaiting, txFlag, writer>>
    BY <2>1 DEF Transfer, writing
  <2>4. CASE dma.left = n
    BY <2>2, <2>3, <2>4
  <2>5. CASE dma.left # n
    <3>1. dma.left - n > 0
      BY <1>1, <2>1, <2>2, <2>5
    <3> QED BY <2>2, <2>3, <3>1
  <2> QED BY <2>4, <2>5
<1>11. CASE IRQhandleDMAtx
  <2>1. dmaTxInProgress' = FALSE /\ txWaiting' = FALSE /\ txFlag' = (txFlag /\ ~txWaiting)
    BY <1>11 DEF IRQhandleDMAtx, Completed, Awakened
  <2> QED BY <2>1
<1>12. CASE TxSpurious
  BY <1>12 DEF TxSpurious, writing
<1> QED BY <1>3, <1>4, <1>5, <1>6, <1>8, <1>9, <1>10, <1>11, <1>12 DEF TxNext, Writing

\* A writer asleep has always an interrupt to come that wakes it, in whatever order the
\* last byte, the interrupt, spurious wakeups and the way to sleep fall.
THEOREM WriterNotLost == TxSpec => []WriterAwaited
<1>1. TxInit => Owed
  BY DEF TxInit, Owed, WriterAwaited
<1>2. Owed => WriterAwaited
  BY DEF Owed
<1> QED BY <1>1, <1>2, StepOwed, TxInductive, PTL DEF TxSpec

-----------------------------------------------------------------------------
(***************************************************************************)
(* The receiving half: its ring.                                           *)
(***************************************************************************)
Ring == getPos \in 0..(Capacity - 1) /\ queueSize \in 0..Capacity
           /\ putPos = Wrap(getPos + queueSize)

\* Where the i-th unread byte is.
Slot(i) == Wrap(getPos + i - 1)

LEMMA RingFacts ==
    ASSUME Ring
    PROVE  /\ Capacity \in Nat \ {0} /\ getPos \in Nat /\ queueSize \in Nat
           /\ putPos \in 0..(Capacity - 1)
           /\ \A i \in 1..Capacity :
                 /\ Slot(i) \in 0..(Capacity - 1)
                 /\ Offset(Slot(i)) = IF i > queueSize THEN i - queueSize
                                                       ELSE i - queueSize + Capacity
<1>1. Capacity \in Nat \ {0} /\ getPos \in Nat /\ queueSize \in Nat
  BY ReceiveAssumption DEF Ring
<1>2. putPos = IF getPos + queueSize >= Capacity THEN (getPos + queueSize) - Capacity
                                                 ELSE getPos + queueSize
  BY Zenon DEF Ring, Wrap
<1>3. putPos \in 0..(Capacity - 1)
  BY <1>1, <1>2 DEF Ring
<1>4. ASSUME NEW i \in 1..Capacity
      PROVE  /\ Slot(i) \in 0..(Capacity - 1)
             /\ Offset(Slot(i)) = IF i > queueSize THEN i - queueSize
                                                   ELSE i - queueSize + Capacity
  <2>1. /\ Slot(i) = IF getPos + i - 1 >= Capacity THEN (getPos + i - 1) - Capacity
                                                  ELSE getPos + i - 1
        /\ i \in Nat
    <3>1. i \in Nat
      BY <1>1
    <3> QED BY <3>1, Zenon DEF Slot, Wrap
  <2>2. Slot(i) \in 0..(Capacity - 1)
    BY <1>1, <2>1 DEF Ring
  <2>3. Offset(Slot(i)) = IF Slot(i) >= putPos THEN Slot(i) - putPos + 1
                                               ELSE Slot(i) - putPos + 1 + Capacity
    BY DEF Offset
  <2> QED BY <1>1, <1>2, <2>1, <2>2, <2>3 DEF Ring
<1> QED BY <1>1, <1>3, <1>4

LEMMA StoredFacts ==
    ASSUME RxTypeOK, Ring, \A i \in 1..queueSize : data[Slot(i)] \in Bytes
    PROVE  /\ Stored \in Seq(Bytes) /\ Len(Stored) = queueSize
           /\ \A i \in 1..queueSize : Stored[i] = data[Slot(i)]
<1>1. queueSize \in Nat
  BY DEF Ring
<1>2. Stored = [i \in 1..queueSize |-> data[Slot(i)]]
  BY DEF Stored, Slot
<1> QED BY <1>1, <1>2, IsASeq

\* Putting s: the bytes that fit follow those stored.
LEMMA PutFacts ==
    ASSUME RxTypeOK, Ring, \A i \in 1..queueSize : data[Slot(i)] \in Bytes,
           NEW s \in Seq(Bytes), Len(s) <= Capacity, TryPut(s)
    PROVE  /\ data' \in [0..(Capacity - 1) -> Bytes \cup {Unset}]
           /\ Ring'
           /\ getPos' = getPos /\ queueSize' = queueSize + Fitting(s)
           /\ Fitting(s) \in 0..Len(s) /\ queueSize + Fitting(s) <= Capacity
           /\ Fitting(s) = Len(s) \/ queueSize + Fitting(s) = Capacity
           /\ \A i \in 1..queueSize : data'[Slot(i)] = data[Slot(i)]
           /\ \A i \in 1..Fitting(s) : data'[Slot(queueSize + i)] = s[i]
<1> USE ReceiveAssumption
<1>1. /\ data' = [i \in 0..(Capacity - 1) |->
                     IF Offset(i) \in 1..Fitting(s) THEN s[Offset(i)] ELSE data[i]]
      /\ putPos' = Wrap(putPos + Fitting(s))
      /\ queueSize' = queueSize + Fitting(s)
      /\ getPos' = getPos
  BY DEF TryPut
<1>2. Len(s) \in Nat /\ \A i \in 1..Len(s) : s[i] \in Bytes
  BY ElementOfSeq
<1>3. /\ Capacity \in Nat \ {0} /\ getPos \in 0..(Capacity - 1) /\ queueSize \in 0..Capacity
      /\ queueSize \in Nat
      /\ \A i \in 1..Capacity :
            /\ Slot(i) \in 0..(Capacity - 1)
            /\ Offset(Slot(i)) = IF i > queueSize THEN i - queueSize
                                                  ELSE i - queueSize + Capacity
  BY RingFacts DEF Ring
<1>4. /\ Fitting(s) \in 0..Len(s) /\ queueSize + Fitting(s) <= Capacity
      /\ Fitting(s) = Len(s) \/ queueSize + Fitting(s) = Capacity
  BY <1>2, <1>3 DEF Fitting
<1> DEFINE n == Fitting(s)
<1> HIDE DEF n
<1>5. n = Fitting(s)
  BY DEF n
<1>6. Ring'
  <2>1. putPos = IF getPos + queueSize >= Capacity THEN (getPos + queueSize) - Capacity
                                                   ELSE getPos + queueSize
    BY Zenon DEF Ring, Wrap
  <2>2. putPos' = IF putPos + n >= Capacity THEN (putPos + n) - Capacity ELSE putPos + n
    BY <1>1, <1>5, Zenon DEF Wrap
  <2>3. n \in Nat /\ queueSize + n <= Capacity /\ queueSize' = queueSize + n
    BY <1>1, <1>2, <1>4, <1>5
  <2>4. putPos' = IF getPos + (queueSize + n) >= Capacity THEN (getPos + (queueSize + n)) - Capacity
                                                         ELSE getPos + (queueSize + n)
    BY <1>3, <2>1, <2>2, <2>3
  <2>5. putPos' = Wrap(getPos + (queueSize + n))
    BY <2>4, Zenon DEF Wrap
  <2>6. (getPos \in 0..(Capacity - 1))' /\ (queueSize \in 0..Capacity)'
    BY <1>1, <1>3, <2>3
  <2>7. (putPos = Wrap(getPos + queueSize))'
    BY <1>1, <2>3, <2>5 DEF Wrap
  <2> QED BY <2>6, <2>7 DEF Ring
<1>8. ASSUME NEW i \in 1..queueSize
      PROVE  data'[Slot(i)] = data[Slot(i)]
  <2>1. i \in 1..Capacity /\ Slot(i) \in 0..(Capacity - 1)
    BY <1>3
  <2>2. Offset(Slot(i)) = i - queueSize + Capacity
    BY <1>3, <2>1
  <2>3. Offset(Slot(i)) \notin 1..n
    BY <1>2, <1>3, <1>4, <1>5, <2>1, <2>2
  <2> QED BY <1>1, <1>5, <2>1, <2>3
<1>9. ASSUME NEW i \in 1..n
      PROVE  data'[Slot(queueSize + i)] = s[i]
  <2>1. queueSize + i \in 1..Capacity
    BY SMTT(20), <1>2, <1>3, <1>4, <1>5
  <2>2. Slot(queueSize + i) \in 0..(Capacity - 1) /\ Offset(Slot(queueSize + i)) = i
    BY SMTT(20), <1>2, <1>3, <1>4, <1>5, <2>1
  <2> QED BY <1>1, <1>5, <2>2
<1>10. data' \in [0..(Capacity - 1) -> Bytes \cup {Unset}]
  <2>1. \A i \in 0..(Capacity - 1) : data[i] \in Bytes \cup {Unset}
    BY DEF RxTypeOK
  <2>2. \A i \in 0..(Capacity - 1) : Offset(i) \in 1..n => s[Offset(i)] \in Bytes
    BY <1>2, <1>4, <1>5
  <2> QED BY <1>1, <1>5, <2>1, <2>2
<1> QED BY <1>1, <1>4, <1>5, <1>6, <1>8, <1>9, <1>10

-----------------------------------------------------------------------------
(***************************************************************************)
(* The receiving half: its inductive invariant.                            *)
(***************************************************************************)
Filled == \A i \in 1..queueSize : data[Slot(i)] \in Bytes

\* A port receives through the register or through rxBuffer.
ByPort ==
    /\ dmaRx => register = <<>>
    /\ ~dmaRx => rxBuffer = <<>>
    /\ halfFlag => dmaRx /\ rxBuffer # <<>>

\* While a byte is on its way, or the line not known to be idle, it will be found idle.
Announced == ~idle \/ rxBuffer # <<>> \/ register # <<>> => busy \/ idleFlag

\* What ReaderServed says, also of a reader woken for another reason.
Asleep ==
    /\ rxFlag => rxWaiting
    /\ rxWaiting =>
          /\ reader = "wait" /\ queueSize < rxQueueMin
          /\ queueSize > 0 \/ result > 0 \/ rxBuffer # <<>> => busy \/ idleFlag

RxIInv == RxTypeOK /\ Ring /\ Filled /\ ByPort /\ Announced /\ Asleep

LEMMA RxInitIInv == RxInit => RxIInv
<1> SUFFICES ASSUME RxInit
             PROVE  RxIInv
  OBVIOUS
<1>1. Capacity \in Nat \ {0} /\ MaxRead \in Nat
  BY ReceiveAssumption
<1>2. <<>> \in Seq(Bytes) /\ Len(<<>>) = 0
  OBVIOUS
<1>3. RxTypeOK
  BY <1>1, <1>2 DEF RxInit, RxTypeOK
<1>4. Ring /\ Filled
  BY <1>1 DEF RxInit, Ring, Wrap, Filled
<1>5. ByPort /\ Announced /\ Asleep
  BY DEF RxInit, ByPort, Announced, Asleep
<1> QED BY <1>3, <1>4, <1>5 DEF RxIInv

LEMMA TakenFacts ==
    ASSUME RxTypeOK
    PROVE  /\ Taken \in Seq(Bytes) /\ rxBuffer \in Seq(Bytes)
           /\ Len(Taken) <= Capacity /\ Len(rxBuffer) <= Capacity
<1>1. Len(<<>>) = 0 /\ <<>> \in Seq(Bytes)
  OBVIOUS
<1>2. /\ rxBuffer \in Seq(Bytes) /\ Len(rxBuffer) <= rxQueueMin /\ Len(rxBuffer) \in Nat
      /\ register \in Seq(Bytes) /\ Len(register) <= 1 /\ Len(register) \in Nat
  BY DEF RxTypeOK
<1> QED BY <1>1, <1>2, ReceiveAssumption DEF Taken

LEMMA ReceiveStep ==
    ASSUME RxIInv, NEW b \in Bytes, NEW error \in BOOLEAN, Receive(b, error)
    PROVE  RxIInv'
<1> USE ReceiveAssumption DEF RxIInv
<1>1. /\ busy' = TRUE
      /\ UNCHANGED <<dmaRx, data, putPos, getPos, queueSize, idle, rxWaiting, idleFlag,
                     reader, size, result, byte, rxFlag>>
  BY DEF Receive, ring, reading
<1>2. /\ rxBuffer' \in Seq(Bytes) /\ Len(rxBuffer') <= rxQueueMin
      /\ register' \in Seq(Bytes) /\ Len(register') <= 1
      /\ halfFlag' \in BOOLEAN /\ framing' \in BOOLEAN
      /\ ByPort'
  <2>1. /\ rxBuffer \in Seq(Bytes) /\ Len(rxBuffer) <= rxQueueMin /\ Len(rxBuffer) \in Nat
        /\ register \in Seq(Bytes) /\ Len(register) <= 1
        /\ halfFlag \in BOOLEAN /\ framing \in BOOLEAN
    BY DEF RxTypeOK
  <2>2. CASE dmaRx
    <3>1. /\ Append(rxBuffer, b) \in Seq(Bytes) /\ Append(rxBuffer, b) # <<>>
          /\ Len(Append(rxBuffer, b)) = Len(rxBuffer) + 1
      BY <2>1, AppendProperties
    <3>2. /\ rxBuffer' = IF Len(rxBuffer) < rxQueueMin THEN Append(rxBuffer, b) ELSE rxBuffer
          /\ register' = register /\ framing' = framing
          /\ halfFlag' => halfFlag \/ Len(rxBuffer) < rxQueueMin
          /\ halfFlag' \in BOOLEAN
      BY <2>1, <2>2, Zenon DEF Receive
    <3> QED BY <1>1, <2>1, <2>2, <3>1, <3>2 DEF ByPort
  <2>3. CASE ~dmaRx
    <3>1. /\ register' = (IF register = <<>> THEN <<b>> ELSE register)
          /\ rxBuffer' = rxBuffer /\ halfFlag' = halfFlag
          /\ framing' = framing \/ framing' = error
      BY <2>3, Zenon DEF Receive
    <3>2. <<b>> \in Seq(Bytes) /\ Len(<<b>>) = 1
      OBVIOUS
    <3>3. register' \in Seq(Bytes) /\ Len(register') <= 1
      BY <2>1, <3>1, <3>2
    <3>4. framing' \in BOOLEAN
      BY <2>1, <3>1, Zenon
    <3>5. ByPort'
      BY <1>1, <2>3, <3>1 DEF ByPort
    <3> QED BY <2>1, <3>1, <3>3, <3>4, <3>5
  <2> QED BY <2>2, <2>3
<1>3. RxTypeOK'
  BY <1>1, <1>2 DEF RxTypeOK
<1>4. Ring' /\ Filled'
  BY <1>1 DEF Ring, Wrap, Filled, Slot
<1>5. Announced' /\ Asleep'
  BY <1>1 DEF Announced, Asleep
<1> QED BY <1>2, <1>3, <1>4, <1>5

\* What an interrupt puts into the ring.
LEMMA InterruptRing ==
    ASSUME RxTypeOK, Ring, Filled, NEW s \in {Taken, rxBuffer}, TryPut(s)
    PROVE  /\ data' \in [0..(Capacity - 1) -> Bytes \cup {Unset}]
           /\ putPos' \in 0..(Capacity - 1) /\ getPos' \in 0..(Capacity - 1)
           /\ queueSize' \in 0..Capacity
           /\ Ring' /\ Filled'
<1>1. s \in Seq(Bytes) /\ Len(s) <= Capacity
  BY TakenFacts
<1>2. /\ data' \in [0..(Capacity - 1) -> Bytes \cup {Unset}]
      /\ Ring'
      /\ getPos' = getPos /\ queueSize' = queueSize + Fitting(s)
      /\ Fitting(s) \in 0..Len(s)
      /\ \A i \in 1..queueSize : data'[Slot(i)] = data[Slot(i)]
      /\ \A i \in 1..Fitting(s) : data'[Slot(queueSize + i)] = s[i]
  BY <1>1, PutFacts DEF Filled
<1>3. Len(s) \in Nat /\ \A i \in 1..Len(s) : s[i] \in Bytes
  BY <1>1, ElementOfSeq
<1>4. queueSize \in Nat
  BY RingFacts
<1>5. ASSUME NEW i \in 1..queueSize'
      PROVE  data'[Slot(i)] \in Bytes
  <2>1. CASE i \in 1..queueSize
    BY <1>2, <2>1 DEF Filled
  <2>2. CASE i \notin 1..queueSize
    <3>1. PICK j \in 1..Fitting(s) : queueSize + j = i
      <4>1. i - queueSize \in 1..Fitting(s) /\ queueSize + (i - queueSize) = i
        BY <1>2, <1>3, <1>4, <2>2
      <4> QED BY <4>1
    <3> QED BY <1>2, <1>3, <3>1
  <2> QED BY <2>1, <2>2
<1>6. Filled'
  <2>1. \A i \in 1..queueSize' : Wrap(getPos' + i - 1) = Slot(i)
    BY <1>2 DEF Slot
  <2>2. \A i \in 1..queueSize' : data'[Wrap(getPos' + i - 1)] \in Bytes
    BY <1>5, <2>1
  <2> QED BY <2>2, Zenon DEF Filled, Slot, Wrap
<1>7. putPos' \in 0..(Capacity - 1) /\ getPos' \in 0..(Capacity - 1) /\ queueSize' \in 0..Capacity
  <2>1. getPos' \in 0..(Capacity - 1) /\ queueSize' \in 0..Capacity
    BY <1>2, Zenon DEF Ring
  <2>2. putPos' = IF getPos' + queueSize' >= Capacity THEN (getPos' + queueSize') - Capacity
                                                     ELSE getPos' + queueSize'
    BY <1>2, Zenon DEF Ring, Wrap
  <2>3. Capacity \in Nat \ {0}
    BY ReceiveAssumption
  <2>4. putPos' \in 0..(Capacity - 1)
    <3>1. PICK g \in 0..(Capacity - 1), q \in 0..Capacity : g = getPos' /\ q = queueSize'
      BY <2>1, Zenon
    <3>2. (IF g + q >= Capacity THEN (g + q) - Capacity ELSE g + q) \in 0..(Capacity - 1)
      BY <2>3
    <3> QED BY <2>2, <3>1, <3>2
  <2> QED BY <2>1, <2>4
<1> QED BY <1>2, <1>6, <1>7

LEMMA PortStep ==
    ASSUME RxIInv, IRQhandleInterrupt
    PROVE  RxIInv'
<1> USE ReceiveAssumption DEF RxIInv
<1>1. /\ register # <<>> \/ idleFlag
      /\ ~halfFlag /\ TryPut(Taken)
      /\ rxBuffer' = <<>> /\ register' = <<>> /\ framing' = FALSE
      /\ idle' = idleFlag /\ idleFlag' = FALSE
      /\ rxWaiting' = (rxWaiting /\ ~(idleFlag \/ queueSize' >= rxQueueMin))
      /\ rxFlag' = (rxFlag /\ ~(rxWaiting /\ (idleFlag \/ queueSize' >= rxQueueMin)))
      /\ UNCHANGED <<dmaRx, busy, halfFlag, reader, size, result, byte>>
  BY DEF IRQhandleInterrupt, DmaFirst, Wake, reading
<1>2. /\ data' \in [0..(Capacity - 1) -> Bytes \cup {Unset}]
      /\ putPos' \in 0..(Capacity - 1) /\ getPos' \in 0..(Capacity - 1)
      /\ queueSize' \in 0..Capacity
      /\ Ring' /\ Filled'
  BY <1>1, InterruptRing
<1>3. RxTypeOK'
  <2>1. <<>> \in Seq(Bytes) /\ Len(<<>>) = 0
    OBVIOUS
  <2>2. rxWaiting' \in BOOLEAN /\ rxFlag' \in BOOLEAN /\ idle' \in BOOLEAN
        /\ busy' \in BOOLEAN /\ framing' \in BOOLEAN /\ idleFlag' \in BOOLEAN
        /\ halfFlag' \in BOOLEAN
    <3>1. {idle, rxWaiting, busy, framing, idleFlag, halfFlag, rxFlag} \subseteq BOOLEAN
      BY DEF RxTypeOK
    <3> QED BY <1>1, <3>1, Zenon
  <2>3. {idle, rxWaiting, busy, framing, idleFlag, halfFlag, rxFlag}' \subseteq BOOLEAN
    BY <2>2, Zenon
  <2>4. /\ (rxBuffer \in Seq(Bytes) /\ Len(rxBuffer) <= rxQueueMin)'
        /\ (register \in Seq(Bytes) /\ Len(register) <= 1)'
    BY <1>1, <2>1
  <2> QED BY <1>1, <1>2, <2>3, <2>4 DEF RxTypeOK
<1>4. ByPort'
  BY <1>1 DEF ByPort
<1>5. ~idleFlag => busy
  BY <1>1 DEF Announced
<1>6. Announced'
  BY <1>1, <1>5 DEF Announced
<1>7. Asleep'
  <2>1. rxFlag' => rxWaiting'
    BY <1>1, Zenon DEF Asleep
  <2>2. rxWaiting' => rxWaiting /\ ~idleFlag /\ ~(queueSize' >= rxQueueMin)
    BY <1>1, Zenon
  <2>3. ~(queueSize' >= rxQueueMin) => queueSize' < rxQueueMin
    BY <1>2
  <2> QED BY <1>1, <1>5, <2>1, <2>2, <2>3 DEF Asleep
<1> QED BY <1>2, <1>3, <1>4, <1>6, <1>7

LEMMA DmaStepRx ==
    ASSUME RxIInv, IRQhandleDMArx
    PROVE  RxIInv'
<1> USE ReceiveAssumption DEF RxIInv
<1>1. /\ halfFlag /\ TryPut(rxBuffer)
      /\ rxBuffer' = <<>> /\ halfFlag' = FALSE /\ idle' = FALSE
      /\ rxWaiting' = FALSE
      /\ rxFlag' = (rxFlag /\ ~rxWaiting)
      /\ UNCHANGED <<dmaRx, busy, register, framing, idleFlag, reader, size, result, byte>>
  BY DEF IRQhandleDMArx, Wake, reading
<1>2. /\ data' \in [0..(Capacity - 1) -> Bytes \cup {Unset}]
      /\ putPos' \in 0..(Capacity - 1) /\ getPos' \in 0..(Capacity - 1)
      /\ queueSize' \in 0..Capacity
      /\ Ring' /\ Filled'
  BY <1>1, InterruptRing
<1>3. RxTypeOK'
  <2>1. <<>> \in Seq(Bytes) /\ Len(<<>>) = 0
    OBVIOUS
  <2>2. rxFlag' = FALSE
    BY <1>1, Zenon DEF Asleep, RxTypeOK
  <2>3. {idle, rxWaiting, busy, framing, idleFlag, halfFlag, rxFlag}' \subseteq BOOLEAN
    <3>1. {idle, rxWaiting, busy, framing, idleFlag, halfFlag, rxFlag} \subseteq BOOLEAN
      BY DEF RxTypeOK
    <3> QED BY <1>1, <2>2, <3>1, Zenon
  <2>4. (rxBuffer \in Seq(Bytes) /\ Len(rxBuffer) <= rxQueueMin)'
    BY <1>1, <2>1
  <2> QED BY <1>1, <1>2, <2>3, <2>4 DEF RxTypeOK
<1>4. ByPort' /\ Announced' /\ Asleep'
  BY <1>1 DEF ByPort, Announced, Asleep
<1> QED BY <1>2, <1>3, <1>4

LEMMA ReadStep ==
    ASSUME RxIInv, TryGet
    PROVE  RxIInv'
<1> USE ReceiveAssumption DEF RxIInv
<1>1. /\ reader = "read" /\ result < size /\ queueSize > 0
      /\ byte' = data[getPos] /\ getPos' = Wrap(getPos + 1)
      /\ queueSize' = queueSize - 1 /\ result' = result + 1
      /\ UNCHANGED <<dmaRx, data, putPos, idle, rxWaiting, rxBuffer, busy, register, framing,
                     idleFlag, halfFlag, reader, size, rxFlag>>
  BY DEF TryGet, rxLine
<1>2. /\ Capacity \in Nat \ {0} /\ getPos \in 0..(Capacity - 1) /\ queueSize \in 1..Capacity
      /\ size \in Nat /\ result \in 0..size /\ size <= MaxRead
  BY <1>1 DEF RxTypeOK
<1>3. /\ getPos' = IF getPos + 1 >= Capacity THEN (getPos + 1) - Capacity ELSE getPos + 1
      /\ getPos' \in 0..(Capacity - 1) /\ queueSize' \in 0..Capacity
  BY <1>1, <1>2 DEF Wrap
<1>4. \A i \in 1..queueSize' : i + 1 \in 1..queueSize /\ Slot(i)' = Slot(i + 1)
  <2> SUFFICES ASSUME NEW i \in 1..queueSize'
               PROVE  i + 1 \in 1..queueSize /\ Slot(i)' = Slot(i + 1)
    OBVIOUS
  <2>1. i \in 1..(queueSize - 1)
    BY <1>1
  <2>2. Slot(i)' = IF getPos' + i - 1 >= Capacity THEN (getPos' + i - 1) - Capacity
                                                 ELSE getPos' + i - 1
    BY Zenon DEF Slot, Wrap
  <2>3. Slot(i + 1) = IF getPos + (i + 1) - 1 >= Capacity THEN (getPos + (i + 1) - 1) - Capacity
                                                         ELSE getPos + (i + 1) - 1
    BY Zenon DEF Slot, Wrap
  <2> QED BY <1>2, <1>3, <2>1, <2>2, <2>3
<1>5. putPos' = Wrap(getPos' + queueSize')
  <2>1. putPos = IF getPos + queueSize >= Capacity THEN (getPos + queueSize) - Capacity
                                                   ELSE getPos + queueSize
    BY Zenon DEF Ring, Wrap
  <2>2. Wrap(getPos' + queueSize') = IF getPos' + queueSize' >= Capacity
                                     THEN (getPos' + queueSize') - Capacity
                                     ELSE getPos' + queueSize'
    BY Zenon DEF Wrap
  <2> QED BY <1>1, <1>2, <1>3, <2>1, <2>2
<1>6. Ring' /\ Filled'
  <2>1. Ring'
    BY <1>1, <1>3, <1>5 DEF Ring, Wrap
  <2>2. Filled'
    BY <1>1, <1>4 DEF Filled
  <2> QED BY <2>1, <2>2
<1>7. byte' \in Bytes
  <2>1. Slot(1) = getPos
    BY <1>2 DEF Slot, Wrap
  <2> QED BY <1>1, <1>2, <2>1 DEF Filled
<1>8. RxTypeOK'
  <2>1. result' \in 0..size'
    BY <1>1, <1>2
  <2> QED BY <1>1, <1>3, <1>7, <2>1 DEF RxTypeOK
<1>9. ByPort' /\ Announced' /\ Asleep'
  BY <1>1 DEF ByPort, Announced, Asleep
<1> QED BY <1>6, <1>8, <1>9

LEMMA OtherStep ==
    ASSUME RxIInv,
           \/ LineIdle \/ (\E n \in 0..MaxRead : ReadBlock(n))
           \/ Return \/ Sleep \/ Awake \/ RxSpurious
    PROVE  RxIInv'
<1> USE ReceiveAssumption DEF RxIInv
<1>1. UNCHANGED <<dmaRx, data, putPos, getPos, queueSize, idle, rxBuffer, register, framing,
                  halfFlag, byte>>
  BY DEF LineIdle, ReadBlock, Return, Sleep, Awake, RxSpurious, IRQwait, ring, rxLine, reading
<1>2. Ring' /\ Filled' /\ ByPort'
  BY <1>1 DEF Ring, Wrap, Filled, Slot, ByPort
<1>3. CASE LineIdle
  <2>1. /\ busy' = FALSE /\ idleFlag' = TRUE
        /\ UNCHANGED <<rxWaiting, reader, size, result, rxFlag>>
    BY <1>3 DEF LineIdle, reading
  <2> QED BY <1>1, <1>2, <2>1 DEF RxTypeOK, Announced, Asleep
<1>4. ASSUME NEW n \in 0..MaxRead, ReadBlock(n)
      PROVE  RxIInv'
  <2>1. /\ reader = "out" /\ reader' = "read" /\ size' = n /\ result' = 0
        /\ UNCHANGED <<rxWaiting, busy, idleFlag, rxFlag>>
    BY <1>4 DEF ReadBlock, rxLine
  <2>2. 0 \in 0..n
    OBVIOUS
  <2> QED BY <1>1, <1>2, <2>1, <2>2 DEF RxTypeOK, Announced, Asleep
<1>5. CASE Return
  <2>1. /\ reader = "read" /\ reader' = "out"
        /\ UNCHANGED <<rxWaiting, busy, idleFlag, rxFlag, size, result>>
    BY <1>5 DEF Return, rxLine
  <2> QED BY <1>1, <1>2, <2>1 DEF RxTypeOK, Announced, Asleep
<1>6. CASE Sleep
  <2>1. /\ queueSize = 0 /\ ~(idle /\ result > 0) /\ reader' = "wait"
        /\ rxWaiting' = TRUE /\ rxFlag' = TRUE
        /\ UNCHANGED <<busy, idleFlag, size, result>>
    BY <1>6 DEF Sleep, Enough, IRQwait, rxLine
  <2> QED BY <1>1, <1>2, <2>1 DEF RxTypeOK, Announced, Asleep
<1>7. CASE Awake
  <2>1. /\ reader = "wait" /\ ~rxFlag
        /\ UNCHANGED <<busy, idleFlag, size, result>>
        /\ \/ rxWaiting /\ rxWaiting' = TRUE /\ rxFlag' = TRUE /\ reader' = reader
           \/ ~rxWaiting /\ rxWaiting' = rxWaiting /\ rxFlag' = rxFlag /\ reader' = "read"
    BY <1>7 DEF Awake, IRQwait, rxLine
  <2>2. RxTypeOK'
    BY <1>1, <2>1 DEF RxTypeOK
  <2>3. Announced'
    BY <1>1, <2>1 DEF Announced
  <2>4. Asleep'
    <3>1. CASE rxWaiting
      BY <1>1, <2>1, <3>1 DEF Asleep
    <3>2. CASE ~rxWaiting
      BY <1>1, <2>1, <3>2 DEF Asleep
    <3> QED BY <3>1, <3>2
  <2> QED BY <1>2, <2>2, <2>3, <2>4
<1>8. CASE RxSpurious
  <2>1. /\ rxFlag' = FALSE
        /\ UNCHANGED <<rxWaiting, busy, idleFlag, reader, size, result>>
    BY <1>8 DEF RxSpurious, rxLine, reading
  <2> QED BY <1>1, <1>2, <2>1 DEF RxTypeOK, Announced, Asleep
<1> QED BY <1>3, <1>4, <1>5, <1>6, <1>7, <1>8, Zenon

LEMMA RxStepIInv == RxIInv /\ [RxNext]_rxVars => RxIInv'
<1> SUFFICES ASSUME RxIInv, [RxNext]_rxVars
             PROVE  RxIInv'
  OBVIOUS
<1>1. CASE UNCHANGED rxVars
  BY <1>1 DEF rxVars, RxIInv, RxTypeOK, Ring, Wrap, Filled, Slot, ByPort, Announced, Asleep
<1>2. CASE RxNext
  BY <1>2, ReceiveStep, PortStep, DmaStepRx, ReadStep, OtherStep, Zenon
     DEF RxNext, Interrupt, Reading
<1> QED BY <1>1, <1>2

LEMMA RxInductive == RxSpec => []RxIInv
BY RxInitIInv, RxStepIInv, PTL DEF RxSpec

\* Every variable of the receiving half keeps its type: positions and count stay inside
\* the ring.
THEOREM ReceiveTypes == RxSpec => []RxTypeOK
<1>1. RxIInv => RxTypeOK
  BY DEF RxIInv
<1> QED BY <1>1, RxInductive, PTL

\* Whatever the order of bytes, pauses and interrupts, a reader asleep with something to
\* return has an interrupt to come that wakes it.
THEOREM SleeperServed == RxSpec => []ReaderServed
<1>1. RxIInv => ReaderServed
  BY DEF RxIInv, Asleep, ReaderServed
<1> QED BY <1>1, RxInductive, PTL

-----------------------------------------------------------------------------
(***************************************************************************)
(* The receiving half implements a queue that drops the newest.            *)
(***************************************************************************)
UnreadIs ==
    /\ Stored \in Seq(Bytes) /\ Len(Stored) = queueSize
    /\ \A i \in 1..queueSize : Stored[i] = data[Slot(i)]
    /\ Taken \in Seq(Bytes)
    /\ Unread \in Seq(Bytes) /\ Len(Unread) = queueSize + Len(Taken)
    /\ \A i \in 1..queueSize : Unread[i] = data[Slot(i)]
    /\ \A i \in 1..Len(Taken) : Unread[queueSize + i] = Taken[i]

LEMMA UnreadFacts == RxIInv => UnreadIs
<1> SUFFICES ASSUME RxIInv
             PROVE  UnreadIs
  OBVIOUS
<1>1. RxTypeOK /\ Ring /\ \A i \in 1..queueSize : data[Slot(i)] \in Bytes
  BY DEF RxIInv, Filled
<1>2. /\ Stored \in Seq(Bytes) /\ Len(Stored) = queueSize
      /\ \A i \in 1..queueSize : Stored[i] = data[Slot(i)]
  BY <1>1, StoredFacts
<1>3. Taken \in Seq(Bytes) /\ Len(Taken) \in Nat /\ queueSize \in Nat
  BY <1>1, TakenFacts, RingFacts
<1>4. /\ Unread \in Seq(Bytes) /\ Len(Unread) = queueSize + Len(Taken)
      /\ \A i \in 1..(queueSize + Len(Taken)) :
            Unread[i] = IF i <= queueSize THEN Stored[i] ELSE Taken[i - queueSize]
  BY <1>2, <1>3, ConcatProperties DEF Unread
<1>5. \A i \in 1..queueSize : Unread[i] = data[Slot(i)]
  <2> SUFFICES ASSUME NEW i \in 1..queueSize
               PROVE  Unread[i] = data[Slot(i)]
    OBVIOUS
  <2>1. i \in 1..(queueSize + Len(Taken)) /\ i <= queueSize
    BY <1>3
  <2> QED BY <1>2, <1>4, <2>1
<1>6. \A i \in 1..Len(Taken) : Unread[queueSize + i] = Taken[i]
  <2> SUFFICES ASSUME NEW i \in 1..Len(Taken)
               PROVE  Unread[queueSize + i] = Taken[i]
    OBVIOUS
  <2>1. /\ queueSize + i \in 1..(queueSize + Len(Taken)) /\ ~(queueSize + i <= queueSize)
        /\ (queueSize + i) - queueSize = i
    BY <1>3
  <2> QED BY <1>4, <2>1
<1> QED BY <1>2, <1>3, <1>4, <1>5, <1>6 DEF UnreadIs

\* A byte joins the end, or is not taken in.
LEMMA ReceivePuts ==
    ASSUME RxIInv, NEW b \in Bytes, NEW error \in BOOLEAN, Receive(b, error)
    PROVE  [Port!Next]_<<Unread, byte>>
<1>1. UNCHANGED <<dmaRx, data, getPos, queueSize, byte>>
  BY DEF Receive, ring, reading
<1>2. Stored' = Stored
  BY <1>1 DEF Stored, Wrap
<1>3. /\ Stored \in Seq(Bytes) /\ Taken \in Seq(Bytes)
      /\ rxBuffer \in Seq(Bytes) /\ register \in Seq(Bytes)
  BY UnreadFacts DEF UnreadIs, RxIInv, RxTypeOK
<1>4. Taken' = Taken \/ Taken' = Append(Taken, b)
  <2>1. CASE dmaRx
    <3>1. rxBuffer' = rxBuffer \/ rxBuffer' = Append(rxBuffer, b)
      BY <2>1 DEF Receive
    <3> QED BY <1>1, <2>1, <3>1 DEF Taken
  <2>2. CASE ~dmaRx /\ register # <<>>
    BY <1>1, <2>2 DEF Taken, Receive
  <2>3. CASE ~dmaRx /\ register = <<>>
    <3>1. register' = <<b>> /\ framing' = error /\ Taken = <<>>
      BY <2>3 DEF Taken, Receive
    <3>2. Append(<<>>, b) = <<b>>
      OBVIOUS
    <3> QED BY <1>1, <2>3, <3>1, <3>2 DEF Taken
  <2> QED BY <2>1, <2>2, <2>3
<1>5. CASE Taken' = Taken
  BY <1>1, <1>2, <1>5 DEF Unread
<1>6. CASE Taken' = Append(Taken, b)
  <2>1. Append(Taken, b) = Taken \o <<b>> /\ <<b>> \in Seq(Bytes)
    BY <1>3, AppendIsConcat
  <2>2. (Stored \o Taken) \o <<b>> = Stored \o (Taken \o <<b>>)
    BY SMTT(20), <1>3, <2>1, ConcatAssociative
  <2>3. Append(Unread, b) = Unread \o <<b>>
    BY AppendIsConcat, UnreadFacts DEF UnreadIs
  <2>4. Unread' = Append(Unread, b)
    BY <1>2, <1>6, <2>1, <2>2, <2>3 DEF Unread
  <2>5. Port!Put(b)
    BY <1>1, <2>4 DEF Port!Put
  <2> QED BY <2>5 DEF Port!Next
<1> QED BY <1>4, <1>5, <1>6

\* An interrupt moves what fits into the ring; the rest, the newest, is dropped.
LEMMA InterruptMoves ==
    ASSUME RxIInv, RxIInv', TryPut(Taken), Taken' = <<>>, UNCHANGED byte
    PROVE  [Port!Next]_<<Unread, byte>>
<1>1. RxTypeOK /\ Ring /\ \A i \in 1..queueSize : data[Slot(i)] \in Bytes
  BY DEF RxIInv, Filled
<1>2. Taken \in Seq(Bytes) /\ Len(Taken) <= Capacity /\ Len(Taken) \in Nat
  BY <1>1, TakenFacts
<1> DEFINE n == Fitting(Taken)
<1> HIDE DEF n
<1>3. /\ getPos' = getPos /\ queueSize' = queueSize + n
      /\ n \in 0..Len(Taken) /\ queueSize + n <= Capacity
      /\ n = Len(Taken) \/ queueSize + n = Capacity
      /\ \A i \in 1..queueSize : data'[Slot(i)] = data[Slot(i)]
      /\ \A i \in 1..n : data'[Slot(queueSize + i)] = Taken[i]
  BY <1>1, <1>2, PutFacts DEF n
<1>4. queueSize \in Nat /\ Capacity \in Nat
  BY <1>1, RingFacts
<1>5. UnreadIs /\ UnreadIs'
  <2>1. (RxIInv => UnreadIs)'
    BY UnreadFacts, PTL
  <2> QED BY <2>1, UnreadFacts
<1>6. /\ Unread' \in Seq(Bytes) /\ Len(Unread') = queueSize + n
      /\ \A i \in 1..(queueSize + n) : Unread'[i] = data'[Slot(i)]
  <2>1. Len(<<>>) = 0
    OBVIOUS
  <2>2. /\ Unread' \in Seq(Bytes) /\ Len(Unread') = queueSize' + Len(Taken')
        /\ \A i \in 1..queueSize' : Unread'[i] = data'[Wrap(getPos' + i - 1)]
    BY <1>5, Zenon DEF UnreadIs, Slot, Wrap
  <2>3. queueSize' + Len(Taken') = queueSize + n
    BY <1>2, <1>3, <1>4, <2>1
  <2> QED BY <1>3, <2>2, <2>3 DEF Slot
<1>7. /\ Unread \in Seq(Bytes) /\ Len(Unread) = queueSize + Len(Taken)
      /\ \A i \in 1..queueSize : Unread[i] = data[Slot(i)]
      /\ \A i \in 1..Len(Taken) : Unread[queueSize + i] = Taken[i]
  BY <1>5 DEF UnreadIs
<1>8. ASSUME NEW i \in 1..(queueSize + n)
      PROVE  Unread'[i] = Unread[i]
  <2>1. CASE i \in 1..queueSize
    BY <1>3, <1>6, <1>7, <2>1
  <2>2. CASE i \notin 1..queueSize
    <3>1. PICK j \in 1..n : queueSize + j = i
      <4>1. i - queueSize \in 1..n /\ queueSize + (i - queueSize) = i
        BY <1>2, <1>3, <1>4, <2>2
      <4> QED BY <4>1
    <3>2. j \in 1..Len(Taken)
      BY <1>2, <1>3
    <3> QED BY <1>3, <1>6, <1>7, <3>1, <3>2
  <2> QED BY <2>1, <2>2
<1>9. CASE n = Len(Taken)
  <2>1. Unread' = Unread
    BY <1>6, <1>7, <1>8, <1>9, SeqEqual
  <2> QED BY <2>1
<1>10. CASE n # Len(Taken)
  <2>1. queueSize + n = Capacity /\ Len(Unread) > Capacity
    BY <1>2, <1>3, <1>4, <1>7, <1>10
  <2>2. \A i \in 1..Capacity : Unread[i] \in Bytes
    <3>1. \A i \in 1..Capacity : i \in 1..Len(Unread)
      BY <1>2, <1>4, <1>7, <2>1
    <3> QED BY <1>7, <3>1, ElementOfSeq
  <2>3. /\ SubSeq(Unread, 1, Capacity) \in Seq(Bytes)
        /\ Len(SubSeq(Unread, 1, Capacity)) = Capacity
        /\ \A i \in 1..Capacity : SubSeq(Unread, 1, Capacity)[i] = Unread[i]
    <3>1. /\ SubSeq(Unread, 1, Capacity) \in Seq(Bytes)
          /\ Len(SubSeq(Unread, 1, Capacity)) = IF 1 <= Capacity THEN Capacity - 1 + 1 ELSE 0
          /\ \A i \in 1..(Capacity - 1 + 1) : SubSeq(Unread, 1, Capacity)[i] = Unread[1 + i - 1]
      BY <1>4, <2>2, SubSeqProperties
    <3> QED BY <1>4, <3>1
  <2>4. Unread' = SubSeq(Unread, 1, Capacity)
    BY <1>6, <1>8, <2>1, <2>3, SeqEqual
  <2>5. Port!Overflow
    BY <2>1, <2>4 DEF Port!Overflow
  <2> QED BY <2>5 DEF Port!Next
<1> QED BY <1>9, <1>10

\* The reader takes the oldest.
LEMMA TryGetGets ==
    ASSUME RxIInv, RxIInv', TryGet
    PROVE  Port!Next
<1>1. /\ queueSize > 0 /\ byte' = data[getPos] /\ getPos' = Wrap(getPos + 1)
      /\ queueSize' = queueSize - 1
      /\ UNCHANGED <<dmaRx, data, rxBuffer, register, framing>>
  BY DEF TryGet, rxLine
<1>2. Taken' = Taken
  BY <1>1 DEF Taken
<1>3. UnreadIs /\ UnreadIs'
  <2>1. (RxIInv => UnreadIs)'
    BY UnreadFacts, PTL
  <2> QED BY <2>1, UnreadFacts
<1>4. /\ queueSize \in Nat /\ Capacity \in Nat \ {0} /\ getPos \in 0..(Capacity - 1)
      /\ queueSize <= Capacity
  BY RingFacts DEF RxIInv, Ring
<1>5. /\ Unread \in Seq(Bytes) /\ Len(Unread) = queueSize + Len(Taken)
      /\ Len(Taken) \in Nat
      /\ \A i \in 1..queueSize : Unread[i] = data[Slot(i)]
      /\ \A i \in 1..Len(Taken) : Unread[queueSize + i] = Taken[i]
  BY <1>3 DEF UnreadIs
<1>6. /\ Unread' \in Seq(Bytes) /\ Len(Unread') = queueSize - 1 + Len(Taken)
      /\ \A i \in 1..(queueSize - 1) : Unread'[i] = data[Wrap(getPos' + i - 1)]
      /\ \A i \in 1..Len(Taken) : Unread'[queueSize' + i] = Taken[i]
  <2>1. /\ Unread' \in Seq(Bytes) /\ Len(Unread') = queueSize' + Len(Taken')
        /\ \A i \in 1..queueSize' : Unread'[i] = data'[Wrap(getPos' + i - 1)]
        /\ \A i \in 1..Len(Taken') : Unread'[queueSize' + i] = Taken'[i]
    BY <1>3, Zenon DEF UnreadIs, Slot, Wrap
  <2> QED BY <1>1, <1>2, <1>4, <1>5, <2>1
<1>7. Unread # <<>> /\ Head(Unread) = Unread[1]
  BY <1>1, <1>4, <1>5
<1>8. Head(Unread) = data[getPos]
  <2>1. Slot(1) = getPos
    BY <1>4 DEF Slot, Wrap
  <2> QED BY <1>1, <1>4, <1>5, <1>7, <2>1
<1>9. Unread' = Tail(Unread)
  <2>1. /\ Tail(Unread) \in Seq(Bytes) /\ Len(Tail(Unread)) = Len(Unread) - 1
        /\ \A i \in 1..Len(Tail(Unread)) : Tail(Unread)[i] = Unread[i + 1]
    BY <1>5, <1>7, HeadTailProperties
  <2>2. ASSUME NEW i \in 1..Len(Unread')
        PROVE  Unread'[i] = Unread[i + 1]
    <3>1. CASE i \in 1..(queueSize - 1)
      <4>1. Wrap(getPos' + i - 1) = Slot(i + 1)
        <5>1. getPos' = IF getPos + 1 >= Capacity THEN (getPos + 1) - Capacity ELSE getPos + 1
          BY <1>1, Zenon DEF Wrap
        <5>2. Wrap(getPos' + i - 1) = IF getPos' + i - 1 >= Capacity
                                      THEN (getPos' + i - 1) - Capacity ELSE getPos' + i - 1
          BY Zenon DEF Wrap
        <5>3. Slot(i + 1) = IF getPos + (i + 1) - 1 >= Capacity
                            THEN (getPos + (i + 1) - 1) - Capacity ELSE getPos + (i + 1) - 1
          BY Zenon DEF Slot, Wrap
        <5> QED BY <1>4, <3>1, <5>1, <5>2, <5>3
      <4>2. i + 1 \in 1..queueSize
        BY <1>4, <3>1
      <4> QED BY <1>5, <1>6, <3>1, <4>1, <4>2
    <3>2. CASE i \notin 1..(queueSize - 1)
      <4>1. PICK j \in 1..Len(Taken) : (queueSize - 1) + j = i
        <5>1. PICK m \in Nat : m = queueSize - 1
          BY <1>1, <1>4
        <5>2. i \in 1..(m + Len(Taken)) /\ i \notin 1..m
          BY <1>6, <3>2, <5>1
        <5>3. i - m \in 1..Len(Taken) /\ m + (i - m) = i
          BY <1>5, <5>2
        <5> QED BY <5>1, <5>3
      <4>2. queueSize' + j = i /\ queueSize + j = i + 1
        BY <1>1, <1>4, <1>5, <4>1
      <4> QED BY <1>5, <1>6, <4>1, <4>2
    <3> QED BY <3>1, <3>2
  <2>3. Len(Unread') = Len(Tail(Unread))
    BY <1>4, <1>5, <1>6, <2>1
  <2> QED BY <1>6, <2>1, <2>2, <2>3, SeqEqual
<1> QED BY <1>1, <1>7, <1>8, <1>9 DEF Port!Next, Port!Get

LEMMA StepTailDrop == RxIInv /\ RxIInv' /\ [RxNext]_rxVars => [Port!Next]_<<Unread, byte>>
<1> SUFFICES ASSUME RxIInv, RxIInv', [RxNext]_rxVars
             PROVE  [Port!Next]_<<Unread, byte>>
  OBVIOUS
<1>1. CASE UNCHANGED <<dmaRx, data, getPos, queueSize, rxBuffer, register, framing, byte>>
  BY <1>1 DEF Unread, Stored, Taken, Wrap
<1>2. CASE IRQhandleInterrupt
  <2>1. Taken' = <<>> /\ TryPut(Taken) /\ UNCHANGED byte
    BY <1>2 DEF IRQhandleInterrupt, Taken, reading
  <2> QED BY <2>1, InterruptMoves
<1>3. CASE IRQhandleDMArx
  <2>1. Taken = rxBuffer /\ Taken' = <<>> /\ TryPut(rxBuffer) /\ UNCHANGED byte
    BY <1>3 DEF IRQhandleDMArx, Taken, reading, RxIInv, ByPort
  <2>2. TryPut(Taken)
    BY <2>1
  <2> QED BY <2>1, <2>2, InterruptMoves
<1>4. CASE TryGet
  BY <1>4, TryGetGets
<1>5. ASSUME \/ LineIdle \/ (\E n \in 0..MaxRead : ReadBlock(n))
             \/ Return \/ Sleep \/ Awake \/ RxSpurious \/ UNCHANGED rxVars
      PROVE  UNCHANGED <<dmaRx, data, getPos, queueSize, rxBuffer, register, framing, byte>>
  BY <1>5 DEF LineIdle, ReadBlock, Return, Sleep, Awake, RxSpurious, IRQwait, ring, rxLine,
              reading, rxVars
<1> QED BY <1>1, <1>2, <1>3, <1>4, <1>5, ReceivePuts, Zenon DEF RxNext, Interrupt, Reading

\* Whatever the sizes, the port is a queue that drops the newest where it is full: no
\* byte is duplicated, reordered or invented between the line and the reader.
THEOREM PortDropsNewest == RxSpec => RefinesTailDrop
<1>1. RxInit => Port!Init
  <2> SUFFICES ASSUME RxInit
               PROVE  Unread = <<>> /\ byte \notin Bytes
    BY DEF Port!Init
  <2>1. RxIInv /\ queueSize = 0 /\ Taken = <<>> /\ byte \notin Bytes
    BY RxInitIInv, ReceiveAssumption DEF RxInit, Taken
  <2>2. Unread \in Seq(Bytes) /\ Len(Unread) = 0
    BY <2>1, UnreadFacts DEF UnreadIs
  <2> QED BY <2>1, <2>2
<1> QED BY <1>1, RxInductive, StepTailDrop, PTL DEF RxSpec, RefinesTailDrop

=============================================================================
