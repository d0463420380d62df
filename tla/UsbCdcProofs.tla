---------------------------- MODULE UsbCdcProofs ----------------------------
(***************************************************************************)
(* The two transmit buffers are one pipe and the receive buffers lose no   *)
(* character, for every number of writers and every size of the buffers.   *)
(*                                                                         *)
(* The sending half rests on what the two flags promise about the buffer   *)
(* the tasks do not fill: unless one of them is set it is empty, and a     *)
(* transfer under way is exactly its content.                              *)
(***************************************************************************)
EXTENDS UsbCdc, SequenceTheorems, TLAPS

---------------------------------------------------------------------------
(* Sending.  *)

TxTypes ==
    /\ frame \in 0..(Frames - 1) /\ txSof \in 0..(Frames - 1)
    /\ txSel \in 0..1
    /\ txBuf \in [0..1 -> Seq(Byte)]
    /\ \A b \in 0..1 : Len(txBuf[b]) <= TxBuffers
    /\ txOngoing \in BOOLEAN /\ txBoth \in BOOLEAN
    /\ zlpCounter \in 0..(ZlpLimit - 1)
    /\ txJob \in [buf : NoBuffer..1, bytes : 0..TxBuffers]
    /\ writerPc \in [Writers -> {"idle", "check", "copy"}]
    /\ left \in [Writers -> Nat] /\ given \in [Writers -> Nat]
    /\ taken \in Seq(Byte)

\* The buffer the tasks do not fill.
TxFlags ==
    /\ ~txOngoing /\ ~txBoth => txBuf[Other(txSel)] = << >>
    /\ txJob # NoJob => /\ txOngoing
                        /\ txJob.buf = Other(txSel)
                        /\ txJob.bytes = Len(txBuf[Other(txSel)])

TxInv == TxTypes /\ TxFlags /\ bounds \in Traffic

\* Concatenation is associative.
LEMMA Associative ==
    ASSUME NEW S, NEW a \in Seq(S), NEW b \in Seq(S), NEW c \in Seq(S)
    PROVE  (a \o b) \o c = a \o (b \o c)
BY ConcatAssociative

\* The same for what characters are counted with.
LEMMA NumbersAssociative ==
    \A a, b, c \in Seq(Nat) : (a \o b) \o c = a \o (b \o c)
BY Associative

\* udi_cdc_tx_send keeps the order of what is in the buffers.
LEMMA SendKeepsOrder ==
    ASSUME NEW sel \in 0..1, NEW buf \in [0..1 -> Seq(Byte)],
           \A b \in 0..1 : Len(buf[b]) <= TxBuffers,
           NEW ongoing \in BOOLEAN, NEW both \in BOOLEAN,
           NEW sof \in 0..(Frames - 1), NEW now \in 0..(Frames - 1),
           zlpCounter \in 0..(ZlpLimit - 1),
           ~ongoing /\ ~both => buf[Other(sel)] = << >>,
           ongoing /\ txJob # NoJob =>
               /\ txJob \in [buf : NoBuffer..1, bytes : 0..TxBuffers]
               /\ txJob.buf = Other(sel) /\ txJob.bytes = Len(buf[Other(sel)]),
           TxSend(sel, buf, ongoing, both, sof, now)
    PROVE  /\ txSof' \in 0..(Frames - 1) /\ txSel' \in 0..1
           /\ txBuf' \in [0..1 -> Seq(Byte)]
           /\ \A b \in 0..1 : Len(txBuf'[b]) <= TxBuffers
           /\ txOngoing' \in BOOLEAN /\ txBoth' \in BOOLEAN
           /\ zlpCounter' \in 0..(ZlpLimit - 1)
           /\ txJob' \in [buf : NoBuffer..1, bytes : 0..TxBuffers]
           /\ TxFlags'
           /\ Pipeline' = buf[Other(sel)] \o buf[sel]
<1> DEFINE which == IF both THEN Other(sel) ELSE sel
           rests == ongoing \/ sof = now
<1>1. which \in 0..1 /\ Other(sel) \in 0..1 /\ Other(which) \in 0..1 /\ Other(Other(sel)) = sel
  BY DEF Other
<1>2. NoJob \in [buf : NoBuffer..1, bytes : 0..TxBuffers] /\ NoJob.buf = NoBuffer
      /\ 0 \in 0..(Frames - 1) /\ 0 \in 0..(ZlpLimit - 1)
  BY BuffersAssumption, FramesAssumption DEF NoJob, NoBuffer
<1>3. CASE rests \/ Waits(buf, sel)
  <2>1. /\ txSel' = sel /\ txBuf' = buf /\ txBoth' = both /\ txOngoing' = ongoing
        /\ txSof' = sof
        /\ txJob' = IF ongoing THEN txJob ELSE NoJob
        /\ zlpCounter' \in {zlpCounter, zlpCounter + 1}
        /\ zlpCounter' # zlpCounter => zlpCounter + 1 < ZlpLimit
    BY <1>3 DEF TxSend, Waits
  <2>2. zlpCounter' \in 0..(ZlpLimit - 1)
    BY <2>1, FramesAssumption
  <2>3. txJob' \in [buf : NoBuffer..1, bytes : 0..TxBuffers]
    BY <1>2, <2>1
  <2>4. TxFlags'
    BY <2>1 DEF TxFlags
  <2>5. Pipeline' = buf[Other(sel)] \o buf[sel]
    BY <2>1 DEF Pipeline
  <2> QED
    BY <2>1, <2>2, <2>3, <2>4, <2>5
<1>4. CASE ~(rests \/ Waits(buf, sel))
  <2>1. /\ txSel' = Other(which) /\ txBuf' = buf /\ txBoth' = both /\ txOngoing' = TRUE
        /\ txSof' \in {now, 0} /\ zlpCounter' = 0
        /\ txJob' = [buf |-> which, bytes |-> Len(buf[which])]
    BY <1>4 DEF TxSend
  <2>2. Len(buf[which]) \in 0..TxBuffers /\ Other(Other(which)) = which
    BY <1>1, LenProperties, BuffersAssumption DEF Other
  <2>3. txJob' \in [buf : NoBuffer..1, bytes : 0..TxBuffers]
    BY <1>1, <2>1, <2>2 DEF NoBuffer
  <2>4. TxFlags'
    BY <2>1, <2>2 DEF TxFlags
  <2>5. Pipeline' = buf[which] \o buf[Other(which)]
    BY <2>1, <2>2 DEF Pipeline
  <2>6. Pipeline' = buf[Other(sel)] \o buf[sel]
    <3>1. CASE both
      BY <1>1, <2>5, <3>1
    <3>2. CASE ~both
      <4>1. buf[Other(sel)] = << >>
        BY <1>4, <3>2
      <4> QED
        BY <1>1, <2>5, <3>2, <4>1, ConcatEmptySeq
    <3> QED
      BY <3>1, <3>2
  <2> QED
    BY <1>1, <1>2, <2>1, <2>2, <2>3, <2>4, <2>6
<1> QED
  BY <1>3, <1>4

\* Both transmit buffers are empty and no transfer runs.
LEMMA TxInit == Init => TxInv
<1> SUFFICES ASSUME Init PROVE TxInv
  OBVIOUS
<1>1. TxTypes
  <2>1. NoJob \in [buf : NoBuffer..1, bytes : 0..TxBuffers]
    BY BuffersAssumption DEF NoJob, NoBuffer
  <2>2. 0 \in 0..(Frames - 1) /\ 0 \in 0..(ZlpLimit - 1)
    BY FramesAssumption
  <2>3. /\ txBuf \in [0..1 -> Seq(Byte)]
        /\ \A b \in 0..1 : Len(txBuf[b]) <= TxBuffers
    BY BuffersAssumption DEF Init
  <2> QED
    BY <2>1, <2>2, <2>3 DEF Init, TxTypes
<1>2. TxFlags
  BY DEF Init, TxFlags, Other
<1> QED
  BY <1>1, <1>2 DEF Init, TxInv

\* A frame's start moves nothing in or out of the pipe.
LEMMA StartOfFrameTx ==
    ASSUME TxInv, StartOfFrame
    PROVE  TxInv' /\ UNCHANGED <<Pipeline, given, taken>>
<1>1. frame' \in 0..(Frames - 1)
  <2>1. frame + 1 \in Nat
    BY FramesAssumption DEF TxInv, TxTypes
  <2>2. \A n \in Nat, m \in Nat \ {0} : n % m \in 0..(m - 1)
    OBVIOUS
  <2> QED
    BY <2>1, <2>2, FramesAssumption DEF StartOfFrame
<1>2. TxSend(txSel, txBuf, txOngoing, txBoth, txSof, frame')
  BY DEF StartOfFrame
<1>3. /\ txSof' \in 0..(Frames - 1) /\ txSel' \in 0..1
      /\ txBuf' \in [0..1 -> Seq(Byte)]
      /\ \A b \in 0..1 : Len(txBuf'[b]) <= TxBuffers
      /\ txOngoing' \in BOOLEAN /\ txBoth' \in BOOLEAN
      /\ zlpCounter' \in 0..(ZlpLimit - 1)
      /\ txJob' \in [buf : NoBuffer..1, bytes : 0..TxBuffers]
      /\ TxFlags'
      /\ Pipeline' = txBuf[Other(txSel)] \o txBuf[txSel]
  BY <1>1, <1>2, SendKeepsOrder DEF TxInv, TxTypes, TxFlags
<1>4. UNCHANGED <<bounds, writerPc, left, given, taken>>
  BY DEF StartOfFrame, writing
<1>5. TxTypes'
  BY <1>1, <1>3, <1>4 DEF TxInv, TxTypes
<1>6. UNCHANGED Pipeline
  BY <1>3 DEF Pipeline
<1> QED
  BY <1>3, <1>4, <1>5, <1>6 DEF TxInv

\* What the host has fetched leaves the pipe at its end.
LEMMA DataSentTx ==
    ASSUME TxInv, DataSent
    PROVE  TxInv' /\ Pipe!Deliver
<1> DEFINE sent1 == txBuf[Other(txSel)]
           buf == [txBuf EXCEPT ![Other(txSel)] = << >>]
<1>1. /\ txSel \in 0..1 /\ Other(txSel) \in 0..1 /\ txSel # Other(txSel)
      /\ sent1 \in Seq(Byte) /\ txBuf[txSel] \in Seq(Byte) /\ taken \in Seq(Byte)
  BY DEF TxInv, TxTypes, Other
<1>2. taken' = taken \o sent1
  <2>1. taken' = taken \o SubSeq(sent1, 1, Len(sent1))
    BY DEF DataSent, TxInv, TxFlags
  <2> QED
    BY <1>1, <2>1, SubSeqFull
<1>3. /\ buf \in [0..1 -> Seq(Byte)]
      /\ buf[Other(txSel)] = << >> /\ buf[txSel] = txBuf[txSel]
      /\ \A b \in 0..1 : Len(buf[b]) <= TxBuffers
  BY <1>1, BuffersAssumption DEF TxInv, TxTypes
<1>4. /\ TxSend(txSel, buf, FALSE, FALSE, txSof, frame)
      /\ UNCHANGED <<bounds, frame, writerPc, left, given>>
  BY DEF DataSent, writing
<1> HIDE DEF buf, sent1
<1>5. /\ txSof' \in 0..(Frames - 1) /\ txSel' \in 0..1
      /\ txBuf' \in [0..1 -> Seq(Byte)]
      /\ \A b \in 0..1 : Len(txBuf'[b]) <= TxBuffers
      /\ txOngoing' \in BOOLEAN /\ txBoth' \in BOOLEAN
      /\ zlpCounter' \in 0..(ZlpLimit - 1)
      /\ txJob' \in [buf : NoBuffer..1, bytes : 0..TxBuffers]
      /\ TxFlags'
      /\ Pipeline' = buf[Other(txSel)] \o buf[txSel]
  BY <1>1, <1>3, <1>4, SendKeepsOrder DEF TxInv, TxTypes
<1>6. TxInv'
  <2>1. taken' \in Seq(Byte)
    BY <1>1, <1>2, ConcatProperties
  <2> QED
    BY <1>4, <1>5, <2>1 DEF TxInv, TxTypes
<1>7. Pipeline' = txBuf[txSel]
  BY <1>1, <1>3, <1>5, ConcatEmptySeq
<1>8. taken' \o Pipeline' = taken \o Pipeline
  <2> DEFINE filling == txBuf[txSel]
  <2>1. Pipeline = sent1 \o filling /\ Pipeline' = filling /\ filling \in Seq(Byte)
    BY <1>1, <1>7 DEF Pipeline, sent1
  <2> HIDE DEF filling
  <2>2. (taken \o sent1) \o filling = taken \o (sent1 \o filling)
    <3>1. taken \in Seq(Byte) /\ sent1 \in Seq(Byte) /\ filling \in Seq(Byte)
      BY <1>1, <2>1
    <3> HIDE DEF sent1
    <3> QED
      BY <3>1, Associative
  <2> QED
    BY <1>2, <2>1, <2>2
<1>9. IsPrefix(taken, taken')
  <2>1. Len(taken') = Len(taken) + Len(sent1) /\ Len(taken) \in Nat /\ Len(sent1) \in Nat
    BY <1>1, <1>2, ConcatProperties, LenProperties
  <2>2. SubSeq(taken', 1, Len(taken)) = SubSeq(taken, 1, Len(taken))
    <3>1. CASE Len(taken) = 0
      BY <3>1, SubSeqEmpty
    <3>2. CASE Len(taken) # 0
      BY <1>1, <1>2, <2>1, <3>2, SubSeqOfConcat1
    <3> QED
      BY <3>1, <3>2
  <2> QED
    BY <2>1, <2>2 DEF IsPrefix
<1> QED
  BY <1>4, <1>6, <1>8, <1>9 DEF Pipe!Deliver, Pipe!IsPrefix, IsPrefix

\* A writer that begins, gives up, or turns to the other buffer.
LEMMA WriterMovesTx ==
    ASSUME TxInv, NEW w \in Writers,
           GetFreeTxBuffer(w) \/ GiveUp(w) \/ \E n \in 1..bounds.out : BeginWrite(w, n)
    PROVE  TxInv' /\ UNCHANGED <<Pipeline, given, taken>>
<1> USE DEF TxInv, TxTypes, TxFlags
<1>1. CASE GiveUp(w)
  BY <1>1 DEF GiveUp, txVars, Pipeline, Other
<1>2. CASE \E n \in 1..bounds.out : BeginWrite(w, n)
  <2>1. bounds.out \in Nat
    BY TrafficAssumption
  <2> QED
    BY <1>2, <2>1 DEF BeginWrite, txVars, Pipeline, Other
<1>3. CASE GetFreeTxBuffer(w) /\ ~Full
  BY <1>3 DEF GetFreeTxBuffer, Pipeline, Other
<1>4. CASE GetFreeTxBuffer(w) /\ Full
  <2>1. /\ ~txOngoing /\ ~txBoth /\ txBoth' /\ txSel' = Other(txSel)
        /\ UNCHANGED <<bounds, frame, txBuf, txOngoing, txSof, zlpCounter, txJob, left, given, taken>>
        /\ writerPc' = [writerPc EXCEPT ![w] = "copy"]
    BY <1>4 DEF GetFreeTxBuffer, MayTurn
  <2>2. Other(txSel) \in 0..1 /\ Other(Other(txSel)) = txSel /\ txBuf[Other(txSel)] = << >>
    BY <2>1 DEF Other
  <2>3. TxInv'
    BY <2>1, <2>2
  <2>4. UNCHANGED Pipeline
    <3>1. Pipeline = << >> \o txBuf[txSel] /\ Pipeline' = txBuf[txSel] \o << >>
      BY <2>1, <2>2 DEF Pipeline
    <3> QED
      BY <3>1, ConcatEmptySeq
  <2> QED
    BY <2>1, <2>3, <2>4
<1> QED
  BY <1>1, <1>2, <1>3, <1>4

\* The bytes copied follow all the others.
LEMMA CopyTx ==
    ASSUME TxInv, NEW w \in Writers, Copy(w)
    PROVE  /\ TxInv'
           /\ \/ \E n \in 1..TxBuffers : Pipe!Accept(w, n)
              \/ UNCHANGED <<Pipeline, given, taken>>
<1> DEFINE room == TxBuffers - Len(txBuf[txSel])
           n == IF left[w] < room THEN left[w] ELSE room
           bytes == [i \in 1..n |-> <<w, given[w] + i>>]
<1>1. /\ txSel \in 0..1 /\ Other(txSel) \in 0..1 /\ txSel # Other(txSel)
      /\ txBuf[txSel] \in Seq(Byte) /\ txBuf[Other(txSel)] \in Seq(Byte)
      /\ Len(txBuf[txSel]) \in 0..TxBuffers
  BY BuffersAssumption, LenProperties DEF TxInv, TxTypes, Other
<1>2. n \in 0..TxBuffers /\ n <= room /\ n <= left[w]
  BY <1>1, BuffersAssumption DEF TxInv, TxTypes
<1>3. bytes \in Seq(Byte) /\ Len(bytes) = n
  <2>1. \A i \in 1..n : <<w, given[w] + i>> \in Byte
    BY <1>2 DEF TxInv, TxTypes, Byte
  <2> QED
    BY <1>2, <2>1
<1>4. /\ txBuf' = [txBuf EXCEPT ![txSel] = @ \o bytes]
      /\ given' = [given EXCEPT ![w] = @ + n]
      /\ left' = [left EXCEPT ![w] = @ - n]
      /\ writerPc' = [writerPc EXCEPT ![w] = IF n = left[w] THEN "idle" ELSE "check"]
      /\ UNCHANGED <<bounds, frame, txSel, txOngoing, txBoth, txSof, zlpCounter, txJob, taken>>
  BY DEF Copy
<1> HIDE DEF bytes, n
<1>5. /\ txBuf'[txSel] = txBuf[txSel] \o bytes
      /\ txBuf'[Other(txSel)] = txBuf[Other(txSel)]
      /\ txBuf'[txSel] \in Seq(Byte) /\ Len(txBuf'[txSel]) = Len(txBuf[txSel]) + n
  <2>1. txBuf'[txSel] = txBuf[txSel] \o bytes /\ txBuf'[Other(txSel)] = txBuf[Other(txSel)]
    BY <1>1, <1>4 DEF TxInv, TxTypes
  <2> QED
    BY <1>1, <1>3, <2>1, ConcatProperties
<1>6. TxTypes'
  <2>1. txBuf' \in [0..1 -> Seq(Byte)]
    <3>1. \A b \in 0..1 : b = txSel \/ txBuf'[b] = txBuf[b]
      BY <1>4 DEF TxInv, TxTypes
    <3>2. txBuf' = [b \in 0..1 |-> txBuf'[b]]
      BY <1>4 DEF TxInv, TxTypes
    <3> QED
      BY <1>5, <3>1, <3>2 DEF TxInv, TxTypes
  <2>2. \A b \in 0..1 : Len(txBuf'[b]) <= TxBuffers
    <3>1. \A b \in 0..1 : b = txSel \/ txBuf'[b] = txBuf[b]
      BY <1>4 DEF TxInv, TxTypes
    <3>2. Len(txBuf'[txSel]) <= TxBuffers
      BY <1>1, <1>2, <1>5, BuffersAssumption
    <3> QED
      BY <3>1, <3>2 DEF TxInv, TxTypes
  <2>3. given' \in [Writers -> Nat] /\ left' \in [Writers -> Nat]
    <3>1. n \in Nat /\ given[w] + n \in Nat /\ left[w] - n \in Nat
      BY <1>2 DEF TxInv, TxTypes
    <3> QED
      BY <1>4, <3>1 DEF TxInv, TxTypes
  <2> QED
    BY <1>4, <2>1, <2>2, <2>3 DEF TxInv, TxTypes
<1>7. TxFlags'
  BY <1>4, <1>5 DEF TxInv, TxFlags
<1>8. Pipeline' = Pipeline \o bytes
  <2> DEFINE filling == txBuf[txSel]
             full == txBuf[Other(txSel)]
  <2>1. /\ Pipeline = full \o filling /\ Pipeline' = full \o (filling \o bytes)
        /\ full \in Seq(Byte) /\ filling \in Seq(Byte)
    BY <1>1, <1>4, <1>5 DEF Pipeline
  <2> HIDE DEF filling, full
  <2>2. (full \o filling) \o bytes = full \o (filling \o bytes)
    BY <1>3, <2>1, Associative
  <2> QED
    BY <2>1, <2>2
<1>9. CASE n = 0
  <2>1. bytes = << >>
    BY <1>3, <1>9
  <2>2. Pipeline' = Pipeline
    BY <1>1, <1>8, <2>1, ConcatProperties, ConcatEmptySeq DEF Pipeline
  <2>3. given' = given
    BY <1>4, <1>9 DEF TxInv, TxTypes
  <2> QED
    BY <1>4, <1>6, <1>7, <2>2, <2>3 DEF TxInv
<1>10. CASE n # 0
  <2>1. n \in 1..TxBuffers
    BY <1>2, <1>10, BuffersAssumption
  <2>2. Pipe!Accept(w, n)
    BY <1>4, <1>8 DEF Pipe!Accept, Pipe!NextBytes, bytes
  <2> QED
    BY <1>4, <1>6, <1>7, <2>1, <2>2 DEF TxInv
<1> QED
  BY <1>9, <1>10

\* Opening the port empties both buffers.
LEMMA EnableTx ==
    ASSUME TxInv, Enable
    PROVE  TxInv' /\ Pipe!Open
<1> DEFINE buf == [b \in 0..1 |-> << >>]
<1>1. /\ buf \in [0..1 -> Seq(Byte)] /\ Other(0) = 1
      /\ buf[0] = << >> /\ buf[1] = << >>
      /\ \A b \in 0..1 : Len(buf[b]) <= TxBuffers
      /\ 0 \in 0..(Frames - 1) /\ 0 \in 0..1
  BY BuffersAssumption, FramesAssumption DEF Other
<1>2. /\ TxSend(0, buf, FALSE, FALSE, 0, frame)
      /\ UNCHANGED <<bounds, frame, writerPc, left, given, taken>>
  BY DEF Enable, writing
<1> HIDE DEF buf
<1>3. /\ txSof' \in 0..(Frames - 1) /\ txSel' \in 0..1
      /\ txBuf' \in [0..1 -> Seq(Byte)]
      /\ \A b \in 0..1 : Len(txBuf'[b]) <= TxBuffers
      /\ txOngoing' \in BOOLEAN /\ txBoth' \in BOOLEAN
      /\ zlpCounter' \in 0..(ZlpLimit - 1)
      /\ txJob' \in [buf : NoBuffer..1, bytes : 0..TxBuffers]
      /\ TxFlags'
      /\ Pipeline' = buf[Other(0)] \o buf[0]
  BY <1>1, <1>2, SendKeepsOrder DEF TxInv, TxTypes
<1>4. TxInv'
  BY <1>2, <1>3 DEF TxInv, TxTypes
<1>5. Pipeline' = << >>
  BY <1>1, <1>3, ConcatEmptySeq
<1> QED
  BY <1>2, <1>4, <1>5 DEF Pipe!Open

\* Steps of the receiving half, closing, and stuttering.
LEMMA OthersTx ==
    ASSUME TxInv,
           \/ \E n \in 0..RxBuffers : DataReceived(n)
           \/ ReaderStep \/ Disable \/ UNCHANGED vars
    PROVE  TxInv' /\ UNCHANGED <<Pipeline, given, taken>>
<1>1. /\ UNCHANGED <<bounds, frame, txSel, txBuf, txOngoing, txBoth, txSof, zlpCounter,
                     writerPc, left, given, taken>>
      /\ txJob' \in {txJob, NoJob}
  BY DEF DataReceived, ReaderStep, CallGetc, NoCharacter, Check, ReadCharacter, Advance,
         RxStart, RunRx, readerElse, Disable, vars, txVars, writing
<1>2. NoJob \in [buf : NoBuffer..1, bytes : 0..TxBuffers]
  BY BuffersAssumption DEF NoJob, NoBuffer
<1> QED
  BY <1>1, <1>2 DEF TxInv, TxTypes, TxFlags, Pipeline

\* For all writers, buffer sizes and interleavings of the tasks with the USB
\* interrupt, the two buffers of udi_cdc.c are one pipe of bytes.
THEOREM SendingImplementsPipe == Spec => ImplementsPipe
<1>1. Init => TxInv /\ Pipe!Init
  <2>1. Init => Pipe!Init
    BY DEF Init, Pipe!Init, Pipeline, Other
  <2> QED
    BY <2>1, TxInit
<1>2. TxInv /\ [Next]_vars => TxInv' /\ [Pipe!Next]_(Pipe!vars)
  <2> SUFFICES ASSUME TxInv, [Next]_vars
               PROVE  TxInv' /\ [Pipe!Next]_(Pipe!vars)
    OBVIOUS
  <2>1. CASE StartOfFrame
    BY <2>1, StartOfFrameTx DEF Pipe!vars
  <2>2. CASE DataSent
    BY <2>2, DataSentTx DEF Pipe!Next
  <2>3. CASE \E w \in Writers : WriterStep(w) \/ \E n \in 1..bounds.out : BeginWrite(w, n)
    <3>1. PICK w \in Writers : WriterStep(w) \/ \E n \in 1..bounds.out : BeginWrite(w, n)
      BY <2>3
    <3>2. CASE Copy(w)
      BY <3>2, CopyTx DEF Pipe!Next, Pipe!vars
    <3>3. CASE GetFreeTxBuffer(w) \/ GiveUp(w) \/ \E n \in 1..bounds.out : BeginWrite(w, n)
      BY <3>3, WriterMovesTx DEF Pipe!vars
    <3> QED
      BY <3>1, <3>2, <3>3 DEF WriterStep
  <2>4. CASE Enable
    BY <2>4, EnableTx DEF Pipe!Next
  <2>5. CASE \/ \E n \in 0..RxBuffers : DataReceived(n)
             \/ ReaderStep \/ Disable \/ UNCHANGED vars
    BY <2>5, OthersTx DEF Pipe!vars
  <2> QED
    BY <2>1, <2>2, <2>3, <2>4, <2>5 DEF Next
<1> QED
  BY <1>1, <1>2, PTL DEF Spec, ImplementsPipe, Pipe!Spec

---------------------------------------------------------------------------
(* Receiving.  *)

RxTypes ==
    /\ session \in {"off", "on", "refused"}
    /\ rxSel \in 0..1
    /\ rxBuf \in [0..1 -> Seq(Nat)] /\ rxPos \in Nat
    /\ rxOngoing \in BOOLEAN /\ rxBusy \in BOOLEAN
    /\ rxArmed \in NoBuffer..1
    /\ getc \in [at : {"call", "check", "read", "advance", "start", "run"},
                 pos : Nat, sel : 0..1]
    /\ sent \in Nat /\ got \in Seq(Nat)
    /\ stale \in BOOLEAN /\ denied \in BOOLEAN

\* What the endpoint's job says about the session, and who sees to it that
\* the endpoint is asked for more.
EndpointInv ==
    /\ running => (rxBusy <=> rxArmed # NoBuffer)
    /\ ~running => rxArmed = NoBuffer
    /\ running /\ rxOngoing => rxBusy \/ getc.at = "run"
    /\ running /\ ~rxBusy => ~Nothing \/ getc.at \in {"start", "run"}
    /\ session = "off" /\ rxBusy => denied
    /\ session = "refused" => denied /\ rxBusy

\* Where getc is in the buffers, unless the host opened the port meanwhile.
Numbers(n) == [i \in 1..n |-> i]

GetcInv ==
    /\ getc.at \in {"read", "advance"} =>
           getc.pos = rxPos /\ getc.sel = rxSel /\ ~Nothing
    /\ getc.at = "advance" => got # << >> /\ got[Len(got)] = rxBuf[rxSel][rxPos + 1]
    /\ getc.at = "run" => rxOngoing /\ ~rxBusy /\ getc.sel = Other(rxSel)
    /\ rxBusy => rxOngoing
    /\ rxArmed \in {NoBuffer, Other(rxSel)}
    /\ SubSeq(got, 1, Len(got) - GotNotPassed) \o Unread = Numbers(sent)

RxInv == RxTypes /\ EndpointInv /\ (~stale => GetcInv)

\* Nothing was received and the OUT endpoint is idle.
LEMMA RxInit == Init => RxInv
<1> SUFFICES ASSUME Init PROVE RxInv
  OBVIOUS
<1>1. RxTypes
  <2>1. /\ NoBuffer \in NoBuffer..1
        /\ NotCalled \in [at : {"call", "check", "read", "advance", "start", "run"},
                          pos : Nat, sel : 0..1]
    BY DEF NoBuffer, NotCalled
  <2>2. rxBuf \in [0..1 -> Seq(Nat)] /\ got \in Seq(Nat)
    BY DEF Init
  <2>3. rxArmed = NoBuffer /\ getc = NotCalled
    BY DEF Init
  <2>4. /\ session = "off" /\ rxSel = 0 /\ rxPos = 0 /\ sent = 0
        /\ rxOngoing \in BOOLEAN /\ rxBusy \in BOOLEAN
        /\ stale \in BOOLEAN /\ denied \in BOOLEAN
    BY DEF Init
  <2> QED
    BY <2>1, <2>2, <2>3, <2>4 DEF RxTypes
<1>2. EndpointInv
  BY DEF Init, EndpointInv, running
<1>3. GetcInv
  <2>1. GotNotPassed = 0 /\ Unread = << >> /\ Numbers(0) = << >>
    <3>1. GotNotPassed = 0 /\ Numbers(0) = << >>
      BY DEF Init, GotNotPassed, NotCalled, Numbers
    <3>2. Unread = SubSeq(<< >>, 1, 0) \o << >>
      BY DEF Init, Unread, Other
    <3> QED
      BY <3>1, <3>2, SubSeqEmpty
  <2>2. SubSeq(got, 1, Len(got) - GotNotPassed) \o Unread = Numbers(sent)
    BY <2>1, SubSeqEmpty DEF Init
  <2> QED
    BY <2>2 DEF Init, GetcInv, NotCalled
<1> QED
  BY <1>1, <1>2, <1>3 DEF RxInv

\* A character moves from the buffer to what getc has got.
LEMMA MoveOne ==
    ASSUME NEW S, NEW k \in Seq(S), NEW c \in S, NEW u \in Seq(S), NEW v \in Seq(S)
    PROVE  (k \o <<c>>) \o (u \o v) = k \o ((<<c>> \o u) \o v)
<1>1. <<c>> \in Seq(S)
  OBVIOUS
<1>2. u \o v \in Seq(S)
  BY ConcatProperties
<1>3. (k \o <<c>>) \o (u \o v) = k \o (<<c>> \o (u \o v))
  BY <1>1, <1>2, Associative
<1>4. <<c>> \o (u \o v) = (<<c>> \o u) \o v
  BY <1>1, Associative
<1> QED
  BY <1>3, <1>4

\* A sequence is its front and its last element.
LEMMA LastOne ==
    ASSUME NEW S, NEW g \in Seq(S), g # << >>
    PROVE  /\ SubSeq(g, 1, Len(g) - 1) \in Seq(S)
           /\ SubSeq(g, 1, Len(g) - 1) \o <<g[Len(g)]>> = g
           /\ g[Len(g)] \in S
<1>1. Len(g) \in Nat \ {0}
  BY EmptySeq
<1>2. g = SubSeq(g, 1, Len(g))
  BY SubSeqFull
<1>3. SubSeq(g, 1, Len(g)) = SubSeq(g, 1, Len(g) - 1) \o <<g[Len(g)]>>
  BY <1>1, SubSeqRecursiveSecond
<1>4. SubSeq(g, 1, Len(g) - 1) \in Seq(S) /\ g[Len(g)] \in S
  BY <1>1, SubSeqProperties, ElementOfSeq
<1> QED
  BY <1>2, <1>3, <1>4

\* The characters that are received follow the numbers of those before.
LEMMA NumbersGoOn ==
    ASSUME NEW m \in Nat, NEW n \in Nat
    PROVE  /\ Numbers(m) \in Seq(Nat) /\ [i \in 1..n |-> m + i] \in Seq(Nat)
           /\ Numbers(m) \o [i \in 1..n |-> m + i] = Numbers(m + n)
<1> DEFINE more == [i \in 1..n |-> m + i]
<1>1. Numbers(m) \in Seq(Nat) /\ Len(Numbers(m)) = m
  BY DEF Numbers
<1>2. more \in Seq(Nat) /\ Len(more) = n
  OBVIOUS
<1>3. Numbers(m + n) \in Seq(Nat) /\ Len(Numbers(m + n)) = m + n
  BY DEF Numbers
<1>4. \A i \in 1..(m + n) : (Numbers(m) \o more)[i] = i
  <2> SUFFICES ASSUME NEW i \in 1..(m + n) PROVE (Numbers(m) \o more)[i] = i
    OBVIOUS
  <2>1. (Numbers(m) \o more)[i] = IF i <= m THEN Numbers(m)[i] ELSE more[i - m]
    BY <1>1, <1>2, ConcatProperties
  <2>2. i <= m => Numbers(m)[i] = i
    BY DEF Numbers
  <2>3. ~(i <= m) => more[i - m] = i
    OBVIOUS
  <2> QED
    BY <2>1, <2>2, <2>3
<1>5. \A i \in 1..(m + n) : Numbers(m + n)[i] = i
  BY DEF Numbers
<1> HIDE DEF more
<1>6. Numbers(m) \o more \in Seq(Nat) /\ Len(Numbers(m) \o more) = m + n
  BY <1>1, <1>2, ConcatProperties
<1>7. Numbers(m) \o more = Numbers(m + n)
  BY <1>3, <1>4, <1>5, <1>6, SeqEqual
<1> QED
  BY <1>1, <1>2, <1>7 DEF more

\* Steps that leave reception and getc alone.
LEMMA OthersRx ==
    ASSUME RxInv, UNCHANGED <<session, rxVars, reading>>
    PROVE  RxInv'
BY DEF RxInv, RxTypes, EndpointInv, GetcInv, running, Nothing, Unread, GotNotPassed,
       rxVars, rxQueue, reading

\* getc looks for a character.
LEMMA LookRx ==
    ASSUME RxInv, CallGetc \/ NoCharacter \/ Check
    PROVE  RxInv'
<1>1. /\ UNCHANGED <<session, rxVars, got, sent, stale, denied>>
      /\ getc.at \in {"call", "check"}
      /\ \/ getc'.at \in {"call", "check"}
         \/ /\ getc'.at = "read" /\ getc'.pos = rxPos /\ getc'.sel = rxSel /\ ~Nothing
      /\ getc' \in [at : {"call", "check", "read", "advance", "start", "run"},
                    pos : Nat, sel : 0..1]
  BY SMTT(30) DEF CallGetc, NoCharacter, Check, readerElse, NotCalled, RxInv, RxTypes
<1>2. RxTypes'
  BY <1>1 DEF RxInv, RxTypes, rxVars, rxQueue
<1>3. EndpointInv'
  BY <1>1 DEF RxInv, EndpointInv, rxVars, rxQueue, running, Nothing
<1>4. ~stale => GetcInv'
  <2>1. GotNotPassed = 0 /\ GotNotPassed' = 0
    BY <1>1 DEF GotNotPassed
  <2>2. UNCHANGED Unread
    BY <1>1 DEF Unread, rxVars, rxQueue
  <2> QED
    BY <1>1, <2>1, <2>2 DEF RxInv, GetcInv, rxVars, rxQueue, Nothing
<1> QED
  BY <1>1, <1>2, <1>3, <1>4 DEF RxInv

\* getc reads a character.
LEMMA ReadRx ==
    ASSUME RxInv, ReadCharacter
    PROVE  RxInv'
<1>1. /\ UNCHANGED <<session, rxVars, sent, stale, denied>>
      /\ getc.at = "read" /\ getc' = [getc EXCEPT !.at = "advance"]
      /\ got' = IF stale THEN got ELSE Append(got, rxBuf[getc.sel][getc.pos + 1])
  BY DEF ReadCharacter, readerElse
<1>2. /\ getc'.at = "advance" /\ getc'.pos = getc.pos /\ getc'.sel = getc.sel
      /\ getc' \in [at : {"call", "check", "read", "advance", "start", "run"},
                    pos : Nat, sel : 0..1]
  BY <1>1 DEF RxInv, RxTypes
<1>3. EndpointInv'
  BY <1>1, <1>2 DEF RxInv, EndpointInv, rxVars, rxQueue, running, Nothing
<1>4. CASE stale
  BY <1>1, <1>2, <1>3, <1>4 DEF RxInv, RxTypes, rxVars, rxQueue
<1>5. CASE ~stale
  <2> DEFINE c == rxBuf[rxSel][rxPos + 1]
  <2>1. got' = Append(got, c) /\ GetcInv /\ rxPos + 1 \in 1..Len(rxBuf[rxSel])
    <3>1. GetcInv
      BY <1>5 DEF RxInv
    <3>2. getc.pos = rxPos /\ getc.sel = rxSel /\ ~(rxPos >= Len(rxBuf[rxSel]))
      BY <1>1, <3>1 DEF GetcInv, Nothing
    <3>3. rxPos \in Nat /\ Len(rxBuf[rxSel]) \in Nat
      BY LenProperties DEF RxInv, RxTypes
    <3> QED
      BY <1>1, <1>5, <3>1, <3>2, <3>3
  <2>2. c \in Nat
    BY <2>1, ElementOfSeq DEF RxInv, RxTypes
  <2>3. UNCHANGED c
    BY <1>1 DEF rxVars, rxQueue
  <2> HIDE DEF c
  <2>4. got \in Seq(Nat)
    BY DEF RxInv, RxTypes
  <2>5. /\ got' \in Seq(Nat) /\ got' # << >> /\ Len(got') = Len(got) + 1
        /\ got'[Len(got')] = c
    BY <2>1, <2>2, <2>4, AppendProperties
  <2>6. SubSeq(got', 1, Len(got') - 1) = got
    <3>1. Len(got) \in Nat /\ \A i \in 1..Len(got) : got'[i] = got[i] /\ got[i] \in Nat
      BY <2>1, <2>2, <2>4, AppendProperties, ElementOfSeq, LenProperties
    <3>2. /\ SubSeq(got', 1, Len(got)) \in Seq(Nat)
          /\ Len(SubSeq(got', 1, Len(got))) = Len(got)
          /\ \A i \in 1..Len(got) : SubSeq(got', 1, Len(got))[i] = got[i]
      BY <3>1, SubSeqProperties
    <3>3. SubSeq(got', 1, Len(got)) = got
      BY <2>4, <3>2, SeqEqual
    <3> QED
      BY <2>5, <3>1, <3>3
  <2>7. got = SubSeq(got, 1, Len(got) - GotNotPassed)
    BY <1>1, <2>4, SubSeqFull, LenProperties DEF GotNotPassed
  <2>8. SubSeq(got', 1, Len(got') - GotNotPassed') = SubSeq(got, 1, Len(got) - GotNotPassed)
    BY <1>2, <2>6, <2>7 DEF GotNotPassed
  <2>9. UNCHANGED Unread
    BY <1>1 DEF Unread, rxVars, rxQueue
  <2>10. got'[Len(got')] = (rxBuf[rxSel][rxPos + 1])'
    BY <2>3, <2>5 DEF c
  <2>11. GetcInv'
    BY <1>1, <1>2, <2>1, <2>5, <2>8, <2>9, <2>10 DEF GetcInv, rxVars, rxQueue, Nothing
  <2> QED
    BY <1>1, <1>2, <1>3, <2>5, <2>11 DEF RxInv, RxTypes, rxVars, rxQueue
<1> QED
  BY <1>4, <1>5

\* getc moves on: the character it has read leaves the buffer.
LEMMA AdvanceRx ==
    ASSUME RxInv, Advance
    PROVE  RxInv'
<1>1. /\ UNCHANGED <<session, rxSel, rxBuf, rxOngoing, rxBusy, rxArmed, got, sent, stale, denied>>
      /\ getc.at = "advance" /\ getc' = [getc EXCEPT !.at = "start"]
      /\ rxPos' = getc.pos + 1
  BY DEF Advance, readerElse
<1>2. /\ getc'.at = "start" /\ rxPos' \in Nat
      /\ getc' \in [at : {"call", "check", "read", "advance", "start", "run"},
                    pos : Nat, sel : 0..1]
  <2>1. getc.pos \in Nat
    BY DEF RxInv, RxTypes
  <2>2. rxPos' \in Nat
    BY <1>1, <2>1
  <2> QED
    BY <1>1, <2>2 DEF RxInv, RxTypes
<1>3. RxTypes' /\ EndpointInv'
  BY <1>1, <1>2 DEF RxInv, RxTypes, EndpointInv, running
<1>4. ASSUME ~stale PROVE GetcInv'
  <2> DEFINE k == SubSeq(got, 1, Len(got) - 1)
             c == rxBuf[rxSel][rxPos + 1]
             u == SubSeq(rxBuf[rxSel], rxPos + 2, Len(rxBuf[rxSel]))
             v == IF rxOngoing THEN << >> ELSE rxBuf[Other(rxSel)]
  <2>1. GetcInv
    BY <1>4 DEF RxInv
  <2>2. /\ got # << >> /\ got[Len(got)] = c /\ rxPos' = rxPos + 1
        /\ ~(rxPos >= Len(rxBuf[rxSel]))
    BY <1>1, <2>1 DEF GetcInv, Nothing
  <2>3. /\ rxPos + 1 \in 1..Len(rxBuf[rxSel]) /\ rxBuf[rxSel] \in Seq(Nat)
        /\ Len(rxBuf[rxSel]) \in Nat /\ rxPos \in Nat /\ got \in Seq(Nat)
    BY <2>2, LenProperties DEF RxInv, RxTypes
  <2>4. c \in Nat /\ u \in Seq(Nat)
        /\ SubSeq(rxBuf[rxSel], rxPos + 1, Len(rxBuf[rxSel])) = <<c>> \o u
    <3>1. c \in Nat
      BY <2>3, ElementOfSeq
    <3>2. \A i \in (rxPos + 2)..Len(rxBuf[rxSel]) : rxBuf[rxSel][i] \in Nat
      BY <2>3, ElementOfSeq
    <3>3. u \in Seq(Nat)
      BY <2>3, <3>2, SubSeqProperties
    <3>4. Len(rxBuf[rxSel]) \in (rxPos + 1)..Len(rxBuf[rxSel]) /\ rxPos + 1 + 1 = rxPos + 2
      BY <2>3
    <3>5. SubSeq(rxBuf[rxSel], rxPos + 1, Len(rxBuf[rxSel]))
              = <<rxBuf[rxSel][rxPos + 1]>> \o SubSeq(rxBuf[rxSel], rxPos + 1 + 1, Len(rxBuf[rxSel]))
      BY <2>3, <3>4, SubSeqRecursiveFirst
    <3> QED
      BY <3>1, <3>3, <3>4, <3>5
  <2>5. v \in Seq(Nat)
    BY DEF RxInv, RxTypes, Other
  <2>6. k \in Seq(Nat) /\ k \o <<c>> = got
    BY <2>2, <2>3, LastOne
  <2>7. Unread = (<<c>> \o u) \o v
    BY <2>4 DEF Unread
  <2>8. Unread' = u \o v
    <3>1. rxPos' + 1 = rxPos + 2
      BY <2>2, <2>3
    <3>2. Unread' = SubSeq(rxBuf[rxSel], rxPos' + 1, Len(rxBuf[rxSel])) \o v
      BY <1>1 DEF Unread
    <3> QED
      BY <3>1, <3>2
  <2>9. SubSeq(got, 1, Len(got) - GotNotPassed) = k
    BY <1>1 DEF GotNotPassed
  <2>10. SubSeq(got', 1, Len(got') - GotNotPassed') = got
    BY <1>1, <1>2, <2>3, SubSeqFull, LenProperties DEF GotNotPassed
  <2> HIDE DEF k, c, u, v
  <2>11. (k \o <<c>>) \o (u \o v) = k \o ((<<c>> \o u) \o v)
    <3>1. k \in Seq(Nat) /\ c \in Nat /\ u \in Seq(Nat) /\ v \in Seq(Nat)
      BY <2>4, <2>5, <2>6
    <3> QED
      BY <3>1, MoveOne
  <2>12. got \o (u \o v) = k \o ((<<c>> \o u) \o v)
    BY <2>6, <2>11
  <2>13. SubSeq(got', 1, Len(got') - GotNotPassed') \o Unread' = Numbers(sent)
    BY <2>1, <2>7, <2>8, <2>9, <2>10, <2>12 DEF GetcInv
  <2> QED
    BY <1>1, <1>2, <2>1, <2>13 DEF GetcInv
<1> QED
  BY <1>1, <1>3, <1>4 DEF RxInv

\* getc swaps the buffers when it has emptied one and the other is full.
LEMMA RxStartRx ==
    ASSUME RxInv, RxStart
    PROVE  RxInv'
<1>1. /\ UNCHANGED <<session, rxBuf, rxBusy, rxArmed, got, sent, stale, denied>>
      /\ getc.at = "start"
  BY DEF RxStart, readerElse
<1>2. GotNotPassed = 0 /\ (getc'.at # "advance" => GotNotPassed' = 0)
  BY <1>1 DEF GotNotPassed
<1>3. CASE MayReceive(rxSel, rxBuf, rxPos, rxOngoing)
  <2>1. /\ ~rxOngoing /\ rxPos >= Len(rxBuf[rxSel])
        /\ rxPos' = 0 /\ rxSel' = Other(rxSel) /\ rxOngoing'
        /\ getc' = [at |-> "run", pos |-> 0, sel |-> rxSel]
    BY <1>3 DEF RxStart, MayReceive
  <2>2. Other(rxSel) \in 0..1 /\ Other(Other(rxSel)) = rxSel
    BY DEF RxInv, RxTypes, Other
  <2>3. RxTypes' /\ EndpointInv'
    BY <1>1, <2>1, <2>2 DEF RxInv, RxTypes, EndpointInv, running
  <2>4. ASSUME ~stale PROVE GetcInv'
    <3> DEFINE next == rxBuf[Other(rxSel)]
    <3>1. next \in Seq(Nat)
      BY <2>2 DEF RxInv, RxTypes
    <3>2. Unread = next
      <4>1. SubSeq(rxBuf[rxSel], rxPos + 1, Len(rxBuf[rxSel])) = << >>
        BY <2>1, LenProperties, SubSeqEmpty DEF RxInv, RxTypes
      <4>2. Unread = << >> \o next
        BY <2>1, <4>1 DEF Unread
      <4> HIDE DEF next
      <4> QED
        BY <3>1, <4>2, ConcatEmptySeq
    <3>3. Unread' = next
      <4>1. Unread' = SubSeq(next, 1, Len(next)) \o << >>
        BY <1>1, <2>1 DEF Unread
      <4> HIDE DEF next
      <4> QED
        BY <3>1, <4>1, SubSeqFull, ConcatEmptySeq
    <3>4. GetcInv /\ ~rxBusy /\ rxArmed = NoBuffer
      BY <2>1, <2>4 DEF RxInv, RxTypes, EndpointInv, GetcInv
    <3>5. GotNotPassed' = 0
      BY <1>2, <2>1
    <3> QED
      BY <1>1, <1>2, <2>1, <2>2, <3>2, <3>3, <3>4, <3>5 DEF GetcInv
  <2> QED
    BY <1>1, <2>3, <2>4 DEF RxInv
<1>4. CASE ~MayReceive(rxSel, rxBuf, rxPos, rxOngoing)
  <2>1. /\ getc' = NotCalled /\ NotCalled.at = "call"
        /\ NotCalled \in [at : {"call", "check", "read", "advance", "start", "run"},
                          pos : Nat, sel : 0..1]
        /\ UNCHANGED <<rxPos, rxSel, rxOngoing>>
    BY <1>4 DEF RxStart, NotCalled
  <2>2. RxTypes'
    BY <1>1, <2>1 DEF RxInv, RxTypes
  <2>3. EndpointInv'
    BY <1>1, <1>4, <2>1 DEF RxInv, RxTypes, EndpointInv, running, Nothing, MayReceive
  <2>4. UNCHANGED Unread
    BY <1>1, <2>1 DEF Unread
  <2>5. ASSUME ~stale PROVE GetcInv'
    BY <1>1, <1>2, <2>1, <2>4, <2>5 DEF RxInv, GetcInv
  <2> QED
    BY <1>1, <2>2, <2>3, <2>5 DEF RxInv
<1> QED
  BY <1>3, <1>4

\* getc asks the endpoint for the next characters.
LEMMA RunRxRx ==
    ASSUME RxInv, RunRx
    PROVE  RxInv'
<1>1. /\ UNCHANGED <<session, rxSel, rxBuf, rxPos, rxOngoing, got, sent, stale>>
      /\ getc.at = "run"
      /\ getc' = NotCalled /\ NotCalled.at = "call"
      /\ NotCalled \in [at : {"call", "check", "read", "advance", "start", "run"},
                        pos : Nat, sel : 0..1]
      /\ denied' = (denied \/ (~rxBusy /\ session = "off"))
  BY DEF RunRx, readerElse, rxQueue, NotCalled
<1>2. /\ rxBusy'
      /\ rxArmed' = IF rxBusy THEN rxArmed ELSE IF session = "off" THEN NoBuffer ELSE getc.sel
  BY DEF RunRx, RunEndpoint, RxInv, RxTypes
<1>3. getc.sel \in NoBuffer..1 /\ getc.sel # NoBuffer /\ NoBuffer \in NoBuffer..1
  BY DEF RxInv, RxTypes, NoBuffer
<1>4. RxTypes'
  BY <1>1, <1>2, <1>3 DEF RxInv, RxTypes
<1>5. EndpointInv'
  BY <1>1, <1>2, <1>3 DEF RxInv, RxTypes, EndpointInv, running
<1>6. ASSUME ~stale PROVE GetcInv'
  <2>1. GotNotPassed = 0 /\ GotNotPassed' = 0
    BY <1>1 DEF GotNotPassed
  <2>2. UNCHANGED Unread
    BY <1>1 DEF Unread
  <2> QED
    BY <1>1, <1>2, <1>6, <2>1, <2>2 DEF RxInv, GetcInv
<1> QED
  BY <1>1, <1>4, <1>5, <1>6 DEF RxInv

\* The interrupt fills the free buffer, and swaps when the other is read.
LEMMA DataReceivedRx ==
    ASSUME RxInv, NEW n \in 0..RxBuffers, DataReceived(n)
    PROVE  RxInv'
<1> DEFINE free == Other(rxSel)
           more == [i \in 1..n |-> sent + i]
<1>1. /\ session = "on" /\ rxArmed # NoBuffer /\ sent' = sent + n
      /\ UNCHANGED <<session, getc, got, stale, denied>>
      /\ n \in Nat /\ sent \in Nat
      /\ free \in 0..1 /\ free # rxSel /\ Other(free) = rxSel
  BY BuffersAssumption DEF DataReceived, running, RxInv, RxTypes, Other
<1>2. UNCHANGED GotNotPassed
  BY <1>1 DEF GotNotPassed
<1>3. CASE n = 0
  <2>1. rxArmed' = free /\ UNCHANGED <<rxSel, rxBuf, rxPos, rxOngoing, rxBusy, sent>>
    BY <1>1, <1>3 DEF DataReceived, rxQueue
  <2>2. free \in NoBuffer..1 /\ free # NoBuffer
    BY <1>1 DEF NoBuffer
  <2>3. RxTypes'
    BY <1>1, <2>1, <2>2 DEF RxInv, RxTypes
  <2>4. EndpointInv'
    BY <1>1, <2>1, <2>2 DEF RxInv, EndpointInv, running, Nothing
  <2>5. UNCHANGED Unread
    BY <2>1 DEF Unread
  <2>6. ASSUME ~stale PROVE GetcInv'
    BY <1>1, <1>2, <2>1, <2>5, <2>6 DEF RxInv, GetcInv, Nothing
  <2> QED
    BY <1>1, <2>3, <2>4, <2>6 DEF RxInv
<1>4. CASE n # 0
  <2> DEFINE buf == [rxBuf EXCEPT ![free] = more]
  <2>1. /\ more \in Seq(Nat) /\ Len(more) = n /\ buf \in [0..1 -> Seq(Nat)]
        /\ buf[free] = more /\ buf[rxSel] = rxBuf[rxSel]
    <3>1. more \in Seq(Nat) /\ Len(more) = n
      BY <1>1, NumbersGoOn
    <3> HIDE DEF more
    <3> QED
      BY <1>1, <3>1 DEF RxInv, RxTypes
  <2>2. /\ rxBuf' = buf
        /\ \/ /\ rxPos >= Len(rxBuf[rxSel])
              /\ rxSel' = free /\ rxPos' = 0 /\ rxOngoing'
              /\ rxBusy' /\ rxArmed' = rxSel
           \/ /\ ~(rxPos >= Len(rxBuf[rxSel]))
              /\ UNCHANGED <<rxSel, rxPos>>
              /\ ~rxOngoing' /\ ~rxBusy' /\ rxArmed' = NoBuffer
              /\ rxOngoing' \in BOOLEAN /\ rxBusy' \in BOOLEAN
    BY <1>1, <1>4, <2>1 DEF DataReceived, MayReceive
  <2> HIDE DEF buf
  <2>3. RxTypes'
    <3>1. /\ rxOngoing' \in BOOLEAN /\ rxBusy' \in BOOLEAN
      BY <1>4 DEF DataReceived
    <3>2. rxSel \in NoBuffer..1 /\ NoBuffer \in NoBuffer..1 /\ sent' \in Nat
      BY <1>1 DEF RxInv, RxTypes, NoBuffer
    <3> QED
      BY <1>1, <2>1, <2>2, <3>1, <3>2 DEF RxInv, RxTypes
  <2>4. EndpointInv'
    <3>1. rxSel # NoBuffer
      BY DEF RxInv, RxTypes, NoBuffer
    <3> QED
      BY <1>1, <2>1, <2>2, <3>1 DEF EndpointInv, running, Nothing
  <2>5. ASSUME ~stale PROVE GetcInv'
    <3> DEFINE unread == Unread
               k == SubSeq(got, 1, Len(got) - GotNotPassed)
               rest == SubSeq(rxBuf[rxSel], rxPos + 1, Len(rxBuf[rxSel]))
    <3>1. GetcInv /\ rxBusy /\ rxOngoing
      BY <1>1, <2>5 DEF RxInv, EndpointInv, GetcInv, running
    <3>2. rest \in Seq(Nat)
      <4>1. rxBuf[rxSel] \in Seq(Nat) /\ rxPos \in Nat
        BY DEF RxInv, RxTypes
      <4>2. \A i \in (rxPos + 1)..Len(rxBuf[rxSel]) : rxBuf[rxSel][i] \in Nat
        BY <4>1, ElementOfSeq, LenProperties
      <4> QED
        BY <4>1, <4>2, LenProperties, SubSeqProperties
    <3>3. Unread = rest
      <4>1. Unread = rest \o << >>
        BY <3>1 DEF Unread
      <4> HIDE DEF rest
      <4> QED
        BY <3>2, <4>1, ConcatEmptySeq
    <3>4. Unread' = rest \o more
      <4>1. CASE rxPos >= Len(rxBuf[rxSel])
        <5>1. rest = << >>
          BY <4>1, LenProperties, SubSeqEmpty DEF RxInv, RxTypes
        <5>2. Unread' = SubSeq(more, 1, Len(more)) \o << >>
          BY <2>1, <2>2, <4>1 DEF Unread
        <5> HIDE DEF more, rest
        <5> QED
          BY <2>1, <5>1, <5>2, SubSeqFull, ConcatEmptySeq
      <4>2. CASE ~(rxPos >= Len(rxBuf[rxSel]))
        BY <1>1, <2>1, <2>2, <4>2 DEF Unread
      <4> QED
        BY <4>1, <4>2
    <3>5. k \in Seq(Nat)
      <4>1. GotNotPassed \in {0, 1}
        BY DEF GotNotPassed
      <4>2. got \in Seq(Nat) /\ Len(got) \in Nat /\ Len(got) - GotNotPassed \in Int
            /\ Len(got) - GotNotPassed <= Len(got)
        BY <4>1, LenProperties DEF RxInv, RxTypes
      <4>3. \A i \in 1..(Len(got) - GotNotPassed) : got[i] \in Nat
        BY <4>2, ElementOfSeq
      <4> QED
        BY <4>2, <4>3, SubSeqProperties
    <3>6. k \o rest = Numbers(sent) /\ UNCHANGED k
      BY <1>1, <1>2, <3>1, <3>3 DEF GetcInv
    <3>7. k \o (rest \o more) = Numbers(sent')
      <4>1. Numbers(sent) \o more = Numbers(sent + n)
        BY <1>1, NumbersGoOn
      <4>2. more \in Seq(Nat)
        BY <2>1
      <4> HIDE DEF k, rest, more
      <4>3. (k \o rest) \o more = k \o (rest \o more)
        BY <3>2, <3>5, <4>2, NumbersAssociative
      <4> QED
        BY <1>1, <3>6, <4>1, <4>3
    <3>8. (SubSeq(got, 1, Len(got) - GotNotPassed) \o Unread)' = Numbers(sent)'
      <4>1. (SubSeq(got, 1, Len(got) - GotNotPassed))' = k
        BY <3>6
      <4>2. Numbers(sent)' = Numbers(sent')
        BY DEF Numbers
      <4> QED
        BY <3>4, <3>7, <4>1, <4>2
    <3>9. getc.at # "run"
      BY <3>1 DEF GetcInv
    <3>10. rxArmed' \in {NoBuffer, Other(rxSel')} /\ (rxBusy' => rxOngoing')
      BY <1>1, <2>2
    <3>11. getc.at \in {"read", "advance"} =>
               /\ ~(rxPos >= Len(rxBuf[rxSel])) /\ getc.pos = rxPos /\ getc.sel = rxSel
      BY <3>1 DEF GetcInv, Nothing
    <3>12. getc.at = "advance" => got # << >> /\ got[Len(got)] = rxBuf[rxSel][rxPos + 1]
      BY <3>1 DEF GetcInv
    <3>13. getc'.at \in {"read", "advance"} =>
               getc'.pos = rxPos' /\ getc'.sel = rxSel' /\ ~Nothing'
      BY <1>1, <2>1, <2>2, <3>11 DEF Nothing
    <3>14. getc'.at = "advance" => got' # << >> /\ got'[Len(got')] = rxBuf'[rxSel'][rxPos' + 1]
      BY <1>1, <2>1, <2>2, <3>11, <3>12
    <3> QED
      BY <1>1, <3>8, <3>9, <3>10, <3>13, <3>14 DEF GetcInv
  <2> QED
    BY <1>1, <2>3, <2>4, <2>5 DEF RxInv
<1> QED
  BY <1>3, <1>4

\* Opening the port starts the numbering and both buffers afresh.
LEMMA EnableRx ==
    ASSUME RxInv, Enable
    PROVE  RxInv'
<1>1. /\ session = "off" /\ rxSel' = 1 /\ rxPos' = 0 /\ rxOngoing' /\ sent' = 0
      /\ rxOngoing' \in BOOLEAN
      /\ rxBuf' = [b \in 0..1 |-> << >>] /\ got' = << >>
      /\ stale' = (getc.at \notin {"call", "check"})
      /\ UNCHANGED <<getc, denied>>
  BY DEF Enable
<1>2. \/ /\ rxBusy /\ session' = "refused" /\ rxBusy' = rxBusy /\ rxArmed' = rxArmed
      \/ /\ ~rxBusy /\ session' = "on" /\ rxBusy' = TRUE /\ rxArmed' = 0
  BY DEF Enable
<1>3. NoBuffer # 0 /\ 0 \in NoBuffer..1 /\ Other(1) = 0
  BY DEF NoBuffer, Other
<1>4. rxBuf' \in [0..1 -> Seq(Nat)] /\ rxBuf'[1] = << >> /\ got' \in Seq(Nat)
  BY <1>1
<1>5. RxTypes'
  <2>1. rxArmed' \in NoBuffer..1 /\ rxBusy' \in BOOLEAN
    BY <1>2, <1>3 DEF RxInv, RxTypes
  <2>2. stale' \in BOOLEAN
    BY DEF Enable
  <2>3. session' \in {"off", "on", "refused"}
    BY <1>2
  <2> QED
    BY <1>1, <1>4, <2>1, <2>2, <2>3 DEF RxInv, RxTypes
<1>6. EndpointInv'
  BY <1>1, <1>2, <1>3 DEF RxInv, RxTypes, EndpointInv, running
<1>7. ASSUME ~stale' PROVE GetcInv'
  <2>1. getc.at \in {"call", "check"} /\ getc' = getc
    BY <1>1, <1>7
  <2>2. GotNotPassed' = 0
    BY <2>1 DEF GotNotPassed
  <2>3. Unread' = << >>
    <3>1. Unread' = SubSeq(<< >>, 1, 0) \o << >>
      BY <1>1, <1>4 DEF Unread
    <3> QED
      BY <3>1, SubSeqEmpty
  <2>4. Numbers(sent)' = << >>
    BY <1>1 DEF Numbers
  <2>5. (SubSeq(got, 1, Len(got) - GotNotPassed) \o Unread)' = Numbers(sent)'
    BY <1>1, <2>2, <2>3, <2>4, SubSeqEmpty
  <2>6. rxArmed' \in {NoBuffer, 0}
    BY <1>1, <1>2 DEF RxInv, EndpointInv, running
  <2> QED
    BY <1>1, <1>3, <2>1, <2>5, <2>6 DEF GetcInv
<1> QED
  BY <1>5, <1>6, <1>7 DEF RxInv

\* Closing the port aborts the endpoint's job and resets nothing else.
LEMMA DisableRx ==
    ASSUME RxInv, Disable
    PROVE  RxInv'
<1>1. /\ session' = "off" /\ rxBusy' = FALSE /\ rxArmed' = NoBuffer /\ denied' = FALSE
      /\ UNCHANGED <<rxSel, rxBuf, rxPos, rxOngoing, getc, sent, got, stale>>
  BY DEF Disable, rxQueue
<1>2. NoBuffer \in NoBuffer..1
  BY DEF NoBuffer
<1>3. RxTypes' /\ EndpointInv'
  BY <1>1, <1>2 DEF RxInv, RxTypes, EndpointInv, running
<1>4. UNCHANGED <<Unread, GotNotPassed>>
  BY <1>1 DEF Unread, GotNotPassed
<1>5. ASSUME ~stale PROVE GetcInv'
  BY <1>1, <1>4, <1>5 DEF RxInv, GetcInv, Nothing
<1> QED
  BY <1>1, <1>3, <1>5 DEF RxInv

\* Every step keeps the invariant of the reception.
LEMMA RxStep == RxInv /\ [Next]_vars => RxInv'
<1> SUFFICES ASSUME RxInv, [Next]_vars PROVE RxInv'
  OBVIOUS
<1>1. CASE \/ StartOfFrame \/ DataSent \/ UNCHANGED vars
           \/ \E w \in Writers : WriterStep(w) \/ \E n \in 1..bounds.out : BeginWrite(w, n)
  <2>1. UNCHANGED <<session, rxVars, reading>>
    BY <1>1 DEF StartOfFrame, DataSent, WriterStep, GetFreeTxBuffer, GiveUp, Copy,
                BeginWrite, vars
  <2> QED
    BY <2>1, OthersRx
<1>2. CASE \E n \in 0..RxBuffers : DataReceived(n)
  BY <1>2, DataReceivedRx
<1>3. CASE ReaderStep
  BY <1>3, LookRx, ReadRx, AdvanceRx, RxStartRx, RunRxRx DEF ReaderStep
<1>4. CASE Enable \/ Disable
  BY <1>4, EnableRx, DisableRx
<1> QED
  BY <1>1, <1>2, <1>3, <1>4 DEF Next

---------------------------------------------------------------------------
\* Every step keeps the invariant of the transmission.
LEMMA TxStep == TxInv /\ [Next]_vars => TxInv'
<1> SUFFICES ASSUME TxInv, [Next]_vars PROVE TxInv'
  OBVIOUS
<1>1. CASE \E w \in Writers : WriterStep(w) \/ \E n \in 1..bounds.out : BeginWrite(w, n)
  BY <1>1, WriterMovesTx, CopyTx DEF WriterStep
<1>2. CASE ~\E w \in Writers : WriterStep(w) \/ \E n \in 1..bounds.out : BeginWrite(w, n)
  BY <1>2, StartOfFrameTx, DataSentTx, EnableTx, OthersTx DEF Next
<1> QED
  BY <1>1, <1>2

\* Every variable keeps its type: no buffer is overfilled, no frame or empty
\* transfer counter leaves its range, and an index is in its buffer.
THEOREM TypesOK == Spec => []TypeOK
<1>1. Init => TxInv /\ RxInv
  BY TxInit, RxInit
<1>2. TxInv /\ RxInv /\ [Next]_vars => TxInv' /\ RxInv'
  BY TxStep, RxStep
<1>3. TxInv /\ RxInv => TypeOK
  BY DEF TxInv, TxTypes, RxInv, RxTypes, TypeOK
<1> QED
  BY <1>1, <1>2, <1>3, PTL DEF Spec

\* getc hands over every character of a session once and in order, and the
\* endpoint never receives into the buffer that is being read.
THEOREM CharactersStayInOrder == Spec => []CharactersInOrder
<1>1. RxInv => CharactersInOrder
  BY DEF RxInv, GetcInv, CharactersInOrder, Numbers
<1> QED
  BY RxInit, RxStep, <1>1, PTL DEF Spec

\* getc never waits for an endpoint that was not asked for characters.
THEOREM ReceptionStaysArmed == Spec => []ReceptionArmed
<1>1. RxInv => ReceptionArmed
  BY DEF RxInv, EndpointInv, ReceptionArmed
<1> QED
  BY RxInit, RxStep, <1>1, PTL DEF Spec

\* Opening the port fails only after a request to a closed endpoint.
THEOREM OpeningWorks == Spec => []OpensUnlessDenied
<1>1. RxInv => OpensUnlessDenied
  BY DEF RxInv, EndpointInv, OpensUnlessDenied
<1> QED
  BY RxInit, RxStep, <1>1, PTL DEF Spec
=============================================================================
