------------------------------- MODULE UsbCdc -------------------------------
(***************************************************************************)
(* The CDC class of the USB device stack (udi_cdc.c): two buffers in each  *)
(* direction between the tasks, which run with interrupts on, and the USB  *)
(* interrupt.  A step of a task is what it does between two places where   *)
(* the interrupt may come; the interrupt's handlers are one step each.     *)
(***************************************************************************)
EXTENDS Integers, Sequences, SequencesExt

CONSTANTS
    Writers,    \* the tasks that write (the CDC and the display task)
    TxBuffers,  \* UDI_CDC_TX_BUFFERS, bytes of one buffer
    RxBuffers,  \* UDI_CDC_RX_BUFFERS
    ZlpLimit,   \* frames without data before an empty transfer (100)
    Frames,     \* the frame number's period (2048)
    Traffic     \* bounds: bytes each writer writes, characters of a session

ASSUME BuffersAssumption == TxBuffers \in Nat \ {0} /\ RxBuffers \in Nat \ {0}
ASSUME FramesAssumption  == Frames \in Nat \ {0} /\ ZlpLimit \in Nat \ {0}
ASSUME TrafficAssumption == Traffic \subseteq [out : Nat, in : Nat]

VARIABLES
    bounds,         \* the element of Traffic this behaviour keeps to
    session,        \* "off", "on", or "refused": data_enable returned false
    frame,          \* the USB frame number
    txSel, txBuf,   \* the buffer the tasks fill; both buffers' bytes
    txOngoing,      \* udi_cdc_tx_trans_ongoing
    txBoth,         \* udi_cdc_tx_both_buf_to_send
    txSof,          \* udi_cdc_tx_sof_num
    zlpCounter,     \* sof_zlp_counter
    txJob,          \* the buffer and the bytes the endpoint sends, or NoJob
    writerPc, left, \* where a writer is, and the bytes it still has to write
    given, taken,   \* history: bytes accepted of each writer, bytes the host got
    rxSel, rxBuf,   \* the buffer getc empties; both buffers' characters
    rxPos,          \* udi_cdc_rx_pos
    rxOngoing,      \* udi_cdc_rx_trans_ongoing
    rxBusy,         \* the endpoint's job is busy
    rxArmed,        \* the buffer it receives into, or NoBuffer
    getc,           \* where getc is and what it has read: [at, pos, sel]
    sent, got,      \* history: characters sent and got in this session
    stale, denied   \* history: see OpenSession and RunEndpoint

NoBuffer == -1
NoJob == [buf |-> NoBuffer, bytes |-> 0]
NotCalled == [at |-> "call", pos |-> 0, sel |-> 0]
Other(b) == 1 - b

txVars  == <<txSel, txBuf, txOngoing, txBoth, txSof, zlpCounter, txJob>>
writing == <<writerPc, left, given>>
rxQueue == <<rxSel, rxBuf, rxPos, rxOngoing>>
rxVars  == <<rxQueue, rxBusy, rxArmed>>
reading == <<getc, sent, got, stale, denied>>
vars    == <<bounds, session, frame, txVars, writing, taken, rxVars, reading>>

running == session = "on"   \* udi_cdc_data_running

Init ==
    /\ bounds \in Traffic
    /\ session = "off"
    /\ frame = 0
    /\ txSel = 0 /\ txBuf = [b \in 0..1 |-> << >>]
    /\ txOngoing = FALSE /\ txBoth = FALSE
    /\ txSof = 0 /\ zlpCounter = 0
    /\ txJob = NoJob
    /\ writerPc = [w \in Writers |-> "idle"]
    /\ left = [w \in Writers |-> 0]
    /\ given = [w \in Writers |-> 0]
    /\ taken = << >>
    /\ rxSel = 0 /\ rxBuf = [b \in 0..1 |-> << >>]
    /\ rxPos = 0 /\ rxOngoing = FALSE
    /\ rxBusy = FALSE /\ rxArmed = NoBuffer
    /\ getc = NotCalled
    /\ sent = 0 /\ got = << >>
    /\ stale = FALSE /\ denied = FALSE

---------------------------------------------------------------------------
(* Sending.  *)

\* Nothing in the buffer to fill, and not yet time for an empty transfer.
Waits(buf, sel) == buf[sel] = << >> /\ zlpCounter + 1 < ZlpLimit

\* udi_cdc_tx_send, called by the interrupt only: from the transmission state
\* its caller has left, start a transfer unless one is under way, this frame
\* had its transfer already, or there is nothing to send and no need yet of
\* an empty transfer.
TxSend(sel, buf, ongoing, both, sof, now) ==
    LET which == IF both THEN Other(sel) ELSE sel
        rests == ongoing \/ sof = now
    IN  /\ txBuf' = buf
        /\ txBoth' = both
        /\ IF rests \/ Waits(buf, sel)
           THEN /\ zlpCounter' = IF rests THEN zlpCounter ELSE zlpCounter + 1
                /\ txSel' = sel
                /\ txOngoing' = ongoing
                /\ txSof' = sof
                /\ txJob' = IF ongoing THEN txJob ELSE NoJob
           ELSE /\ zlpCounter' = 0
                /\ txSel' = Other(which)
                /\ txOngoing' = TRUE
                /\ txSof' = IF Len(buf[which]) # TxBuffers THEN now ELSE 0
                /\ txJob' = [buf |-> which, bytes |-> Len(buf[which])]

\* Fault: the class is not told of frames, and sends on only after a transfer.
StartOfFrameUnheard ==
    /\ session # "off"
    /\ frame' = (frame + 1) % Frames
    /\ UNCHANGED <<bounds, session, txVars, writing, taken, rxVars, reading>>

\* A frame starts: udi_cdc_data_sof_notify.
StartOfFrame ==
    /\ session # "off"
    /\ frame' = (frame + 1) % Frames
    /\ TxSend(txSel, txBuf, txOngoing, txBoth, txSof, frame')
    /\ UNCHANGED <<bounds, session, writing, taken, rxVars, reading>>

\* udi_cdc_data_sent, when the host has fetched the transfer.
DataSent ==
    /\ running /\ txJob # NoJob
    /\ taken' = taken \o SubSeq(txBuf[txJob.buf], 1, txJob.bytes)
    /\ TxSend(txSel, [txBuf EXCEPT ![Other(txSel)] = << >>], FALSE, FALSE, txSof, frame)
    /\ UNCHANGED <<bounds, session, frame, writing, rxVars, reading>>

\* A task calls udi_cdc_write_buf with n bytes.
BeginWrite(w, n) ==
    /\ writerPc[w] = "idle"
    /\ given[w] + n <= bounds.out
    /\ writerPc' = [writerPc EXCEPT ![w] = "check"]
    /\ left' = [left EXCEPT ![w] = n]
    /\ UNCHANGED <<bounds, session, frame, txVars, given, taken, rxVars, reading>>

\* udi_cdc_multi_get_free_tx_buffer: there is room, or the other buffer is
\* not in use and becomes the one to fill.
Full == Len(txBuf[txSel]) = TxBuffers

\* Fault: the buffer under transmission is taken for a free one.
MayTurnWhileSending == ~txBoth

MayTurn == ~txOngoing /\ ~txBoth

GetFreeTxBuffer(w) ==
    /\ writerPc[w] = "check"
    /\ IF Full
       THEN /\ MayTurn
            /\ txBoth' = TRUE
            /\ txSel' = Other(txSel)
       ELSE UNCHANGED <<txBoth, txSel>>
    /\ writerPc' = [writerPc EXCEPT ![w] = "copy"]
    /\ UNCHANGED <<bounds, session, frame, txBuf, txOngoing, txSof, zlpCounter,
                   txJob, left, given, taken, rxVars, reading>>

\* No room and no host: udi_cdc_write_buf returns with bytes unwritten.
GiveUp(w) ==
    /\ writerPc[w] = "check"
    /\ Full /\ ~MayTurn /\ ~running
    /\ writerPc' = [writerPc EXCEPT ![w] = "idle"]
    /\ left' = [left EXCEPT ![w] = 0]
    /\ UNCHANGED <<bounds, session, frame, txVars, given, taken, rxVars, reading>>

\* Fault: the room is not looked at again.
CopyAll(w) ==
    /\ writerPc[w] = "copy"
    /\ txBuf' = [txBuf EXCEPT ![txSel] = @ \o [i \in 1..left[w] |-> <<w, given[w] + i>>]]
    /\ given' = [given EXCEPT ![w] = @ + left[w]]
    /\ left' = [left EXCEPT ![w] = 0]
    /\ writerPc' = [writerPc EXCEPT ![w] = "idle"]
    /\ UNCHANGED <<bounds, session, frame, txSel, txOngoing, txBoth, txSof,
                   zlpCounter, txJob, taken, rxVars, reading>>

\* The bytes that fit, which may be none: another writer was faster.
Copy(w) ==
    /\ writerPc[w] = "copy"
    /\ LET room == TxBuffers - Len(txBuf[txSel])
           n == IF left[w] < room THEN left[w] ELSE room
       IN  /\ txBuf' = [txBuf EXCEPT ![txSel] = @ \o [i \in 1..n |-> <<w, given[w] + i>>]]
           /\ given' = [given EXCEPT ![w] = @ + n]
           /\ left' = [left EXCEPT ![w] = @ - n]
           /\ writerPc' = [writerPc EXCEPT ![w] = IF n = left[w] THEN "idle" ELSE "check"]
    /\ UNCHANGED <<bounds, session, frame, txSel, txOngoing, txBoth, txSof,
                   zlpCounter, txJob, taken, rxVars, reading>>

---------------------------------------------------------------------------
(* Receiving.  *)

\* udd_ep_run for the OUT endpoint.  A busy job refuses; a job on an endpoint
\* that is not configured is denied by the hardware layer, but stays busy.
RunEndpoint(b) ==
    IF rxBusy
    THEN UNCHANGED <<rxBusy, rxArmed>>
    ELSE /\ rxBusy' = TRUE
         /\ rxArmed' = IF session = "off" THEN NoBuffer ELSE b

\* Faults: the other buffer's characters are not waited for; a buffer is read
\* out one character late.
MayReceiveAtOnce(sel, buf, pos, ongoing) == ~ongoing
MayReceiveLate(sel, buf, pos, ongoing) == ~ongoing /\ pos > Len(buf[sel])

\* The condition of udi_cdc_rx_start: reception is not under way, and the
\* current buffer has been read.
MayReceive(sel, buf, pos, ongoing) == ~ongoing /\ pos >= Len(buf[sel])

\* udi_cdc_data_received of n characters, and the udi_cdc_rx_start it calls.
\* They are in the buffer rxArmed, which is the free one: see CharactersInOrder.
\* An empty transfer is asked for again.
DataReceived(n) ==
    /\ running /\ rxArmed # NoBuffer
    /\ sent + n <= bounds.in
    /\ sent' = sent + n
    /\ LET free == Other(rxSel)
           buf == [rxBuf EXCEPT ![free] = [i \in 1..n |-> sent + i]]
       IN  IF n = 0
           THEN /\ rxArmed' = free
                /\ UNCHANGED <<rxQueue, rxBusy>>
           ELSE /\ rxBuf' = buf
                /\ IF MayReceive(rxSel, buf, rxPos, FALSE)
                   THEN /\ rxSel' = free /\ rxPos' = 0
                        /\ rxOngoing' = TRUE
                        /\ rxBusy' = TRUE /\ rxArmed' = rxSel
                   ELSE /\ UNCHANGED <<rxSel, rxPos>>
                        /\ rxOngoing' = FALSE
                        /\ rxBusy' = FALSE /\ rxArmed' = NoBuffer
    /\ UNCHANGED <<bounds, session, frame, txVars, writing, taken, getc, got, stale, denied>>

readerElse == <<bounds, session, frame, txVars, writing, taken, sent, stale>>

\* taskCdcLoop calls udi_cdc_getc when bAutorizeCdcTransfer says that there
\* is a host, which both ways of opening the port make true.
CallGetc ==
    /\ getc.at = "call"
    /\ session # "off"
    /\ getc' = [getc EXCEPT !.at = "check"]
    /\ UNCHANGED <<readerElse, rxVars, got, denied>>

\* udi_cdc_getc waits for a character unless there is no host any more, ...
Nothing == rxPos >= Len(rxBuf[rxSel])

NoCharacter ==
    /\ getc.at = "check"
    /\ Nothing /\ ~running
    /\ getc' = NotCalled
    /\ UNCHANGED <<readerElse, rxVars, got, denied>>

Check ==
    /\ getc.at = "check"
    /\ ~Nothing
    /\ getc' = [at |-> "read", pos |-> rxPos, sel |-> rxSel]
    /\ UNCHANGED <<readerElse, rxVars, got, denied>>

\* ... reads it, ...
ReadCharacter ==
    /\ getc.at = "read"
    /\ getc' = [getc EXCEPT !.at = "advance"]
    /\ got' = IF stale THEN got
              ELSE Append(got, rxBuf[getc.sel][getc.pos + 1])
    /\ UNCHANGED <<readerElse, rxVars, denied>>

\* ... moves on in the buffer, ...
Advance ==
    /\ getc.at = "advance"
    /\ rxPos' = getc.pos + 1
    /\ getc' = [getc EXCEPT !.at = "start"]
    /\ UNCHANGED <<readerElse, rxSel, rxBuf, rxOngoing, rxBusy, rxArmed, got, denied>>

\* ... and when that was the last one swaps the buffers with interrupts off,
RxStart ==
    /\ getc.at = "start"
    /\ IF MayReceive(rxSel, rxBuf, rxPos, rxOngoing)
       THEN /\ rxPos' = 0
            /\ rxSel' = Other(rxSel)
            /\ rxOngoing' = TRUE
            /\ getc' = [at |-> "run", pos |-> 0, sel |-> rxSel]
       ELSE /\ getc' = NotCalled
            /\ UNCHANGED <<rxPos, rxSel, rxOngoing>>
    /\ UNCHANGED <<readerElse, rxBuf, rxBusy, rxArmed, got, denied>>

\* and asks for the next characters with interrupts on again.
RunRx ==
    /\ getc.at = "run"
    /\ RunEndpoint(getc.sel)
    /\ denied' = (denied \/ (~rxBusy /\ session = "off"))
    /\ getc' = NotCalled
    /\ UNCHANGED <<readerElse, rxQueue, got>>

---------------------------------------------------------------------------
(* The host opens and closes the port.  *)

\* udi_cdc_data_enable.  Both directions start afresh, the writers and the
\* reader are not told.  It fails when the endpoint's job is still busy.
Enable ==
    /\ session = "off"
    /\ TxSend(0, [b \in 0..1 |-> << >>], FALSE, FALSE, 0, frame)
    /\ rxSel' = 1 /\ rxBuf' = [b \in 0..1 |-> << >>]
    /\ rxPos' = 0 /\ rxOngoing' = TRUE
    /\ IF rxBusy
       THEN /\ session' = "refused"
            /\ UNCHANGED <<rxBusy, rxArmed>>
       ELSE /\ session' = "on"
            /\ rxBusy' = TRUE /\ rxArmed' = 0
    /\ sent' = 0 /\ got' = << >>
    /\ stale' = (getc.at \notin {"call", "check"})
    /\ UNCHANGED <<bounds, frame, writing, taken, getc, denied>>

\* Fault: the endpoints' jobs are not aborted.
DisableKeepsJobs ==
    /\ session # "off"
    /\ session' = "off"
    /\ denied' = FALSE
    /\ UNCHANGED <<bounds, frame, txVars, writing, taken, rxVars, getc, sent, got, stale>>

\* udc_iface_disable: the endpoints are freed, which aborts their jobs, and
\* udi_cdc_data_disable.  Nothing else is reset.
Disable ==
    /\ session # "off"
    /\ session' = "off"
    /\ txJob' = NoJob
    /\ rxBusy' = FALSE /\ rxArmed' = NoBuffer
    /\ denied' = FALSE
    /\ UNCHANGED <<bounds, frame, txSel, txBuf, txOngoing, txBoth, txSof, zlpCounter,
                   writing, taken, rxQueue, getc, sent, got, stale>>

---------------------------------------------------------------------------
WriterStep(w) == GetFreeTxBuffer(w) \/ GiveUp(w) \/ Copy(w)
ReaderStep == CallGetc \/ NoCharacter \/ Check \/ ReadCharacter \/ Advance \/ RxStart \/ RunRx

Next ==
    \/ StartOfFrame \/ DataSent
    \/ \E w \in Writers : WriterStep(w) \/ \E n \in 1..bounds.out : BeginWrite(w, n)
    \/ \E n \in 0..RxBuffers : DataReceived(n)
    \/ ReaderStep
    \/ Enable \/ Disable

\* Frames start as long as there is a host.  It need not fetch anything, and
\* no task need ever run again.
Fairness == WF_vars(StartOfFrame)

Spec == Init /\ [][Next]_vars /\ Fairness

---------------------------------------------------------------------------
Byte == Writers \X (Nat \ {0})

TypeOK ==
    /\ bounds \in Traffic
    /\ session \in {"off", "on", "refused"}
    /\ frame \in 0..(Frames - 1) /\ txSof \in 0..(Frames - 1)
    /\ txSel \in 0..1 /\ rxSel \in 0..1
    /\ txBuf \in [0..1 -> Seq(Byte)]
    /\ \A b \in 0..1 : Len(txBuf[b]) <= TxBuffers
    /\ txOngoing \in BOOLEAN /\ txBoth \in BOOLEAN
    /\ zlpCounter \in 0..(ZlpLimit - 1)
    /\ txJob \in [buf : NoBuffer..1, bytes : 0..TxBuffers]
    /\ writerPc \in [Writers -> {"idle", "check", "copy"}]
    /\ left \in [Writers -> Nat] /\ given \in [Writers -> Nat]
    /\ taken \in Seq(Byte)
    /\ rxBuf \in [0..1 -> Seq(Nat)] /\ rxPos \in Nat
    /\ rxOngoing \in BOOLEAN /\ rxBusy \in BOOLEAN
    /\ rxArmed \in NoBuffer..1
    /\ getc \in [at : {"call", "check", "read", "advance", "start", "run"},
                pos : Nat, sel : 0..1]
    /\ sent \in Nat /\ got \in Seq(Nat)
    /\ stale \in BOOLEAN /\ denied \in BOOLEAN

\* What was written and not sent: the buffer under transmission or full,
\* then the one being filled.
Pipeline == txBuf[Other(txSel)] \o txBuf[txSel]

Pipe == INSTANCE SerialPipe WITH Capacity <- TxBuffers, pipe <- Pipeline

\* The two buffers, the switching between them by the writers and by the
\* interrupt, and the reset when the host opens the port make up one pipe:
\* no byte that was accepted is sent twice, left out or overtaken.
ImplementsPipe == Pipe!Spec

\* Bytes in the buffers get into a transfer although no task ever does
\* anything again, for instance when the buffer to fill is empty and the full
\* one is the other.
WrittenBytesLeave == Pipeline # << >> ~> txOngoing \/ session = "off"

\* What the host sent in this session and getc has not got.
Unread ==
    SubSeq(rxBuf[rxSel], rxPos + 1, Len(rxBuf[rxSel]))
        \o (IF rxOngoing THEN << >> ELSE rxBuf[Other(rxSel)])
GotNotPassed == IF getc.at = "advance" THEN 1 ELSE 0

\* getc gets every character of a session once and in the host's order, with
\* the interrupt filling and swapping the buffers between any two of its
\* steps, and the endpoint only ever fills the buffer that is not being read;
\* unless the host opened the port while getc was under way.
CharactersInOrder ==
    ~stale =>
        /\ SubSeq(got, 1, Len(got) - GotNotPassed) \o Unread = [i \in 1..sent |-> i]
        /\ rxArmed \in {NoBuffer, Other(rxSel)}

\* getc never waits for characters that the endpoint was not asked for.
ReceptionArmed ==
    running /\ getc.at \in {"call", "check"} /\ Nothing => rxArmed # NoBuffer

\* Opening the port fails only after getc asked an endpoint that the host had
\* just closed for characters, and works the next time.
OpensUnlessDenied == session = "refused" => denied
=============================================================================
