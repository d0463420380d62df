----------------------------- MODULE DisplayBus -----------------------------
(***************************************************************************)
(* The TFT on its SPI port.  The display task draws what its messages say, *)
(* the CDC task fills the screen when the host types 'f'.  Both draw with  *)
(* the functions of Sitronix7735.c: a window is set, then pixels are       *)
(* written to it, each command and each block of data through              *)
(* spi_write_buffer_wait, with one pin that tells commands from data and   *)
(* one that selects the controller.  Nothing locks the port or the pins,   *)
(* and the scheduler slices time between the two tasks.                    *)
(***************************************************************************)
EXTENDS SpiPort, SequencesExt

CONSTANTS
    ArgBytes,   \* bytes of a window's columns or rows (4)
    Blocks      \* the blocks of pixel data each task may have to write: a
                \* pixel is one, a rectangle one for every 64 bytes

Tasks == {"display", "cdc"}

VARIABLES
    dataPin,    \* m_dcSelectorPin: TRUE for data
    selected,   \* the controller's select line is low
    turn,       \* the task whose time slice it is
    script,     \* what each task's drawing still has to do
    pc,         \* where it is in it
    alone,      \* history: no other drawing overlapped this one
    taken       \* history: what the controller took during a lone drawing

pins    == <<dataPin, selected>>
history == <<alone, taken>>
vars    == <<port, pins, turn, script, pc, history>>

---------------------------------------------------------------------------
\* The calls a drawing is made of.  A byte is known by what it belongs to.
Byte == {"CASET", "columns", "RASET", "rows", "RAMWR", "pixels"} \X Nat

SelectCall   == [call |-> "select"]
DeselectCall == [call |-> "deselect"]

Command(name)   == [call |-> "send", asData |-> FALSE, bytes |-> <<<<name, 0>>>>]
DataBlock(name, n) ==
    [call |-> "send", asData |-> TRUE, bytes |-> [i \in 1..n |-> <<name, i>>]]

\* Sitronix7735_setAddrWindow leaves the controller selected for the pixels.
SetAddrWindow ==
    <<SelectCall, Command("CASET"), DataBlock("columns", ArgBytes), DeselectCall,
      SelectCall, Command("RASET"), DataBlock("rows", ArgBytes), DeselectCall,
      SelectCall, Command("RAMWR")>>

\* Sitronix7735_drawPixel and Sitronix7735_fillRect.
Drawing(blocks) ==
    SetAddrWindow \o [b \in 1..Len(blocks) |-> DataBlock("pixels", blocks[b])]
                  \o <<DeselectCall>>

\* What the controller must take: every byte, as what it is.
Said(c) ==
    IF c.call = "send"
    THEN [i \in 1..Len(c.bytes) |-> [byte |-> c.bytes[i], asData |-> c.asData]]
    ELSE << >>

Meant(calls) == FlattenSeq([i \in 1..Len(calls) |-> Said(calls[i])])

---------------------------------------------------------------------------
Init ==
    /\ PortInit
    /\ dataPin = TRUE
    /\ selected = FALSE
    /\ turn = "display"
    /\ script = [t \in Tasks |-> << >>]
    /\ pc = [t \in Tasks |-> "call"]
    /\ alone = [t \in Tasks |-> FALSE]
    /\ taken = << >>

Idle(t)    == script[t] = << >>
At(t, p)   == turn = t /\ ~Idle(t) /\ pc[t] = p
Goto(t, p) == pc' = [pc EXCEPT ![t] = p]
Call(t)    == Head(script[t])

Begin(t, blocks) ==
    /\ turn = t /\ Idle(t)
    /\ script' = [script EXCEPT ![t] = Drawing(blocks)]
    /\ alone' = [u \in Tasks |-> u = t /\ \A v \in Tasks \ {t} : Idle(v)]
    /\ taken' = << >>
    /\ UNCHANGED <<port, pins, turn, pc>>

\* spi_select_slave.
Select(t) ==
    /\ At(t, "call") /\ Call(t).call \in {"select", "deselect"}
    /\ selected' = (Call(t).call = "select")
    /\ script' = [script EXCEPT ![t] = Tail(@)]
    /\ UNCHANGED <<port, dataPin, turn, pc, history>>

\* Fault: the pin is left for data as it is found.
SetPinForCommands(t) ==
    /\ At(t, "call") /\ Call(t).call = "send"
    /\ dataPin' = (dataPin /\ Call(t).asData)
    /\ Goto(t, "ready")
    /\ UNCHANGED <<port, selected, turn, script, history>>

\* Sitronix7735_writeCommand and Sitronix7735_writeData.
SetPin(t) ==
    /\ At(t, "call") /\ Call(t).call = "send"
    /\ dataPin' = Call(t).asData
    /\ Goto(t, "ready")
    /\ UNCHANGED <<port, selected, turn, script, history>>

\* spi_write_buffer_wait, for every byte: wait until the port may be written,
\* write the byte, wait for the byte shifted in, throw it away.
AwaitReady(t) ==
    /\ At(t, "ready")
    /\ ReadyToWrite
    /\ Goto(t, "write")
    /\ UNCHANGED <<port, pins, turn, script, history>>

WriteByte(t) ==
    /\ At(t, "write")
    /\ Write(Head(Call(t).bytes))
    /\ Goto(t, "await")
    /\ UNCHANGED <<pins, turn, script, history>>

AwaitByte(t) ==
    /\ At(t, "await")
    /\ ReadyToRead
    /\ Goto(t, "flush")
    /\ UNCHANGED <<port, pins, turn, script, history>>

\* The block's next byte, or the end of the block.
ByteDone(t) ==
    LET rest == Tail(Call(t).bytes)
    IN  IF rest = << >>
        THEN /\ script' = [script EXCEPT ![t] = Tail(@)]
             /\ Goto(t, "complete")
        ELSE /\ script' = [script EXCEPT ![t] = <<[Call(t) EXCEPT !.bytes = rest]>> \o Tail(@)]
             /\ Goto(t, "ready")

Flush(t) ==
    /\ At(t, "flush")
    /\ Read \/ (~ReadyToRead /\ UNCHANGED port)
    /\ ByteDone(t)
    /\ UNCHANGED <<pins, turn, history>>

\* Fault: the end of the shifting is taken for a byte shifted in.
AwaitInput(t) ==
    /\ At(t, "complete")
    /\ ReadyToRead
    /\ Goto(t, "call")
    /\ UNCHANGED <<port, pins, turn, script, history>>

\* After the last byte the end of the shifting is waited for.
AwaitComplete(t) ==
    /\ At(t, "complete")
    /\ WriteComplete
    /\ Goto(t, "call")
    /\ UNCHANGED <<port, pins, turn, script, history>>

---------------------------------------------------------------------------
LoadByte ==
    /\ Load
    /\ UNCHANGED <<pins, turn, script, pc, history>>

\* The selected controller takes a byte for what the pin says at its end.
ByteShifted ==
    /\ Complete("input")
    /\ taken' = IF selected /\ (\E t \in Tasks : alone[t])
                THEN Append(taken, [byte |-> shift, asData |-> dataPin])
                ELSE taken
    /\ UNCHANGED <<pins, turn, script, pc, alone>>

\* The other task's time slice.  Switching takes longer than a byte does at
\* 10 MHz.
Switch ==
    /\ WriteComplete
    /\ turn' = CHOOSE t \in Tasks : t # turn
    /\ UNCHANGED <<port, pins, script, pc, history>>

TaskStep(t) ==
    \/ Select(t) \/ SetPin(t) \/ AwaitReady(t) \/ WriteByte(t)
    \/ AwaitByte(t) \/ Flush(t) \/ AwaitComplete(t)

Next ==
    \/ \E t \in Tasks : TaskStep(t) \/ \E blocks \in Blocks[t] : Begin(t, blocks)
    \/ LoadByte \/ ByteShifted \/ Switch

\* The port shifts, and as long as something is drawn time slices end.
Fairness ==
    /\ WF_vars(LoadByte) /\ WF_vars(ByteShifted)
    /\ SF_vars((\E t \in Tasks : ~Idle(t)) /\ Switch)
    /\ \A t \in Tasks : SF_vars(TaskStep(t))

Spec == Init /\ [][Next]_vars /\ Fairness

---------------------------------------------------------------------------
\* A drawing that no other one overlapped reaches the controller whole, in
\* order, every byte while the pin tells what it is, however the drawings
\* before it collided on the port and the pins.
LoneDrawingIsExact ==
    \A t \in Tasks :
        alone[t] /\ script[t] = <<DeselectCall>> /\ pc[t] = "call" =>
            \E blocks \in Blocks[t] : taken = Meant(Drawing(blocks))

\* However two drawings interleave, the port owes a byte to each task that
\* has written one and not fetched its answer, and no more: none is dropped
\* by a full register or a full buffer, none is left for the next drawing.
Owing(t) == pc[t] \in {"await", "flush"}

BytesBalance ==
    InTransit = (IF Owing("display") THEN 1 ELSE 0) + (IF Owing("cdc") THEN 1 ELSE 0)

\* Both tasks get to the end of their drawings, though each may throw away
\* the byte the other waits for.
DrawingsEnd == \A t \in Tasks : ~Idle(t) ~> Idle(t)
============================================================================
