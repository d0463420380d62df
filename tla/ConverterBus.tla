---------------------------- MODULE ConverterBus ----------------------------
(***************************************************************************)
(* The two MAX31855 converters on their SPI port.  The sensor task reads   *)
(* them when the sampling timer tells it to; the CDC task reads them when  *)
(* the host types 't'.  Both call max31855ReadData, which selects a        *)
(* converter, shifts four bytes in with spi_read_buffer_wait and deselects *)
(* it.  Nothing locks the port, and the sensor task preempts the CDC task. *)
(*                                                                         *)
(* A converter sends its word from the first byte on when its select line  *)
(* falls, and goes on from where it is while the line stays low.           *)
(***************************************************************************)
EXTENDS SpiPort

CONSTANTS
    Junk,       \* a byte that is no converter's
    WordLength  \* bytes of a converter's word (4)

VARIABLES
    line,       \* where each selected converter is in its word, or High
    from,       \* the converters selected when the shifting byte began
    pc,         \* where each task is in max31855ReadData
    slave,      \* the converter it reads
    buffer,     \* bufferSpiRead
    overlapped  \* history: the other task used the port during this word

Tasks  == {"sensor", "cdc"}
Slaves == {1, 2}

wires   == <<line, from>>
taskOwn == <<pc, slave, buffer, overlapped>>
vars    == <<port, wires, taskOwn>>

High == -1
Selected == {s \in Slaves : line[s] # High}

Init ==
    /\ PortInit
    /\ line = [s \in Slaves |-> High]
    /\ from = {}
    /\ pc = [t \in Tasks |-> "idle"]
    /\ slave = [t \in Tasks |-> 1]
    /\ buffer = [t \in Tasks |-> << >>]
    /\ overlapped = [t \in Tasks |-> FALSE]

\* The sensor task has the higher priority and busy-waits: while it reads,
\* the CDC task does not run.
MayRun(t) == t = "sensor" \/ pc["sensor"] = "idle"

At(t, p)  == MayRun(t) /\ pc[t] = p
Goto(t, p) == pc' = [pc EXCEPT ![t] = p]

\* Between its converter's selection and deselection.
OnPort(t) == pc[t] \in {"ready", "write", "await", "read", "deselect"}

---------------------------------------------------------------------------
\* A reading begins.
Begin(t) ==
    /\ At(t, "idle")
    /\ Goto(t, "select")
    /\ UNCHANGED <<port, wires, slave, buffer, overlapped>>

\* spi_select_slave.  Only a line that was high falls, and one that falls
\* while a byte is shifted leaves its converter out of step.
Select(t) ==
    /\ At(t, "select")
    /\ line' = [line EXCEPT ![slave[t]] =
                   IF @ # High THEN @
                   ELSE IF shift = Empty THEN 0 ELSE WordLength]
    /\ Goto(t, "ready")
    /\ overlapped' = [u \in Tasks |-> IF u = t THEN \E v \in Tasks \ {t} : OnPort(v)
                                              ELSE overlapped[u] \/ OnPort(u)]
    /\ UNCHANGED <<port, from, slave, buffer>>

\* spi_read_buffer_wait, for every byte: wait until the port may be written,
\* write the dummy byte, wait for the byte that was shifted in, read it.
AwaitReady(t) ==
    /\ At(t, "ready")
    /\ ReadyToWrite
    /\ Goto(t, "write")
    /\ UNCHANGED <<port, wires, slave, buffer, overlapped>>

WriteDummy(t) ==
    /\ At(t, "write")
    /\ Write("dummy")
    /\ Goto(t, "await")
    /\ UNCHANGED <<wires, slave, buffer, overlapped>>

\* Fault: the byte is not waited for.
AwaitNothing(t) ==
    /\ At(t, "await")
    /\ Goto(t, "read")
    /\ UNCHANGED <<port, wires, slave, buffer, overlapped>>

AwaitByte(t) ==
    /\ At(t, "await")
    /\ ReadyToRead
    /\ Goto(t, "read")
    /\ UNCHANGED <<port, wires, slave, buffer, overlapped>>

\* spi_read.  When it fails, max31855ReadData ignores that and takes what its
\* uninitialised buffer holds.  It does not fail here: a task that preempts
\* between wait and read leaves as many bytes as it found (BytesBalance).
ReadByte(t) ==
    /\ At(t, "read")
    /\ IF ReadyToRead
       THEN /\ Read
            /\ buffer' = [buffer EXCEPT ![t] = Append(@, Head(received))]
            /\ Goto(t, IF Len(buffer'[t]) = WordLength THEN "deselect" ELSE "ready")
       ELSE /\ UNCHANGED port
            /\ buffer' = [buffer EXCEPT ![t] = [i \in 1..WordLength |->
                                IF i <= Len(@) THEN @[i] ELSE Junk]]
            /\ Goto(t, "deselect")
    /\ UNCHANGED <<wires, slave, overlapped>>

\* Fault: the converter stays selected for the next reading.
DeselectNot(t) ==
    /\ At(t, "deselect")
    /\ Goto(t, "unpack")
    /\ UNCHANGED <<port, wires, slave, buffer, overlapped>>

Deselect(t) ==
    /\ At(t, "deselect")
    /\ line' = [line EXCEPT ![slave[t]] = High]
    /\ Goto(t, "unpack")
    /\ UNCHANGED <<port, from, slave, buffer, overlapped>>

\* The unpacking: two divisions of doubles in software, for which the port
\* at 1 MHz does not keep the task waiting; whatever was still being shifted
\* is over by then.  The sensor task leaves the second converter alone after
\* a fault of the first.
Unpack(t) ==
    /\ At(t, "unpack")
    /\ WriteComplete
    /\ overlapped' = [overlapped EXCEPT ![t] = FALSE]
    /\ \/ /\ slave[t] = 1
          /\ slave' = [slave EXCEPT ![t] = 2]
          /\ Goto(t, "select")
       \/ /\ slave[t] = 2 \/ t = "sensor"
          /\ Goto(t, "idle")
          /\ slave' = [slave EXCEPT ![t] = 1]
    /\ buffer' = [buffer EXCEPT ![t] = << >>]
    /\ UNCHANGED <<port, wires>>

---------------------------------------------------------------------------
LoadByte ==
    /\ Load
    /\ from' = Selected
    /\ UNCHANGED <<line, taskOwn>>

\* What was shifted in is the next byte of the one converter that was
\* selected all the while.  Every selected converter has moved on.
ByteShifted ==
    /\ Complete(
           IF \E s \in Slaves :
                  from = {s} /\ Selected = {s} /\ line[s] < WordLength
           THEN LET s == CHOOSE s \in Slaves : from = {s} IN <<s, line[s] + 1>>
           ELSE Junk)
    /\ line' = [s \in Slaves |-> IF line[s] = High \/ line[s] = WordLength
                                 THEN line[s] ELSE line[s] + 1]
    /\ from' = {}
    /\ UNCHANGED taskOwn

TaskStep(t) ==
    \/ Select(t) \/ AwaitReady(t) \/ WriteDummy(t) \/ AwaitByte(t)
    \/ ReadByte(t) \/ Deselect(t) \/ Unpack(t)

Next ==
    \/ \E t \in Tasks : Begin(t) \/ TaskStep(t)
    \/ LoadByte \/ ByteShifted

\* The port shifts, the sensor task runs, and a sampling period leaves the
\* CDC task time again and again.  Nobody has to begin a reading.
Fairness ==
    /\ WF_vars(LoadByte) /\ WF_vars(ByteShifted)
    /\ WF_vars(TaskStep("sensor")) /\ SF_vars(TaskStep("cdc"))

Spec == Init /\ [][Next]_vars /\ Fairness

---------------------------------------------------------------------------
Byte == {Junk} \cup Slaves \X (1..WordLength)

Word(s) == [i \in 1..WordLength |-> <<s, i>>]

\* A reading that no other one overlapped is the word of the converter that
\* was asked for, whatever two readings that collided before it have left in
\* the port and on the select lines.
GenuineWhenAlone ==
    \A t \in Tasks :
        pc[t] = "unpack" /\ ~overlapped[t] => buffer[t] = Word(slave[t])

\* However two readings collide, the port is left as it was found: as many
\* bytes wait or are under way as tasks have written one and not read it,
\* so none is lost to a full buffer and none stays behind.
Owing(t) == pc[t] \in {"await", "read"}

BytesBalance ==
    InTransit = (IF Owing("sensor") THEN 1 ELSE 0) + (IF Owing("cdc") THEN 1 ELSE 0)

\* Both busy-waits of spi_read_buffer_wait end although the sensor task may
\* take the byte the CDC task waits for, and leave it one of its own: every
\* reading ends.
ReadingsEnd == \A t \in Tasks : pc[t] # "idle" ~> pc[t] = "idle"

\* "measured temperature in C" (Max31855.h): what the sensor task unpacks is
\* the word of the converter it read.
SensorReadsWord ==
    pc["sensor"] = "unpack" => buffer["sensor"] = Word(slave["sensor"])
============================================================================
