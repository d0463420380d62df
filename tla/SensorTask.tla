---------------------------- MODULE SensorTask ----------------------------
(***************************************************************************)
(* The temperature path: the timer service's tempSampleCallback (main.c)   *)
(* puts a tick into the one-place tick queue, taskPullSensorDataLoop       *)
(* (UserTasks.c) takes it, reads the two thermocouple converters one after *)
(* the other and tells the display task what is new.                       *)
(*                                                                         *)
(* A reading stands for the pair of temperatures a converter returns; the  *)
(* value Zero is the pair (0.0, 0.0) that lastTemp and lastIntTemp start   *)
(* with, and Fault a reading whose fault bit is set.                       *)
(***************************************************************************)
EXTENDS Integers, Sequences

CONSTANTS
    Readings,           \* the readings without a fault
    Zero,               \* the one the task starts with as its last
    Fault,
    DisplayQueueLength  \* length of hDisplayChangeQueue (10)

VARIABLES
    tickQueue,      \* hTickQueue holds a tick
    displayQueue,   \* hDisplayChangeQueue
    converters,     \* what each converter would return now
    pc,             \* where the task is
    tempData,       \* tempData1 and tempData2
    lastTemp,       \* lastTemp1, lastIntTemp1 and lastTemp2, lastIntTemp2
    sampled         \* history: what the calls of max31855ReadData since the
                    \* last tick have returned for each converter

taskVars == <<pc, tempData, lastTemp, sampled>>
vars     == <<tickQueue, displayQueue, converters, taskVars>>

Sensors == {1, 2}

NothingSampled == [s \in Sensors |-> {}]

SensorDataChanged(temps) == [type |-> "SensorDataChanged", temperatures |-> temps]
SensorError == [type |-> "SensorError"]

Init ==
    /\ tickQueue = FALSE
    /\ displayQueue = << >>
    /\ converters \in [Sensors -> Readings \cup {Fault}]
    /\ pc = "receive"
    /\ tempData = [s \in Sensors |-> Zero]
    /\ lastTemp = [s \in Sensors |-> Zero]
    /\ sampled = NothingSampled

---------------------------------------------------------------------------
\* tempSampleCallback: a send that does not wait, its result ignored.  A
\* tick that finds the queue full leaves it full.
TempSampleCallback ==
    /\ tickQueue' = TRUE
    /\ UNCHANGED <<displayQueue, converters, taskVars>>

ReceiveTick ==
    /\ pc = "receive" /\ tickQueue
    /\ tickQueue' = FALSE
    /\ pc' = "readFirst"
    /\ sampled' = NothingSampled
    /\ UNCHANGED <<displayQueue, converters, tempData, lastTemp>>

\* max31855ReadData leaves what converter s returns in its buffer.
Read(s) ==
    /\ tempData' = [tempData EXCEPT ![s] = converters[s]]
    /\ sampled' = [sampled EXCEPT ![s] = @ \cup {converters[s]}]

\* Fault: a fault of the first converter is not reported.
ReadFirstSilently ==
    /\ pc = "readFirst"
    /\ Read(1)
    /\ pc' = IF converters[1] = Fault THEN "receive" ELSE "readSecond"
    /\ UNCHANGED <<tickQueue, displayQueue, converters, lastTemp>>

\* Fault: the two calls are joined by || for &&, so that the second converter
\* is read only when the first has failed.
ReadFirstOnly ==
    /\ pc = "readFirst"
    /\ Read(1)
    /\ pc' = IF converters[1] = Fault THEN "readSecond"
             ELSE IF tempData' # lastTemp THEN "sendData"
             ELSE "receive"
    /\ UNCHANGED <<tickQueue, displayQueue, converters, lastTemp>>

\* max31855ReadData; the second converter is not read after a fault of the
\* first.
ReadFirst ==
    /\ pc = "readFirst"
    /\ Read(1)
    /\ pc' = IF converters[1] = Fault THEN "sendError" ELSE "readSecond"
    /\ UNCHANGED <<tickQueue, displayQueue, converters, lastTemp>>

ReadSecond ==
    /\ pc = "readSecond"
    /\ Read(2)
    /\ pc' = IF converters[2] = Fault THEN "sendError"
             ELSE IF tempData' # lastTemp THEN "sendData"
             ELSE "receive"
    /\ UNCHANGED <<tickQueue, displayQueue, converters, lastTemp>>

\* xQueueSendToBack(hDisplayChangeQueue, ..., 10), its result ignored.
Send(message) ==
    \/ /\ Len(displayQueue) < DisplayQueueLength
       /\ displayQueue' = Append(displayQueue, message)
    \/ /\ Len(displayQueue) >= DisplayQueueLength
       /\ UNCHANGED displayQueue

\* Fault: what was sent is not remembered.
SendDataForgets ==
    /\ pc = "sendData"
    /\ Send(SensorDataChanged(tempData))
    /\ pc' = "receive"
    /\ UNCHANGED <<tickQueue, converters, tempData, lastTemp, sampled>>

SendData ==
    /\ pc = "sendData"
    /\ Send(SensorDataChanged(tempData))
    /\ lastTemp' = tempData
    /\ pc' = "receive"
    /\ UNCHANGED <<tickQueue, converters, tempData, sampled>>

SendError ==
    /\ pc = "sendError"
    /\ Send(SensorError)
    /\ pc' = "receive"
    /\ UNCHANGED <<tickQueue, converters, tempData, lastTemp, sampled>>

TaskStep == ReceiveTick \/ ReadFirst \/ ReadSecond \/ SendData \/ SendError

---------------------------------------------------------------------------
\* The world the converters measure, and the supply.
ConverterChanges ==
    /\ \E s \in Sensors, r \in Readings \cup {Fault} :
           converters' = [converters EXCEPT ![s] = r]
    /\ UNCHANGED <<tickQueue, displayQueue, taskVars>>

PowerFailure ==
    /\ tickQueue' = FALSE
    /\ displayQueue' = << >>
    /\ pc' = "receive"
    /\ tempData' = [s \in Sensors |-> Zero]
    /\ lastTemp' = [s \in Sensors |-> Zero]
    /\ sampled' = NothingSampled
    /\ UNCHANGED converters

---------------------------------------------------------------------------
TypeOK ==
    /\ tickQueue \in BOOLEAN
    /\ converters \in [Sensors -> Readings \cup {Fault}]
    /\ pc \in {"receive", "readFirst", "readSecond", "sendData", "sendError"}
    /\ tempData \in [Sensors -> Readings \cup {Fault}]
    /\ lastTemp \in [Sensors -> Readings]
    /\ sampled \in [Sensors -> SUBSET (Readings \cup {Fault})]

\* A data message that reaches the display queue carries what both converters
\* returned since the tick it answers, each read once, and is news; and an
\* error is reported only of a sampling in which a converter had a fault.
\* The buffers tempData1 and tempData2 outlive the sampling, and the second
\* is not written in one that the first converter's fault cuts short.
FreshSend ==
    Len(displayQueue') > Len(displayQueue) =>
        LET m == displayQueue'[Len(displayQueue')] IN
        /\ m.type = "SensorDataChanged" =>
               /\ \A s \in Sensors : sampled[s] = {m.temperatures[s]}
               /\ m.temperatures \in [Sensors -> Readings] \ {lastTemp}
        /\ m.type = "SensorError" => \E s \in Sensors : Fault \in sampled[s]
===========================================================================
