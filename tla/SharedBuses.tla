---------------------------- MODULE SharedBuses ----------------------------
(***************************************************************************)
(* The CDC task as the second user of the two buses: command 't' makes it  *)
(* read the converters beside the sensor task, command 'f' fill the screen *)
(* beside the display task.  The buses are two ports with tasks of their   *)
(* own that have nothing in common but the CDC task, which is in one       *)
(* command at a time; a behaviour follows the bus of one command.          *)
(***************************************************************************)
EXTENDS Integers, Sequences

CONSTANTS Empty, Junk, WordLength, ArgBytes, Blocks

ASSUME LengthsAssumption == WordLength \in Nat \ {0} /\ ArgBytes \in Nat \ {0}
ASSUME BlocksAssumption  == Blocks \in [{"display", "cdc"} -> SUBSET Seq(Nat \ {0})]

VARIABLES
    command,                                            \* 't' or 'f'
    line, from, slave, buffer, overlapped, sensorPc,    \* ConverterBus
    sensorData, sensorShift, sensorReceived,
    dataPin, selected, turn, script, alone, taken, drawPc, \* DisplayBus
    tftData, tftShift, tftReceived

Converters == INSTANCE ConverterBus WITH
    data <- sensorData, shift <- sensorShift, received <- sensorReceived,
    pc <- sensorPc
Tft == INSTANCE DisplayBus WITH
    data <- tftData, shift <- tftShift, received <- tftReceived, pc <- drawPc

ASSUME EmptyAssumption   == Empty # "dummy" /\ Empty \notin Tft!Byte

converterVars == <<line, from, slave, buffer, overlapped, sensorPc,
                   sensorData, sensorShift, sensorReceived>>
tftVars == <<dataPin, selected, turn, script, alone, taken, drawPc,
             tftData, tftShift, tftReceived>>
vars == <<command, converterVars, tftVars>>

Init ==
    /\ command \in {"t", "f"}
    /\ Converters!Init
    /\ Tft!Init

ReadsConverters ==
    /\ command = "t"
    /\ Converters!Next
    /\ UNCHANGED <<command, tftVars>>

FillsScreen ==
    /\ command = "f"
    /\ Tft!Next
    /\ UNCHANGED <<command, converterVars>>

Next == ReadsConverters \/ FillsScreen

Spec == Init /\ [][Next]_vars /\ Converters!Fairness /\ Tft!Fairness

---------------------------------------------------------------------------
\* On both ports every byte shifted out is answered by one byte read: two
\* unlocked users never fill a buffer, lose a byte written, or leave one
\* behind for the next reading or drawing to take for its own.
BytesBalance == Converters!BytesBalance /\ Tft!BytesBalance

\* A converter's word that was read while the other task kept off the port is
\* whole and of the converter asked for, whatever collided before.
GenuineWhenAlone == Converters!GenuineWhenAlone

\* A drawing that the other task kept off reaches the controller whole,
\* commands as commands and data as data, whatever collided before.
LoneDrawingIsExact == Tft!LoneDrawingIsExact

\* The busy-waits on the ports end although the other task may take the very
\* byte that is waited for.
BusesAreLeft == Converters!ReadingsEnd /\ Tft!DrawingsEnd

\* "measured temperature in C" (Max31855.h): the sensor task unpacks the word
\* of the converter it read.
SensorReadsWord == Converters!SensorReadsWord
============================================================================
