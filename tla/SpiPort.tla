------------------------------ MODULE SpiPort ------------------------------
(***************************************************************************)
(* A SERCOM of the SAMD21 as an SPI master, as the functions of spi.h use  *)
(* it: the data register, the shift register behind it and the two bytes   *)
(* of receive buffer.  Every byte shifted out shifts one in.               *)
(*                                                                         *)
(* spi_write refuses when the data register is full and spi_read when the  *)
(* receive buffer is empty; spi_write's callers ignore that.               *)
(***************************************************************************)
EXTENDS Integers, Sequences

CONSTANT Empty  \* no byte

VARIABLES
    data,       \* the data register, Empty when it may be written
    shift,      \* the byte being shifted out
    received    \* the receive buffer

port == <<data, shift, received>>

PortInit ==
    /\ data = Empty
    /\ shift = Empty
    /\ received = << >>

\* spi_is_ready_to_write, spi_is_ready_to_read, spi_is_write_complete.
ReadyToWrite  == data = Empty
ReadyToRead   == received # << >>
WriteComplete == data = Empty /\ shift = Empty

\* The bytes written and not yet answered by a byte read.
InTransit == Len(received) + (IF data = Empty THEN 0 ELSE 1)
                           + (IF shift = Empty THEN 0 ELSE 1)

\* spi_write: refused, without anybody being told, when data is still there.
Write(byte) ==
    /\ data' = IF ReadyToWrite THEN byte ELSE data
    /\ UNCHANGED <<shift, received>>

\* spi_read of what is in the receive buffer.
Read ==
    /\ ReadyToRead
    /\ received' = Tail(received)
    /\ UNCHANGED <<data, shift>>

\* The hardware takes the next byte to shift, and is done with one.
Load ==
    /\ data # Empty /\ shift = Empty
    /\ shift' = data
    /\ data' = Empty
    /\ UNCHANGED received

\* A third byte finds no room: BUFOVF.
Overflows == Len(received) = 2

Complete(byte) ==
    /\ shift # Empty
    /\ shift' = Empty
    /\ received' = IF Overflows THEN received ELSE Append(received, byte)
    /\ UNCHANGED data
============================================================================
