------------------------- MODULE SharedBusesProofs -------------------------
(***************************************************************************)
(* However two unlocked users of a bus collide, the port neither gains nor *)
(* loses a byte: proved for words, windows and drawings of every length.   *)
(*                                                                         *)
(* The balance alone is not inductive.  A task that found the data         *)
(* register empty must still find it empty when it writes, and one that    *)
(* found a byte must still find one when it reads; both hold only as long  *)
(* as the task runs, and hold again when it runs next because the port has *)
(* come to rest by then.                                                   *)
(*                                                                         *)
(* The last sections are about the four bytes once read: max31855ReadData  *)
(* makes of them what the converter measured, formatFloat a text that      *)
(* reads as it, and the lines drawn over each other say it.                *)
(***************************************************************************)
EXTENDS SharedBuses, Reading, SequencesExt, FiniteSetTheorems, SequenceTheorems, TLAPS

---------------------------------------------------------------------------
(* The converters.  *)

ConverterTypes ==
    /\ sensorReceived \in Seq(Converters!Byte)
    /\ sensorPc \in [Converters!Tasks ->
           {"idle", "select", "ready", "write", "await", "read", "deselect", "unpack"}]
    /\ line \in [Converters!Slaves -> Converters!High..WordLength]
    /\ from \subseteq Converters!Slaves

\* What the task that runs has found out about the port and still holds.
SensorFound ==
    /\ sensorPc["sensor"] = "write" => sensorData = Empty
    /\ sensorPc["sensor"] = "read" => sensorReceived # << >>

CdcFound ==
    sensorPc["sensor"] = "idle" =>
        /\ sensorPc["cdc"] = "write" => sensorData = Empty
        /\ sensorPc["cdc"] = "read" => sensorReceived # << >>

ConverterInv ==
    /\ ConverterTypes
    /\ Converters!BytesBalance
    /\ SensorFound
    /\ CdcFound

\* No byte is under way and nobody has found anything out.
LEMMA ConverterInit == Init => ConverterInv
<1> SUFFICES ASSUME Init PROVE ConverterInv
  OBVIOUS
<1>1. ConverterTypes
  BY LengthsAssumption DEF Init, Converters!Init, Converters!PortInit, ConverterTypes,
     Converters!Tasks, Converters!Slaves, Converters!High
<1>2. Converters!BytesBalance
  BY DEF Init, Converters!Init, Converters!PortInit, Converters!BytesBalance,
     Converters!InTransit, Converters!Owing, Converters!Tasks
<1>3. SensorFound /\ CdcFound
  BY DEF Init, Converters!Init, Converters!Tasks, SensorFound, CdcFound
<1> QED
  BY <1>1, <1>2, <1>3 DEF ConverterInv

\* The steps of a task that leave the port alone.
LEMMA ConverterTaskMoves ==
    ASSUME NEW t \in Converters!Tasks, ConverterInv,
           \/ Converters!Begin(t) \/ Converters!Select(t) \/ Converters!AwaitReady(t)
           \/ Converters!AwaitByte(t) \/ Converters!Deselect(t) \/ Converters!Unpack(t)
    PROVE  ConverterInv'
<1> USE DEF Converters!Begin, Converters!Select, Converters!AwaitReady,
            Converters!AwaitByte, Converters!Deselect, Converters!Unpack,
            Converters!At, Converters!Goto, Converters!MayRun, Converters!Tasks,
            Converters!port, Converters!wires
<1>1. ConverterTypes'
  <2>1. UNCHANGED sensorReceived /\ UNCHANGED from
    OBVIOUS
  <2>2. line' \in [Converters!Slaves -> Converters!High..WordLength]
    <3>1. line \in [Converters!Slaves -> Converters!High..WordLength]
      BY DEF ConverterInv, ConverterTypes
    <3>2. CASE Converters!Select(t)
      <4>1. \A s \in Converters!Slaves :
                line'[s] \in {line[s], 0, WordLength}
        BY <3>1, <3>2
      <4>2. line' = [s \in Converters!Slaves |-> line'[s]]
        BY <3>1, <3>2
      <4> QED
        BY <3>1, <4>1, <4>2, LengthsAssumption DEF Converters!High
    <3>3. CASE Converters!Deselect(t)
      <4>1. line' = [line EXCEPT ![slave[t]] = Converters!High]
        BY <3>3
      <4>2. Converters!High \in Converters!High..WordLength
        BY LengthsAssumption DEF Converters!High
      <4> QED
        BY <3>1, <4>1, <4>2
    <3>4. CASE ~Converters!Select(t) /\ ~Converters!Deselect(t)
      BY <3>1, <3>4
    <3> QED
      BY <3>2, <3>3, <3>4
  <2>3. sensorPc' \in [Converters!Tasks ->
           {"idle", "select", "ready", "write", "await", "read", "deselect", "unpack"}]
    BY DEF ConverterInv, ConverterTypes
  <2> QED
    BY <2>1, <2>2, <2>3 DEF ConverterInv, ConverterTypes
<1>2. Converters!BytesBalance'
  <2>1. UNCHANGED <<sensorData, sensorShift, sensorReceived>>
    OBVIOUS
  <2>2. \A u \in Converters!Tasks : Converters!Owing(u)' <=> Converters!Owing(u)
    BY DEF ConverterInv, ConverterTypes, Converters!Owing
  <2> QED
    BY <2>1, <2>2 DEF ConverterInv, Converters!BytesBalance, Converters!InTransit
<1>3. SensorFound'
  BY DEF ConverterInv, ConverterTypes, SensorFound, Converters!ReadyToWrite,
         Converters!ReadyToRead
<1>4. CdcFound'
  <2>1. CASE t = "cdc"
    BY <2>1 DEF ConverterInv, ConverterTypes, CdcFound, Converters!ReadyToWrite,
                Converters!ReadyToRead
  <2>2. CASE t = "sensor" /\ Converters!Unpack(t)
    <3>1. sensorData = Empty /\ sensorShift = Empty
      BY <2>2 DEF Converters!WriteComplete
    <3>2. sensorPc["cdc"] = "read" => Len(sensorReceived) = 1
      BY <2>2, <3>1 DEF ConverterInv, ConverterTypes, Converters!BytesBalance,
                        Converters!InTransit, Converters!Owing
    <3>3. sensorPc["cdc"] = "read" => sensorReceived # << >>
      BY <3>2
    <3> QED
      BY <2>2, <3>1, <3>3 DEF ConverterInv, ConverterTypes, CdcFound
  <2>3. CASE t = "sensor" /\ ~Converters!Unpack(t)
    BY <2>3 DEF ConverterInv, ConverterTypes, CdcFound
  <2> QED
    BY <2>1, <2>2, <2>3
<1> QED
  BY <1>1, <1>2, <1>3, <1>4 DEF ConverterInv

\* A dummy byte goes to the data register, which is still empty.
LEMMA ConverterTaskWrites ==
    ASSUME NEW t \in Converters!Tasks, ConverterInv, Converters!WriteDummy(t)
    PROVE  ConverterInv'
<1> USE DEF Converters!WriteDummy, Converters!At, Converters!Goto, Converters!MayRun,
            Converters!Tasks
<1>1. sensorData = Empty
  BY DEF ConverterInv, SensorFound, CdcFound
<1>2. sensorData' # Empty /\ UNCHANGED <<sensorShift, sensorReceived, line, from>>
  BY <1>1, EmptyAssumption DEF Converters!Write, Converters!ReadyToWrite, Converters!wires
<1>3. ConverterTypes'
  BY <1>2 DEF ConverterInv, ConverterTypes
<1>4. Converters!BytesBalance'
  BY <1>1, <1>2 DEF ConverterInv, ConverterTypes, Converters!BytesBalance,
                    Converters!InTransit, Converters!Owing
<1>5. SensorFound' /\ CdcFound'
  BY DEF ConverterInv, ConverterTypes, SensorFound, CdcFound
<1> QED
  BY <1>3, <1>4, <1>5 DEF ConverterInv

\* A byte is taken from the receive buffer, which still holds one.
LEMMA ConverterTaskReads ==
    ASSUME NEW t \in Converters!Tasks, ConverterInv, Converters!ReadByte(t)
    PROVE  ConverterInv'
<1> USE DEF Converters!ReadByte, Converters!At, Converters!Goto, Converters!MayRun,
            Converters!Tasks
<1>1. sensorReceived # << >>
  BY DEF ConverterInv, SensorFound, CdcFound
<1>2. /\ sensorReceived' = Tail(sensorReceived)
      /\ UNCHANGED <<sensorData, sensorShift, line, from>>
      /\ sensorPc' \in {[sensorPc EXCEPT ![t] = "deselect"], [sensorPc EXCEPT ![t] = "ready"]}
  BY <1>1 DEF Converters!Read, Converters!ReadyToRead, Converters!wires
<1>3. /\ sensorReceived' \in Seq(Converters!Byte)
      /\ Len(sensorReceived') = Len(sensorReceived) - 1
  <2> HIDE DEF Converters!ReadByte
  <2> QED
    BY <1>1, <1>2 DEF ConverterInv, ConverterTypes
<1> HIDE DEF Converters!ReadByte
<1>4. sensorPc[t] = "read" /\ (t = "cdc" => sensorPc["sensor"] = "idle")
  BY DEF Converters!ReadByte
<1>5. ConverterTypes'
  BY <1>2, <1>3 DEF ConverterInv, ConverterTypes
<1>6. Converters!BytesBalance'
  <2>1. Converters!Owing(t) /\ ~Converters!Owing(t)'
    BY <1>2, <1>4 DEF ConverterInv, ConverterTypes, Converters!Owing
  <2>2. \A u \in Converters!Tasks \ {t} : Converters!Owing(u)' <=> Converters!Owing(u)
    BY <1>2 DEF ConverterInv, ConverterTypes, Converters!Owing
  <2>3. Converters!InTransit' = Converters!InTransit - 1
    BY <1>2, <1>3 DEF ConverterInv, ConverterTypes, Converters!InTransit
  <2>4. Converters!BytesBalance
    BY DEF ConverterInv
  <2> HIDE DEF Converters!InTransit, Converters!Owing
  <2> QED
    BY <2>1, <2>2, <2>3, <2>4 DEF Converters!BytesBalance
<1>7. SensorFound' /\ CdcFound'
  BY <1>2, <1>4 DEF ConverterInv, ConverterTypes, SensorFound, CdcFound
<1> QED
  BY <1>5, <1>6, <1>7 DEF ConverterInv

\* The port's own steps: a byte moves to the shift register, or is shifted.
LEMMA ConverterPortShifts ==
    ASSUME ConverterInv, Converters!LoadByte \/ Converters!ByteShifted
    PROVE  ConverterInv'
<1> SUFFICES ASSUME Converters!LoadByte \/ Converters!ByteShifted PROVE ConverterInv'
  OBVIOUS
<1>1. CASE Converters!LoadByte
  <2>1. /\ sensorData # Empty /\ sensorShift = Empty
        /\ sensorData' = Empty /\ sensorShift' # Empty
        /\ UNCHANGED <<sensorReceived, line, sensorPc>>
    BY <1>1 DEF Converters!LoadByte, Converters!Load, Converters!taskOwn
  <2>2. ConverterTypes'
    BY <1>1, <2>1 DEF ConverterInv, ConverterTypes, Converters!LoadByte, Converters!Selected
  <2>3. Converters!BytesBalance'
    BY <2>1 DEF ConverterInv, ConverterTypes, Converters!BytesBalance,
                Converters!InTransit, Converters!Owing, Converters!Tasks
  <2>4. SensorFound' /\ CdcFound'
    BY <2>1 DEF ConverterInv, SensorFound, CdcFound
  <2> QED
    BY <2>2, <2>3, <2>4 DEF ConverterInv
<1>2. CASE Converters!ByteShifted
  <2>1. Len(sensorReceived) < 2
    BY <1>2 DEF ConverterInv, ConverterTypes, Converters!BytesBalance,
                Converters!InTransit, Converters!ByteShifted, Converters!Complete
  <2> DEFINE byte == IF \E s \in Converters!Slaves :
                         from = {s} /\ Converters!Selected = {s} /\ line[s] < WordLength
                     THEN LET s == CHOOSE s \in Converters!Slaves : from = {s}
                          IN <<s, line[s] + 1>>
                     ELSE Junk
  <2>2. byte \in Converters!Byte
    <3>1. ASSUME NEW s \in Converters!Slaves, from = {s}, Converters!Selected = {s},
                 line[s] < WordLength
          PROVE  byte \in Converters!Byte
      <4>1. (CHOOSE u \in Converters!Slaves : from = {u}) = s
        BY <3>1
      <4>2. line[s] + 1 \in 1..WordLength
        BY <3>1, LengthsAssumption
           DEF ConverterInv, ConverterTypes, Converters!Selected, Converters!High
      <4>3. byte = <<s, line[s] + 1>>
        BY <3>1, <4>1
      <4> QED
        BY <4>2, <4>3 DEF Converters!Byte
    <3> QED
      BY <3>1 DEF Converters!Byte
  <2>3. /\ sensorShift # Empty /\ sensorShift' = Empty
        /\ sensorReceived' = Append(sensorReceived, byte)
        /\ from' = {}
        /\ UNCHANGED <<sensorData, sensorPc>>
    BY <1>2, <2>1 DEF Converters!ByteShifted, Converters!Complete, Converters!Overflows,
                      Converters!taskOwn
  <2> HIDE DEF byte
  <2>4. /\ sensorReceived' \in Seq(Converters!Byte)
        /\ Len(sensorReceived') = Len(sensorReceived) + 1
    BY <2>2, <2>3 DEF ConverterInv, ConverterTypes
  <2>5. line' \in [Converters!Slaves -> Converters!High..WordLength]
    BY <1>2, LengthsAssumption DEF ConverterInv, ConverterTypes, Converters!ByteShifted,
                                   Converters!High
  <2>6. ConverterTypes'
    BY <2>3, <2>4, <2>5 DEF ConverterInv, ConverterTypes
  <2>7. Converters!BytesBalance'
    BY <2>3, <2>4 DEF ConverterInv, ConverterTypes, Converters!BytesBalance,
                Converters!InTransit, Converters!Owing, Converters!Tasks
  <2>8. sensorReceived' # << >>
    BY <2>4 DEF ConverterInv, ConverterTypes
  <2>9. SensorFound' /\ CdcFound'
    BY <2>3, <2>8 DEF ConverterInv, SensorFound, CdcFound
  <2> QED
    BY <2>6, <2>7, <2>9 DEF ConverterInv
<1> QED
  BY <1>1, <1>2

\* So every step on the converters' bus keeps the invariant.
LEMMA ConverterStep == ConverterInv /\ Converters!Next => ConverterInv'
<1> SUFFICES ASSUME ConverterInv, Converters!Next PROVE ConverterInv'
  OBVIOUS
<1> QED
  BY ConverterTaskMoves, ConverterTaskWrites, ConverterTaskReads, ConverterPortShifts
     DEF Converters!Next, Converters!TaskStep

---------------------------------------------------------------------------
(* The display.  *)

Sends == {c \in [call : {"send"}, asData : BOOLEAN, bytes : Seq(Tft!Byte)] : c.bytes # << >>}
Calls == {Tft!SelectCall, Tft!DeselectCall} \cup Sends

TftTypes ==
    /\ tftReceived \in Seq({"input"})
    /\ drawPc \in [Tft!Tasks -> {"call", "ready", "write", "await", "flush", "complete"}]
    /\ turn \in Tft!Tasks
    /\ script \in [Tft!Tasks -> Seq(Calls)]

\* A task at a byte has a byte to send.
InBlock ==
    \A t \in Tft!Tasks :
        drawPc[t] \in {"ready", "write", "await", "flush"} =>
            script[t] # << >> /\ Head(script[t]) \in Sends

\* What the task whose slice it is has found out about the port.
TurnFound ==
    /\ drawPc[turn] = "write" => tftData = Empty
    /\ drawPc[turn] = "flush" => tftReceived # << >>

TftInv ==
    /\ TftTypes
    /\ InBlock
    /\ Tft!BytesBalance
    /\ TurnFound

\* A command or a block of data is something the driver sends.
LEMMA BlockSends ==
    ASSUME NEW name \in {"CASET", "columns", "RASET", "rows", "RAMWR", "pixels"},
           NEW n \in Nat \ {0}
    PROVE  Tft!DataBlock(name, n) \in Sends /\ Tft!Command(name) \in Sends
<1> DEFINE bytes == [i \in 1..n |-> <<name, i>>]
<1>1. bytes \in Seq(Tft!Byte) /\ Len(bytes) = n
  BY DEF Tft!Byte
<1>2. bytes # << >>
  BY <1>1
<1>3. <<<<name, 0>>>> \in Seq(Tft!Byte) /\ <<<<name, 0>>>> # << >>
  BY DEF Tft!Byte
<1> QED
  BY <1>1, <1>2, <1>3 DEF Tft!DataBlock, Tft!Command, Sends

\* A drawing is a sequence of the driver's calls.
LEMMA DrawingCalls ==
    ASSUME NEW t \in Tft!Tasks, NEW blocks \in Blocks[t]
    PROVE  Tft!Drawing(blocks) \in Seq(Calls)
<1>1. Tft!SetAddrWindow \in Seq(Calls)
  <2>1. /\ Tft!DataBlock("columns", ArgBytes) \in Calls
        /\ Tft!DataBlock("rows", ArgBytes) \in Calls
        /\ Tft!Command("CASET") \in Calls
        /\ Tft!Command("RASET") \in Calls
        /\ Tft!Command("RAMWR") \in Calls
    BY BlockSends, LengthsAssumption DEF Calls
  <2>2. Tft!SelectCall \in Calls /\ Tft!DeselectCall \in Calls
    BY DEF Calls
  <2> QED
    BY <2>1, <2>2 DEF Tft!SetAddrWindow
<1>2. blocks \in Seq(Nat \ {0})
  BY BlocksAssumption DEF Tft!Tasks
<1>3. [b \in 1..Len(blocks) |-> Tft!DataBlock("pixels", blocks[b])] \in Seq(Calls)
  <2>1. \A b \in 1..Len(blocks) : Tft!DataBlock("pixels", blocks[b]) \in Calls
    BY <1>2, BlockSends DEF Calls
  <2> QED
    BY <1>2, <2>1
<1>4. <<Tft!DeselectCall>> \in Seq(Calls)
  BY DEF Calls
<1> QED
  BY <1>1, <1>3, <1>4 DEF Tft!Drawing

\* Nothing is drawn and the port is at rest.
LEMMA TftInit == Init => TftInv
<1> SUFFICES ASSUME Init PROVE TftInv
  OBVIOUS
<1> USE DEF Init, Tft!Init, Tft!PortInit, Tft!Tasks
<1>1. TftTypes /\ InBlock /\ TurnFound
  BY DEF TftTypes, InBlock, TurnFound
<1>2. Tft!BytesBalance
  BY DEF Tft!BytesBalance, Tft!InTransit, Tft!Owing
<1> QED
  BY <1>1, <1>2 DEF TftInv

\* Steps that leave the port alone and neither begin nor end to owe a byte.
LEMMA TftTaskMoves ==
    ASSUME NEW t \in Tft!Tasks, TftInv,
           \/ Tft!Select(t) \/ Tft!SetPin(t) \/ Tft!AwaitReady(t)
           \/ Tft!AwaitByte(t) \/ Tft!AwaitComplete(t)
           \/ \E blocks \in Blocks[t] : Tft!Begin(t, blocks)
    PROVE  TftInv'
<1> USE DEF Tft!At, Tft!Goto, Tft!Tasks, Tft!port, Tft!pins, Tft!history
<1>1. /\ UNCHANGED <<tftData, tftShift, tftReceived, turn>>
      /\ turn = t
  BY DEF Tft!Select, Tft!SetPin, Tft!AwaitReady, Tft!AwaitByte, Tft!AwaitComplete, Tft!Begin
<1>2. TftTypes'
  <2>1. script' \in [Tft!Tasks -> Seq(Calls)]
    <3>1. CASE \E blocks \in Blocks[t] : Tft!Begin(t, blocks)
      BY <3>1, DrawingCalls DEF TftInv, TftTypes, Tft!Begin
    <3>2. CASE Tft!Select(t)
      <4>1. script[t] # << >>
        BY <3>2 DEF Tft!Select, Tft!Idle
      <4> QED
        BY <3>2, <4>1 DEF TftInv, TftTypes, Tft!Select
    <3> QED
      BY <3>1, <3>2 DEF TftInv, TftTypes, Tft!SetPin, Tft!AwaitReady, Tft!AwaitByte,
                        Tft!AwaitComplete
  <2>2. drawPc' \in [Tft!Tasks -> {"call", "ready", "write", "await", "flush", "complete"}]
    BY DEF TftInv, TftTypes, Tft!Select, Tft!SetPin, Tft!AwaitReady, Tft!AwaitByte,
           Tft!AwaitComplete, Tft!Begin
  <2> QED
    BY <1>1, <2>1, <2>2 DEF TftInv, TftTypes
<1>3. InBlock'
  BY DEF TftInv, TftTypes, InBlock, Calls, Tft!SelectCall, Tft!DeselectCall, Tft!Idle, Tft!Call,
         Tft!Select, Tft!SetPin, Tft!AwaitReady, Tft!AwaitByte, Tft!AwaitComplete, Tft!Begin
<1>4. Tft!BytesBalance'
  <2>1. \A u \in Tft!Tasks : Tft!Owing(u)' <=> Tft!Owing(u)
    BY DEF TftInv, TftTypes, Tft!Owing, Tft!Select, Tft!SetPin, Tft!AwaitReady, Tft!AwaitByte,
           Tft!AwaitComplete, Tft!Begin
  <2> QED
    BY <1>1, <2>1 DEF TftInv, Tft!BytesBalance, Tft!InTransit
<1>5. TurnFound'
  BY <1>1 DEF TftInv, TftTypes, TurnFound, Tft!Select, Tft!SetPin, Tft!AwaitReady, Tft!AwaitByte,
              Tft!AwaitComplete, Tft!Begin, Tft!ReadyToWrite, Tft!ReadyToRead
<1> QED
  BY <1>2, <1>3, <1>4, <1>5 DEF TftInv

\* A byte that is written finds room.
LEMMA TftTaskWrites ==
    ASSUME NEW t \in Tft!Tasks, TftInv, Tft!WriteByte(t)
    PROVE  TftInv'
<1> USE DEF Tft!Tasks
<1>1. /\ turn = t /\ script[t] # << >> /\ drawPc[t] = "write"
      /\ drawPc' = [drawPc EXCEPT ![t] = "await"]
      /\ UNCHANGED <<tftShift, tftReceived, turn, script>>
  BY DEF Tft!WriteByte, Tft!At, Tft!Goto, Tft!Idle, Tft!Write
<1>2. tftData = Empty
  BY <1>1 DEF TftInv, TurnFound
<1>3. tftData' # Empty
  <2>1. Head(script[t]) \in Sends
    BY <1>1 DEF TftInv, InBlock
  <2>2. Head(Head(script[t]).bytes) \in Tft!Byte
    BY <2>1 DEF Sends
  <2>3. tftData' = Head(Head(script[t]).bytes)
    BY <1>2 DEF Tft!WriteByte, Tft!Write, Tft!ReadyToWrite, Tft!Call
  <2> QED
    BY <2>2, <2>3, EmptyAssumption
<1>4. TftTypes' /\ InBlock' /\ TurnFound'
  BY <1>1 DEF TftInv, TftTypes, InBlock, TurnFound
<1>5. Tft!BytesBalance'
  BY <1>1, <1>2, <1>3 DEF TftInv, TftTypes, Tft!BytesBalance, Tft!InTransit, Tft!Owing
<1> QED
  BY <1>4, <1>5 DEF TftInv

\* A sequence with an element put before it.
LEMMA PutFirst ==
    ASSUME NEW S, NEW x \in S, NEW s \in Seq(S)
    PROVE  <<x>> \o s \in Seq(S) /\ <<x>> \o s # << >> /\ Head(<<x>> \o s) = x
<1>1. /\ <<x>> \o s \in Seq(S) /\ Len(<<x>> \o s) = 1 + Len(s)
      /\ (<<x>> \o s)[1] = x
  OBVIOUS
<1>2. <<x>> \o s # << >>
  BY <1>1
<1> QED
  BY <1>1, <1>2

\* The rest of a block is a block.
LEMMA ByteDoneTypes ==
    ASSUME NEW t \in Tft!Tasks, TftTypes, script[t] # << >>, Head(script[t]) \in Sends,
           Tft!ByteDone(t)
    PROVE  /\ script' \in [Tft!Tasks -> Seq(Calls)]
           /\ \/ drawPc' = [drawPc EXCEPT ![t] = "complete"]
              \/ /\ drawPc' = [drawPc EXCEPT ![t] = "ready"]
                 /\ script'[t] # << >> /\ Head(script'[t]) \in Sends
           /\ \A u \in Tft!Tasks \ {t} : script'[u] = script[u]
<1> DEFINE call == Head(script[t])
           rest == Tail(call.bytes)
           left == <<[call EXCEPT !.bytes = rest]>>
<1>1. rest \in Seq(Tft!Byte) /\ Tail(script[t]) \in Seq(Calls)
  BY DEF TftTypes, Sends
<1>2. CASE rest = << >>
  BY <1>1, <1>2 DEF TftTypes, Tft!ByteDone, Tft!Goto, Tft!Call
<1>3. CASE rest # << >>
  <2>1. [call EXCEPT !.bytes = rest] \in Sends
    BY <1>1, <1>3 DEF Sends
  <2>2. /\ left \o Tail(script[t]) \in Seq(Calls)
        /\ left \o Tail(script[t]) # << >>
        /\ Head(left \o Tail(script[t])) \in Sends
    BY <1>1, <2>1, PutFirst DEF Calls
  <2>3. /\ script' = [script EXCEPT ![t] = left \o Tail(script[t])]
        /\ drawPc' = [drawPc EXCEPT ![t] = "ready"]
    BY <1>3 DEF Tft!ByteDone, Tft!Goto, Tft!Call
  <2> HIDE DEF left
  <2> QED
    BY <2>2, <2>3 DEF TftTypes
<1> QED
  BY <1>2, <1>3

\* The byte that is thrown away is the one that is owed.
LEMMA TftTaskFlushes ==
    ASSUME NEW t \in Tft!Tasks, TftInv, Tft!Flush(t)
    PROVE  TftInv'
<1>1. /\ turn = t /\ script[t] # << >> /\ drawPc[t] = "flush"
      /\ Tft!ByteDone(t)
      /\ UNCHANGED turn
  BY DEF Tft!Flush, Tft!At, Tft!Idle
<1>2. tftReceived # << >>
  BY <1>1 DEF TftInv, TurnFound
<1>3. tftReceived' = Tail(tftReceived) /\ UNCHANGED <<tftData, tftShift>>
  BY <1>2 DEF Tft!Flush, Tft!Read, Tft!ReadyToRead
<1>4. tftReceived' \in Seq({"input"}) /\ Len(tftReceived') = Len(tftReceived) - 1
  BY <1>2, <1>3 DEF TftInv, TftTypes
<1>5. Head(script[t]) \in Sends
  BY <1>1 DEF TftInv, InBlock
<1>6. /\ script' \in [Tft!Tasks -> Seq(Calls)]
      /\ \/ drawPc' = [drawPc EXCEPT ![t] = "complete"]
         \/ /\ drawPc' = [drawPc EXCEPT ![t] = "ready"]
            /\ script'[t] # << >> /\ Head(script'[t]) \in Sends
      /\ \A u \in Tft!Tasks \ {t} : script'[u] = script[u]
  BY <1>1, <1>5, ByteDoneTypes DEF TftInv
<1> HIDE DEF Tft!Flush
<1>7. TftTypes'
  BY <1>1, <1>4, <1>6 DEF TftInv, TftTypes
<1>8. InBlock'
  BY <1>1, <1>6 DEF TftInv, TftTypes, InBlock, Tft!Tasks
<1>9. Tft!BytesBalance'
  <2>1. Tft!Owing(t) /\ ~Tft!Owing(t)'
    BY <1>1, <1>6 DEF TftInv, TftTypes, Tft!Owing
  <2>2. \A u \in Tft!Tasks \ {t} : Tft!Owing(u)' <=> Tft!Owing(u)
    BY <1>6 DEF TftInv, TftTypes, Tft!Owing
  <2>3. Tft!InTransit' = Tft!InTransit - 1
    BY <1>3, <1>4 DEF TftInv, TftTypes, Tft!InTransit
  <2>4. Tft!BytesBalance
    BY DEF TftInv
  <2> HIDE DEF Tft!InTransit, Tft!Owing
  <2> QED
    BY <2>1, <2>2, <2>3, <2>4 DEF Tft!BytesBalance, Tft!Tasks
<1>10. TurnFound'
  BY <1>1, <1>6 DEF TftInv, TftTypes, TurnFound
<1> QED
  BY <1>7, <1>8, <1>9, <1>10 DEF TftInv

\* The shifting moves a byte on and finds room for what it brings in.
LEMMA TftPortShifts ==
    ASSUME TftInv, Tft!LoadByte \/ Tft!ByteShifted
    PROVE  TftInv'
<1> SUFFICES ASSUME Tft!LoadByte \/ Tft!ByteShifted PROVE TftInv'
  OBVIOUS
<1>1. CASE Tft!LoadByte
  <2>1. /\ tftData # Empty /\ tftShift = Empty
        /\ tftData' = Empty /\ tftShift' # Empty
        /\ UNCHANGED <<tftReceived, drawPc, turn, script>>
    BY <1>1 DEF Tft!LoadByte, Tft!Load, Tft!history
  <2>2. TftTypes' /\ InBlock' /\ TurnFound'
    BY <2>1 DEF TftInv, TftTypes, InBlock, TurnFound
  <2>3. Tft!BytesBalance'
    BY <2>1 DEF TftInv, TftTypes, Tft!BytesBalance, Tft!InTransit, Tft!Owing, Tft!Tasks
  <2> QED
    BY <2>2, <2>3 DEF TftInv
<1>2. CASE Tft!ByteShifted
  <2>1. Len(tftReceived) < 2
    BY <1>2, SMTT(30) DEF TftInv, TftTypes, Tft!BytesBalance, Tft!InTransit, Tft!ByteShifted,
                Tft!Complete
  <2>2. /\ tftShift # Empty /\ tftShift' = Empty
        /\ tftReceived' = Append(tftReceived, "input")
        /\ UNCHANGED <<tftData, drawPc, turn, script>>
    BY <1>2, <2>1 DEF Tft!ByteShifted, Tft!Complete, Tft!Overflows
  <2>3. /\ tftReceived' \in Seq({"input"})
        /\ Len(tftReceived') = Len(tftReceived) + 1
    BY <2>2 DEF TftInv, TftTypes
  <2>4. tftReceived' # << >>
    BY <2>3 DEF TftInv, TftTypes
  <2>5. TftTypes' /\ InBlock' /\ TurnFound'
    BY <2>2, <2>3, <2>4 DEF TftInv, TftTypes, InBlock, TurnFound
  <2>6. Tft!BytesBalance'
    BY <2>2, <2>3 DEF TftInv, TftTypes, Tft!BytesBalance, Tft!InTransit, Tft!Owing, Tft!Tasks
  <2> QED
    BY <2>5, <2>6 DEF TftInv
<1> QED
  BY <1>1, <1>2

\* What the task that runs next had found out is true again.
LEMMA TftSwitch ==
    ASSUME TftInv, Tft!Switch
    PROVE  TftInv'
<1>1. /\ tftData = Empty /\ tftShift = Empty
      /\ UNCHANGED <<tftData, tftShift, tftReceived, drawPc, script>>
  BY DEF Tft!Switch, Tft!WriteComplete, Tft!port, Tft!pins
<1>2. turn' \in Tft!Tasks
  BY DEF TftInv, TftTypes, Tft!Switch, Tft!Tasks
<1>3. TftTypes' /\ InBlock'
  BY <1>1, <1>2 DEF TftInv, TftTypes, InBlock
<1>4. Tft!BytesBalance'
  BY <1>1 DEF TftInv, Tft!BytesBalance, Tft!InTransit, Tft!Owing
<1>5. TurnFound'
  <2>1. CASE drawPc[turn'] = "flush"
    <3>1. Tft!Owing(turn')
      BY <2>1 DEF Tft!Owing
    <3>2. Len(tftReceived) # 0
      BY <1>1, <1>2, <3>1 DEF TftInv, TftTypes, Tft!BytesBalance, Tft!InTransit, Tft!Tasks
    <3> QED
      BY <1>1, <2>1, <3>2 DEF TftInv, TftTypes, TurnFound
  <2>2. CASE drawPc[turn'] # "flush"
    BY <1>1, <2>2 DEF TurnFound
  <2> QED
    BY <2>1, <2>2
<1> QED
  BY <1>3, <1>4, <1>5 DEF TftInv

\* So every step on the display's bus keeps the invariant.
LEMMA TftStep == TftInv /\ Tft!Next => TftInv'
<1> SUFFICES ASSUME TftInv, Tft!Next PROVE TftInv'
  OBVIOUS
<1> QED
  BY TftTaskMoves, TftTaskWrites, TftTaskFlushes, TftPortShifts, TftSwitch
     DEF Tft!Next, Tft!TaskStep

---------------------------------------------------------------------------
(* Readings nobody overlapped.  *)

Stages == {"idle", "select", "ready", "write", "await", "read", "deselect", "unpack"}

ReadingTypes ==
    /\ slave \in [Converters!Tasks -> Converters!Slaves]
    /\ buffer \in [Converters!Tasks -> Seq(Converters!Byte)]
    /\ overlapped \in [Converters!Tasks -> BOOLEAN]

\* A converter is selected only while a task is at it.
LinesAreHeld ==
    \A s \in Converters!Slaves :
        line[s] # Converters!High =>
            \E t \in Converters!Tasks : Converters!OnPort(t) /\ slave[t] = s

\* A task that nobody overlapped has the port to itself.
KeptOff ==
    \A t, u \in Converters!Tasks :
        Converters!OnPort(t) /\ ~overlapped[t] /\ Converters!OnPort(u) => t = u

BuffersEmptied ==
    \A t \in Converters!Tasks : sensorPc[t] \in {"idle", "select"} => buffer[t] = << >>

\* Byte k + 1 of converter s is due, under way or there.
NextByteComes(s, k) ==
    \/ sensorData # Empty /\ line[s] = k
    \/ sensorShift # Empty /\ from = {s} /\ line[s] = k
    \/ sensorReceived = << <<s, k + 1>> >> /\ line[s] = k + 1

\* What is in the buffer is the converter's word so far, and the converter
\* stands where the word goes on.
WordSoFar(t) ==
    LET s == slave[t]
        k == Len(buffer[t])
    IN  /\ line[s] # Converters!High
        /\ \A i \in 1..k : buffer[t][i] = <<s, i>>
        /\ sensorPc[t] \in {"ready", "write"} => k < WordLength /\ line[s] = k
        /\ sensorPc[t] \in {"await", "read"} => k < WordLength /\ NextByteComes(s, k)
        /\ sensorPc[t] = "deselect" => k = WordLength

GenuineInv ==
    /\ ReadingTypes
    /\ LinesAreHeld
    /\ KeptOff
    /\ BuffersEmptied
    /\ \A t \in Converters!Tasks :
           Converters!OnPort(t) /\ ~overlapped[t] => WordSoFar(t)
    /\ GenuineWhenAlone

\* Nobody is reading.
LEMMA GenuineInit == Init => GenuineInv
<1> SUFFICES ASSUME Init PROVE GenuineInv
  OBVIOUS
<1> USE DEF Init, Converters!Init, Converters!Tasks, Converters!Slaves, Converters!OnPort
<1>1. ReadingTypes /\ BuffersEmptied
  BY DEF ReadingTypes, BuffersEmptied
<1>2. LinesAreHeld /\ KeptOff
  BY DEF LinesAreHeld, KeptOff
<1>3. \A t \in Converters!Tasks : ~Converters!OnPort(t) /\ sensorPc[t] # "unpack"
  OBVIOUS
<1> QED
  BY <1>1, <1>2, <1>3 DEF GenuineInv, GenuineWhenAlone, Converters!GenuineWhenAlone

\* While nobody overlaps a reading, the port holds its byte and no other.
LEMMA LonePort ==
    ASSUME ConverterInv, KeptOff, NEW t \in Converters!Tasks,
           Converters!OnPort(t), ~overlapped[t]
    PROVE  /\ ~Converters!Owing(t) =>
                  sensorData = Empty /\ sensorShift = Empty /\ Len(sensorReceived) = 0
           /\ Converters!Owing(t) =>
                  \/ sensorData # Empty /\ sensorShift = Empty /\ Len(sensorReceived) = 0
                  \/ sensorData = Empty /\ sensorShift # Empty /\ Len(sensorReceived) = 0
                  \/ sensorData = Empty /\ sensorShift = Empty /\ Len(sensorReceived) = 1
<1>1. \A u \in Converters!Tasks \ {t} : ~Converters!Owing(u)
  BY DEF KeptOff, Converters!Owing, Converters!OnPort
<1>2. Converters!InTransit = IF Converters!Owing(t) THEN 1 ELSE 0
  BY <1>1 DEF ConverterInv, Converters!BytesBalance, Converters!Tasks
<1> DEFINE n == Len(sensorReceived)
           d == IF sensorData = Empty THEN 0 ELSE 1
           h == IF sensorShift = Empty THEN 0 ELSE 1
<1>3. n \in Nat /\ d \in 0..1 /\ h \in 0..1
  BY DEF ConverterInv, ConverterTypes
<1>4. n + d + h = IF Converters!Owing(t) THEN 1 ELSE 0
  BY <1>2 DEF Converters!InTransit
<1>5. /\ sensorData = Empty <=> d = 0
      /\ sensorShift = Empty <=> h = 0
  OBVIOUS
<1> HIDE DEF n, d, h
<1>6. CASE Converters!Owing(t)
  <2>1. \/ d = 1 /\ h = 0 /\ n = 0
        \/ d = 0 /\ h = 1 /\ n = 0
        \/ d = 0 /\ h = 0 /\ n = 1
    BY <1>3, <1>4, <1>6
  <2> QED
    BY <1>5, <1>6, <2>1 DEF n
<1>7. CASE ~Converters!Owing(t)
  <2>1. d = 0 /\ h = 0 /\ n = 0
    BY <1>3, <1>4, <1>7
  <2> QED
    BY <1>5, <1>7, <2>1 DEF n
<1> QED
  BY <1>6, <1>7

\* ... and its converter is the one selected.
LEMMA LoneLine ==
    ASSUME LinesAreHeld, KeptOff, NEW t \in Converters!Tasks,
           Converters!OnPort(t), ~overlapped[t], line[slave[t]] # Converters!High,
           slave[t] \in Converters!Slaves
    PROVE  Converters!Selected = {slave[t]}
  BY DEF LinesAreHeld, KeptOff, Converters!Selected

\* A task begins to read, finds the port ready or a byte there, or lets its
\* converter go.
LEMMA GenuineMoves ==
    ASSUME ConverterInv, GenuineInv, NEW t \in Converters!Tasks,
           \/ Converters!Begin(t) \/ Converters!AwaitReady(t)
           \/ Converters!AwaitByte(t) \/ Converters!Deselect(t)
    PROVE  GenuineInv'
<1> USE DEF Converters!At, Converters!Goto, Converters!port, Converters!wires
<1>1. \E p \in Stages : sensorPc' = [sensorPc EXCEPT ![t] = p]
  BY DEF Stages, Converters!Begin, Converters!AwaitReady, Converters!AwaitByte,
         Converters!Deselect
<1>2. UNCHANGED <<slave, buffer, overlapped, from, sensorData, sensorShift, sensorReceived>>
  BY DEF Converters!Begin, Converters!AwaitReady, Converters!AwaitByte, Converters!Deselect
<1>3. ReadingTypes'
  BY <1>2 DEF GenuineInv, ReadingTypes
<1>4. \A u \in Converters!Tasks : Converters!OnPort(u)' => Converters!OnPort(u)
  BY DEF ConverterInv, ConverterTypes, Converters!OnPort, Converters!Begin,
         Converters!AwaitReady, Converters!AwaitByte, Converters!Deselect
<1>5. LinesAreHeld'
  <2>1. CASE Converters!Deselect(t)
    <3>1. /\ line' = [line EXCEPT ![slave[t]] = Converters!High]
          /\ sensorPc' = [sensorPc EXCEPT ![t] = "unpack"]
      BY <2>1 DEF Converters!Deselect
    <3>2. \A s \in Converters!Slaves \ {slave[t]} : line'[s] = line[s]
      BY <3>1 DEF ConverterInv, ConverterTypes
    <3>3. line'[slave[t]] = Converters!High
      BY <3>1 DEF ConverterInv, ConverterTypes, GenuineInv, ReadingTypes
    <3>4. \A u \in Converters!Tasks : u # t => sensorPc'[u] = sensorPc[u]
      BY <3>1 DEF ConverterInv, ConverterTypes
    <3> QED
      BY <1>2, <3>2, <3>3, <3>4 DEF GenuineInv, LinesAreHeld, Converters!OnPort
  <2>2. CASE ~Converters!Deselect(t)
    <3>1. UNCHANGED line
      BY <2>2 DEF Converters!Begin, Converters!AwaitReady, Converters!AwaitByte
    <3>2. \A u \in Converters!Tasks : Converters!OnPort(u) => Converters!OnPort(u)'
      BY <2>2 DEF ConverterInv, ConverterTypes, Converters!OnPort, Converters!Begin,
         Converters!AwaitReady, Converters!AwaitByte
    <3> QED
      BY <1>2, <3>1, <3>2 DEF GenuineInv, LinesAreHeld
  <2> QED
    BY <2>1, <2>2
<1>6. KeptOff'
  BY <1>2, <1>4 DEF GenuineInv, KeptOff
<1>7. BuffersEmptied'
  BY <1>2 DEF GenuineInv, BuffersEmptied, ConverterInv, ConverterTypes, Converters!Begin,
              Converters!AwaitReady, Converters!AwaitByte, Converters!Deselect
<1>8. ASSUME Converters!OnPort(t)', ~overlapped[t]
      PROVE  WordSoFar(t)'
  <2>1. Converters!OnPort(t) /\ WordSoFar(t)
    BY <1>4, <1>8 DEF GenuineInv
  <2>2. ~Converters!Begin(t) /\ ~Converters!Deselect(t)
    BY <1>8, <2>1 DEF ConverterInv, ConverterTypes, Converters!OnPort, Converters!Begin,
                      Converters!Deselect
  <2>3. UNCHANGED line
    BY <2>2 DEF Converters!AwaitReady, Converters!AwaitByte
  <2> QED
    BY <1>2, <2>1, <2>2, <2>3 DEF WordSoFar, NextByteComes, ConverterInv, ConverterTypes,
       Converters!AwaitReady, Converters!AwaitByte
<1>9. ASSUME sensorPc'[t] = "unpack", ~overlapped[t]
      PROVE  (buffer[t] = Converters!Word(slave[t]))'
  <2>1. Converters!Deselect(t)
    BY <1>9 DEF ConverterInv, ConverterTypes, Converters!Begin,
         Converters!AwaitReady, Converters!AwaitByte
  <2>2. sensorPc[t] = "deselect" /\ WordSoFar(t)
    BY <1>9, <2>1 DEF Converters!Deselect, Converters!OnPort, GenuineInv
  <2>3. /\ Len(buffer[t]) = WordLength
        /\ \A i \in 1..WordLength : buffer[t][i] = <<slave[t], i>>
        /\ buffer[t] \in Seq(Converters!Byte)
    BY <2>2 DEF WordSoFar, GenuineInv, ReadingTypes
  <2>4. buffer[t] = [i \in 1..WordLength |-> buffer[t][i]]
    BY <2>3
  <2>5. buffer[t] = [i \in 1..WordLength |-> <<slave[t], i>>]
    BY <2>3, <2>4
  <2> QED
    BY <1>2, <2>5 DEF Converters!Word
<1>10. ASSUME NEW u \in Converters!Tasks, u # t, Converters!OnPort(u), ~overlapped[u]
       PROVE  WordSoFar(u)'
  <2>1. ~Converters!OnPort(t)
    BY <1>10 DEF GenuineInv, KeptOff
  <2>2. UNCHANGED line /\ sensorPc'[u] = sensorPc[u]
    BY <1>10, <2>1 DEF ConverterInv, ConverterTypes, Converters!OnPort, Converters!Begin,
         Converters!AwaitReady, Converters!AwaitByte, Converters!Deselect
  <2> QED
    BY <1>2, <1>10, <2>2 DEF GenuineInv, WordSoFar, NextByteComes
<1>11. ASSUME NEW u \in Converters!Tasks, u # t
       PROVE  sensorPc'[u] = sensorPc[u]
  BY <1>1, <1>11 DEF ConverterInv, ConverterTypes
<1>12. \A u \in Converters!Tasks : (Converters!OnPort(u) /\ ~overlapped[u] => WordSoFar(u))'
  BY <1>2, <1>4, <1>8, <1>10
<1>13. GenuineWhenAlone'
  BY <1>2, <1>9, <1>11 DEF GenuineInv, GenuineWhenAlone, Converters!GenuineWhenAlone,
     Converters!Word
<1> QED
  BY <1>3, <1>5, <1>6, <1>7, <1>12, <1>13 DEF GenuineInv

\* A converter is selected: nobody else is at the port, or the reading is
\* known to be overlapped.
LEMMA GenuineSelects ==
    ASSUME ConverterInv, GenuineInv, NEW t \in Converters!Tasks, Converters!Select(t)
    PROVE  GenuineInv'
<1> USE DEF Converters!port
<1>1. /\ sensorPc[t] = "select"
      /\ sensorPc' = [sensorPc EXCEPT ![t] = "ready"]
      /\ UNCHANGED <<slave, buffer, from, sensorData, sensorShift, sensorReceived>>
  BY DEF Converters!Select, Converters!At, Converters!Goto
<1>2. \A u \in Converters!Tasks : u # t => sensorPc'[u] = sensorPc[u]
  BY <1>1 DEF ConverterInv, ConverterTypes
<1>3. sensorPc'[t] = "ready"
  BY <1>1 DEF ConverterInv, ConverterTypes
<1>4. /\ overlapped'[t] = (\E v \in Converters!Tasks \ {t} : Converters!OnPort(v))
      /\ \A u \in Converters!Tasks : u # t =>
             overlapped'[u] = (overlapped[u] \/ Converters!OnPort(u))
      /\ overlapped' \in [Converters!Tasks -> BOOLEAN]
  BY DEF Converters!Select, GenuineInv, ReadingTypes
<1>5. ReadingTypes'
  BY <1>1, <1>4 DEF GenuineInv, ReadingTypes
<1>6. \A s \in Converters!Slaves : s # slave[t] => line'[s] = line[s]
  BY DEF Converters!Select, ConverterInv, ConverterTypes
<1>7. ~Converters!OnPort(t) /\ Converters!OnPort(t)'
  BY <1>1, <1>3 DEF Converters!OnPort
<1>8. \A u \in Converters!Tasks : u # t => (Converters!OnPort(u)' <=> Converters!OnPort(u))
  BY <1>2 DEF Converters!OnPort
<1>9. LinesAreHeld'
  BY <1>1, <1>6, <1>7, <1>8 DEF GenuineInv, LinesAreHeld
<1>10. KeptOff'
  BY <1>4, <1>7, <1>8 DEF KeptOff
<1>11. BuffersEmptied'
  BY <1>1, <1>2, <1>3 DEF GenuineInv, BuffersEmptied
<1>12. ASSUME ~overlapped'[t]
       PROVE  WordSoFar(t)'
  <2>1. \A u \in Converters!Tasks : ~Converters!OnPort(u)
    BY <1>4, <1>7, <1>12
  <2>2. line[slave[t]] = Converters!High
    BY <2>1 DEF GenuineInv, ReadingTypes, LinesAreHeld
  <2>3. sensorShift = Empty
    <3>1. \A u \in Converters!Tasks : ~Converters!Owing(u)
      BY <2>1 DEF Converters!OnPort, Converters!Owing
    <3>2. Converters!InTransit = 0
      BY <3>1 DEF ConverterInv, Converters!BytesBalance, Converters!Tasks
    <3> DEFINE d == IF sensorData = Empty THEN 0 ELSE 1
               h == IF sensorShift = Empty THEN 0 ELSE 1
    <3>3. Len(sensorReceived) \in Nat /\ d \in 0..1 /\ h \in 0..1
      BY DEF ConverterInv, ConverterTypes
    <3>4. Len(sensorReceived) + d + h = 0
      BY <3>2 DEF Converters!InTransit
    <3> HIDE DEF d, h
    <3>5. h = 0
      BY <3>3, <3>4
    <3> QED
      BY <3>5 DEF h
  <2>4. line'[slave[t]] = 0
    BY <2>2, <2>3 DEF Converters!Select, ConverterInv, ConverterTypes, GenuineInv, ReadingTypes
  <2>5. buffer[t] = << >>
    BY <1>1 DEF GenuineInv, BuffersEmptied
  <2> QED
    BY <1>1, <1>3, <2>4, <2>5, LengthsAssumption DEF WordSoFar, Converters!High
<1>13. ASSUME NEW u \in Converters!Tasks, u # t, Converters!OnPort(u)'
       PROVE  overlapped'[u]
  BY <1>4, <1>8, <1>13
<1>14. \A u \in Converters!Tasks : (Converters!OnPort(u) /\ ~overlapped[u] => WordSoFar(u))'
  BY <1>12, <1>13
<1>15. GenuineWhenAlone'
  BY <1>1, <1>2, <1>3, <1>4 DEF GenuineInv, GenuineWhenAlone, Converters!GenuineWhenAlone,
     Converters!Word
<1> QED
  BY <1>5, <1>9, <1>10, <1>11, <1>14, <1>15 DEF GenuineInv

\* The dummy byte asks for the word's next one.
LEMMA GenuineWrites ==
    ASSUME ConverterInv, GenuineInv, NEW t \in Converters!Tasks, Converters!WriteDummy(t)
    PROVE  GenuineInv'
<1>1. /\ sensorPc[t] = "write"
      /\ sensorPc' = [sensorPc EXCEPT ![t] = "await"]
      /\ sensorData = Empty /\ sensorData' # Empty
      /\ UNCHANGED <<slave, buffer, overlapped, line, from, sensorShift, sensorReceived>>
  <2>1. /\ sensorPc[t] = "write" /\ Converters!MayRun(t)
        /\ sensorPc' = [sensorPc EXCEPT ![t] = "await"]
        /\ Converters!Write("dummy")
        /\ UNCHANGED <<slave, buffer, overlapped, line, from>>
    BY DEF Converters!WriteDummy, Converters!At, Converters!Goto, Converters!wires
  <2>2. sensorData = Empty
    BY <2>1 DEF ConverterInv, SensorFound, CdcFound, Converters!MayRun, Converters!Tasks
  <2> QED
    BY <2>1, <2>2, EmptyAssumption DEF Converters!Write, Converters!ReadyToWrite
<1>2. sensorPc'[t] = "await" /\ \A u \in Converters!Tasks : u # t => sensorPc'[u] = sensorPc[u]
  BY <1>1 DEF ConverterInv, ConverterTypes
<1>3. Converters!OnPort(t)
  BY <1>1 DEF Converters!OnPort
<1>4. \A u \in Converters!Tasks : Converters!OnPort(u)' <=> Converters!OnPort(u)
  BY <1>1, <1>2 DEF Converters!OnPort
<1>5. ReadingTypes' /\ LinesAreHeld' /\ KeptOff' /\ BuffersEmptied'
  BY <1>1, <1>2, <1>4 DEF GenuineInv, ReadingTypes, LinesAreHeld, KeptOff, BuffersEmptied
<1>6. ~overlapped[t] => WordSoFar(t)'
  BY <1>1, <1>2, <1>3 DEF GenuineInv, WordSoFar, NextByteComes
<1>7. \A u \in Converters!Tasks : (Converters!OnPort(u) /\ ~overlapped[u] => WordSoFar(u))'
  BY <1>1, <1>3, <1>4, <1>6 DEF GenuineInv, KeptOff
<1>8. GenuineWhenAlone'
  BY <1>1, <1>2 DEF GenuineInv, GenuineWhenAlone, Converters!GenuineWhenAlone,
     Converters!Word
<1> QED
  BY <1>5, <1>7, <1>8 DEF GenuineInv

\* What is read is the word's next byte.
LEMMA GenuineReads ==
    ASSUME ConverterInv, GenuineInv, NEW t \in Converters!Tasks, Converters!ReadByte(t)
    PROVE  GenuineInv'
<1> DEFINE longer == Append(buffer[t], Head(sensorReceived))
           next   == IF Len(longer) = WordLength THEN "deselect" ELSE "ready"
<1>1. /\ sensorPc[t] = "read" /\ sensorReceived # << >>
      /\ buffer' = [buffer EXCEPT ![t] = longer]
      /\ sensorPc' = [sensorPc EXCEPT ![t] = next]
      /\ UNCHANGED <<slave, overlapped, line>>
  <2>1. sensorPc[t] = "read" /\ Converters!MayRun(t)
    BY DEF Converters!ReadByte, Converters!At
  <2>2. sensorReceived # << >>
    BY <2>1 DEF ConverterInv, SensorFound, CdcFound, Converters!MayRun, Converters!Tasks
  <2>3. buffer' = [buffer EXCEPT ![t] = longer]
    BY <2>2 DEF Converters!ReadByte, Converters!ReadyToRead
  <2>4. buffer'[t] = longer
    BY <2>3 DEF GenuineInv, ReadingTypes
  <2> QED
    BY <2>1, <2>2, <2>3, <2>4
       DEF Converters!ReadByte, Converters!ReadyToRead, Converters!Goto, Converters!wires
<1>2. /\ longer \in Seq(Converters!Byte) /\ Len(longer) = Len(buffer[t]) + 1
      /\ \A i \in 1..Len(buffer[t]) : longer[i] = buffer[t][i]
      /\ longer[Len(buffer[t]) + 1] = Head(sensorReceived)
  BY <1>1 DEF ConverterInv, ConverterTypes, GenuineInv, ReadingTypes
<1>3. buffer'[t] = longer /\ \A u \in Converters!Tasks : u # t => buffer'[u] = buffer[u]
  BY <1>1 DEF GenuineInv, ReadingTypes
<1>4. sensorPc'[t] = next /\ \A u \in Converters!Tasks : u # t => sensorPc'[u] = sensorPc[u]
  BY <1>1 DEF ConverterInv, ConverterTypes
<1>5. Converters!OnPort(t)
  BY <1>1 DEF Converters!OnPort
<1>6. \A u \in Converters!Tasks : Converters!OnPort(u)' <=> Converters!OnPort(u)
  BY <1>4, <1>5 DEF Converters!OnPort
<1>7. ReadingTypes'
  BY <1>1, <1>2 DEF GenuineInv, ReadingTypes
<1>8. LinesAreHeld' /\ KeptOff' /\ BuffersEmptied'
  BY <1>1, <1>3, <1>4, <1>6 DEF GenuineInv, LinesAreHeld, KeptOff, BuffersEmptied
<1>9. ASSUME ~overlapped[t]
      PROVE  WordSoFar(t)'
  <2> DEFINE k == Len(buffer[t])
  <2>1. WordSoFar(t) /\ Len(sensorReceived) # 0
    BY <1>1, <1>5, <1>9 DEF GenuineInv, ConverterInv, ConverterTypes
  <2>2. sensorData = Empty /\ sensorShift = Empty
    BY <1>5, <1>9, <2>1, LonePort DEF GenuineInv
  <2>3. /\ sensorReceived = << <<slave[t], k + 1>> >>
        /\ line[slave[t]] = k + 1 /\ k < WordLength /\ k \in Nat
        /\ line[slave[t]] # Converters!High
    BY <1>1, <2>1, <2>2 DEF WordSoFar, NextByteComes, GenuineInv, ReadingTypes
  <2>4. Head(sensorReceived) = <<slave[t], k + 1>>
    BY <2>3
  <2>5. \A i \in 1..(k + 1) : longer[i] = <<slave[t], i>>
    <3>1. \A i \in 1..k : longer[i] = <<slave[t], i>>
      BY <1>2, <2>1 DEF WordSoFar
    <3>2. longer[k + 1] = <<slave[t], k + 1>>
      BY <1>2, <2>4
    <3> HIDE DEF longer
    <3> QED
      BY <2>3, <3>1, <3>2
  <2>6. next = "ready" => k + 1 < WordLength
    BY <1>2, <2>3, LengthsAssumption
  <2>7. next = "deselect" => k + 1 = WordLength
    BY <1>2
  <2>8. next \in {"ready", "deselect"}
    OBVIOUS
  <2> HIDE DEF next, longer
  <2> QED
    BY <1>1, <1>2, <1>3, <1>4, <2>3, <2>5, <2>6, <2>7, <2>8 DEF WordSoFar
<1>10. \A u \in Converters!Tasks : (Converters!OnPort(u) /\ ~overlapped[u] => WordSoFar(u))'
  BY <1>1, <1>5, <1>6, <1>9 DEF GenuineInv, KeptOff
<1>11. GenuineWhenAlone'
  BY <1>1, <1>3, <1>4 DEF GenuineInv, GenuineWhenAlone, Converters!GenuineWhenAlone,
     Converters!Word
<1> QED
  BY <1>7, <1>8, <1>10, <1>11 DEF GenuineInv

\* A reading ends, or goes on to the second converter.
LEMMA GenuineUnpacks ==
    ASSUME ConverterInv, GenuineInv, NEW t \in Converters!Tasks, Converters!Unpack(t)
    PROVE  GenuineInv'
<1>1. /\ sensorPc[t] = "unpack"
      /\ \/ sensorPc' = [sensorPc EXCEPT ![t] = "select"] /\ slave' = [slave EXCEPT ![t] = 2]
         \/ sensorPc' = [sensorPc EXCEPT ![t] = "idle"] /\ slave' = [slave EXCEPT ![t] = 1]
      /\ buffer' = [buffer EXCEPT ![t] = << >>]
      /\ overlapped' = [overlapped EXCEPT ![t] = FALSE]
      /\ UNCHANGED <<line, from, sensorData, sensorShift, sensorReceived>>
  BY DEF Converters!Unpack, Converters!At, Converters!Goto, Converters!port, Converters!wires
<1>2. /\ sensorPc'[t] \in {"select", "idle"} /\ buffer'[t] = << >>
      /\ \A u \in Converters!Tasks : u # t =>
             /\ sensorPc'[u] = sensorPc[u] /\ slave'[u] = slave[u]
             /\ buffer'[u] = buffer[u] /\ overlapped'[u] = overlapped[u]
  BY <1>1 DEF ConverterInv, ConverterTypes, GenuineInv, ReadingTypes
<1>3. ReadingTypes'
  <2>1. << >> \in Seq(Converters!Byte) /\ {1, 2} = Converters!Slaves
    BY DEF Converters!Slaves
  <2> QED
    BY <1>1, <2>1 DEF GenuineInv, ReadingTypes
<1>4. /\ ~Converters!OnPort(t) /\ ~Converters!OnPort(t)'
      /\ \A u \in Converters!Tasks : u # t => (Converters!OnPort(u)' <=> Converters!OnPort(u))
  BY <1>1, <1>2 DEF Converters!OnPort
<1>5. LinesAreHeld' /\ KeptOff' /\ BuffersEmptied'
  BY <1>1, <1>2, <1>4 DEF GenuineInv, LinesAreHeld, KeptOff, BuffersEmptied
<1>6. \A u \in Converters!Tasks : (Converters!OnPort(u) /\ ~overlapped[u] => WordSoFar(u))'
  BY <1>1, <1>2, <1>4 DEF GenuineInv, WordSoFar, NextByteComes
<1>7. GenuineWhenAlone'
  BY <1>2 DEF GenuineInv, GenuineWhenAlone, Converters!GenuineWhenAlone,
     Converters!Word
<1> QED
  BY <1>3, <1>5, <1>6, <1>7 DEF GenuineInv

\* The byte due for a lone reading goes out and its answer comes in.
LEMMA GenuineShifts ==
    ASSUME ConverterInv, GenuineInv, Converters!LoadByte \/ Converters!ByteShifted
    PROVE  GenuineInv'
<1> USE DEF Converters!taskOwn
<1>1. UNCHANGED <<sensorPc, slave, buffer, overlapped>>
  BY DEF Converters!LoadByte, Converters!ByteShifted
<1>2. ReadingTypes' /\ KeptOff' /\ BuffersEmptied' /\ GenuineWhenAlone'
  BY <1>1 DEF GenuineInv, ReadingTypes, KeptOff, BuffersEmptied, GenuineWhenAlone,
     Converters!GenuineWhenAlone, Converters!Word, Converters!OnPort
<1>3. ASSUME NEW s \in Converters!Slaves, line'[s] # Converters!High
      PROVE  line[s] # Converters!High
  BY <1>3 DEF Converters!LoadByte, Converters!ByteShifted
<1>4. LinesAreHeld'
  BY <1>1, <1>3 DEF GenuineInv, LinesAreHeld, Converters!OnPort
<1>5. ASSUME NEW t \in Converters!Tasks, Converters!OnPort(t), ~overlapped[t]
      PROVE  WordSoFar(t)'
  <2> DEFINE s == slave[t]
             k == Len(buffer[t])
  <2>1. WordSoFar(t) /\ s \in Converters!Slaves /\ k \in Nat
    BY <1>5 DEF GenuineInv, ReadingTypes
  <2>2. Converters!Selected = {s}
    BY <1>5, <2>1, LoneLine DEF GenuineInv, WordSoFar
  <2>3. sensorData # Empty \/ sensorShift # Empty
    BY DEF Converters!LoadByte, Converters!ByteShifted, Converters!Load, Converters!Complete
  <2>4. Converters!Owing(t)
    BY <1>5, <2>3, LonePort DEF GenuineInv
  <2>5. NextByteComes(s, k) /\ k < WordLength
    BY <2>1, <2>4 DEF WordSoFar, Converters!Owing
  <2>6. CASE Converters!LoadByte
    <3>1. sensorData # Empty /\ sensorShift = Empty /\ Len(sensorReceived) = 0
      BY <1>5, <2>4, <2>6, LonePort DEF GenuineInv, Converters!LoadByte, Converters!Load
    <3>2. line[s] = k
      BY <2>5, <3>1 DEF NextByteComes
    <3>3. sensorShift' # Empty /\ from' = {s} /\ UNCHANGED line
      BY <2>2, <2>6, <3>1 DEF Converters!LoadByte, Converters!Load
    <3>4. NextByteComes(s, k)'
      BY <1>1, <3>2, <3>3 DEF NextByteComes
    <3> QED
      BY <1>1, <2>1, <2>4, <2>5, <3>3, <3>4 DEF WordSoFar, Converters!Owing
  <2>7. CASE Converters!ByteShifted
    <3>1. sensorData = Empty /\ sensorShift # Empty /\ Len(sensorReceived) = 0
      BY <1>5, <2>4, <2>7, LonePort DEF GenuineInv, Converters!ByteShifted, Converters!Complete
    <3>2. line[s] = k /\ from = {s}
      BY <2>5, <3>1 DEF NextByteComes
    <3>3. \E u \in Converters!Slaves :
              from = {u} /\ Converters!Selected = {u} /\ line[u] < WordLength
      BY <2>1, <2>2, <2>5, <3>2
    <3>4. (CHOOSE u \in Converters!Slaves : from = {u}) = s
      BY <2>1, <3>2
    <3>5. sensorReceived = << >>
      BY <3>1 DEF ConverterInv, ConverterTypes
    <3>6. Converters!Complete(<<s, k + 1>>)
      BY <2>7, <3>2, <3>3, <3>4 DEF Converters!ByteShifted
    <3>7. sensorReceived' = << <<s, k + 1>> >>
      BY <3>1, <3>5, <3>6 DEF Converters!Complete, Converters!Overflows
    <3>8. line'[s] = k + 1
      BY <2>1, <2>5, <2>7, <3>2 DEF Converters!ByteShifted, WordSoFar, Converters!High
    <3>9. NextByteComes(s, k)'
      BY <1>1, <3>7, <3>8 DEF NextByteComes
    <3>10. line'[s] # Converters!High
      BY <2>1, <3>8 DEF Converters!High
    <3> QED
      BY <1>1, <2>1, <2>4, <2>5, <3>9, <3>10 DEF WordSoFar, Converters!Owing
  <2> QED
    BY <2>6, <2>7
<1> QED
  BY <1>1, <1>2, <1>4, <1>5 DEF GenuineInv, Converters!OnPort

\* So every step on the converters' bus keeps undisturbed readings genuine.
LEMMA GenuineStep == ConverterInv /\ GenuineInv /\ Converters!Next => GenuineInv'
<1> SUFFICES ASSUME ConverterInv, GenuineInv, Converters!Next PROVE GenuineInv'
  OBVIOUS
<1> QED
  BY GenuineMoves, GenuineSelects, GenuineWrites, GenuineReads, GenuineUnpacks, GenuineShifts
     DEF Converters!Next, Converters!TaskStep

---------------------------------------------------------------------------
(* Sequences of sequences, and induction over their length.  *)

\* What holds of 0, and of n + 1 when of n, up to k, holds of k: by counting,
\* for n -> n + 1 would map the set into itself without 0.
LEMMA ClimbsTo ==
    ASSUME NEW k \in Nat, NEW S \in SUBSET (0..k), 0 \in S,
           \A n \in S : n < k => n + 1 \in S
    PROVE  k \in S
<1> SUFFICES ASSUME k \notin S PROVE FALSE
  OBVIOUS
<1> DEFINE f == [n \in S |-> n + 1]
           T == S \ {0}
<1>1. IsFiniteSet(S) /\ Cardinality(S) \in Nat
  <2>1. IsFiniteSet(0..k)
    BY FS_Interval
  <2>2. IsFiniteSet(S)
    BY <2>1, FS_Subset
  <2> QED
    BY <2>2, FS_CardinalityType
<1>2. IsFiniteSet(T) /\ Cardinality(T) = Cardinality(S) - 1
  BY <1>1, FS_RemoveElement
<1>3. f \in [S -> T] /\ \A x, y \in S : f[x] = f[y] => x = y
  OBVIOUS
<1>4. Cardinality(T) < Cardinality(S)
  BY <1>1, <1>2
<1> HIDE DEF f, T
<1>5. \E x, y \in S : x # y /\ f[x] = f[y]
  BY <1>1, <1>2, <1>3, <1>4, FS_PigeonHole
<1> QED
  BY <1>3, <1>5

\* The sequences joined, up to each.
Flattened(seqs) ==
    LET flatten[i \in 1..Len(seqs)] ==
            IF i = 1 THEN seqs[i] ELSE flatten[i - 1] \o seqs[i]
    IN  flatten

FlattenedTo(g, seqs, k) ==
    g = [i \in 1..k |-> IF i = 1 THEN seqs[i] ELSE g[i - 1] \o seqs[i]]

\* The recursive function is defined: it exists up to every length.
LEMMA FlattenedExists ==
    ASSUME NEW seqs, Len(seqs) \in Nat
    PROVE  FlattenedTo(Flattened(seqs), seqs, Len(seqs))
<1> DEFINE N == Len(seqs)
           T == {k \in 0..N : \E g : FlattenedTo(g, seqs, k)}
<1>1. 0 \in T
  <2> DEFINE g == [i \in {} |-> seqs[i]]
  <2>1. FlattenedTo(g, seqs, 0)
    <3>1. 1..0 = {}
      OBVIOUS
    <3> QED
      BY <3>1, Zenon DEF FlattenedTo
  <2> QED
    BY <2>1
<1>2. ASSUME NEW k \in T, k < N
      PROVE  k + 1 \in T
  <2>1. PICK g : FlattenedTo(g, seqs, k)
    OBVIOUS
  <2>0. k \in Nat /\ k + 1 \in 0..N
    <3>1. k \in 0..N
      OBVIOUS
    <3> HIDE DEF T
    <3> QED
      BY <1>2, <3>1
  <2> HIDE DEF T
  <2> DEFINE h == [i \in 1..(k + 1) |-> IF i <= k THEN g[i] ELSE
                                        IF i = 1 THEN seqs[i] ELSE g[i - 1] \o seqs[i]]
  <2>2. \A i \in 1..(k + 1) : h[i] = IF i = 1 THEN seqs[i] ELSE h[i - 1] \o seqs[i]
    <3>1. \A i \in 1..k : g[i] = IF i = 1 THEN seqs[i] ELSE g[i - 1] \o seqs[i]
      BY <2>1, Zenon DEF FlattenedTo
    <3> QED
      BY <2>0, <3>1
  <2>3. h = [i \in 1..(k + 1) |-> h[i]]
    OBVIOUS
  <2>4. FlattenedTo(h, seqs, k + 1)
    <3> HIDE DEF h
    <3> QED
      BY <2>2, <2>3, Zenon DEF FlattenedTo
  <2> QED
    BY <2>0, <2>4, Zenon DEF T
<1>3. N \in T
  <2>1. T \in SUBSET (0..N)
    OBVIOUS
  <2> HIDE DEF T
  <2> QED
    BY <1>1, <1>2, <2>1, ClimbsTo
<1>4. \E g : FlattenedTo(g, seqs, N)
  BY <1>3
<1>5. Flattened(seqs) = CHOOSE g : FlattenedTo(g, seqs, N)
  BY Zenon DEF Flattened, FlattenedTo
<1> QED
  BY <1>4, <1>5, Zenon

\* It is the library's.
LEMMA FlattenSeqIs ==
    ASSUME NEW s, Len(s) # 0
    PROVE  FlattenSeq(s) = Flattened(s)[Len(s)]
  BY Zenon DEF FlattenSeq, Flattened

---------------------------------------------------------------------------
(* Drawings nobody overlapped.  *)

\* What the controller takes: a byte and what the pin said of it.
Heard == [byte : Tft!Byte, asData : BOOLEAN]

\* The first m bytes of a call.
SaidPart(c, m) == [i \in 1..m |-> [byte |-> c.bytes[i], asData |-> c.asData]]

\* What the controller must have taken when n calls are done.
SaidBefore(calls, n) ==
    IF n = 0 THEN << >> ELSE Flattened([i \in 1..Len(calls) |-> Tft!Said(calls[i])])[n]

Sending(t) == drawPc[t] \in {"ready", "write", "await", "flush"}

\* Two sequences joined.
LEMMA Joined ==
    ASSUME NEW S, NEW a \in Seq(S), NEW b \in Seq(S)
    PROVE  /\ a \o b \in Seq(S) /\ Len(a \o b) = Len(a) + Len(b)
           /\ \A i \in 1..Len(a) : (a \o b)[i] = a[i]
           /\ \A i \in (Len(a) + 1)..(Len(a) + Len(b)) : (a \o b)[i] = b[i - Len(a)]
  OBVIOUS

\* What a call says is heard byte by byte; selecting says nothing.
LEMMA SaidIsHeard ==
    ASSUME NEW c \in Calls
    PROVE  /\ Tft!Said(c) \in Seq(Heard)
           /\ c \in Sends => Tft!Said(c) = SaidPart(c, Len(c.bytes))
           /\ c \notin Sends => Tft!Said(c) = << >>
<1>1. CASE c \in Sends
  <2>1. Tft!Said(c) = SaidPart(c, Len(c.bytes))
    BY <1>1 DEF Tft!Said, SaidPart, Sends
  <2>2. SaidPart(c, Len(c.bytes)) \in Seq(Heard)
    BY <1>1 DEF SaidPart, Sends, Heard
  <2> QED
    BY <1>1, <2>1, <2>2
<1>2. CASE c \notin Sends
  BY <1>2 DEF Calls, Tft!Said, Tft!SelectCall, Tft!DeselectCall
<1> QED
  BY <1>1, <1>2

\* Call by call, what is said is added to what was said.
LEMMA SaidGrows ==
    ASSUME NEW calls \in Seq(Calls)
    PROVE  /\ \A n \in 0..(Len(calls) - 1) :
                  SaidBefore(calls, n + 1) = SaidBefore(calls, n) \o Tft!Said(calls[n + 1])
           /\ \A n \in 0..Len(calls) : SaidBefore(calls, n) \in Seq(Heard)
<1> DEFINE N    == Len(calls)
           said == [i \in 1..N |-> Tft!Said(calls[i])]
           f    == Flattened(said)
<1>1. N \in Nat /\ Len(said) = N /\ \A i \in 1..N : said[i] = Tft!Said(calls[i])
  OBVIOUS
<1>2. \A i \in 1..N : said[i] \in Seq(Heard)
  <2>1. \A i \in 1..N : calls[i] \in Calls
    OBVIOUS
  <2> QED
    BY <1>1, <2>1, SaidIsHeard
<1> HIDE DEF said
<1>3. f = [i \in 1..N |-> IF i = 1 THEN said[i] ELSE f[i - 1] \o said[i]]
  <2>1. FlattenedTo(f, said, N)
    BY <1>1, FlattenedExists
  <2> QED
    BY <2>1, Zenon DEF FlattenedTo
<1>4. \A i \in 1..N : f[i] = IF i = 1 THEN said[i] ELSE f[i - 1] \o said[i]
  <2> HIDE DEF f
  <2> QED
    BY <1>3
<1>5. \A n \in Nat : SaidBefore(calls, n) = IF n = 0 THEN << >> ELSE f[n]
  BY DEF SaidBefore, said
<1> HIDE DEF f
<1>6. \A n \in 0..(N - 1) :
          SaidBefore(calls, n + 1) = IF n = 0 THEN said[1] ELSE f[n] \o said[n + 1]
  BY <1>1, <1>4, <1>5
<1>7. \A n \in 0..(N - 1) : SaidBefore(calls, n + 1) = SaidBefore(calls, n) \o said[n + 1]
  <2> SUFFICES ASSUME NEW n \in 0..(N - 1)
               PROVE  SaidBefore(calls, n + 1) = SaidBefore(calls, n) \o said[n + 1]
    OBVIOUS
  <2>1. n \in Nat /\ said[1] \in Seq(Heard)
    BY <1>1, <1>2
  <2>2. CASE n = 0
    <3>1. SaidBefore(calls, n) = << >> /\ SaidBefore(calls, n + 1) = said[1]
      BY <1>5, <1>6, <2>1, <2>2
    <3> QED
      BY <2>1, <2>2, <3>1
  <2>3. CASE n # 0
    BY <1>5, <1>6, <2>1, <2>3
  <2> QED
    BY <2>2, <2>3
<1>8. ASSUME NEW k \in 0..N
      PROVE  SaidBefore(calls, k) \in Seq(Heard)
  <2> DEFINE T == {n \in 0..k : SaidBefore(calls, n) \in Seq(Heard)}
  <2>1. 0 \in T
    <3>1. SaidBefore(calls, 0) = << >> /\ 0 \in 0..k
      BY <1>1, <1>5, <1>8
    <3>2. << >> \in Seq(Heard)
      OBVIOUS
    <3> QED
      BY <3>1, <3>2
  <2>2. ASSUME NEW n \in T, n < k
        PROVE  n + 1 \in T
    <3>0. n \in 0..k /\ SaidBefore(calls, n) \in Seq(Heard)
      BY <2>2
    <3> HIDE DEF T
    <3>1. n + 1 \in 1..k /\ n + 1 \in 1..N /\ n \in 0..(N - 1)
      BY <1>1, <1>8, <2>2, <3>0
    <3>2. said[n + 1] \in Seq(Heard)
      BY <1>2, <3>1
    <3>3. SaidBefore(calls, n) \o said[n + 1] \in Seq(Heard)
      BY <3>0, <3>2, Joined
    <3>4. SaidBefore(calls, n + 1) \in Seq(Heard)
      BY <1>7, <3>1, <3>3
    <3> QED
      BY <3>1, <3>4 DEF T
  <2>3. T \in SUBSET (0..k) /\ k \in Nat
    BY <1>1, <1>8
  <2>4. k \in T
    <3> HIDE DEF T
    <3> QED
      BY <2>1, <2>2, <2>3, ClimbsTo
  <2> QED
    BY <2>4
<1>9. \A n \in 0..(N - 1) : said[n + 1] = Tft!Said(calls[n + 1])
  BY <1>1
<1> QED
  BY <1>7, <1>8, <1>9

\* Ten calls, those for the pixels, and the last.
LEMMA WindowThenPixels ==
    ASSUME NEW a \in Seq(Calls), NEW p \in Seq(Calls), Len(a) = 10
    PROVE  LET calls == (a \o p) \o <<Tft!DeselectCall>> IN
           /\ Len(calls) = 11 + Len(p)
           /\ \A i \in 1..10 : calls[i] = a[i]
           /\ \A i \in 11..(10 + Len(p)) : calls[i] = p[i - 10]
           /\ calls[11 + Len(p)] = Tft!DeselectCall
<1> DEFINE f     == a \o p
           calls == f \o <<Tft!DeselectCall>>
<1>1. /\ f \in Seq(Calls) /\ Len(f) = Len(a) + Len(p)
      /\ \A i \in 1..Len(a) : f[i] = a[i]
      /\ \A i \in (Len(a) + 1)..(Len(a) + Len(p)) : f[i] = p[i - Len(a)]
  BY Joined
<1> HIDE DEF f
<1>3. /\ Len(calls) = Len(f) + 1 /\ calls[Len(f) + 1] = Tft!DeselectCall
      /\ \A i \in 1..Len(f) : calls[i] = f[i]
  BY <1>1
<1> HIDE DEF calls
<1>4. Len(p) \in Nat /\ Len(f) = 10 + Len(p)
  BY <1>1
<1>5. /\ \A i \in 1..10 : i \in 1..Len(f)
      /\ \A i \in 11..(10 + Len(p)) : i \in 1..Len(f)
  BY <1>4
<1>6. /\ Len(calls) = 11 + Len(p)
      /\ \A i \in 1..10 : calls[i] = a[i]
      /\ \A i \in 11..(10 + Len(p)) : calls[i] = p[i - 10]
      /\ calls[11 + Len(p)] = Tft!DeselectCall
  BY <1>1, <1>3, <1>4, <1>5
<1> QED
  BY <1>6 DEF calls, f

\* The calls of a drawing: three selections, each with what is sent under it.
LEMMA DrawingShape ==
    ASSUME NEW t \in Tft!Tasks, NEW blocks \in Blocks[t]
    PROVE  LET calls == Tft!Drawing(blocks) IN
           /\ calls \in Seq(Calls) /\ Len(calls) >= 11
           /\ \A i \in 1..Len(calls) :
                  /\ calls[i] = Tft!SelectCall <=> i \in {1, 5, 9}
                  /\ calls[i] = Tft!DeselectCall <=> i \in {4, 8, Len(calls)}
<1> DEFINE pixels == [b \in 1..Len(blocks) |-> Tft!DataBlock("pixels", blocks[b])]
           L == Len(blocks)
           calls == Tft!Drawing(blocks)
<1>1. calls \in Seq(Calls)
  BY DrawingCalls
<1>2. blocks \in Seq(Nat \ {0}) /\ L \in Nat
  BY BlocksAssumption DEF Tft!Tasks
<1>3. /\ calls = (Tft!SetAddrWindow \o pixels) \o <<Tft!DeselectCall>>
      /\ Len(Tft!SetAddrWindow) = 10 /\ Len(pixels) = L
  BY <1>2 DEF Tft!Drawing, Tft!SetAddrWindow
<1>4. \A name, k : /\ Tft!DataBlock(name, k).call = "send"
                   /\ Tft!Command(name).call = "send"
  BY DEF Tft!DataBlock, Tft!Command
<1>5. Tft!SelectCall.call = "select" /\ Tft!DeselectCall.call = "deselect"
  BY DEF Tft!SelectCall, Tft!DeselectCall
<1>6. /\ Len(calls) = 11 + L
      /\ \A i \in 1..10 : calls[i] = Tft!SetAddrWindow[i]
      /\ \A i \in 11..(10 + L) : calls[i] = pixels[i - 10]
      /\ calls[11 + L] = Tft!DeselectCall
  <2> HIDE DEF pixels
  <2>1. Tft!SetAddrWindow \in Seq(Calls) /\ pixels \in Seq(Calls)
    <3>1. Tft!SetAddrWindow \in Seq(Calls)
      BY BlockSends, LengthsAssumption DEF Tft!SetAddrWindow, Calls
    <3>2. pixels \in Seq(Calls)
      BY <1>2, BlockSends DEF pixels, Calls
    <3> QED
      BY <3>1, <3>2
  <2> DEFINE a == Tft!SetAddrWindow
  <2>2. calls = (a \o pixels) \o <<Tft!DeselectCall>> /\ Len(a) = 10 /\ Len(pixels) = L
    BY <1>3
  <2>3. a \in Seq(Calls) /\ pixels \in Seq(Calls)
    BY <2>1
  <2> HIDE DEF a, calls
  <2>4. /\ Len(calls) = 11 + Len(pixels)
        /\ \A i \in 1..10 : calls[i] = a[i]
        /\ \A i \in 11..(10 + Len(pixels)) : calls[i] = pixels[i - 10]
        /\ calls[11 + Len(pixels)] = Tft!DeselectCall
    BY <2>2, <2>3, WindowThenPixels
  <2> QED
    BY <2>2, <2>4 DEF a
<1> HIDE DEF calls
<1>7. \A i \in 11..(10 + L) : calls[i].call = "send"
  <2> SUFFICES ASSUME NEW i \in 11..(10 + L)
               PROVE  calls[i].call = "send"
    OBVIOUS
  <2>1. calls[i] = Tft!DataBlock("pixels", blocks[i - 10])
    <3>1. i - 10 \in 1..L
      BY <1>2
    <3> QED
      BY <1>6, <3>1
  <2> QED
    BY <1>4, <2>1
<1>8. \A i \in 1..10 : calls[i].call = IF i \in {1, 5, 9} THEN "select"
                                   ELSE IF i \in {4, 8} THEN "deselect" ELSE "send"
  BY <1>4, <1>5, <1>6 DEF Tft!SetAddrWindow
<1>9. ASSUME NEW i \in 1..Len(calls)
      PROVE  /\ calls[i] = Tft!SelectCall <=> i \in {1, 5, 9}
             /\ calls[i] = Tft!DeselectCall <=> i \in {4, 8, Len(calls)}
  <2>0. Len(calls) = 11 + L /\ L \in Nat
    BY <1>2, <1>6
  <2>1. CASE i \in 1..10
    <3>1. /\ i \in {1, 5, 9} => calls[i] = Tft!SelectCall
          /\ i \in {4, 8} => calls[i] = Tft!DeselectCall
      BY <1>6, <2>1 DEF Tft!SetAddrWindow
    <3>2. i # Len(calls)
      BY <1>2, <2>0, <2>1
    <3> QED
      BY <1>5, <1>8, <2>1, <3>1, <3>2
  <2>2. CASE i \in 11..(10 + L)
    <3>1. i # Len(calls) /\ i \notin {1, 5, 9} /\ i \notin {4, 8}
      BY <2>0, <2>2
    <3> QED
      BY <1>5, <1>7, <2>2, <3>1
  <2>3. CASE i = 11 + L
    <3>1. i = Len(calls) /\ i \notin {1, 5, 9}
      BY <2>0, <2>3
    <3> QED
      BY <1>5, <1>6, <2>3, <3>1
  <2> QED
    BY <2>0, <2>1, <2>2, <2>3
<1> QED
  BY <1>1, <1>2, <1>6, <1>9 DEF calls

\* Task t is at call n + 1 of its drawing and has sent j bytes of it; the
\* controller has taken what was sent, all of it and nothing else.
Standing(t, calls, n, j) ==
    LET c == calls[n + 1]
        h == Head(script[t])
    IN  /\ n < Len(calls) /\ Len(script[t]) = Len(calls) - n
        /\ \A i \in 2..Len(script[t]) : script[t][i] = calls[n + i]
        /\ n >= 1 => (selected <=> n \notin {4, 8})
        /\ Sending(t) =>
               /\ c \in Sends /\ dataPin = c.asData /\ h.asData = c.asData
               /\ Len(h.bytes) = Len(c.bytes) - j
               /\ \A i \in 1..Len(h.bytes) : h.bytes[i] = c.bytes[j + i]
        /\ ~Sending(t) => h = c /\ j = 0
        /\ tftData # Empty => tftData = Head(h.bytes)
        /\ tftShift # Empty => tftShift = Head(h.bytes)
        /\ taken = SaidBefore(calls, n) \o
                   SaidPart(c, IF Tft!Owing(t) /\ tftData = Empty /\ tftShift = Empty
                               THEN j + 1 ELSE j)

LoneInv ==
    /\ alone \in [Tft!Tasks -> BOOLEAN]
    /\ \A t, u \in Tft!Tasks : alone[t] /\ ~Tft!Idle(t) /\ u # t => Tft!Idle(u)
    /\ \A t \in Tft!Tasks :
           alone[t] /\ ~Tft!Idle(t) =>
               \E blocks \in Blocks[t], n, j \in Nat : Standing(t, Tft!Drawing(blocks), n, j)

\* A lone task's byte is the only one the port has.
LEMMA LoneOwes ==
    ASSUME TftInv, NEW t \in Tft!Tasks, \A u \in Tft!Tasks \ {t} : Tft!Idle(u)
    PROVE  /\ ~Tft!Owing(t) => tftData = Empty /\ tftShift = Empty
           /\ tftData # Empty => tftShift = Empty /\ Tft!Owing(t) /\ tftReceived = << >>
           /\ tftShift # Empty => tftData = Empty /\ Tft!Owing(t) /\ tftReceived = << >>
           /\ tftReceived # << >> => tftData = Empty /\ tftShift = Empty
<1>1. \A u \in Tft!Tasks \ {t} : ~Tft!Owing(u)
  BY DEF TftInv, TftTypes, InBlock, Tft!Owing, Tft!Idle
<1> DEFINE d == IF tftData = Empty THEN 0 ELSE 1
           h == IF tftShift = Empty THEN 0 ELSE 1
           r == Len(tftReceived)
           o == IF Tft!Owing(t) THEN 1 ELSE 0
<1>2. r + d + h = o
  <2>1. t \in {"display", "cdc"} /\ Tft!BytesBalance
    BY DEF TftInv, Tft!Tasks
  <2>2. t = "display" => ~Tft!Owing("cdc")
    BY <1>1 DEF Tft!Tasks
  <2>3. t = "cdc" => ~Tft!Owing("display")
    BY <1>1 DEF Tft!Tasks
  <2>4. Tft!InTransit = r + d + h /\ o \in 0..1
    BY DEF Tft!InTransit
  <2> HIDE DEF r, d, h
  <2> QED
    BY <2>1, <2>2, <2>3, <2>4 DEF Tft!BytesBalance
<1>3. /\ r \in Nat /\ (r = 0 <=> tftReceived = << >>)
      /\ d \in 0..1 /\ (d = 0 <=> tftData = Empty)
      /\ h \in 0..1 /\ (h = 0 <=> tftShift = Empty)
      /\ o \in 0..1 /\ (o = 0 <=> ~Tft!Owing(t))
  BY DEF TftInv, TftTypes
<1> HIDE DEF d, h, r, o
<1>4. /\ o = 0 => d = 0 /\ h = 0
      /\ d # 0 => h = 0 /\ o # 0 /\ r = 0
      /\ h # 0 => d = 0 /\ o # 0 /\ r = 0
      /\ r # 0 => d = 0 /\ h = 0
  BY <1>2, <1>3
<1> QED
  BY <1>3, <1>4

\* What is left of a script when its first call is done.
LEMMA Rest ==
    ASSUME NEW S, NEW s \in Seq(S), s # << >>
    PROVE  /\ Tail(s) \in Seq(S) /\ Len(Tail(s)) = Len(s) - 1 /\ Len(s) \in Nat \ {0}
           /\ \A i \in 1..(Len(s) - 1) : Tail(s)[i] = s[i + 1]
           /\ Head(s) = s[1]
  OBVIOUS

\* A sequence whose head is put in another's place.
LEMMA NewHead ==
    ASSUME NEW S, NEW s \in Seq(S), s # << >>, NEW x \in S
    PROVE  LET r == <<x>> \o Tail(s) IN
           /\ Len(r) = Len(s) /\ Head(r) = x
           /\ \A i \in 2..Len(s) : r[i] = s[i]
<1> DEFINE a == <<x>>
           b == Tail(s)
           r == a \o b
<1>1. a \in Seq(S) /\ Len(a) = 1 /\ a[1] = x
  OBVIOUS
<1>2. b \in Seq(S) /\ Len(b) = Len(s) - 1 /\ Len(s) \in Nat \ {0}
      /\ \A i \in 1..(Len(s) - 1) : b[i] = s[i + 1]
  BY Rest
<1> HIDE DEF a, b
<1>3. /\ r \in Seq(S) /\ Len(r) = Len(a) + Len(b)
      /\ \A i \in 1..Len(a) : r[i] = a[i]
      /\ \A i \in (Len(a) + 1)..(Len(a) + Len(b)) : r[i] = b[i - Len(a)]
  BY <1>1, <1>2, Joined
<1> HIDE DEF r
<1>4. Len(r) = Len(s) /\ r[1] = x
  BY <1>1, <1>2, <1>3
<1>5. r # << >> /\ Head(r) = x
  BY <1>2, <1>3, <1>4
<1>6. \A i \in 2..Len(s) : r[i] = s[i]
  BY <1>1, <1>2, <1>3
<1> QED
  BY <1>4, <1>5, <1>6 DEF r, a, b

\* A call of which everything or nothing has been said.
LEMMA SaidAdds ==
    ASSUME NEW calls \in Seq(Calls), NEW n \in Nat, n < Len(calls)
    PROVE  LET c == calls[n + 1] IN
           /\ SaidBefore(calls, n) \o SaidPart(c, 0) = SaidBefore(calls, n)
           /\ c \in Sends => SaidBefore(calls, n) \o SaidPart(c, Len(c.bytes))
                               = SaidBefore(calls, n + 1)
           /\ c \notin Sends => SaidBefore(calls, n + 1) = SaidBefore(calls, n)
<1> DEFINE c == calls[n + 1]
           b == SaidBefore(calls, n)
           a == SaidBefore(calls, n + 1)
<1>1. c \in Calls /\ n \in 0..(Len(calls) - 1) /\ n \in 0..Len(calls)
  OBVIOUS
<1>2. b \in Seq(Heard) /\ a = b \o Tft!Said(c)
  BY <1>1, SaidGrows
<1>3. /\ c \in Sends => Tft!Said(c) = SaidPart(c, Len(c.bytes))
      /\ c \notin Sends => Tft!Said(c) = << >>
  BY <1>1, SaidIsHeard
<1>4. SaidPart(c, 0) = << >>
  BY DEF SaidPart
<1> HIDE DEF a, b, c
<1>5. b \o << >> = b
  BY <1>2
<1>6. /\ b \o SaidPart(c, 0) = b
      /\ c \in Sends => b \o SaidPart(c, Len(c.bytes)) = a
      /\ c \notin Sends => a = b
  BY <1>2, <1>3, <1>4, <1>5
<1> QED
  BY <1>6 DEF a, b, c

\* What is appended to the second of two sequences joined.  The operators
\* have names of their own here, which keeps the provers from expanding them.
Join(a, b) == a \o b
Put(a, x)  == Append(a, x)

\* Joining is associative, so the order of the two does not matter.
LEMMA AppendedLast ==
    ASSUME NEW S, NEW a \in Seq(S), NEW b \in Seq(S), NEW x \in S
    PROVE  Put(Join(a, b), x) = Join(a, Put(b, x))
<1> DEFINE c == <<x>>
<1>1. c \in Seq(S) /\ a \o b \in Seq(S)
  OBVIOUS
<1>2. Append(a \o b, x) = (a \o b) \o c /\ Append(b, x) = b \o c
  BY <1>1, AppendIsConcat
<1> HIDE DEF c
<1>3. (a \o b) \o c = a \o (b \o c)
  BY <1>1, ConcatAssociative
<1> QED
  BY <1>2, <1>3 DEF Join, Put

\* One byte more of a call.
LEMMA SaidByte ==
    ASSUME NEW b \in Seq(Heard), NEW c \in Sends, NEW j \in Nat, j < Len(c.bytes)
    PROVE  Append(b \o SaidPart(c, j), [byte |-> c.bytes[j + 1], asData |-> c.asData])
             = b \o SaidPart(c, j + 1)
<1> DEFINE p == SaidPart(c, j)
           q == SaidPart(c, j + 1)
           x == [byte |-> c.bytes[j + 1], asData |-> c.asData]
<1>1. Len(c.bytes) \in Nat /\ \A i \in 1..Len(c.bytes) : c.bytes[i] \in Tft!Byte
  BY DEF Sends
<1>2. x \in Heard
  BY <1>1 DEF Heard, Sends
<1>3. p \in Seq(Heard) /\ q \in Seq(Heard) /\ Len(p) = j /\ Len(q) = j + 1
  BY <1>1 DEF SaidPart, Heard, Sends
<1>4. q[j + 1] = x /\ \A i \in 1..j : q[i] = p[i]
  BY DEF SaidPart
<1> HIDE DEF p, q, x
<1>5. q = Append(p, x)
  BY <1>2, <1>3, <1>4
<1>6. Append(b \o p, x) = b \o Append(p, x)
  <2>1. Put(Join(b, p), x) = Join(b, Put(p, x))
    BY <1>2, <1>3, AppendedLast
  <2> QED
    BY <2>1, Zenon DEF Join, Put
<1>7. Append(b \o p, x) = b \o q
  BY <1>5, <1>6
<1> QED
  BY <1>7 DEF p, q, x

\* While a block is sent the controller is selected, and the block is not the
\* drawing's last call.
LEMMA SendingIsSelected ==
    ASSUME NEW t \in Tft!Tasks, NEW blocks \in Blocks[t], NEW n \in Nat,
           n < Len(Tft!Drawing(blocks)), Tft!Drawing(blocks)[n + 1] \in Sends,
           n >= 1 => (selected <=> n \notin {4, 8})
    PROVE  /\ n >= 1 /\ n + 1 < Len(Tft!Drawing(blocks))
           /\ selected /\ n + 1 \notin {4, 8}
<1> DEFINE calls == Tft!Drawing(blocks)
           i == n + 1
<1>1. /\ Len(calls) \in Nat
      /\ \A k \in 1..Len(calls) : /\ calls[k] = Tft!SelectCall <=> k \in {1, 5, 9}
                                  /\ calls[k] = Tft!DeselectCall <=> k \in {4, 8, Len(calls)}
  BY DrawingShape
<1>2. calls[i] \in Sends /\ n < Len(calls)
  OBVIOUS
<1>3. calls[i] # Tft!SelectCall /\ calls[i] # Tft!DeselectCall
  BY <1>2 DEF Sends, Tft!SelectCall, Tft!DeselectCall
<1> HIDE DEF calls
<1>4. i \in 1..Len(calls)
  BY <1>1, <1>2
<1>5. i \notin {1, 5, 9} /\ i \notin {4, 8, Len(calls)}
  BY <1>1, <1>3, <1>4
<1>6. n # 0 /\ n # 4 /\ n # 8
  BY <1>5
<1> QED
  BY <1>1, <1>2, <1>5, <1>6 DEF calls

\* A lone drawing begins with nothing taken and nothing in the port.
LEMMA LoneBegins ==
    ASSUME TftInv, NEW t \in Tft!Tasks, NEW blocks \in Blocks[t], Tft!Begin(t, blocks),
           \A u \in Tft!Tasks \ {t} : Tft!Idle(u)
    PROVE  Standing(t, Tft!Drawing(blocks), 0, 0)'
<1> DEFINE calls == Tft!Drawing(blocks)
<1>1. calls \in Seq(Calls) /\ Len(calls) >= 11
  BY DrawingShape
<1>2. /\ script'[t] = calls /\ taken' = << >> /\ drawPc' = drawPc
      /\ tftData' = tftData /\ tftShift' = tftShift /\ Tft!Idle(t)
  BY DEF Tft!Begin, Tft!port, Tft!pins, TftInv, TftTypes
<1>3. ~Sending(t) /\ ~Tft!Owing(t)
  BY <1>2 DEF TftInv, TftTypes, InBlock, Sending, Tft!Owing, Tft!Idle
<1>4. tftData = Empty /\ tftShift = Empty
  BY <1>3, LoneOwes
<1>5. taken' = SaidBefore(calls, 0) \o SaidPart(calls[1], 0)
  BY <1>2 DEF SaidBefore, SaidPart
<1> HIDE DEF calls
<1>6. Head(calls) = calls[1] /\ Len(calls) \in Nat
  BY <1>1
<1>7. ~Sending(t)' /\ ~Tft!Owing(t)'
  BY <1>2, <1>3 DEF Sending, Tft!Owing
<1>8. Standing(t, calls, 0, 0)'
  BY <1>1, <1>2, <1>4, <1>5, <1>6, <1>7 DEF Standing
<1> QED
  BY <1>8 DEF calls

\* Steps that change neither what is left to send nor what is on its way.
LEMMA LoneWaits ==
    ASSUME TftInv, NEW t \in Tft!Tasks, NEW calls, NEW n \in Nat, NEW j \in Nat,
           Standing(t, calls, n, j), ~Tft!Idle(t),
           Tft!AwaitReady(t) \/ Tft!AwaitByte(t) \/ Tft!AwaitComplete(t) \/ Tft!Switch
    PROVE  Standing(t, calls, n, j)'
<1>1. UNCHANGED <<script, selected, dataPin, taken, tftData, tftShift>>
  BY DEF Tft!AwaitReady, Tft!AwaitByte, Tft!AwaitComplete, Tft!Switch,
         Tft!port, Tft!pins, Tft!history
<1>2. (Sending(t)' <=> Sending(t)) /\ (Tft!Owing(t)' <=> Tft!Owing(t))
  BY DEF Tft!AwaitReady, Tft!AwaitByte, Tft!AwaitComplete, Tft!Switch, Tft!At, Tft!Goto,
         TftInv, TftTypes, Sending, Tft!Owing
<1> QED
  BY <1>1, <1>2 DEF Standing

\* The pin is set for what will be sent.
LEMMA LoneSetsPin ==
    ASSUME TftInv, NEW t \in Tft!Tasks, NEW calls \in Seq(Calls), NEW n \in Nat, NEW j \in Nat,
           Standing(t, calls, n, j), Tft!SetPin(t)
    PROVE  Standing(t, calls, n, j)'
<1>1. /\ drawPc[t] = "call" /\ drawPc' = [drawPc EXCEPT ![t] = "ready"]
      /\ dataPin' = Head(script[t]).asData /\ Head(script[t]).call = "send"
      /\ UNCHANGED <<script, selected, taken, tftData, tftShift>>
  BY DEF Tft!SetPin, Tft!At, Tft!Goto, Tft!Call, Tft!port, Tft!history
<1>2. /\ ~Sending(t) /\ Sending(t)' /\ ~Tft!Owing(t) /\ ~Tft!Owing(t)'
  BY <1>1 DEF Sending, Tft!Owing, TftInv, TftTypes
<1>3. Head(script[t]) = calls[n + 1] /\ j = 0 /\ n < Len(calls)
  BY <1>2 DEF Standing
<1>4. calls[n + 1] \in Sends
  <2>1. calls[n + 1] \in Calls
    BY <1>3
  <2> QED
    BY <1>1, <1>3, <2>1 DEF Calls, Tft!SelectCall, Tft!DeselectCall
<1>5. Len(calls[n + 1].bytes) \in Nat
  BY <1>4 DEF Sends
<1>6. \A i \in 1..Len(calls[n + 1].bytes) : calls[n + 1].bytes[i] = calls[n + 1].bytes[j + i]
  BY <1>3
<1>7. Len(calls[n + 1].bytes) = Len(calls[n + 1].bytes) - j
  BY <1>3, <1>5
<1>8. /\ script'[t] = script[t] /\ selected' = selected /\ taken' = taken
      /\ tftData' = tftData /\ tftShift' = tftShift
  BY <1>1
<1>9. dataPin' = calls[n + 1].asData
  BY <1>1, <1>3
<1> QED
  BY <1>2, <1>3, <1>4, <1>6, <1>7, <1>8, <1>9 DEF Standing

\* The block's next byte is written.
LEMMA LoneWrites ==
    ASSUME TftInv, NEW t \in Tft!Tasks, NEW calls, NEW n \in Nat, NEW j \in Nat,
           Standing(t, calls, n, j), Tft!WriteByte(t),
           \A u \in Tft!Tasks \ {t} : Tft!Idle(u)
    PROVE  Standing(t, calls, n, j)'
<1>1. /\ turn = t /\ script[t] # << >> /\ drawPc[t] = "write"
      /\ drawPc' = [drawPc EXCEPT ![t] = "await"]
      /\ UNCHANGED <<tftShift, script, selected, dataPin, taken>>
  BY DEF Tft!WriteByte, Tft!At, Tft!Goto, Tft!Idle, Tft!Write, Tft!pins, Tft!history
<1>2. tftData = Empty
  BY <1>1 DEF TftInv, TurnFound
<1>3. tftData' = Head(Head(script[t]).bytes)
  BY <1>2 DEF Tft!WriteByte, Tft!Write, Tft!ReadyToWrite, Tft!Call
<1>4. tftData' # Empty
  <2>1. Head(script[t]) \in Sends
    BY <1>1 DEF TftInv, InBlock
  <2>2. Head(Head(script[t]).bytes) \in Tft!Byte
    BY <2>1 DEF Sends
  <2> QED
    BY <1>3, <2>2, EmptyAssumption
<1>5. ~Tft!Owing(t) /\ Sending(t) /\ Sending(t)'
  BY <1>1 DEF Sending, Tft!Owing, TftInv, TftTypes
<1>6. tftShift = Empty
  BY <1>5, LoneOwes
<1> QED
  BY <1>1, <1>2, <1>3, <1>4, <1>5, <1>6 DEF Standing

\* The byte moves to the shift register.
LEMMA LoneLoads ==
    ASSUME TftInv, NEW t \in Tft!Tasks, NEW calls, NEW n \in Nat, NEW j \in Nat,
           Standing(t, calls, n, j), Tft!LoadByte
    PROVE  Standing(t, calls, n, j)'
<1>1. /\ tftData # Empty /\ tftShift = Empty /\ tftShift' = tftData /\ tftData' = Empty
      /\ UNCHANGED <<drawPc, script, selected, dataPin, taken>>
  BY DEF Tft!LoadByte, Tft!Load, Tft!pins, Tft!history
<1>2. (Sending(t)' <=> Sending(t)) /\ (Tft!Owing(t)' <=> Tft!Owing(t))
  BY <1>1 DEF Sending, Tft!Owing
<1> QED
  BY <1>1, <1>2 DEF Standing

\* The selected controller takes the byte for what it is.
LEMMA LoneShifts ==
    ASSUME TftInv, NEW t \in Tft!Tasks, NEW blocks \in Blocks[t], NEW n \in Nat, NEW j \in Nat,
           Standing(t, Tft!Drawing(blocks), n, j), Tft!ByteShifted,
           alone[t], ~Tft!Idle(t), \A u \in Tft!Tasks \ {t} : Tft!Idle(u)
    PROVE  Standing(t, Tft!Drawing(blocks), n, j)'
<1> DEFINE calls == Tft!Drawing(blocks)
           c == calls[n + 1]
           h == Head(script[t])
<1>1. /\ tftShift # Empty /\ tftShift' = Empty /\ tftData' = tftData
      /\ taken' = IF selected /\ (\E u \in Tft!Tasks : alone[u])
                  THEN Append(taken, [byte |-> tftShift, asData |-> dataPin])
                  ELSE taken
      /\ UNCHANGED <<drawPc, script, selected, dataPin>>
  BY DEF Tft!ByteShifted, Tft!Complete, Tft!pins
<1>2. tftData = Empty /\ Tft!Owing(t)
  BY <1>1, LoneOwes
<1>3. Sending(t) /\ Sending(t)' /\ Tft!Owing(t)'
  BY <1>1, <1>2 DEF Sending, Tft!Owing
<1>4. h \in Sends
  BY <1>2 DEF TftInv, InBlock, Tft!Owing
<1>5. calls \in Seq(Calls)
  BY DrawingShape
<1> HIDE DEF calls
<1>6. Standing(t, calls, n, j) /\ n < Len(calls)
  BY DEF calls, Standing
<1>7. /\ c \in Sends /\ dataPin = c.asData
      /\ Len(h.bytes) = Len(c.bytes) - j
      /\ \A i \in 1..Len(h.bytes) : h.bytes[i] = c.bytes[j + i]
      /\ tftShift = Head(h.bytes)
      /\ n >= 1 => (selected <=> n \notin {4, 8})
      /\ taken = SaidBefore(calls, n) \o SaidPart(c, j)
  BY <1>1, <1>3, <1>6 DEF Standing
<1>8. selected
  <2>1. Tft!Drawing(blocks)[n + 1] \in Sends /\ n < Len(Tft!Drawing(blocks))
    BY <1>6, <1>7 DEF calls
  <2> QED
    BY <1>7, <2>1, SendingIsSelected
<1>9. h.bytes \in Seq(Tft!Byte) /\ h.bytes # << >> /\ Len(c.bytes) \in Nat
  BY <1>4, <1>7 DEF Sends
<1>10. Head(h.bytes) = h.bytes[1] /\ Len(h.bytes) \in Nat \ {0}
  BY <1>9, Rest
<1>11. tftShift = c.bytes[j + 1] /\ j < Len(c.bytes)
  BY <1>7, <1>9, <1>10
<1>12. taken' = Append(taken, [byte |-> c.bytes[j + 1], asData |-> c.asData])
  BY <1>1, <1>7, <1>8, <1>11
<1>13. taken' = SaidBefore(calls, n) \o SaidPart(c, j + 1)
  <2>1. SaidBefore(calls, n) \in Seq(Heard)
    <3>1. n \in 0..Len(calls)
      BY <1>5, <1>6
    <3> QED
      BY <1>5, <3>1, SaidGrows
  <2> HIDE DEF c
  <2> QED
    BY <1>7, <1>11, <1>12, <2>1, SaidByte
<1>14. Standing(t, calls, n, j)'
  BY <1>1, <1>2, <1>3, <1>6, <1>13 DEF Standing
<1> QED
  BY <1>14 DEF calls

\* The controller is selected or released, and the next call is due.
LEMMA LoneSelects ==
    ASSUME TftInv, NEW t \in Tft!Tasks, NEW blocks \in Blocks[t], NEW n \in Nat, NEW j \in Nat,
           Standing(t, Tft!Drawing(blocks), n, j), Tft!Select(t), ~Tft!Idle(t)',
           \A u \in Tft!Tasks \ {t} : Tft!Idle(u)
    PROVE  Standing(t, Tft!Drawing(blocks), n + 1, 0)'
<1> DEFINE calls == Tft!Drawing(blocks)
           i == n + 1
           s == script[t]
<1>1. /\ calls \in Seq(Calls)
      /\ \A k \in 1..Len(calls) : /\ calls[k] = Tft!SelectCall <=> k \in {1, 5, 9}
                                  /\ calls[k] = Tft!DeselectCall <=> k \in {4, 8, Len(calls)}
  BY DrawingShape
<1> HIDE DEF calls
<1>2. /\ drawPc[t] = "call" /\ drawPc' = drawPc /\ s # << >> /\ s \in Seq(Calls)
      /\ Head(s).call \in {"select", "deselect"}
      /\ selected' = (Head(s).call = "select")
      /\ script'[t] = Tail(s)
      /\ taken' = taken /\ tftData' = tftData /\ tftShift' = tftShift
  BY DEF Tft!Select, Tft!At, Tft!Call, Tft!Idle, Tft!port, Tft!history, TftInv, TftTypes
<1>3. ~Sending(t) /\ ~Sending(t)' /\ ~Tft!Owing(t) /\ ~Tft!Owing(t)'
  BY <1>2 DEF Sending, Tft!Owing
<1>4. /\ n < Len(calls) /\ Len(s) = Len(calls) - n
      /\ \A k \in 2..Len(s) : s[k] = calls[n + k]
      /\ Head(s) = calls[i]
      /\ taken = SaidBefore(calls, n) \o SaidPart(calls[i], j) /\ j = 0
  BY <1>3 DEF Standing, calls
<1>5. tftData = Empty /\ tftShift = Empty
  BY <1>3, LoneOwes
<1>6. /\ Tail(s) \in Seq(Calls) /\ Len(Tail(s)) = Len(s) - 1
      /\ \A k \in 1..(Len(s) - 1) : Tail(s)[k] = s[k + 1]
  BY <1>2, Rest
<1>7. Tail(s) # << >>
  BY <1>2 DEF Tft!Idle
<1>8. Head(Tail(s)) = Tail(s)[1] /\ Len(Tail(s)) \in Nat \ {0}
  BY <1>6, <1>7, Rest
<1> HIDE DEF s
<1> DEFINE r == Tail(s)
<1>9. Len(calls) \in Nat /\ Len(s) \in Nat
  BY <1>1, <1>2
<1> HIDE DEF r
<1>10. /\ i < Len(calls) /\ Len(r) = Len(calls) - i
       /\ Head(r) = calls[i + 1]
       /\ \A k \in 2..Len(r) : r[k] = calls[i + k]
  <2>0. Len(r) = Len(s) - 1 /\ Len(r) \in Nat \ {0} /\ Len(s) = Len(calls) - n
    BY <1>4, <1>6, <1>8 DEF r
  <2>1. i < Len(calls) /\ Len(r) = Len(calls) - i /\ Len(r) = Len(s) - 1 /\ Len(s) >= 2
    BY <1>9, <2>0
  <2>2. Head(r) = s[2]
    BY <1>6, <1>8, <1>9, <2>1 DEF r
  <2>3. s[2] = calls[n + 2] /\ n + 2 = i + 1
    BY <1>4, <1>9, <2>1
  <2>4. ASSUME NEW k \in 2..Len(r) PROVE r[k] = calls[i + k]
    <3>1. k \in 1..(Len(s) - 1) /\ k + 1 \in 2..Len(s) /\ n + (k + 1) = i + k
      BY <1>9, <2>1
    <3>2. r[k] = s[k + 1]
      BY <1>6, <3>1 DEF r
    <3>3. s[k + 1] = calls[n + (k + 1)]
      BY <1>4, <3>1
    <3> QED
      BY <3>1, <3>2, <3>3
  <2> QED
    BY <2>1, <2>2, <2>3, <2>4
<1>11. calls[i] \in {Tft!SelectCall, Tft!DeselectCall} /\ calls[i] \notin Sends
  <2>1. i \in 1..Len(calls)
    BY <1>4, <1>9
  <2>2. calls[i] \in Calls
    BY <1>1, <2>1
  <2>3. calls[i].call \in {"select", "deselect"}
    BY <1>2, <1>4
  <2> QED
    BY <2>2, <2>3 DEF Calls, Sends
<1>12. selected' <=> i \notin {4, 8}
  <2>1. i \in 1..Len(calls) /\ i # Len(calls)
    BY <1>9, <1>10
  <2>2. selected' = (calls[i].call = "select")
    BY <1>2, <1>4
  <2>3. calls[i] = Tft!SelectCall <=> calls[i].call = "select"
    BY <1>11 DEF Tft!SelectCall, Tft!DeselectCall
  <2>4. Tft!SelectCall # Tft!DeselectCall
    BY DEF Tft!SelectCall, Tft!DeselectCall
  <2>5. calls[i] = Tft!DeselectCall <=> i \in {4, 8}
    BY <1>1, <2>1
  <2> QED
    BY <1>11, <2>2, <2>3, <2>4, <2>5
<1>13. taken' = SaidBefore(calls, i) \o SaidPart(calls[i + 1], 0)
  <2>1. taken = SaidBefore(calls, n)
    BY <1>1, <1>4, SaidAdds
  <2>2. SaidBefore(calls, i) = SaidBefore(calls, n)
    BY <1>1, <1>4, <1>11, SaidAdds
  <2>3. SaidBefore(calls, i) \o SaidPart(calls[i + 1], 0) = SaidBefore(calls, i)
    BY <1>1, <1>10, SaidAdds
  <2> QED
    BY <1>2, <2>1, <2>2, <2>3
<1>14. Standing(t, calls, i, 0)'
  <2>1. script'[t] = r
    BY <1>2 DEF r, s
  <2> HIDE DEF i
  <2> QED
    BY <1>2, <1>3, <1>5, <1>10, <1>12, <1>13, <2>1 DEF Standing
<1> QED
  BY <1>14 DEF calls

\* The last byte of a block has been taken: the next call is due.
LEMMA LoneEndsBlock ==
    ASSUME TftInv, NEW t \in Tft!Tasks, NEW blocks \in Blocks[t], NEW n \in Nat, NEW j \in Nat,
           Standing(t, Tft!Drawing(blocks), n, j), Tft!Flush(t),
           Tail(Head(script[t]).bytes) = << >>,
           \A u \in Tft!Tasks \ {t} : Tft!Idle(u)
    PROVE  Standing(t, Tft!Drawing(blocks), n + 1, 0)'
<1> DEFINE calls == Tft!Drawing(blocks)
           i == n + 1
           s == script[t]
           c == calls[i]
           h == Head(s)
<1>1. /\ drawPc[t] = "flush" /\ s # << >> /\ s \in Seq(Calls) /\ turn = t
      /\ script'[t] = Tail(s) /\ drawPc' = [drawPc EXCEPT ![t] = "complete"]
      /\ tftData' = tftData /\ tftShift' = tftShift
      /\ selected' = selected /\ taken' = taken
  BY DEF Tft!Flush, Tft!ByteDone, Tft!At, Tft!Call, Tft!Goto, Tft!Idle, Tft!Read, Tft!port,
         Tft!pins, Tft!history, TftInv, TftTypes
<1>2. Sending(t) /\ ~Sending(t)' /\ Tft!Owing(t) /\ ~Tft!Owing(t)'
  BY <1>1 DEF Sending, Tft!Owing, TftInv, TftTypes
<1>3. tftData = Empty /\ tftShift = Empty
  <2>1. tftReceived # << >>
    BY <1>1 DEF TftInv, TurnFound
  <2> QED
    BY <2>1, LoneOwes
<1>4. calls \in Seq(Calls)
  BY DrawingShape
<1>5. /\ n < Len(calls) /\ Len(s) = Len(calls) - n
      /\ \A k \in 2..Len(s) : s[k] = calls[n + k]
      /\ c \in Sends /\ Len(h.bytes) = Len(c.bytes) - j
      /\ n >= 1 => (selected <=> n \notin {4, 8})
      /\ taken = SaidBefore(calls, n) \o SaidPart(c, j + 1)
  BY <1>2, <1>3 DEF Standing
<1>6. /\ n >= 1 /\ i < Len(calls) /\ selected /\ i \notin {4, 8}
  BY <1>5, SendingIsSelected
<1> HIDE DEF calls
<1>7. h \in Sends
  BY <1>1 DEF TftInv, InBlock
<1>8. h.bytes \in Seq(Tft!Byte) /\ h.bytes # << >> /\ Len(c.bytes) \in Nat
  BY <1>5, <1>7 DEF Sends
<1>9. Len(c.bytes) = j + 1
  <2>1. Len(Tail(h.bytes)) = Len(h.bytes) - 1 /\ Len(h.bytes) \in Nat
    BY <1>8, Rest
  <2>2. Tail(h.bytes) = << >> /\ Len(<< >>) = 0
    OBVIOUS
  <2>3. Len(Tail(h.bytes)) = 0
    BY <2>2, Zenon
  <2> DEFINE lh == Len(h.bytes)
             lc == Len(c.bytes)
             lt == Len(Tail(h.bytes))
  <2>4. lh = lc - j /\ lc \in Nat /\ lt = lh - 1 /\ lh \in Nat /\ lt = 0
    BY <1>5, <1>8, <2>1, <2>3
  <2> HIDE DEF lh, lc, lt
  <2>5. lc = j + 1
    BY <2>4
  <2> QED
    BY <2>5 DEF lc
<1>10. /\ Tail(s) \in Seq(Calls) /\ Len(Tail(s)) = Len(s) - 1
       /\ \A k \in 1..(Len(s) - 1) : Tail(s)[k] = s[k + 1]
  BY <1>1, Rest
<1> DEFINE r == Tail(s)
<1> HIDE DEF s
<1>11. Len(calls) \in Nat /\ Len(s) \in Nat
  BY <1>1, <1>4
<1>12. r # << >>
  <2>1. Len(r) = Len(s) - 1 /\ Len(s) = Len(calls) - n /\ n + 1 < Len(calls)
    BY <1>5, <1>6, <1>10
  <2> HIDE DEF r
  <2>2. Len(r) # 0
    BY <1>11, <2>1
  <2> QED
    BY <2>2
<1>13. Head(r) = r[1]
  BY <1>10, <1>12, Rest
<1> HIDE DEF r
<1>14. /\ Len(r) = Len(calls) - i
       /\ Head(r) = calls[i + 1]
       /\ \A k \in 2..Len(r) : r[k] = calls[i + k]
  <2>1. Len(r) = Len(calls) - i /\ Len(r) = Len(s) - 1 /\ Len(s) >= 2
    BY <1>5, <1>6, <1>10, <1>11 DEF r
  <2>2. Head(r) = s[2]
    BY <1>10, <1>11, <1>13, <2>1 DEF r
  <2>3. s[2] = calls[n + 2] /\ n + 2 = i + 1
    BY <1>5, <1>11, <2>1
  <2>4. ASSUME NEW k \in 2..Len(r) PROVE r[k] = calls[i + k]
    <3>1. k \in 1..(Len(s) - 1) /\ k + 1 \in 2..Len(s) /\ n + (k + 1) = i + k
      BY <1>11, <2>1
    <3>2. r[k] = s[k + 1]
      BY <1>10, <3>1 DEF r
    <3>3. s[k + 1] = calls[n + (k + 1)]
      BY <1>5, <3>1
    <3> QED
      BY <3>1, <3>2, <3>3
  <2> QED
    BY <2>1, <2>2, <2>3, <2>4
<1>15. taken' = SaidBefore(calls, i) \o SaidPart(calls[i + 1], 0)
  <2>1. taken = SaidBefore(calls, i)
    BY <1>4, <1>5, <1>9, SaidAdds
  <2>2. SaidBefore(calls, i) \o SaidPart(calls[i + 1], 0) = SaidBefore(calls, i)
    <3>1. i \in Nat
      OBVIOUS
    <3> HIDE DEF i
    <3> QED
      BY <1>4, <1>6, <3>1, SaidAdds
  <2> QED
    BY <1>1, <2>1, <2>2
<1>16. Standing(t, calls, i, 0)'
  <2>1. script'[t] = r
    BY <1>1 DEF r, s
  <2> HIDE DEF i
  <2> QED
    BY <1>1, <1>2, <1>3, <1>6, <1>14, <1>15, <2>1 DEF Standing
<1> QED
  BY <1>16 DEF calls

\* One byte of a block has been taken and the next is due.
LEMMA LoneGoesOn ==
    ASSUME TftInv, NEW t \in Tft!Tasks, NEW blocks \in Blocks[t], NEW n \in Nat, NEW j \in Nat,
           Standing(t, Tft!Drawing(blocks), n, j), Tft!Flush(t),
           Tail(Head(script[t]).bytes) # << >>,
           \A u \in Tft!Tasks \ {t} : Tft!Idle(u)
    PROVE  Standing(t, Tft!Drawing(blocks), n, j + 1)'
<1> DEFINE calls == Tft!Drawing(blocks)
           s == script[t]
           c == calls[n + 1]
           h == Head(s)
           x == [h EXCEPT !.bytes = Tail(h.bytes)]
           r == <<x>> \o Tail(s)
<1>1. /\ drawPc[t] = "flush" /\ s # << >> /\ s \in Seq(Calls) /\ turn = t
      /\ script'[t] = r /\ drawPc' = [drawPc EXCEPT ![t] = "ready"]
      /\ tftData' = tftData /\ tftShift' = tftShift /\ dataPin' = dataPin
      /\ selected' = selected /\ taken' = taken
  BY DEF Tft!Flush, Tft!ByteDone, Tft!At, Tft!Call, Tft!Goto, Tft!Idle, Tft!Read, Tft!port,
         Tft!pins, Tft!history, TftInv, TftTypes
<1>2. Sending(t) /\ Sending(t)' /\ Tft!Owing(t) /\ ~Tft!Owing(t)'
  BY <1>1 DEF Sending, Tft!Owing, TftInv, TftTypes
<1>3. tftData = Empty /\ tftShift = Empty
  <2>1. tftReceived # << >>
    BY <1>1 DEF TftInv, TurnFound
  <2> QED
    BY <2>1, LoneOwes
<1>4. /\ n < Len(calls) /\ Len(s) = Len(calls) - n
      /\ \A k \in 2..Len(s) : s[k] = calls[n + k]
      /\ c \in Sends /\ dataPin = c.asData /\ h.asData = c.asData
      /\ Len(h.bytes) = Len(c.bytes) - j
      /\ \A k \in 1..Len(h.bytes) : h.bytes[k] = c.bytes[j + k]
      /\ n >= 1 => (selected <=> n \notin {4, 8})
      /\ taken = SaidBefore(calls, n) \o SaidPart(c, j + 1)
  BY <1>2, <1>3 DEF Standing
<1> HIDE DEF calls
<1>5. h \in Sends
  BY <1>1 DEF TftInv, InBlock
<1>6. h.bytes \in Seq(Tft!Byte) /\ h.bytes # << >> /\ Len(c.bytes) \in Nat
  BY <1>4, <1>5 DEF Sends
<1>7. /\ Tail(h.bytes) \in Seq(Tft!Byte) /\ Len(Tail(h.bytes)) = Len(h.bytes) - 1
      /\ \A k \in 1..(Len(h.bytes) - 1) : Tail(h.bytes)[k] = h.bytes[k + 1]
      /\ Len(h.bytes) \in Nat \ {0}
  BY <1>6, Rest
<1>8. x \in Calls /\ x.bytes = Tail(h.bytes) /\ x.asData = h.asData
  <2>1. Tail(h.bytes) # << >>
    OBVIOUS
  <2> QED
    BY <1>5, <1>7, <2>1 DEF Sends, Calls
<1> HIDE DEF x
<1>9. Len(r) = Len(s) /\ Head(r) = x /\ \A k \in 2..Len(s) : r[k] = s[k]
  BY <1>1, <1>8, NewHead
<1> HIDE DEF r, s, h, c
<1>10. /\ Len(x.bytes) = Len(c.bytes) - (j + 1)
       /\ \A k \in 1..Len(x.bytes) : x.bytes[k] = c.bytes[(j + 1) + k]
  <2>1. Len(x.bytes) = Len(h.bytes) - 1
    BY <1>7, <1>8
  <2>2. ASSUME NEW k \in 1..Len(x.bytes) PROVE x.bytes[k] = c.bytes[(j + 1) + k]
    <3>1. k \in 1..(Len(h.bytes) - 1) /\ k + 1 \in 1..Len(h.bytes) /\ j + (k + 1) = (j + 1) + k
      BY <1>7, <2>1
    <3>2. x.bytes[k] = h.bytes[k + 1] /\ h.bytes[k + 1] = c.bytes[j + (k + 1)]
      BY <1>4, <1>7, <1>8, <3>1
    <3> QED
      BY <3>1, <3>2
  <2>3. Len(h.bytes) = Len(c.bytes) - j
    BY <1>4
  <2> QED
    BY <1>6, <1>7, <2>1, <2>2, <2>3
<1>11. /\ Len(r) = Len(calls) - n
       /\ \A k \in 2..Len(r) : r[k] = calls[n + k]
       /\ x.asData = c.asData
  BY <1>4, <1>8, <1>9
<1>12. Standing(t, calls, n, j + 1)'
  <2> DEFINE j1 == j + 1
  <2>1. Len(x.bytes) = Len(c.bytes) - j1 /\ taken = SaidBefore(calls, n) \o SaidPart(c, j1)
    BY <1>4, <1>10
  <2>2. \A k \in 1..Len(x.bytes) : x.bytes[k] = c.bytes[j1 + k]
    BY <1>10
  <2>3. script'[t] = r /\ Head(r) = x
    BY <1>1, <1>9
  <2> HIDE DEF j1
  <2>4. Standing(t, calls, n, j1)'
    BY <1>1, <1>2, <1>3, <1>4, <1>11, <2>1, <2>2, <2>3 DEF Standing, c
  <2> QED
    BY <2>4 DEF j1
<1> QED
  BY <1>12 DEF calls

\* Nothing is drawn, let alone by itself.
LEMMA LoneInit == Init => LoneInv
  BY DEF Init, Tft!Init, LoneInv, Tft!Idle

\* A step of a task itself, and what becomes of its lone drawing.
LEMMA LoneTaskSteps ==
    ASSUME TftInv, NEW t \in Tft!Tasks, NEW blocks \in Blocks[t], NEW n \in Nat, NEW j \in Nat,
           Standing(t, Tft!Drawing(blocks), n, j), ~Tft!Idle(t), ~Tft!Idle(t)',
           \A u \in Tft!Tasks \ {t} : Tft!Idle(u), Tft!TaskStep(t)
    PROVE  \E n1, j1 \in Nat : Standing(t, Tft!Drawing(blocks), n1, j1)'
<1>1. Tft!Drawing(blocks) \in Seq(Calls)
  BY DrawingShape
<1>2. n + 1 \in Nat /\ j + 1 \in Nat /\ 0 \in Nat
  OBVIOUS
<1>3. CASE Tft!Select(t)
  BY <1>2, <1>3, LoneSelects
<1>4. CASE Tft!SetPin(t)
  BY <1>1, <1>4, LoneSetsPin
<1>5. CASE Tft!AwaitReady(t) \/ Tft!AwaitByte(t) \/ Tft!AwaitComplete(t)
  BY <1>5, LoneWaits
<1>6. CASE Tft!WriteByte(t)
  BY <1>6, LoneWrites
<1>7. CASE Tft!Flush(t)
  <2>1. CASE Tail(Head(script[t]).bytes) = << >>
    BY <1>2, <1>7, <2>1, LoneEndsBlock
  <2>2. CASE Tail(Head(script[t]).bytes) # << >>
    BY <1>2, <1>7, <2>2, LoneGoesOn
  <2> QED
    BY <2>1, <2>2
<1> QED
  BY <1>3, <1>4, <1>5, <1>6, <1>7 DEF Tft!TaskStep

\* A task steps only in its own drawing.
LEMMA OwnStep ==
    ASSUME TftInv, NEW t \in Tft!Tasks, Tft!TaskStep(t)
    PROVE  /\ ~Tft!Idle(t) /\ alone' = alone
           /\ \A u \in Tft!Tasks \ {t} : script'[u] = script[u]
<1> USE DEF Tft!TaskStep, Tft!At, Tft!history
<1>1. ~Tft!Idle(t) /\ alone' = alone
  BY DEF Tft!Select, Tft!SetPin, Tft!AwaitReady, Tft!WriteByte, Tft!AwaitByte, Tft!Flush,
         Tft!AwaitComplete
<1>2. ASSUME NEW u \in Tft!Tasks \ {t} PROVE script'[u] = script[u]
  <2>1. script \in [Tft!Tasks -> Seq(Calls)]
    BY DEF TftInv, TftTypes
  <2>2. CASE Tft!Flush(t)
    BY <2>1, <2>2 DEF Tft!Flush, Tft!ByteDone
  <2>3. CASE Tft!Select(t)
    BY <2>1, <2>3 DEF Tft!Select
  <2> QED
    BY <2>2, <2>3 DEF Tft!SetPin, Tft!AwaitReady, Tft!WriteByte, Tft!AwaitByte,
                      Tft!AwaitComplete
<1> QED
  BY <1>1, <1>2

\* Every step on the display's bus keeps lone drawings exact so far.
LEMMA LoneStep == TftInv /\ LoneInv /\ Tft!Next => LoneInv'
<1> SUFFICES ASSUME TftInv, LoneInv, Tft!Next PROVE LoneInv'
  OBVIOUS
<1>1. script \in [Tft!Tasks -> Seq(Calls)] /\ alone \in [Tft!Tasks -> BOOLEAN]
  BY DEF TftInv, TftTypes, LoneInv
<1>2. ASSUME NEW t \in Tft!Tasks, alone[t], ~Tft!Idle(t)
      PROVE  /\ \A u \in Tft!Tasks \ {t} : Tft!Idle(u)
             /\ \E blocks \in Blocks[t], n, j \in Nat : Standing(t, Tft!Drawing(blocks), n, j)
  BY <1>2 DEF LoneInv
<1>3. ASSUME NEW u \in Tft!Tasks, Tft!TaskStep(u)
      PROVE  LoneInv'
  <2>1. /\ ~Tft!Idle(u) /\ alone' = alone
        /\ \A v \in Tft!Tasks \ {u} : script'[v] = script[v]
    BY <1>3, OwnStep
  <2>2. \A v \in Tft!Tasks : ~Tft!Idle(v)' => ~Tft!Idle(v)
    BY <2>1 DEF Tft!Idle
  <2>3. ASSUME NEW t \in Tft!Tasks, alone'[t], ~Tft!Idle(t)'
        PROVE  /\ \A v \in Tft!Tasks \ {t} : Tft!Idle(v)'
               /\ \E blocks \in Blocks[t], n, j \in Nat : Standing(t, Tft!Drawing(blocks), n, j)'
    <3>1. alone[t] /\ ~Tft!Idle(t)
      BY <2>1, <2>2, <2>3
    <3>2. \A v \in Tft!Tasks \ {t} : Tft!Idle(v)
      BY <1>2, <3>1
    <3>3. u = t
      BY <2>1, <3>2
    <3>4. PICK blocks \in Blocks[t], n, j \in Nat : Standing(t, Tft!Drawing(blocks), n, j)
      BY <1>2, <3>1
    <3>5. \E n1, j1 \in Nat : Standing(t, Tft!Drawing(blocks), n1, j1)'
      BY <1>3, <2>3, <3>1, <3>2, <3>3, <3>4, LoneTaskSteps
    <3>6. \A v \in Tft!Tasks \ {t} : Tft!Idle(v)'
      BY <2>1, <3>2, <3>3 DEF Tft!Idle
    <3> QED
      BY <3>5, <3>6
  <2> QED
    BY <1>1, <2>1, <2>3 DEF LoneInv
<1>4. ASSUME NEW u \in Tft!Tasks, NEW blocks \in Blocks[u], Tft!Begin(u, blocks)
      PROVE  LoneInv'
  <2>1. /\ script' = [script EXCEPT ![u] = Tft!Drawing(blocks)]
        /\ alone' = [v \in Tft!Tasks |-> v = u /\ \A w \in Tft!Tasks \ {v} : Tft!Idle(w)]
    BY <1>4 DEF Tft!Begin
  <2>2. \A v \in Tft!Tasks : alone'[v] => v = u /\ \A w \in Tft!Tasks \ {v} : Tft!Idle(w)
    BY <2>1
  <2>3. alone' \in [Tft!Tasks -> BOOLEAN]
    BY <2>1
  <2>4. ASSUME NEW t \in Tft!Tasks, alone'[t], ~Tft!Idle(t)'
        PROVE  /\ \A v \in Tft!Tasks \ {t} : Tft!Idle(v)'
               /\ \E b \in Blocks[t], n, j \in Nat : Standing(t, Tft!Drawing(b), n, j)'
    <3>1. t = u /\ \A v \in Tft!Tasks \ {t} : Tft!Idle(v)
      BY <2>2, <2>4
    <3>2. \A v \in Tft!Tasks \ {t} : Tft!Idle(v)'
      BY <1>1, <2>1, <3>1 DEF Tft!Idle
    <3>3. Standing(t, Tft!Drawing(blocks), 0, 0)'
      BY <1>4, <3>1, LoneBegins
    <3> QED
      BY <3>1, <3>2, <3>3
  <2> QED
    BY <2>3, <2>4 DEF LoneInv
<1>5. CASE Tft!LoadByte \/ Tft!ByteShifted \/ Tft!Switch
  <2>1. UNCHANGED <<script, alone>>
    BY <1>5 DEF Tft!LoadByte, Tft!ByteShifted, Tft!Switch, Tft!history
  <2>2. ASSUME NEW t \in Tft!Tasks, alone'[t], ~Tft!Idle(t)'
        PROVE  /\ \A v \in Tft!Tasks \ {t} : Tft!Idle(v)'
               /\ \E b \in Blocks[t], n, j \in Nat : Standing(t, Tft!Drawing(b), n, j)'
    <3>1. alone[t] /\ ~Tft!Idle(t)
      BY <2>1, <2>2 DEF Tft!Idle
    <3>2. PICK blocks \in Blocks[t], n, j \in Nat : Standing(t, Tft!Drawing(blocks), n, j)
      BY <1>2, <3>1
    <3>3. \A v \in Tft!Tasks \ {t} : Tft!Idle(v)
      BY <1>2, <3>1
    <3>4. Standing(t, Tft!Drawing(blocks), n, j)'
      BY <1>5, <3>1, <3>2, <3>3, LoneLoads, LoneShifts, LoneWaits
    <3> QED
      BY <2>1, <3>3, <3>4 DEF Tft!Idle
  <2> QED
    BY <1>1, <2>1, <2>2 DEF LoneInv
<1> QED
  BY <1>3, <1>4, <1>5 DEF Tft!Next

\* All that is meant is what was said before the drawing's last call.
LEMMA MeantSoFar ==
    ASSUME NEW t \in Tft!Tasks, NEW blocks \in Blocks[t]
    PROVE  LET calls == Tft!Drawing(blocks)
           IN  Tft!Meant(calls) = SaidBefore(calls, Len(calls) - 1)
<1> DEFINE calls == Tft!Drawing(blocks)
           said  == [i \in 1..Len(calls) |-> Tft!Said(calls[i])]
           N     == Len(calls)
<1>1. /\ calls \in Seq(Calls) /\ N \in Nat /\ N >= 11
      /\ calls[N] = Tft!DeselectCall
  BY DrawingShape
<1>2. Len(said) = N
  BY <1>1
<1>3. Tft!Meant(calls) = Flattened(said)[N]
  <2>1. Tft!Meant(calls) = FlattenSeq(said)
    BY DEF Tft!Meant, Tft!FlattenSeq, FlattenSeq
  <2>2. FlattenSeq(said) = Flattened(said)[Len(said)]
    <3>1. Len(said) # 0
      BY <1>1, <1>2
    <3> HIDE DEF said
    <3> QED
      BY <3>1, FlattenSeqIs
  <2> QED
    BY <1>2, <2>1, <2>2
<1>4. SaidBefore(calls, N) = Flattened(said)[N]
  BY <1>1 DEF SaidBefore
<1>5. SaidBefore(calls, N) = SaidBefore(calls, N - 1)
  <2>1. N - 1 \in Nat /\ N - 1 < Len(calls) /\ (N - 1) + 1 = N
    BY <1>1
  <2>2. calls[N] \notin Sends
    BY <1>1 DEF Sends, Tft!DeselectCall
  <2> HIDE DEF calls
  <2> DEFINE k == N - 1
  <2>3. k \in Nat /\ k < Len(calls) /\ k + 1 = N /\ calls[k + 1] \notin Sends
    BY <2>1, <2>2
  <2>4. calls \in Seq(Calls)
    BY <1>1
  <2> HIDE DEF k
  <2>5. SaidBefore(calls, k + 1) = SaidBefore(calls, k)
    BY <2>3, <2>4, SaidAdds
  <2> QED
    BY <2>3, <2>5 DEF k
<1> QED
  BY <1>3, <1>4, <1>5

\* At a lone drawing's last call the controller has taken what was meant.
LEMMA LoneIsExact == TftInv /\ LoneInv => LoneDrawingIsExact
<1> SUFFICES ASSUME TftInv, LoneInv, NEW t \in Tft!Tasks, alone[t],
                    script[t] = <<Tft!DeselectCall>>, drawPc[t] = "call"
             PROVE  \E blocks \in Blocks[t] : taken = Tft!Meant(Tft!Drawing(blocks))
  BY DEF LoneDrawingIsExact, Tft!LoneDrawingIsExact
<1>1. PICK blocks \in Blocks[t], n, j \in Nat : Standing(t, Tft!Drawing(blocks), n, j)
  BY DEF LoneInv, Tft!Idle
<1> DEFINE calls == Tft!Drawing(blocks)
<1>2. calls \in Seq(Calls) /\ Len(calls) \in Nat
  BY DrawingShape
<1>3. ~Sending(t) /\ ~Tft!Owing(t)
  BY DEF Sending, Tft!Owing
<1> HIDE DEF calls
<1>4. /\ Len(script[t]) = Len(calls) - n /\ n < Len(calls)
      /\ taken = SaidBefore(calls, n) \o SaidPart(calls[n + 1], 0)
  BY <1>1, <1>3 DEF Standing, calls
<1>5. n = Len(calls) - 1
  <2>1. Len(script[t]) = 1
    OBVIOUS
  <2> QED
    BY <1>2, <1>4, <2>1
<1>6. taken = SaidBefore(calls, n)
  BY <1>2, <1>4, SaidAdds
<1>7. Tft!Meant(calls) = SaidBefore(calls, Len(calls) - 1)
  BY MeantSoFar DEF calls
<1> QED
  BY <1>5, <1>6, <1>7 DEF calls

---------------------------------------------------------------------------
(* What holds on both buses in every state.  *)

BusesInv == ConverterInv /\ TftInv /\ GenuineInv /\ LoneInv

\* Neither bus's steps disturb the other.
LEMMA BusesStep == BusesInv /\ [Next]_vars => BusesInv'
<1> SUFFICES ASSUME BusesInv, [Next]_vars PROVE BusesInv'
  OBVIOUS
<1>1. ASSUME UNCHANGED converterVars PROVE (ConverterInv /\ GenuineInv)'
  <2>1. ConverterInv'
    BY <1>1 DEF BusesInv, converterVars, ConverterInv, ConverterTypes, SensorFound, CdcFound,
           Converters!BytesBalance, Converters!InTransit, Converters!Owing
  <2>2. (ReadingTypes /\ LinesAreHeld /\ KeptOff /\ BuffersEmptied)'
    BY <1>1 DEF BusesInv, converterVars, GenuineInv, ReadingTypes, LinesAreHeld, KeptOff,
                BuffersEmptied, Converters!OnPort
  <2>3. \A t \in Converters!Tasks : WordSoFar(t)' <=> WordSoFar(t)
    BY <1>1 DEF converterVars, WordSoFar, NextByteComes
  <2>4. GenuineWhenAlone'
    BY <1>1 DEF BusesInv, converterVars, GenuineInv, GenuineWhenAlone,
                Converters!GenuineWhenAlone, Converters!Word
  <2> QED
    BY <1>1, <2>1, <2>2, <2>3, <2>4 DEF BusesInv, converterVars, GenuineInv, Converters!OnPort
<1>2. ASSUME UNCHANGED tftVars PROVE (TftInv /\ LoneInv)'
  <2>1. TftInv'
    BY <1>2 DEF BusesInv, tftVars, TftInv, TftTypes, InBlock, TurnFound,
                Tft!BytesBalance, Tft!InTransit, Tft!Owing
  <2>2. \A t \in Tft!Tasks : \A calls, n, j : Standing(t, calls, n, j)' <=> Standing(t, calls, n, j)
    BY <1>2 DEF tftVars, Standing, Sending, Tft!Owing
  <2>3. /\ alone' = alone
        /\ \A t \in Tft!Tasks : Tft!Idle(t)' <=> Tft!Idle(t)
    BY <1>2 DEF tftVars, Tft!Idle
  <2> QED
    BY <2>1, <2>2, <2>3 DEF BusesInv, LoneInv
<1>3. CASE ReadsConverters
  BY <1>2, <1>3, ConverterStep, GenuineStep DEF BusesInv, ReadsConverters
<1>4. CASE FillsScreen
  BY <1>1, <1>4, TftStep, LoneStep DEF BusesInv, FillsScreen
<1>5. CASE UNCHANGED vars
  BY <1>1, <1>2, <1>5 DEF BusesInv, vars
<1> QED
  BY <1>3, <1>4, <1>5 DEF Next

\* Four parts: the bytes on each port, the readings and the drawings.
THEOREM BusesInvariant == Spec => []BusesInv
<1>1. Init => BusesInv
  BY ConverterInit, TftInit, GenuineInit, LoneInit DEF BusesInv
<1> QED
  BY <1>1, BusesStep, PTL DEF Spec

\* On neither bus is a byte ever lost to a full register or a full buffer,
\* or left behind for the next reading or drawing.
THEOREM BytesAlwaysBalance == Spec => []BytesBalance
<1>1. BusesInv => BytesBalance
  BY DEF BusesInv, ConverterInv, TftInv, BytesBalance
<1> QED
  BY <1>1, BusesInvariant, PTL

\* Whatever collided on the converters' bus before, a word read while the
\* other task kept off the port is whole and of the converter asked for
\* (Max31855.c:32-46): for words of every length.
THEOREM ReadingsGenuineWhenAlone == Spec => []GenuineWhenAlone
<1>1. BusesInv => GenuineWhenAlone
  BY DEF BusesInv, GenuineInv
<1> QED
  BY <1>1, BusesInvariant, PTL

\* Whatever collided on the display's bus before, a drawing that no other one
\* overlaps reaches the controller whole, in order, commands as commands and
\* data as data (Sitronix7735.c): for windows and drawings of every size.
THEOREM LoneDrawingsAreExact == Spec => []LoneDrawingIsExact
<1>1. BusesInv => LoneDrawingIsExact
  BY LoneIsExact DEF BusesInv
<1> QED
  BY <1>1, BusesInvariant, PTL

---------------------------------------------------------------------------
(***************************************************************************)
(* What max31855ReadData makes of the four bytes it gets from a converter, *)
(* of every word a converter can send.  The run of module Reading reads a  *)
(* dozen temperatures; this is about all of them.                          *)
(***************************************************************************)

\* The two bytes of a half word put together again.
LEMMA HalfWord ==
    ASSUME NEW h \in Int
    PROVE  256 * (h \div 256) + (h % 256) = h
    BY SMT

\* A temperature survives being stored in fourteen bits, an internal one in
\* twelve.
LEMMA SignedTemp ==
    ASSUME NEW t \in Signed14
    PROVE  /\ t % 16384 \in Int
           /\ Signed(t % 16384, 8192) = t
<1>0. t \in Int /\ -8192 <= t /\ t <= 8191
  BY SMT DEF Signed14
<1>1. CASE t >= 0
  <2>1. t % 16384 = t
    BY <1>0, <1>1, SMT
  <2> QED
    BY <1>0, <1>1, <2>1, SMT DEF Signed
<1>2. CASE t < 0
  <2>1. t % 16384 = t + 16384
    BY <1>0, <1>2, SMT
  <2> QED
    BY <1>0, <1>2, <2>1, SMT DEF Signed
<1> QED
  BY <1>0, <1>1, <1>2, SMT

\* The same for the internal temperature's twelve bits.
LEMMA SignedInternal ==
    ASSUME NEW t \in Signed12
    PROVE  /\ t % 4096 \in Int
           /\ Signed(t % 4096, 2048) = t
<1>0. t \in Int /\ -2048 <= t /\ t <= 2047
  BY SMT DEF Signed12
<1>1. CASE t >= 0
  <2>1. t % 4096 = t
    BY <1>0, <1>1, SMT
  <2> QED
    BY <1>0, <1>1, <2>1, SMT DEF Signed
<1>2. CASE t < 0
  <2>1. t % 4096 = t + 4096
    BY <1>0, <1>2, SMT
  <2> QED
    BY <1>0, <1>2, <2>1, SMT DEF Signed
<1> QED
  BY <1>0, <1>1, <1>2, SMT

\* A flag is one bit.
LEMMA BitType ==
    ASSUME NEW b \in BOOLEAN
    PROVE  Bit(b) \in 0..1 /\ (Bit(b) = 1 <=> b)
    BY SMT DEF Bit

\* The fields of the upper half word.
LEMMA UpperFields ==
    ASSUME NEW f \in Int, NEW b \in 0..1
    PROVE  /\ (4 * f + b) \in Int
           /\ (4 * f + b) \div 4 = f
           /\ ((4 * f + b) % 256) % 2 = b
    BY SMT

\* The fields of the lower half word.
LEMMA LowerFields ==
    ASSUME NEW f \in Int, NEW c \in 0..1, NEW g \in 0..1, NEW o \in 0..1
    PROVE  /\ (16 * f + 4 * c + 2 * g + o) \in Int
           /\ (16 * f + 4 * c + 2 * g + o) \div 16 = f
           /\ (16 * f + 4 * c + 2 * g + o) % 2 = o
           /\ ((16 * f + 4 * c + 2 * g + o) \div 2) % 2 = g
           /\ ((16 * f + 4 * c + 2 * g + o) \div 4) % 2 = c
<1>1. (16 * f + 4 * c + 2 * g + o) \div 16 = f
  BY SMT
<1>2. (16 * f + 4 * c + 2 * g + o) % 2 = o
  BY SMT
<1>3. (16 * f + 4 * c + 2 * g + o) \div 2 = 8 * f + 2 * c + g
  BY SMT
<1>4. (16 * f + 4 * c + 2 * g + o) \div 4 = 4 * f + c
  BY SMT
<1>5. (8 * f + 2 * c + g) % 2 = g /\ (4 * f + c) % 2 = c
  BY SMT
<1>6. (16 * f + 4 * c + 2 * g + o) \in Int
  BY SMT
<1> QED
  BY <1>1, <1>2, <1>3, <1>4, <1>5, <1>6

\* max31855ReadData undoes what the converter packed.
LEMMA Decoding ==
    ASSUME NEW m \in Measurement
    PROVE  LET b == SpiBytes(m)
               low == LowerHalf(m)
           IN  /\ Unpacked(b) = [Temp |-> m.temp,
                                 InternalTemp |-> m.internal,
                                 FailureType |-> FailureType(low)]
               /\ FaultBit(b) <=> Faulty(m)
               /\ low % 2 = 1 <=> m.OC
               /\ (low \div 2) % 2 = 1 <=> m.SVG
               /\ (low \div 4) % 2 = 1 <=> m.SVC
<1> DEFINE t == m.temp % 16384
           i == m.internal % 4096
           up == UpperHalf(m)
           low == LowerHalf(m)
<1>1. /\ m.temp \in Signed14 /\ m.internal \in Signed12
      /\ m.OC \in BOOLEAN /\ m.SVG \in BOOLEAN /\ m.SVC \in BOOLEAN
  BY DEF Measurement
<1>2. t \in Int /\ Signed(t, 8192) = m.temp
  BY <1>1, SignedTemp
<1>3. i \in Int /\ Signed(i, 2048) = m.internal
  BY <1>1, SignedInternal
<1>4. /\ Bit(m.OC) \in 0..1 /\ (Bit(m.OC) = 1 <=> m.OC)
      /\ Bit(m.SVG) \in 0..1 /\ (Bit(m.SVG) = 1 <=> m.SVG)
      /\ Bit(m.SVC) \in 0..1 /\ (Bit(m.SVC) = 1 <=> m.SVC)
  BY <1>1, BitType
<1>5. Bit(Faulty(m)) \in 0..1 /\ (Bit(Faulty(m)) = 1 <=> Faulty(m))
  <2>1. Faulty(m) \in BOOLEAN
    BY <1>1 DEF Faulty
  <2> QED
    BY <2>1, BitType
<1>6. /\ up \in Int /\ up \div 4 = t
      /\ (up % 256) % 2 = Bit(Faulty(m))
  <2>1. up = 4 * t + Bit(Faulty(m))
    BY DEF UpperHalf
  <2> HIDE DEF t, up
  <2> QED
    BY <1>2, <1>5, <2>1, UpperFields
<1>7. /\ low \in Int /\ low \div 16 = i
      /\ low % 2 = Bit(m.OC)
      /\ (low \div 2) % 2 = Bit(m.SVG)
      /\ (low \div 4) % 2 = Bit(m.SVC)
  <2> DEFINE c == Bit(m.SVC)
             g == Bit(m.SVG)
             o == Bit(m.OC)
  <2>1. low = 16 * i + 4 * c + 2 * g + o
    BY DEF LowerHalf
  <2>2. i \in Int /\ c \in 0..1 /\ g \in 0..1 /\ o \in 0..1
    BY <1>3, <1>4
  <2> HIDE DEF i, low, c, g, o
  <2>3. low \in Int /\ low \div 16 = i
    BY <2>1, <2>2, LowerFields
  <2>4. low % 2 = o /\ (low \div 2) % 2 = g
    BY <2>1, <2>2, LowerFields
  <2>5. (low \div 4) % 2 = c
    BY <2>1, <2>2, LowerFields
  <2> QED
    BY <2>3, <2>4, <2>5 DEF c, g, o
<1>8. /\ SpiBytes(m)[1] = up \div 256 /\ SpiBytes(m)[2] = up % 256
      /\ SpiBytes(m)[3] = low \div 256 /\ SpiBytes(m)[4] = low % 256
  BY DEF SpiBytes
<1>9. /\ 256 * SpiBytes(m)[1] + SpiBytes(m)[2] = up
      /\ 256 * SpiBytes(m)[3] + SpiBytes(m)[4] = low
  BY <1>6, <1>7, <1>8, HalfWord
<1>10. Unpacked(SpiBytes(m)) = [Temp |-> m.temp,
                                InternalTemp |-> m.internal,
                                FailureType |-> FailureType(low)]
  BY <1>2, <1>3, <1>6, <1>7, <1>9 DEF Unpacked
<1>11. FaultBit(SpiBytes(m)) <=> Faulty(m)
  BY <1>5, <1>6, <1>8 DEF FaultBit
<1> QED
  BY <1>4, <1>7, <1>10, <1>11

\* So a converter that is read gives what it measured.
LEMMA ReadMatches ==
    ASSUME NEW m \in Measurements
    PROVE  LET d == Unpacked(SpiBytes(m))
               sound == ~FaultBit(SpiBytes(m))
           IN  /\ d.Temp = m.temp
               /\ d.InternalTemp = m.internal
               /\ sound <=> ~Faulty(m)
               /\ d.FailureType = "OK" <=> sound
               /\ d.FailureType = "OpenFault" => m.OC
               /\ d.FailureType = "ShortCircuiteToGND" => m.SVG
               /\ d.FailureType = "ShortCircuiteToVCC" => m.SVC
<1> DEFINE low == LowerHalf(m)
           d == Unpacked(SpiBytes(m))
<1>1. m \in Measurement
  BY MeasurementAssumption
<1>2. /\ d = [Temp |-> m.temp, InternalTemp |-> m.internal,
              FailureType |-> FailureType(low)]
      /\ FaultBit(SpiBytes(m)) <=> Faulty(m)
      /\ low % 2 = 1 <=> m.OC
      /\ (low \div 2) % 2 = 1 <=> m.SVG
      /\ (low \div 4) % 2 = 1 <=> m.SVC
  BY <1>1, Decoding
<1> HIDE DEF low, d
<1>3. /\ d.Temp = m.temp /\ d.InternalTemp = m.internal
      /\ d.FailureType = FailureType(low)
  BY <1>2
<1>4. /\ FailureType(low) = "OK" <=> ~Faulty(m)
      /\ FailureType(low) = "OpenFault" => m.OC
      /\ FailureType(low) = "ShortCircuiteToGND" => m.SVG
      /\ FailureType(low) = "ShortCircuiteToVCC" => m.SVC
  BY <1>2 DEF FailureType, Faulty
<1> QED
  BY <1>2, <1>3, <1>4 DEF d

\* In every state, whatever a converter measured or its flags said, the
\* temperatures of max31855ReadData are those measured and the fault it
\* reports is one there is (Max31855.c:38-54).
THEOREM DataAlwaysMatches == ReadingSpec => []DataMatches
<1>1. ReadingInit => DataMatches
  BY ReadMatches DEF ReadingInit, DataMatches
<1>2. DataMatches /\ [ReadingNext]_readingVars => DataMatches'
  <2> SUFFICES ASSUME DataMatches, [ReadingNext]_readingVars
               PROVE  DataMatches'
    OBVIOUS
  <2>1. ASSUME NEW m \in Measurements, ReadData(m)
        PROVE  DataMatches'
    BY <2>1, ReadMatches DEF ReadData, DataMatches
  <2>2. CASE UNCHANGED <<measured, valid, data>>
    BY <2>2 DEF DataMatches
  <2> QED
    BY <2>1, <2>2 DEF ReadingNext, DrawData, DrawError, DrawLevel, readingVars
<1> QED
  BY <1>1, <1>2, PTL DEF ReadingSpec

---------------------------------------------------------------------------
(* intToStr: the recursive function exists.  *)

DigitsUpTo(g, k) ==
    g = [x \in 0..k |-> IF x = 0 THEN << >> ELSE Append(g[x \div 10], Zero + (x % 10))]

LEMMA TenthIsLess ==
    ASSUME NEW x \in Nat, x # 0
    PROVE  /\ x \div 10 \in 0..(x - 1) /\ x % 10 \in 0..9
           /\ x = 10 * (x \div 10) + (x % 10)
BY SMT

\* Two of them agree where both are defined.
LEMMA DigitsAgree ==
    ASSUME NEW k \in Nat, NEW l \in Nat, NEW g, NEW h,
           DigitsUpTo(g, k), DigitsUpTo(h, l), NEW n \in Nat, n <= k, n <= l
    PROVE  g[n] = h[n]
<1> DEFINE S == {m \in 0..n : \A i \in 0..m : g[i] = h[i]}
<1>1. \A x \in 0..n : /\ g[x] = IF x = 0 THEN << >> ELSE Append(g[x \div 10], Zero + (x % 10))
                      /\ h[x] = IF x = 0 THEN << >> ELSE Append(h[x \div 10], Zero + (x % 10))
  <2>1. \A x \in 0..k : g[x] = IF x = 0 THEN << >> ELSE Append(g[x \div 10], Zero + (x % 10))
    BY Zenon DEF DigitsUpTo
  <2>2. \A x \in 0..l : h[x] = IF x = 0 THEN << >> ELSE Append(h[x \div 10], Zero + (x % 10))
    BY Zenon DEF DigitsUpTo
  <2>3. \A x \in 0..n : x \in 0..k /\ x \in 0..l
    BY SMT
  <2> QED
    BY <2>1, <2>2, <2>3, Zenon
<1>2. 0 \in S
  <2>1. 0 \in 0..n /\ \A i \in 0..0 : i = 0
    OBVIOUS
  <2>2. g[0] = h[0]
    BY <1>1, <2>1
  <2> QED
    BY <2>1, <2>2
<1>3. ASSUME NEW m \in S, m < n
      PROVE  m + 1 \in S
  <2>1. m + 1 \in 0..n /\ m \in Nat /\ \A i \in 0..m : g[i] = h[i]
    BY <1>3
  <2> HIDE DEF S
  <2>2. (m + 1) \div 10 \in 0..m
    BY <2>1, TenthIsLess
  <2>3. g[m + 1] = h[m + 1]
    BY <1>1, <2>1, <2>2, Zenon
  <2>4. \A i \in 0..(m + 1) : i \in 0..m \/ i = m + 1
    BY <2>1
  <2> QED
    BY <2>1, <2>3, <2>4 DEF S
<1>4. n \in S
  <2>1. S \in SUBSET (0..n)
    OBVIOUS
  <2> HIDE DEF S
  <2> QED
    BY <1>2, <1>3, <2>1, ClimbsTo
<1> QED
  BY <1>4

LEMMA DigitsExist ==
    ASSUME NEW n \in Nat
    PROVE  \E g : DigitsUpTo(g, n)
<1> DEFINE T == {k \in 0..n : \E g : DigitsUpTo(g, k)}
<1>1. 0 \in T
  <2> DEFINE g == [x \in 0..0 |-> << >>]
  <2>1. \A x \in 0..0 : g[x] = IF x = 0 THEN << >> ELSE Append(g[x \div 10], Zero + (x % 10))
    OBVIOUS
  <2>2. g = [x \in 0..0 |-> g[x]]
    OBVIOUS
  <2>3. DigitsUpTo(g, 0)
    <3> HIDE DEF g
    <3> QED
      BY <2>1, <2>2, Zenon DEF DigitsUpTo
  <2> QED
    BY <2>3
<1>2. ASSUME NEW k \in T, k < n
      PROVE  k + 1 \in T
  <2>1. PICK g : DigitsUpTo(g, k)
    OBVIOUS
  <2>2. k \in Nat /\ k + 1 \in 0..n
    BY <1>2
  <2> HIDE DEF T
  <2> DEFINE h == [x \in 0..(k + 1) |->
                      IF x <= k THEN g[x] ELSE Append(g[x \div 10], Zero + (x % 10))]
  <2>3. ASSUME NEW x \in 0..(k + 1)
        PROVE  h[x] = IF x = 0 THEN << >> ELSE Append(h[x \div 10], Zero + (x % 10))
    <3>1. CASE x = 0
      <4>1. h[x] = g[0] /\ 0 \in 0..k
        BY <2>2, <3>1
      <4>2. \A i \in 0..k : g[i] = IF i = 0 THEN << >> ELSE Append(g[i \div 10], Zero + (i % 10))
        BY <2>1, Zenon DEF DigitsUpTo
      <4> QED
        BY <3>1, <4>1, <4>2
    <3>2. CASE x # 0
      <4>1. x \in Nat /\ x \div 10 \in 0..k /\ x \div 10 \in 0..(k + 1) /\ x \div 10 <= k
        BY <2>2, <3>2, TenthIsLess
      <4>2. h[x \div 10] = g[x \div 10]
        BY <4>1
      <4>3. CASE x <= k
        <5>1. h[x] = g[x] /\ x \in 0..k
          BY <4>1, <4>3
        <5>2. g[x] = Append(g[x \div 10], Zero + (x % 10))
          <6>1. \A i \in 0..k : g[i] = IF i = 0 THEN << >> ELSE Append(g[i \div 10], Zero + (i % 10))
            BY <2>1, Zenon DEF DigitsUpTo
          <6> QED
            BY <3>2, <5>1, <6>1, Zenon
        <5> QED
          BY <3>2, <4>2, <5>1, <5>2
      <4>4. CASE ~(x <= k)
        <5>1. h[x] = Append(g[x \div 10], Zero + (x % 10))
          BY <4>4
        <5> QED
          BY <3>2, <4>2, <5>1
      <4> QED
        BY <4>3, <4>4
    <3> QED
      BY <3>1, <3>2
  <2>4. h = [x \in 0..(k + 1) |-> h[x]]
    OBVIOUS
  <2>5. DigitsUpTo(h, k + 1)
    <3> HIDE DEF h
    <3> QED
      BY <2>3, <2>4, Zenon DEF DigitsUpTo
  <2> QED
    BY <2>2, <2>5, Zenon DEF T
<1>3. n \in T
  <2>1. T \in SUBSET (0..n)
    OBVIOUS
  <2> HIDE DEF T
  <2> QED
    BY <1>1, <1>2, <2>1, ClimbsTo
<1> QED
  BY <1>3

\* The digits of x are those of its tenth, and its last.
LEMMA DigitsOf ==
    ASSUME NEW x \in Nat
    PROVE  digits[x] = IF x = 0 THEN << >> ELSE Append(digits[x \div 10], Zero + (x % 10))
<1> DEFINE G(n) == CHOOSE g : DigitsUpTo(g, n)
           d == [n \in Nat |-> G(n)[n]]
<1>1. \A n \in Nat : DigitsUpTo(G(n), n)
  BY DigitsExist
<1>2. ASSUME NEW n \in Nat
      PROVE  d[n] = IF n = 0 THEN << >> ELSE Append(d[n \div 10], Zero + (n % 10))
  <2>1. \A i \in 0..n : G(n)[i] = IF i = 0 THEN << >> ELSE Append(G(n)[i \div 10], Zero + (i % 10))
    <3>1. DigitsUpTo(G(n), n)
      BY <1>1
    <3> HIDE DEF G
    <3> QED
      BY <3>1, Zenon DEF DigitsUpTo
  <2>2. ASSUME n # 0
        PROVE  G(n)[n \div 10] = d[n \div 10]
    <3> DEFINE m == n \div 10
    <3>1. m \in Nat /\ m <= n
      BY <2>2, TenthIsLess
    <3> HIDE DEF m, G
    <3>2. G(n)[m] = G(m)[m]
      BY <1>1, <3>1, DigitsAgree
    <3> QED
      BY <3>1, <3>2 DEF m
  <2>3. n \in 0..n
    OBVIOUS
  <2> HIDE DEF G
  <2>4. d[n] = G(n)[n]
    OBVIOUS
  <2> HIDE DEF d
  <2> QED
    BY <2>1, <2>2, <2>3, <2>4, Zenon
<1>3. d = [n \in Nat |-> d[n]]
  OBVIOUS
<1> HIDE DEF d
<1> DEFINE Recursive(g) ==
               g = [n \in Nat |-> IF n = 0 THEN << >> ELSE Append(g[n \div 10], Zero + (n % 10))]
<1>4. Recursive(d)
  BY <1>2, <1>3, Zenon
<1>5. digits = CHOOSE g : Recursive(g)
  BY Zenon DEF digits
<1>6. Recursive(digits)
  <2> HIDE DEF Recursive
  <2> QED
    BY <1>4, <1>5, Zenon
<1> QED
  BY <1>6, Zenon

---------------------------------------------------------------------------
(* What a reader makes of a text.  *)

NumberUpTo(v, text, k) ==
    v = [i \in 0..k |->
            IF i = 0 THEN 0
            ELSE IF text[i] \in Figures THEN 10 * v[i - 1] + (text[i] - Zero)
            ELSE v[i - 1]]

\* The number read up to each character of a text.
Values(text) ==
    LET value[i \in 0..Len(text)] ==
            IF i = 0 THEN 0
            ELSE IF text[i] \in Figures THEN 10 * value[i - 1] + (text[i] - Zero)
            ELSE value[i - 1]
    IN  value

LEMMA NumberIsValue ==
    ASSUME NEW text
    PROVE  Number(text) = Values(text)[Len(text)]
BY Zenon DEF Number, Values

LEMMA ValuesExist ==
    ASSUME NEW text, Len(text) \in Nat
    PROVE  NumberUpTo(Values(text), text, Len(text))
<1> DEFINE N == Len(text)
           T == {k \in 0..N : \E v : NumberUpTo(v, text, k)}
<1>1. 0 \in T
  <2> DEFINE v == [i \in 0..0 |-> 0]
  <2>1. \A i \in 0..0 : v[i] = IF i = 0 THEN 0
                               ELSE IF text[i] \in Figures THEN 10 * v[i - 1] + (text[i] - Zero)
                               ELSE v[i - 1]
    OBVIOUS
  <2>2. v = [i \in 0..0 |-> v[i]]
    OBVIOUS
  <2>3. NumberUpTo(v, text, 0)
    <3> HIDE DEF v
    <3> QED
      BY <2>1, <2>2, Zenon DEF NumberUpTo
  <2> QED
    BY <2>3
<1>2. ASSUME NEW k \in T, k < N
      PROVE  k + 1 \in T
  <2>1. PICK v : NumberUpTo(v, text, k)
    OBVIOUS
  <2>0. k \in Nat /\ k + 1 \in 0..N
    <3>1. k \in 0..N
      OBVIOUS
    <3> HIDE DEF T
    <3> QED
      BY <1>2, <3>1
  <2> HIDE DEF T
  <2> DEFINE Step(w, i) == IF i = 0 THEN 0
                           ELSE IF text[i] \in Figures THEN 10 * w[i - 1] + (text[i] - Zero)
                           ELSE w[i - 1]
             h == [i \in 0..(k + 1) |-> IF i <= k THEN v[i] ELSE Step(v, i)]
  <2>2. ASSUME NEW i \in 0..(k + 1)
        PROVE  h[i] = Step(h, i)
    <3>1. \A j \in 0..k : v[j] = Step(v, j)
      BY <2>1, Zenon DEF NumberUpTo
    <3>2. i # 0 => h[i - 1] = v[i - 1]
      BY <2>0
    <3>3. Step(h, i) = Step(v, i)
      <4> HIDE DEF h
      <4> QED
        BY <3>2
    <3>4. h[i] = Step(v, i)
      <4>1. CASE i <= k
        <5>1. h[i] = v[i] /\ i \in 0..k
          BY <2>0, <4>1
        <5> HIDE DEF h, Step
        <5> QED
          BY <3>1, <5>1
      <4>2. CASE ~(i <= k)
        <5> HIDE DEF Step
        <5> QED
          BY <4>2
      <4> QED
        BY <4>1, <4>2
    <3> QED
      BY <3>3, <3>4
  <2>3. h = [i \in 0..(k + 1) |-> h[i]]
    OBVIOUS
  <2>4. NumberUpTo(h, text, k + 1)
    <3> HIDE DEF h
    <3> QED
      BY <2>2, <2>3, Zenon DEF NumberUpTo
  <2> QED
    BY <2>0, <2>4, Zenon DEF T
<1>3. N \in T
  <2>1. T \in SUBSET (0..N)
    OBVIOUS
  <2> HIDE DEF T
  <2> QED
    BY <1>1, <1>2, <2>1, ClimbsTo
<1>4. \E v : NumberUpTo(v, text, N)
  BY <1>3
<1>5. Values(text) = CHOOSE v : NumberUpTo(v, text, N)
  BY Zenon DEF Values, NumberUpTo
<1> QED
  BY <1>4, <1>5, Zenon

LEMMA ValuesOf ==
    ASSUME NEW text, Len(text) \in Nat
    PROVE  /\ Values(text)[0] = 0
           /\ \A i \in 1..Len(text) :
                  Values(text)[i] =
                      IF text[i] \in Figures THEN 10 * Values(text)[i - 1] + (text[i] - Zero)
                      ELSE Values(text)[i - 1]
<1> DEFINE v == Values(text)
           Step(w, i) == IF i = 0 THEN 0
                         ELSE IF text[i] \in Figures THEN 10 * w[i - 1] + (text[i] - Zero)
                         ELSE w[i - 1]
<1>1. NumberUpTo(v, text, Len(text))
  BY ValuesExist
<1> HIDE DEF v
<1>2. \A i \in 0..Len(text) : v[i] = Step(v, i)
  BY <1>1, Zenon DEF NumberUpTo
<1>3. 0 \in 0..Len(text) /\ \A i \in 1..Len(text) : i \in 0..Len(text) /\ i # 0
  OBVIOUS
<1> QED
  BY <1>2, <1>3 DEF v

\* A text of nothing is 0; a figure more is ten times the number and itself;
\* any other character changes nothing.
LEMMA NumberOfNone ==
    Number(<< >>) = 0
<1>1. Len(<< >>) = 0 /\ 0 \in Nat
  OBVIOUS
<1> QED
  BY <1>1, NumberIsValue, ValuesOf

LEMMA NumberOfMore ==
    ASSUME NEW text \in Seq(Int), NEW c \in Int
    PROVE  Number(Append(text, c)) =
               IF c \in Figures THEN 10 * Number(text) + (c - Zero) ELSE Number(text)
<1> DEFINE more == Append(text, c)
           n == Len(text)
           v == Values(text)
           w == Values(more)
           S == {k \in 0..n : w[k] = v[k]}
<1>1. n \in Nat /\ Len(more) = n + 1 /\ more[n + 1] = c /\ \A i \in 1..n : more[i] = text[i]
  OBVIOUS
<1>2. /\ v[0] = 0
      /\ \A i \in 1..n : v[i] = IF text[i] \in Figures THEN 10 * v[i - 1] + (text[i] - Zero)
                                ELSE v[i - 1]
  BY <1>1, ValuesOf
<1>3. /\ w[0] = 0
      /\ \A i \in 1..(n + 1) : w[i] = IF more[i] \in Figures THEN 10 * w[i - 1] + (more[i] - Zero)
                                      ELSE w[i - 1]
  <2>1. Len(more) \in Nat
    BY <1>1
  <2> HIDE DEF more
  <2> QED
    BY <1>1, <2>1, ValuesOf
<1>4. Number(more) = w[n + 1] /\ Number(text) = v[n]
  BY <1>1, NumberIsValue
<1> HIDE DEF more, v, w, n
<1>5. n \in S
  <2>1. 0 \in S
    BY <1>1, <1>2, <1>3
  <2>2. ASSUME NEW k \in S, k < n
        PROVE  k + 1 \in S
    <3>1. k \in 0..n /\ w[k] = v[k]
      OBVIOUS
    <3>2. k + 1 \in 1..n /\ k + 1 \in 1..(n + 1) /\ (k + 1) - 1 = k /\ k + 1 \in 0..n
      BY <1>1, <2>2, <3>1
    <3>3. w[k + 1] = v[k + 1]
      BY <1>1, <1>2, <1>3, <3>1, <3>2
    <3> QED
      BY <3>2, <3>3
  <2>3. S \in SUBSET (0..n)
    OBVIOUS
  <2> HIDE DEF S
  <2> QED
    BY <1>1, <2>1, <2>2, <2>3, ClimbsTo
<1>6. w[n] = v[n] /\ n + 1 \in 1..(n + 1) /\ (n + 1) - 1 = n
  BY <1>1, <1>5
<1> QED
  BY <1>1, <1>3, <1>4, <1>6 DEF more

---------------------------------------------------------------------------
\* A number's digits are figures, and say the number, behind a sign too.
LEMMA DigitsSay ==
    ASSUME NEW pre \in Seq(Int), Number(pre) = 0, NEW x \in Nat
    PROVE  /\ digits[x] \in Seq(Figures)
           /\ pre \o digits[x] \in Seq(Int) /\ Number(pre \o digits[x]) = x
<1> DEFINE Says(y) == /\ digits[y] \in Seq(Figures)
                      /\ pre \o digits[y] \in Seq(Int) /\ Number(pre \o digits[y]) = y
           S == {m \in 0..x : \A y \in 0..m : Says(y)}
<1>1. 0 \in S
  <2>1. digits[0] = << >>
    BY DigitsOf
  <2>2. pre \o << >> = pre
    OBVIOUS
  <2>3. Says(0)
    BY <2>1, <2>2
  <2>4. \A y \in 0..0 : y = 0
    OBVIOUS
  <2> HIDE DEF Says
  <2> QED
    BY <2>3, <2>4
<1>2. ASSUME NEW m \in S, m < x
      PROVE  m + 1 \in S
  <2> DEFINE y == m + 1
             t == y \div 10
             c == Zero + (y % 10)
  <2>1. m \in Nat /\ y \in 0..x /\ \A i \in 0..m : Says(i)
    BY <1>2
  <2>2. t \in 0..m /\ y % 10 \in 0..9 /\ y = 10 * t + (y % 10)
    BY <2>1, TenthIsLess
  <2>3. c \in Figures /\ c \in Int /\ c - Zero = y % 10
    BY <2>2 DEF Figures, Zero
  <2>4. digits[y] = Append(digits[t], c)
    <3>1. y \in Nat /\ y # 0
      BY <2>1
    <3> HIDE DEF y
    <3> QED
      BY <3>1, DigitsOf, Zenon
  <2>5. Says(t)
    <3> HIDE DEF Says
    <3> QED
      BY <2>1, <2>2
  <2> HIDE DEF c, t, y
  <2>6. digits[y] \in Seq(Figures)
    BY <2>3, <2>4, <2>5
  <2>7. pre \o digits[y] = Append(pre \o digits[t], c)
    <3>1. digits[t] \in Seq(Int)
      <4>1. \A f \in Figures : f \in Int
        BY DEF Figures, Zero
      <4> QED
        BY <2>5, <4>1
    <3> QED
      BY <2>3, <2>4, <3>1
  <2>8. Number(pre \o digits[y]) = 10 * t + (y % 10) /\ pre \o digits[y] \in Seq(Int)
    <3>1. /\ pre \o digits[t] \in Seq(Int) /\ c \in Int
          /\ Number(pre \o digits[t]) = t
      BY <2>3, <2>5
    <3> HIDE DEF Says
    <3>2. Number(Append(pre \o digits[t], c)) = 10 * t + (y % 10)
      BY <2>3, <3>1, NumberOfMore
    <3> QED
      BY <2>7, <3>1, <3>2
  <2>9. Says(y)
    BY <2>2, <2>6, <2>8
  <2>10. \A i \in 0..y : i \in 0..m \/ i = y
    BY <2>1 DEF y
  <2> HIDE DEF Says
  <2> QED
    BY <2>1, <2>9, <2>10 DEF y
<1>3. x \in S
  <2>1. S \in SUBSET (0..x)
    OBVIOUS
  <2> HIDE DEF S
  <2> QED
    BY <1>1, <1>2, <2>1, ClimbsTo
<1> QED
  BY <1>3

LEMMA DigitsAreFigures ==
    ASSUME NEW x \in Nat
    PROVE  digits[x] \in Seq(Figures)
<1>1. << >> \in Seq(Int) /\ Number(<< >>) = 0
  BY NumberOfNone
<1> QED
  BY <1>1, DigitsSay

\* Numbers of a few digits have a few digits.
ThreeDigits == 1..999
FourDigits == 0..9999

LEMMA FewDigits ==
    ASSUME NEW x \in Nat
    PROVE  /\ Len(digits[x]) \in Nat
           /\ x \in ThreeDigits => Len(digits[x]) \in 1..3
           /\ x \in FourDigits => Len(digits[x]) \in 0..4
<1>1. \A y \in Nat : Len(digits[y]) \in Nat
  <2>1. \A y \in Nat : digits[y] \in Seq(Figures)
    BY DigitsAreFigures
  <2> QED
    BY <2>1
<1>2. Len(digits[0]) = 0
  BY DigitsOf
<1>3. ASSUME NEW y \in Nat, y # 0
      PROVE  Len(digits[y]) = Len(digits[y \div 10]) + 1 /\ y \div 10 \in Nat
  <2>1. digits[y] = Append(digits[y \div 10], Zero + (y % 10)) /\ y \div 10 \in Nat
    <3>1. digits[y] = Append(digits[y \div 10], Zero + (y % 10))
      BY <1>3, DigitsOf, Zenon
    <3>2. y \div 10 \in Nat
      BY <1>3, TenthIsLess
    <3> QED
      BY <3>1, <3>2
  <2>2. digits[y \div 10] \in Seq(Figures)
    BY <2>1, DigitsAreFigures
  <2> QED
    BY <2>1, <2>2
<1>4. \A y \in Nat : y < 10 => Len(digits[y]) <= 1
  <2> SUFFICES ASSUME NEW y \in Nat, y < 10, y # 0 PROVE Len(digits[y]) <= 1
    BY <1>2
  <2>1. y \div 10 = 0
    OBVIOUS
  <2> QED
    BY <1>2, <1>3, <2>1
<1>5. \A y \in Nat : y < 100 => Len(digits[y]) <= 2
  <2> SUFFICES ASSUME NEW y \in Nat, y < 100, y # 0 PROVE Len(digits[y]) <= 2
    BY <1>2
  <2>1. y \div 10 < 10
    OBVIOUS
  <2> QED
    BY <1>1, <1>3, <1>4, <2>1
<1>6. \A y \in Nat : y < 1000 => Len(digits[y]) <= 3
  <2> SUFFICES ASSUME NEW y \in Nat, y < 1000, y # 0 PROVE Len(digits[y]) <= 3
    BY <1>2
  <2>1. y \div 10 < 100
    OBVIOUS
  <2> QED
    BY <1>1, <1>3, <1>5, <2>1
<1>7. \A y \in Nat : y < 10000 => Len(digits[y]) <= 4
  <2> SUFFICES ASSUME NEW y \in Nat, y < 10000, y # 0 PROVE Len(digits[y]) <= 4
    BY <1>2
  <2>1. y \div 10 < 1000
    OBVIOUS
  <2> QED
    BY <1>1, <1>3, <1>6, <2>1
<1> DEFINE l == Len(digits[x])
<1>8. x > 0 => l >= 1
  BY <1>1, <1>3
<1>9. l \in Nat
  BY <1>1
<1>10. x < 1000 => l <= 3
  BY <1>6
<1>11. x < 10000 => l <= 4
  BY <1>7
<1> HIDE DEF l
<1>12. ASSUME x \in ThreeDigits PROVE l \in 1..3
  BY <1>8, <1>9, <1>10, <1>12 DEF ThreeDigits
<1>13. ASSUME x \in FourDigits PROVE l \in 0..4
  BY <1>9, <1>11, <1>13 DEF FourDigits
<1> QED
  BY <1>9, <1>12, <1>13 DEF l

---------------------------------------------------------------------------
(* formatFloat: every temperature can be read in its text.  *)

\* A number that needs no zeros before it.
LEMMA NoZeros ==
    ASSUME NEW x \in Nat, NEW d \in Nat, d <= Len(digits[x])
    PROVE  IntToStr(x, d) = digits[x]
<1>1. digits[x] \in Seq(Figures) /\ Len(digits[x]) \in Nat
  BY DigitsAreFigures, FewDigits
<1>2. 1..(d - Len(digits[x])) = {}
  BY <1>1
<1>3. [i \in 1..(d - Len(digits[x])) |-> Zero] = << >>
  BY <1>2
<1>4. << >> \o digits[x] = digits[x]
  BY <1>1
<1> QED
  BY <1>3, <1>4 DEF IntToStr

LEMMA AppendTwo ==
    ASSUME NEW x \in Int, NEW y \in Int
    PROVE  Append(Append(<< >>, x), y) = <<x, y>>
<1>1. << >> \in Seq(Int)
  OBVIOUS
<1>2. Append(<< >>, x) = <<x>>
  OBVIOUS
<1>3. PICK s : s = Append(<<x>>, y)
  OBVIOUS
<1>4. s \in Seq(Int) /\ Len(s) = 2 /\ s[1] = x /\ s[2] = y
  BY <1>3
<1>5. s = <<s[1], s[2]>>
  BY <1>4
<1> QED
  BY <1>2, <1>3, <1>4, <1>5

LEMMA AppendInt ==
    ASSUME NEW s \in Seq(Int), NEW x \in Int
    PROVE  /\ Append(s, x) \in Seq(Int) /\ Len(Append(s, x)) = Len(s) + 1 /\ Len(s) \in Nat
           /\ Append(s, x)[Len(s) + 1] = x
           /\ \A i \in 1..Len(s) : Append(s, x)[i] = s[i]
OBVIOUS

LEMMA AppendThree ==
    ASSUME NEW s \in Seq(Int), NEW x \in Int, NEW y \in Int, NEW z \in Int
    PROVE  s \o <<x>> \o <<y, z>> = Append(Append(Append(s, x), y), z)
<1>1. s \o <<x>> = Append(s, x)
  OBVIOUS
<1>2. Append(s, x) \in Seq(Int)
  BY AppendInt
<1> DEFINE t == Append(s, x)
<1> HIDE DEF t
<1>3. t \o <<y, z>> = Append(Append(t, y), z)
  BY <1>2 DEF t
<1> QED
  BY <1>1, <1>3 DEF t

LEMMA TwoPlaces ==
    ASSUME NEW x \in {0, 25, 50, 75}
    PROVE  IntToStr(x, 2) = <<Zero + (x \div 10), Zero + (x % 10)>>
<1>1. CASE x = 0
  <2>1. digits[x] = << >>
    BY <1>1, DigitsOf
  <2>2. [i \in 1..2 |-> Zero] \o << >> = <<Zero, Zero>>
    BY DEF Zero
  <2>3. IntToStr(x, 2) = [i \in 1..2 |-> Zero] \o << >>
    <3>1. 2 - Len(<< >>) = 2
      OBVIOUS
    <3> QED
      BY <2>1, <3>1, Zenon DEF IntToStr
  <2> QED
    BY <1>1, <2>2, <2>3 DEF Zero
<1>2. CASE x # 0
  <2> DEFINE t == x \div 10
  <2>1. /\ x \in Nat /\ x # 0 /\ t \in Nat /\ t # 0 /\ t \div 10 = 0 /\ t % 10 = t
        /\ x % 10 \in Nat
    BY <1>2
  <2> HIDE DEF t
  <2>2. digits[x] = Append(digits[t], Zero + (x % 10))
    BY <2>1, DigitsOf, Zenon DEF t
  <2>3. digits[t] = Append(digits[0], Zero + t) /\ digits[0] = << >>
    <3>1. digits[t] = Append(digits[t \div 10], Zero + (t % 10))
      BY <2>1, DigitsOf, Zenon
    <3> QED
      BY <2>1, <3>1, DigitsOf
  <2>4. digits[x] = <<Zero + t, Zero + (x % 10)>>
    <3> DEFINE c == Zero + t
               e == Zero + (x % 10)
    <3>1. c \in Int /\ e \in Int
      BY <2>1 DEF Zero
    <3>2. digits[x] = Append(Append(<< >>, c), e)
      BY <2>2, <2>3
    <3> HIDE DEF c, e
    <3>3. digits[x] = <<c, e>>
      BY <3>1, <3>2, AppendTwo
    <3> QED
      BY <3>3 DEF c, e
  <2>5. IntToStr(x, 2) = digits[x]
    <3>1. 2 \in Nat /\ 2 <= Len(digits[x])
      BY <2>4
    <3> QED
      BY <2>1, <3>1, NoZeros
  <2> QED
    BY <2>4, <2>5 DEF t
<1> QED
  BY <1>1, <1>2

\* The characters of a value.
Characters == Figures \cup {Dot, Minus}

LEMMA CharacterCodes ==
    /\ Figures \subseteq Int /\ Characters \subseteq Int
    /\ Dot \notin Figures /\ Minus \notin Figures /\ Percent \notin Figures
    /\ Dot # Minus /\ Minus \in Int /\ Dot \in Int /\ Zero \in Int /\ Percent \in Int
    /\ \A c \in Characters \cup {Percent, ErrorCell} : c # Space /\ c # NoCell
    /\ \A y \in 0..9 : Zero + y \in Figures /\ (Zero + y) - Zero = y
BY DEF Characters, Figures, Dot, Minus, Percent, Zero, Space, NoCell, ErrorCell

\* A value's text, sign and number as said.
SaysValue(text, pre, number) ==
    /\ text \in Seq(Characters) /\ Len(text) \in 3..8 /\ WellFormed(text)
    /\ Number(text) = number
    /\ (text[1] = Minus <=> pre = <<Minus>>)

LEMMA TextIs ==
    ASSUME NEW pre, NEW q \in Nat, q \in FourDigits, NEW u \in 0..9, NEW v \in 0..9,
           pre \in {<<Minus>>, << >>}
    PROVE  \A text : text = pre \o digits[q] \o <<Dot>> \o <<Zero + u, Zero + v>> =>
               SaysValue(text, pre, 100 * q + 10 * u + v)
<1> DEFINE d == digits[q]
           a == Zero + u
           b == Zero + v
           p == Len(pre)
           n == Len(d)
           s == pre \o d
           s1 == Append(s, Dot)
           s2 == Append(s1, a)
           s3 == Append(s2, b)
<1>1. /\ a \in Figures /\ a - Zero = u /\ a \in Int
      /\ b \in Figures /\ b - Zero = v /\ b \in Int
  BY CharacterCodes
<1> HIDE DEF a, b
<1>2. d \in Seq(Figures)
  BY DigitsAreFigures
<1>3. n \in 0..4
  BY FewDigits
<1>4. /\ pre \in Seq(Int) /\ Number(pre) = 0 /\ p \in 0..1
      /\ p = 1 <=> pre = <<Minus>>
      /\ \A i \in 1..p : pre[i] = Minus /\ i = 1
  <2>1. CASE pre = <<Minus>>
    <3>1. /\ pre = Append(<< >>, Minus) /\ << >> \in Seq(Int)
          /\ Len(pre) = 1 /\ pre[1] = Minus
      BY <2>1
    <3>2. pre \in Seq(Int)
      BY <3>1, AppendInt, CharacterCodes
    <3>3. Number(Append(<< >>, Minus)) = Number(<< >>)
      BY <3>1, NumberOfMore, CharacterCodes
    <3> QED
      BY <2>1, <3>1, <3>2, <3>3, NumberOfNone
  <2>2. CASE pre = << >>
    BY <2>2, NumberOfNone
  <2> QED
    BY <2>1, <2>2
<1>5. s \in Seq(Int) /\ Number(s) = q
  BY <1>4, DigitsSay
<1>6. /\ Len(s) = p + n
      /\ \A i \in 1..p : s[i] = Minus /\ i = 1
      /\ \A i \in (p + 1)..(p + n) : s[i] \in Figures
  <2>1. \A i \in 1..n : d[i] \in Figures
    BY <1>2
  <2> HIDE DEF d
  <2>2. d \in Seq(Int)
    <3>1. \A f \in Figures : f \in Int
      BY CharacterCodes
    <3> QED
      BY <1>2, <3>1
  <2>3. /\ Len(s) = p + n
        /\ \A i \in 1..p : s[i] = pre[i]
        /\ \A i \in (p + 1)..(p + n) : s[i] = d[i - p] /\ i - p \in 1..n
    BY <1>3, <1>4, <2>2
  <2> QED
    BY <1>4, <2>1, <2>3
<1> HIDE DEF d
<1> HIDE DEF s
<1>7. pre \o digits[q] \o <<Dot>> \o <<Zero + u, Zero + v>> = s3
  <2>1. Dot \in Int
    BY CharacterCodes
  <2>2. s \o <<Dot>> \o <<a, b>> = s3
    BY <1>1, <1>5, <2>1, AppendThree
  <2> QED
    BY <2>2 DEF s, a, b, d
<1>8. /\ s1 \in Seq(Int) /\ Len(s1) = p + n + 1 /\ Number(s1) = q
      /\ s1[p + n + 1] = Dot /\ \A i \in 1..(p + n) : s1[i] = s[i]
  <2>1. Dot \in Int /\ Dot \notin Figures
    BY CharacterCodes
  <2>2. Number(s1) = Number(s)
    BY <1>5, <2>1, NumberOfMore
  <2>3. /\ s1 \in Seq(Int) /\ Len(s1) = Len(s) + 1 /\ s1[Len(s) + 1] = Dot
        /\ \A i \in 1..Len(s) : s1[i] = s[i]
    BY <1>5, <2>1, AppendInt
  <2> QED
    BY <1>5, <1>6, <2>2, <2>3
<1> HIDE DEF s1, p, n
<1>9. /\ s2 \in Seq(Int) /\ Len(s2) = p + n + 2 /\ Number(s2) = 10 * q + u
      /\ s2[p + n + 2] = a /\ \A i \in 1..(p + n + 1) : s2[i] = s1[i]
  <2>1. Number(s2) = 10 * Number(s1) + (a - Zero)
    BY <1>1, <1>8, NumberOfMore
  <2>2. /\ s2 \in Seq(Int) /\ Len(s2) = Len(s1) + 1 /\ s2[Len(s1) + 1] = a
        /\ \A i \in 1..Len(s1) : s2[i] = s1[i]
    BY <1>1, <1>8, AppendInt
  <2> QED
    BY <1>1, <1>3, <1>4, <1>8, <2>1, <2>2
<1> HIDE DEF s2
<1>10. /\ s3 \in Seq(Int) /\ Len(s3) = p + n + 3 /\ Number(s3) = 10 * (10 * q + u) + v
       /\ s3[p + n + 3] = b /\ \A i \in 1..(p + n + 2) : s3[i] = s2[i]
  <2>1. Number(s3) = 10 * Number(s2) + (b - Zero)
    BY <1>1, <1>9, NumberOfMore
  <2>2. /\ s3 \in Seq(Int) /\ Len(s3) = Len(s2) + 1 /\ s3[Len(s2) + 1] = b
        /\ \A i \in 1..Len(s2) : s3[i] = s2[i]
    BY <1>1, <1>9, AppendInt
  <2> QED
    BY <1>1, <1>3, <1>4, <1>9, <2>1, <2>2
<1> HIDE DEF s3
<1>11. /\ \A i \in 1..p : s3[i] = Minus /\ i = 1
       /\ \A i \in (p + 1)..(p + n) : s3[i] \in Figures
       /\ s3[p + n + 1] = Dot /\ s3[p + n + 2] = a
  <2>1. p \in Nat /\ n \in Nat
    BY <1>3, <1>4
  <2>2. \A i \in 1..(p + n) : s3[i] = s[i]
    BY <1>8, <1>9, <1>10, <2>1
  <2>3. s3[p + n + 1] = Dot /\ s3[p + n + 2] = a
    BY <1>8, <1>9, <1>10, <2>1
  <2> QED
    BY <1>6, <2>1, <2>2, <2>3
<1>12. \A i \in 1..Len(s3) :
           \/ i \in 1..p \/ i \in (p + 1)..(p + n)
           \/ i = p + n + 1 \/ i = p + n + 2 \/ i = p + n + 3
  BY <1>3, <1>4, <1>10
<1>13. Len(s3) - 2 = p + n + 1 /\ Len(s3) \in 3..8 /\ DOMAIN s3 = 1..Len(s3)
  BY <1>3, <1>4, <1>10
<1>14. ASSUME NEW i \in 1..Len(s3)
       PROVE  /\ s3[i] \in Characters
              /\ s3[i] = Dot <=> i = p + n + 1
              /\ s3[i] = Minus => i = 1
  <2>0. p \in Nat /\ n \in Nat
    BY <1>3, <1>4
  <2>1. CASE i \in 1..p
    <3>1. s3[i] = Minus /\ i = 1 /\ i # p + n + 1
      BY <1>11, <2>0, <2>1
    <3> QED
      BY <3>1, CharacterCodes DEF Characters
  <2>2. CASE i \in (p + 1)..(p + n)
    <3>1. s3[i] \in Figures /\ i # p + n + 1
      BY <1>11, <2>0, <2>2
    <3> QED
      BY <3>1, CharacterCodes DEF Characters
  <2>3. CASE i = p + n + 1
    BY <1>11, <2>3, CharacterCodes DEF Characters
  <2>4. CASE i = p + n + 2 \/ i = p + n + 3
    <3>1. s3[i] \in Figures /\ i # p + n + 1
      BY <1>1, <1>10, <1>11, <2>0, <2>4
    <3> QED
      BY <3>1, CharacterCodes DEF Characters
  <2> QED
    BY <1>12, <2>1, <2>2, <2>3, <2>4
<1>15. s3 \in Seq(Characters)
  BY <1>10, <1>14
<1>16. WellFormed(s3)
  BY <1>13, <1>14 DEF WellFormed, Characters
<1>17. s3[1] = Minus <=> pre = <<Minus>>
  <2>1. CASE p = 1
    BY <1>4, <1>11, <2>1
  <2>2. CASE p = 0
    <3>1. s3[1] # Minus
      <4>1. CASE n = 0
        BY <1>11, <2>2, <4>1, CharacterCodes
      <4>2. CASE n # 0
        <5>1. 1 \in (p + 1)..(p + n)
          BY <1>3, <2>2, <4>2
        <5> QED
          BY <1>11, <5>1, CharacterCodes
      <4> QED
        BY <4>1, <4>2
    <3> QED
      BY <1>4, <2>2, <3>1
  <2> QED
    BY <1>4, <2>1, <2>2
<1>18. Number(s3) = 100 * q + 10 * u + v
  BY <1>10
<1> QED
  BY <1>7, <1>13, <1>15, <1>16, <1>17, <1>18 DEF SaysValue

LEMMA FormatTempIs ==
    ASSUME NEW temp \in Signed14
    PROVE  LET text == FormatTemp(temp)
           IN  /\ text \in Seq(Characters) /\ Len(text) \in 3..8
               /\ WellFormed(text) /\ Hundredths(text) = 25 * temp
<1> DEFINE w == Abs(temp)
           q == w \div 4
           f == (w % 4) * 25
           u == f \div 10
           v == f % 10
           pre == IF temp < 0 THEN <<Minus>> ELSE << >>
           text == FormatTemp(temp)
<1>1. temp \in Int /\ w \in 0..8192 /\ (temp < 0 => w = -temp) /\ (~(temp < 0) => w = temp)
  BY DEF Signed14, Abs
<1> HIDE DEF w
<1>2. q \in Nat /\ q \in FourDigits /\ w % 4 \in 0..3 /\ w = 4 * q + (w % 4)
  BY <1>1 DEF FourDigits
<1>3. f \in {0, 25, 50, 75} /\ 100 * q + f = 25 * w
  BY <1>1, <1>2
<1> HIDE DEF q, f
<1>4. u \in 0..9 /\ v \in 0..9 /\ f = 10 * u + v
  BY <1>3
<1>5. IntToStr(q, 0) = digits[q]
  <2>1. 0 \in Nat /\ 0 <= Len(digits[q])
    BY <1>2, FewDigits
  <2> QED
    BY <1>2, <2>1, NoZeros
<1>6. IntToStr(f, 2) = <<Zero + u, Zero + v>>
  BY <1>3, TwoPlaces
<1> HIDE DEF u, v
<1>7. text = pre \o digits[q] \o <<Dot>> \o <<Zero + u, Zero + v>>
  BY <1>5, <1>6, Zenon DEF FormatTemp, w, q, f
<1>8. pre \in {<<Minus>>, << >>} /\ (pre = <<Minus>> <=> temp < 0)
  OBVIOUS
<1> HIDE DEF text, pre
<1>9. SaysValue(text, pre, 100 * q + 10 * u + v)
  <2> HIDE DEF pre, text, q, u, v
  <2>1. q \in Nat /\ q \in FourDigits /\ u \in 0..9 /\ v \in 0..9 /\ pre \in {<<Minus>>, << >>}
    BY <1>2, <1>4, <1>8
  <2>2. \A t : t = pre \o digits[q] \o <<Dot>> \o <<Zero + u, Zero + v>> =>
               SaysValue(t, pre, 100 * q + 10 * u + v)
    BY <2>1, TextIs
  <2> QED
    BY <1>7, <2>2, Zenon
<1>10. Number(text) = 25 * w
  BY <1>1, <1>2, <1>3, <1>4, <1>9 DEF SaysValue
<1>11. Hundredths(text) = 25 * temp
  <2>1. text[1] = Minus <=> temp < 0
    BY <1>8, <1>9 DEF SaysValue
  <2>2. Hundredths(text) = IF temp < 0 THEN -Number(text) ELSE Number(text)
    BY <2>1, Zenon DEF Hundredths
  <2>3. CASE temp < 0
    BY <1>1, <1>10, <2>2, <2>3
  <2>4. CASE ~(temp < 0)
    BY <1>1, <1>10, <2>2, <2>4
  <2> QED
    BY <2>3, <2>4
<1> QED
  BY <1>9, <1>11 DEF text, SaysValue

\* The same of a level.
LEMMA LevelTextIs ==
    ASSUME NEW percent \in 1..100
    PROVE  LET d == digits[percent]
               text == d \o <<Percent>>
           IN  /\ d \in Seq(Figures) /\ Len(d) \in 1..3
               /\ LevelText(percent) = text \o Blanks(3 - Len(d))
               /\ text \in Seq(Int) /\ Number(text) = percent
<1> DEFINE d == digits[percent]
           text == d \o <<Percent>>
<1>1. percent \in Nat /\ percent \in ThreeDigits /\ 0 \in Nat
  BY DEF ThreeDigits
<1>2. d \in Seq(Figures) /\ Len(d) \in 1..3
  <2>1. d \in Seq(Figures)
    BY <1>1, DigitsAreFigures
  <2>2. Len(d) \in 1..3
    BY <1>1, FewDigits
  <2> QED
    BY <2>1, <2>2
<1>3. IntToStr(percent, 0) = d
  BY <1>1, <1>2, NoZeros
<1>4. d \in Seq(Int) /\ Number(d) = percent
  <2>1. << >> \in Seq(Int) /\ Number(<< >>) = 0
    BY NumberOfNone
  <2>2. << >> \o d \in Seq(Int) /\ Number(<< >> \o d) = percent
    BY <1>1, <2>1, DigitsSay
  <2>3. << >> \o d = d
    BY <1>2
  <2> QED
    BY <2>2, <2>3
<1> HIDE DEF d
<1>5. text = Append(d, Percent) /\ Len(text) = Len(d) + 1 /\ text \in Seq(Int)
  BY <1>4, CharacterCodes
<1>6. Number(text) = percent
  BY <1>4, <1>5, NumberOfMore, CharacterCodes
<1>7. LevelText(percent) = text \o Blanks(3 - Len(d))
  <2>1. LevelText(percent) = text \o Blanks(4 - Len(text))
    BY <1>3 DEF LevelText
  <2>2. 4 - Len(text) = 3 - Len(d)
    BY <1>2, <1>5
  <2> QED
    BY <2>1, <2>2
<1> QED
  BY <1>2, <1>5, <1>6, <1>7 DEF d

---------------------------------------------------------------------------
(* The cells of a line.  *)

Codes == {NoCell, ErrorCell, Space, Percent, Minus, Dot} \cup Figures
Blank == {Space, NoCell}

LEMMA CodesAreCells ==
    /\ \A n : Cells(n) = [1..n -> Codes]
    /\ Codes \subseteq Int /\ Characters \subseteq Codes
    /\ Figures \subseteq Codes /\ Blank \subseteq Codes
    /\ Space \in Codes /\ NoCell \in Codes /\ ErrorCell \in Codes /\ Percent \in Codes
    /\ \A c \in Characters \cup {Percent, ErrorCell} : c \notin Blank
<1>1. Figures \subseteq Int /\ Codes \subseteq Int
  BY DEF Codes, Figures, Zero, NoCell, ErrorCell, Space, Percent, Minus, Dot
<1>2. \A n : Cells(n) = [1..n -> Codes]
  BY DEF Cells, Codes
<1>3. \A c \in Characters \cup {Percent, ErrorCell} : c \notin Blank
  BY CharacterCodes DEF Blank
<1> QED
  BY <1>1, <1>2, <1>3 DEF Codes, Characters, Blank

LEMMA Widened ==
    ASSUME NEW A, NEW B, NEW s \in Seq(A), A \subseteq B
    PROVE  s \in Seq(B)
<1>1. \A a \in A : a \in B
  OBVIOUS
<1> QED
  BY <1>1

\* j is s and then t.
IsJoin(j, A, s, k, t, n) ==
    /\ j \in Seq(A) /\ Len(j) = k + n
    /\ \A i \in 1..k : j[i] = s[i]
    /\ \A i \in 1..n : j[k + i] = t[i]
    /\ \A i \in (k + 1)..(k + n) : i - k \in 1..n /\ j[i] = t[i - k]

LEMMA JoinIs ==
    ASSUME NEW A, NEW s \in Seq(A), NEW t \in Seq(A),
           NEW k \in Nat, NEW n \in Nat, Len(s) = k, Len(t) = n
    PROVE  IsJoin(s \o t, A, s, k, t, n)
BY DEF IsJoin

LEMMA LastOf ==
    ASSUME NEW A, NEW s \in Seq(A), NEW k \in Nat, Len(s) = k, k # 0
    PROVE  s # << >> /\ s[k] \in A /\ \A i \in 1..k : s[i] \in A
OBVIOUS

LEMMA LargerOf ==
    ASSUME NEW a \in Int, NEW b \in Int
    PROVE  Max({a, b}) \in {a, b} /\ Max({a, b}) >= a /\ Max({a, b}) >= b
<1>1. \E x \in {a, b} : \A y \in {a, b} : x >= y
  OBVIOUS
<1>2. Max({a, b}) \in {a, b} /\ \A y \in {a, b} : Max({a, b}) >= y
  BY <1>1, Zenon DEF Max
<1> QED
  BY <1>2

\* A text drawn at the start of a line replaces as many cells and no others.
LEMMA OverwrittenIs ==
    ASSUME NEW cells \in Seq(Codes), NEW text \in Seq(Codes), NEW n \in Nat, NEW k \in Nat,
           Len(cells) = n, Len(text) = k, k <= n
    PROVE  /\ Overwritten(cells, text) \in Seq(Codes) /\ Len(Overwritten(cells, text)) = n
           /\ \A i \in 1..k : Overwritten(cells, text)[i] = text[i]
           /\ \A i \in (k + 1)..n : Overwritten(cells, text)[i] = cells[i]
<1> DEFINE rest == SubSeq(cells, k + 1, n)
<1>1. rest \in Seq(Codes) /\ Len(rest) = n - k /\ \A i \in 1..(n - k) : rest[i] = cells[k + i]
  OBVIOUS
<1> HIDE DEF rest
<1>2. Overwritten(cells, text) = text \o rest
  BY DEF Overwritten, rest
<1>3. PICK r \in Nat : r = n - k /\ k + r = n
  OBVIOUS
<1>4. IsJoin(text \o rest, Codes, text, k, rest, r)
  <2>1. Len(rest) = r
    BY <1>1, <1>3
  <2> QED
    BY <1>1, <2>1, JoinIs
<1> DEFINE drawn == Overwritten(cells, text)
<1>5. /\ drawn \in Seq(Codes) /\ Len(drawn) = n
      /\ \A i \in 1..k : drawn[i] = text[i]
      /\ \A i \in (k + 1)..n : i - k \in 1..(n - k) /\ drawn[i] = rest[i - k]
  BY <1>2, <1>3, <1>4, Zenon DEF IsJoin
<1> HIDE DEF drawn
<1>6. ASSUME NEW i \in (k + 1)..n
      PROVE  drawn[i] = cells[i]
  <2>1. i - k \in 1..(n - k) /\ k + (i - k) = i
    OBVIOUS
  <2> QED
    BY <1>1, <1>5, <2>1
<1> QED
  BY <1>5, <1>6 DEF drawn

LEMMA BlanksAre ==
    ASSUME NEW n \in Nat
    PROVE  /\ Blanks(n) \in Seq(Codes) /\ Len(Blanks(n)) = n
           /\ \A i \in 1..n : Blanks(n)[i] = Space
<1>1. Space \in Codes
  BY CodesAreCells
<1> QED
  BY <1>1 DEF Blanks

\* What a reader sees of a line that holds a text and then blanks only.
LEMMA VisibleIs ==
    ASSUME NEW cells \in Seq(Codes), NEW text \in Seq(Codes), NEW n \in Nat, NEW k \in Nat,
           Len(cells) = n, Len(text) = k, k <= n, text # << >>, text[k] \notin Blank,
           \A i \in 1..k : cells[i] = text[i],
           \A i \in (k + 1)..n : cells[i] \in Blank
    PROVE  Visible(cells) = text
<1> DEFINE Written == {i \in DOMAIN cells : cells[i] \notin {Space, NoCell}}
           T == {0} \cup Written
<1>1. k \in Nat /\ n \in Nat /\ k <= n /\ k # 0 /\ DOMAIN cells = 1..n
  OBVIOUS
<1>2. k \in T /\ \A i \in T : i \in Int /\ k >= i
  <2>1. k \in 1..n /\ cells[k] \notin Blank
    BY <1>1
  <2>2. k \in T
    BY <1>1, <2>1 DEF Blank
  <2>3. ASSUME NEW i \in T PROVE i \in Int /\ k >= i
    <3>1. i = 0 \/ (i \in 1..n /\ cells[i] \notin Blank)
      BY <1>1, <2>3 DEF Blank
    <3>2. i \in 1..n /\ ~(k >= i) => i \in (k + 1)..n
      BY <1>1
    <3> QED
      BY <1>1, <3>1, <3>2
  <2> QED
    BY <2>2, <2>3
<1> HIDE DEF T
<1>3. \A x : x \in T /\ (\A i \in T : x >= i) => x = k
  BY <1>1, <1>2
<1>4. Max(T) = k
  <2>1. Max(T) = CHOOSE x \in T : \A i \in T : x >= i
    BY DEF Max
  <2> QED
    BY <1>2, <1>3, <2>1
<1>5. Visible(cells) = SubSeq(cells, 1, k)
  BY <1>4 DEF Visible, T
<1>6. SubSeq(cells, 1, k) \in Seq(Codes) /\ Len(SubSeq(cells, 1, k)) = k
      /\ \A i \in 1..k : SubSeq(cells, 1, k)[i] = cells[i]
  BY <1>1
<1>7. SubSeq(cells, 1, k) = text
  BY <1>6
<1> QED
  BY <1>5, <1>7

---------------------------------------------------------------------------
(* What a value line holds, whatever was drawn on it.  *)

LineLong(cells, long) ==
    /\ cells \in Seq(Codes) /\ Len(cells) = LineLength /\ long \in 0..8
    /\ \A i \in 1..LineLength : i > 6 /\ i > long => cells[i] \in Blank

HoldsError(cells) == \A i \in 1..6 : cells[i] = ErrorCell

HoldsText(cells, long, text) ==
    /\ Len(text) <= long
    /\ \A i \in 1..Len(text) : cells[i] = text[i]
    /\ \A i \in (Len(text) + 1)..(Len(text) + 3) : cells[i] \in Blank

\* A value is drawn.
LEMMA ValueDrawn ==
    ASSUME NEW cells, NEW long, LineLong(cells, long), NEW temp \in Signed14
    PROVE  LET text == FormatTemp(temp)
               drawn == Overwritten(cells, text \o Blanks(Filler))
               longer == Max({long, Len(text)})
           IN  LineLong(drawn, longer) /\ HoldsText(drawn, longer, text)
<1> DEFINE text == FormatTemp(temp)
           all == text \o Blanks(Filler)
           drawn == Overwritten(cells, all)
           longer == Max({long, Len(text)})
           k == Len(text)
<1>1. text \in Seq(Characters) /\ k \in 3..8
  BY FormatTempIs
<1>2. text \in Seq(Codes)
  BY <1>1, CodesAreCells, Widened
<1>3. /\ cells \in Seq(Codes) /\ Len(cells) = 12 /\ long \in 0..8
      /\ \A i \in 1..12 : i > 6 /\ i > long => cells[i] \in Blank
  BY DEF LineLong, LineLength
<1>4. /\ Blanks(3) \in Seq(Codes) /\ Len(Blanks(3)) = 3
      /\ \A i \in 1..3 : Blanks(3)[i] = Space
  BY BlanksAre
<1> HIDE DEF text
<1>5. /\ all \in Seq(Codes) /\ Len(all) = k + 3
      /\ \A i \in 1..k : all[i] = text[i]
      /\ \A i \in (k + 1)..(k + 3) : all[i] = Space
  <2> DEFINE b == Blanks(3)
  <2>1. b \in Seq(Codes) /\ Len(b) = 3 /\ \A i \in 1..3 : b[i] = Space
    BY <1>4
  <2> HIDE DEF b
  <2>2. k \in Nat /\ 3 \in Nat /\ Len(text) = k
    BY <1>1
  <2> HIDE DEF k
  <2>3. /\ text \o b \in Seq(Codes) /\ Len(text \o b) = k + 3
        /\ \A i \in 1..k : (text \o b)[i] = text[i]
        /\ \A i \in (k + 1)..(k + 3) : i - k \in 1..3 /\ (text \o b)[i] = b[i - k]
    <3>1. IsJoin(text \o b, Codes, text, k, b, 3)
      BY <1>2, <2>1, <2>2, JoinIs
    <3> QED
      BY <3>1, Zenon DEF IsJoin
  <2>4. all = text \o b
    BY DEF b, Filler
  <2> QED
    BY <2>1, <2>3, <2>4
<1> HIDE DEF all, k
<1>6. /\ drawn \in Seq(Codes) /\ Len(drawn) = 12
      /\ \A i \in 1..(k + 3) : drawn[i] = all[i]
      /\ \A i \in (k + 4)..12 : drawn[i] = cells[i]
  <2>1. PICK w \in Nat : w = k + 3 /\ 12 \in Nat /\ w <= 12 /\ w + 1 = k + 4
    BY <1>1
  <2>2. /\ drawn \in Seq(Codes) /\ Len(drawn) = 12
        /\ \A i \in 1..w : drawn[i] = all[i]
        /\ \A i \in (w + 1)..12 : drawn[i] = cells[i]
    <3>1. Len(all) = w
      BY <1>5, <2>1
    <3> QED
      BY <1>3, <1>5, <2>1, <3>1, OverwrittenIs, SMTT(60)
  <2> QED
    BY <2>1, <2>2
<1> HIDE DEF drawn
<1>7. longer \in 0..8 /\ longer >= k /\ longer >= long
  <2>1. k \in Int /\ long \in Int
    BY <1>1, <1>3
  <2>2. longer = Max({long, k})
    BY DEF k
  <2> HIDE DEF longer
  <2>3. longer \in {long, k} /\ longer >= long /\ longer >= k
    BY <2>1, <2>2, LargerOf
  <2> QED
    BY <1>1, <1>3, <2>3
<1> HIDE DEF longer
<1>8. Space \in Blank
  BY DEF Blank
<1>9. ASSUME NEW i \in 1..12, i > 6, i > longer
      PROVE  drawn[i] \in Blank
  <2>1. CASE i <= k + 3
    <3>1. i \in (k + 1)..(k + 3) /\ i \in 1..(k + 3)
      BY <1>1, <1>7, <1>9, <2>1
    <3> QED
      BY <1>5, <1>6, <1>8, <3>1
  <2>2. CASE ~(i <= k + 3)
    <3>1. i \in (k + 4)..12 /\ i > long
      BY <1>1, <1>3, <1>7, <1>9, <2>2
    <3> QED
      BY <1>3, <1>6, <1>9, <3>1
  <2> QED
    BY <2>1, <2>2
<1>10. LineLong(drawn, longer)
  BY <1>6, <1>7, <1>9 DEF LineLong, LineLength
<1>11. /\ \A i \in 1..k : i \in 1..(k + 3)
       /\ \A i \in (k + 1)..(k + 3) : i \in 1..(k + 3)
  BY <1>1
<1>12. HoldsText(drawn, longer, text)
  BY <1>5, <1>6, <1>7, <1>8, <1>11 DEF HoldsText, k
<1> QED
  BY <1>10, <1>12 DEF drawn, longer, text, all, k

\* An error is drawn.
LEMMA ErrorDrawn ==
    ASSUME NEW cells, NEW long, LineLong(cells, long)
    PROVE  LET drawn == Overwritten(Overwritten(cells, Blanks(8)), [i \in 1..6 |-> ErrorCell])
           IN  LineLong(drawn, 0) /\ HoldsError(drawn)
<1> DEFINE error == [i \in 1..6 |-> ErrorCell]
           empty == Overwritten(cells, Blanks(8))
           drawn == Overwritten(empty, error)
<1>1. /\ cells \in Seq(Codes) /\ Len(cells) = 12 /\ long \in 0..8
      /\ \A i \in 1..12 : i > 6 /\ i > long => cells[i] \in Blank
  BY DEF LineLong, LineLength
<1>2. /\ Blanks(8) \in Seq(Codes) /\ Len(Blanks(8)) = 8
      /\ \A i \in 1..8 : Blanks(8)[i] = Space
  BY BlanksAre
<1>3. /\ empty \in Seq(Codes) /\ Len(empty) = 12
      /\ \A i \in 1..8 : empty[i] = Space
      /\ \A i \in 9..12 : empty[i] = cells[i]
  <2> DEFINE b == Blanks(8)
  <2>1. b \in Seq(Codes) /\ Len(b) = 8 /\ \A i \in 1..8 : b[i] = Space
    BY <1>2
  <2>2. 8 \in Nat /\ 12 \in Nat /\ 8 <= 12 /\ 8 + 1 = 9
    OBVIOUS
  <2> HIDE DEF b
  <2>3. /\ Overwritten(cells, b) \in Seq(Codes) /\ Len(Overwritten(cells, b)) = 12
        /\ \A i \in 1..8 : Overwritten(cells, b)[i] = b[i]
        /\ \A i \in (8 + 1)..12 : Overwritten(cells, b)[i] = cells[i]
    BY <1>1, <2>1, <2>2, OverwrittenIs
  <2> QED
    BY <2>1, <2>2, <2>3 DEF b
<1>4. error \in Seq(Codes) /\ Len(error) = 6 /\ \A i \in 1..6 : error[i] = ErrorCell
  <2>1. ErrorCell \in Codes
    BY CodesAreCells
  <2> QED
    BY <2>1
<1> HIDE DEF error, empty
<1>5. /\ drawn \in Seq(Codes) /\ Len(drawn) = 12
      /\ \A i \in 1..6 : drawn[i] = ErrorCell
      /\ \A i \in 7..12 : drawn[i] = empty[i]
  <2>1. 6 \in Nat /\ 12 \in Nat /\ 6 <= 12 /\ 6 + 1 = 7
    OBVIOUS
  <2>2. /\ drawn \in Seq(Codes) /\ Len(drawn) = 12
        /\ \A i \in 1..6 : drawn[i] = error[i]
        /\ \A i \in (6 + 1)..12 : drawn[i] = empty[i]
    BY <1>3, <1>4, <2>1, OverwrittenIs
  <2> QED
    BY <1>4, <2>1, <2>2
<1> HIDE DEF drawn
<1>6. Space \in Blank
  BY DEF Blank
<1>7. ASSUME NEW i \in 1..12, i > 6
      PROVE  drawn[i] \in Blank
  <2>1. i \in 7..8 \/ i \in 9..12
    BY <1>7
  <2>2. CASE i \in 7..8
    BY <1>3, <1>5, <1>6, <2>2
  <2>3. CASE i \in 9..12
    <3>1. i > long /\ i \in 7..12
      BY <1>1, <2>3
    <3> QED
      BY <1>1, <1>3, <1>5, <1>7, <2>3, <3>1
  <2> QED
    BY <2>1, <2>2, <2>3
<1>8. LineLong(drawn, 0)
  BY <1>5, <1>7 DEF LineLong, LineLength
<1>9. HoldsError(drawn)
  BY <1>5 DEF HoldsError
<1> QED
  BY <1>8, <1>9 DEF drawn, empty, error

\* A line that holds a value reads as it, unless a longer one shows behind.
LEMMA ValueReads ==
    ASSUME NEW cells, NEW long, LineLong(cells, long), NEW temp \in Signed14
    PROVE  HoldsText(cells, long, FormatTemp(temp)) /\ long <= Len(FormatTemp(temp)) + 3 =>
               WellFormed(Visible(cells)) /\ Hundredths(Visible(cells)) = 25 * temp
<1> DEFINE text == FormatTemp(temp)
           k == Len(text)
<1>0. WellFormed(text) /\ Hundredths(text) = 25 * temp
  BY FormatTempIs
<1>1. text \in Seq(Characters) /\ k \in 3..8
  BY FormatTempIs
<1> HIDE DEF text
<1>2. /\ text \in Seq(Codes) /\ text # << >> /\ text[k] \in Characters /\ text[k] \notin Blank
  <2>1. text \in Seq(Characters) /\ k \in Nat /\ k # 0 /\ Len(text) = k
    BY <1>1
  <2> HIDE DEF k
  <2>2. text # << >> /\ text[k] \in Characters
    BY <2>1, LastOf
  <2>3. text \in Seq(Codes)
    BY <2>1, CodesAreCells, Widened
  <2> QED
    BY <2>2, <2>3, CodesAreCells
<1>3. cells \in Seq(Codes) /\ Len(cells) = 12
  BY DEF LineLong, LineLength
<1>4. HoldsText(cells, long, text) => \A i \in 1..k : cells[i] = text[i]
  BY DEF HoldsText, text
<1>5. k \in Nat /\ 12 \in Nat /\ k <= 12 /\ Len(text) = k
  <2>1. k \in 3..8
    BY <1>1
  <2>2. Len(text) = k
    OBVIOUS
  <2> HIDE DEF k
  <2>3. k \in Nat /\ 12 \in Nat /\ k <= 12
    BY <2>1
  <2> QED
    BY <2>2, <2>3
<1>6. ASSUME HoldsText(cells, long, text), long <= k + 3, NEW i \in (k + 1)..12
      PROVE  cells[i] \in Blank
  <2>1. CASE i \in (k + 1)..(k + 3)
    BY <1>6, <2>1 DEF HoldsText
  <2>2. CASE i \notin (k + 1)..(k + 3)
    <3>1. long \in 0..8 /\ k \in 3..8
      BY <1>1 DEF LineLong
    <3>2. i \in 1..12 /\ i > 6 /\ i > long
      <4> HIDE DEF k
      <4> QED
        BY <1>6, <2>2, <3>1
    <3> QED
      BY <3>2 DEF LineLong, LineLength
  <2> QED
    BY <2>1, <2>2
<1>7. ASSUME HoldsText(cells, long, text), long <= k + 3
      PROVE  Visible(cells) = text
  <2>2. \A i \in (k + 1)..12 : cells[i] \in Blank
    BY <1>6, <1>7
  <2> HIDE DEF k
  <2> QED
    BY <1>2, <1>3, <1>4, <1>7, <1>5, <2>2, VisibleIs
<1> QED
  BY <1>0, <1>7 DEF text

\* After a fault the line says the error alone.
LEMMA ErrorReads ==
    ASSUME NEW cells, LineLong(cells, 0), HoldsError(cells)
    PROVE  Visible(cells) = [i \in 1..6 |-> ErrorCell]
<1> DEFINE error == [i \in 1..6 |-> ErrorCell]
<1>1. /\ cells \in Seq(Codes) /\ Len(cells) = 12
      /\ \A i \in 1..12 : i > 6 /\ i > 0 => cells[i] \in Blank
  BY DEF LineLong, LineLength
<1>2. /\ error \in Seq(Codes) /\ Len(error) = 6 /\ error # << >>
      /\ \A i \in 1..6 : error[i] = ErrorCell
  <2>1. ErrorCell \in Codes
    BY CodesAreCells
  <2> QED
    BY <2>1
<1> HIDE DEF error
<1>3. error[6] \notin Blank
  BY <1>2, CodesAreCells
<1>4. \A i \in 1..6 : cells[i] = error[i]
  BY <1>2 DEF HoldsError
<1>5. \A i \in 7..12 : cells[i] \in Blank
  BY <1>1
<1>6. Visible(cells) = error
  <2>1. 6 \in Nat /\ 12 \in Nat /\ 6 <= 12 /\ 6 + 1 = 7
    OBVIOUS
  <2>2. \A i \in (6 + 1)..12 : cells[i] \in Blank
    BY <1>5, <2>1
  <2> QED
    BY <1>1, <1>2, <1>3, <1>4, <2>1, <2>2, VisibleIs
<1> QED
  BY <1>6 DEF error

---------------------------------------------------------------------------
(* The power's line.  *)

LevelLineIs(cells) ==
    /\ cells \in Seq(Codes) /\ Len(cells) = LevelLength /\ cells[5] \in Blank

LevelShows(cells, percent) ==
    LET text == Visible(cells)
    IN  /\ text[Len(text)] = Percent
        /\ \A i \in 1..(Len(text) - 1) : text[i] \in Figures
        /\ Number(text) = percent

LEMMA LevelDrawn ==
    ASSUME NEW cells, LevelLineIs(cells), NEW percent \in 1..100
    PROVE  LET drawn == Overwritten(cells, LevelText(percent))
           IN  LevelLineIs(drawn) /\ LevelShows(drawn, percent)
<1> DEFINE d == digits[percent]
           k == Len(d)
           text == d \o <<Percent>>
           all == LevelText(percent)
           drawn == Overwritten(cells, all)
<1>1. /\ d \in Seq(Figures) /\ k \in 1..3
      /\ all = text \o Blanks(3 - k)
      /\ Number(text) = percent
  BY LevelTextIs
<1>2. cells \in Seq(Codes) /\ Len(cells) = 5 /\ cells[5] \in Blank
  BY DEF LevelLineIs, LevelLength
<1> HIDE DEF d
<1>3. /\ text \in Seq(Codes) /\ Len(text) = k + 1 /\ text[k + 1] = Percent
      /\ \A i \in 1..k : text[i] \in Figures
  <2>1. d \in Seq(Figures) /\ k \in Nat /\ k # 0 /\ Len(d) = k
    BY <1>1
  <2> HIDE DEF k
  <2>2. Percent \in Codes /\ d \in Seq(Codes)
    BY <2>1, CodesAreCells, Widened
  <2>3. \A i \in 1..k : d[i] \in Figures
    BY <2>1, LastOf
  <2>4. <<Percent>> \in Seq(Codes) /\ Len(<<Percent>>) = 1 /\ <<Percent>>[1] = Percent
    BY <2>2
  <2>5. 1 \in Nat /\ 1 \in 1..1
    OBVIOUS
  <2>6. /\ text \in Seq(Codes) /\ Len(text) = k + 1
        /\ \A i \in 1..k : text[i] = d[i]
        /\ \A i \in 1..1 : text[k + i] = <<Percent>>[i]
    <3>1. IsJoin(text, Codes, d, k, <<Percent>>, 1)
      BY <2>1, <2>2, <2>4, <2>5, JoinIs
    <3> QED
      BY <3>1, Zenon DEF IsJoin
  <2> QED
    BY <2>3, <2>4, <2>5, <2>6
<1> HIDE DEF text, k, all
<1>4. /\ Blanks(3 - k) \in Seq(Codes) /\ Len(Blanks(3 - k)) = 3 - k
      /\ \A i \in 1..(3 - k) : Blanks(3 - k)[i] = Space
  <2>1. 3 - k \in Nat
    BY <1>1
  <2> QED
    BY <2>1, BlanksAre
<1>5. /\ all \in Seq(Codes) /\ Len(all) = 4
      /\ \A i \in 1..(k + 1) : all[i] = text[i]
      /\ \A i \in (k + 2)..4 : all[i] = Space
  <2> DEFINE b == Blanks(3 - k)
  <2>1. b \in Seq(Codes) /\ Len(b) = 3 - k /\ \A i \in 1..(3 - k) : b[i] = Space
    BY <1>4
  <2> HIDE DEF b
  <2>2. /\ text \o b \in Seq(Codes) /\ Len(text \o b) = 4
        /\ \A i \in 1..(k + 1) : (text \o b)[i] = text[i]
        /\ \A i \in (k + 2)..4 : (text \o b)[i] = b[i - (k + 1)]
    <3>1. PICK p \in Nat, r \in Nat : p = k + 1 /\ r = 3 - k /\ p + r = 4 /\ p + 1 = k + 2
      BY <1>1
    <3>2. /\ text \o b \in Seq(Codes) /\ Len(text \o b) = p + r
          /\ \A i \in 1..p : (text \o b)[i] = text[i]
          /\ \A i \in (p + 1)..(p + r) : i - p \in 1..r /\ (text \o b)[i] = b[i - p]
      <4>1. Len(text) = p /\ Len(b) = r
        BY <1>3, <2>1, <3>1
      <4> QED
        <5>1. IsJoin(text \o b, Codes, text, p, b, r)
          BY <1>3, <2>1, <4>1, JoinIs
        <5> QED
          BY <5>1, Zenon DEF IsJoin
    <3> QED
      BY <3>1, <3>2
  <2>3. \A i \in (k + 2)..4 : i - (k + 1) \in 1..(3 - k)
    BY <1>1
  <2>4. all = text \o b
    BY <1>1 DEF b
  <2> QED
    BY <2>1, <2>2, <2>3, <2>4
<1>6. /\ drawn \in Seq(Codes) /\ Len(drawn) = 5
      /\ \A i \in 1..4 : drawn[i] = all[i]
      /\ drawn[5] = cells[5]
  <2>1. 4 \in Nat /\ 5 \in Nat /\ 4 <= 5 /\ 5 \in (4 + 1)..5
    OBVIOUS
  <2>2. /\ drawn \in Seq(Codes) /\ Len(drawn) = 5
        /\ \A i \in 1..4 : drawn[i] = all[i]
        /\ \A i \in (4 + 1)..5 : drawn[i] = cells[i]
    BY <1>2, <1>5, <2>1, OverwrittenIs
  <2> QED
    BY <2>1, <2>2
<1> HIDE DEF drawn
<1>7. \A i \in 1..(k + 1) : drawn[i] = text[i]
  <2>1. k \in 1..3
    BY <1>1
  <2>2. \A i \in 1..(k + 1) : i \in 1..4
    BY <2>1
  <2> QED
    BY <1>5, <1>6, <2>2
<1>8. \A i \in (k + 2)..5 : drawn[i] \in Blank
  <2>1. \A i \in (k + 2)..5 : i = 5 \/ (i \in (k + 2)..4 /\ i \in 1..4)
    BY <1>1
  <2>2. Space \in Blank
    BY DEF Blank
  <2> QED
    BY <1>2, <1>5, <1>6, <2>1, <2>2
<1>9. Visible(drawn) = text
  <2>1. /\ k + 1 \in Nat /\ k + 1 # 0 /\ 5 \in Nat /\ k + 1 <= 5 /\ (k + 1) + 1 = k + 2
    BY <1>1
  <2>2. text # << >> /\ text[k + 1] \notin Blank
    BY <1>3, <2>1, LastOf, CodesAreCells
  <2>3. \A i \in ((k + 1) + 1)..5 : drawn[i] \in Blank
    BY <1>8, <2>1
  <2>4. \A i \in 1..(k + 1) : drawn[i] = text[i]
    BY <1>7
  <2> QED
    BY <1>3, <1>6, <2>1, <2>2, <2>3, <2>4, VisibleIs
<1>10. LevelLineIs(drawn)
  BY <1>2, <1>6 DEF LevelLineIs, LevelLength
<1>11. LevelShows(drawn, percent)
  <2>1. text[Len(text)] = Percent
    BY <1>1, <1>3
  <2>2. \A i \in 1..(Len(text) - 1) : text[i] \in Figures
    BY <1>1, <1>3
  <2> QED
    BY <1>1, <1>9, <2>1, <2>2 DEF LevelShows, text
<1> QED
  BY <1>10, <1>11 DEF drawn, all

---------------------------------------------------------------------------
(* The screen.  *)

\* What the value line and the power's hold.  "longest" never counts a text of
\* more than eight characters, and no cell behind it is written.
LinesHold ==
    /\ LineLong(valueLine, longest)
    /\ shown # NoReading =>
           /\ shown \in Measurements
           /\ Faulty(shown) => longest = 0 /\ HoldsError(valueLine)
           /\ ~Faulty(shown) => HoldsText(valueLine, longest, FormatTemp(shown.temp))
    /\ LevelLineIs(levelLine)
    /\ level \in Levels \cup {0}
    /\ level # 0 => LevelShows(levelLine, level)

DataTyped ==
    /\ valid \in BOOLEAN
    /\ data \in [Temp : Int, InternalTemp : Int,
                 FailureType : {"OK", "OpenFault", "ShortCircuiteToGND", "ShortCircuiteToVCC"}]

ReadingInv ==
    /\ measured \in Measurements /\ DataTyped
    /\ DataMatches
    /\ LinesHold

LEMMA UnpackedTyped ==
    ASSUME NEW m \in Measurements
    PROVE  Unpacked(SpiBytes(m)) \in
               [Temp : Int, InternalTemp : Int,
                FailureType : {"OK", "OpenFault", "ShortCircuiteToGND", "ShortCircuiteToVCC"}]
<1>1. m \in Measurement /\ m.temp \in Int /\ m.internal \in Int
  <2>1. m \in Measurement
    BY MeasurementAssumption
  <2>2. m.temp \in Signed14 /\ m.internal \in Signed12
    BY <2>1 DEF Measurement
  <2>3. (\A t \in Signed14 : t \in Int) /\ (\A t \in Signed12 : t \in Int)
    BY DEF Signed14, Signed12
  <2> QED
    BY <2>1, <2>2, <2>3
<1>2. Unpacked(SpiBytes(m)) = [Temp |-> m.temp, InternalTemp |-> m.internal,
                               FailureType |-> FailureType(LowerHalf(m))]
  BY <1>1, Decoding
<1>3. FailureType(LowerHalf(m)) \in {"OK", "OpenFault", "ShortCircuiteToGND", "ShortCircuiteToVCC"}
  BY DEF FailureType
<1> QED
  BY <1>1, <1>2, <1>3

LEMMA EmptyLineIs ==
    ASSUME NEW n \in Nat
    PROVE  /\ EmptyLine(n) \in Seq(Codes) /\ Len(EmptyLine(n)) = n
           /\ \A i \in 1..n : EmptyLine(n)[i] \in Blank
<1>1. NoCell \in Codes /\ NoCell \in Blank
  BY CodesAreCells DEF Blank
<1> QED
  BY <1>1 DEF EmptyLine

LEMMA ReadingStarts ==
    ReadingInit => ReadingInv
<1> SUFFICES ASSUME ReadingInit PROVE ReadingInv
  OBVIOUS
<1>1. measured \in Measurements /\ DataMatches /\ DataTyped
  BY ReadMatches, UnpackedTyped DEF ReadingInit, DataMatches, DataTyped
<1>2. LineLong(valueLine, longest)
  <2>1. valueLine = EmptyLine(12) /\ longest = 0 /\ 12 \in Nat
    BY DEF ReadingInit, LineLength
  <2>2. /\ valueLine \in Seq(Codes) /\ Len(valueLine) = 12
        /\ \A i \in 1..12 : valueLine[i] \in Blank
    BY <2>1, EmptyLineIs
  <2> QED
    BY <2>1, <2>2 DEF LineLong, LineLength
<1>3. LevelLineIs(levelLine)
  <2>1. levelLine = EmptyLine(5) /\ 5 \in Nat /\ 5 \in 1..5
    BY DEF ReadingInit, LevelLength
  <2>2. /\ levelLine \in Seq(Codes) /\ Len(levelLine) = 5
        /\ \A i \in 1..5 : levelLine[i] \in Blank
    BY <2>1, EmptyLineIs
  <2> QED
    BY <2>1, <2>2 DEF LevelLineIs, LevelLength
<1>4. shown = NoReading /\ level = 0
  BY DEF ReadingInit
<1> QED
  BY <1>1, <1>2, <1>3, <1>4 DEF ReadingInv, LinesHold

LEMMA ReadingGoesOn ==
    ReadingInv /\ [ReadingNext]_readingVars => ReadingInv'
<1> SUFFICES ASSUME ReadingInv, [ReadingNext]_readingVars
             PROVE  ReadingInv'
  OBVIOUS
<1>1. /\ measured \in Measurements /\ measured \in Measurement
      /\ measured.temp \in Signed14
      /\ data.Temp = measured.temp /\ (valid <=> ~Faulty(measured))
      /\ LineLong(valueLine, longest) /\ LevelLineIs(levelLine)
  <2>1. measured \in Measurements /\ measured \in Measurement
    BY MeasurementAssumption DEF ReadingInv
  <2>2. measured.temp \in Signed14
    BY <2>1 DEF Measurement
  <2> QED
    BY <2>1, <2>2 DEF ReadingInv, DataMatches, LinesHold
<1>2. ASSUME NEW m \in Measurements, ReadData(m)
      PROVE  ReadingInv'
  <2>1. measured' \in Measurements /\ DataMatches' /\ DataTyped'
    BY <1>2, ReadMatches, UnpackedTyped DEF ReadData, DataMatches, DataTyped
  <2>2. LinesHold'
    BY <1>2 DEF ReadData, ReadingInv, LinesHold
  <2> QED
    BY <2>1, <2>2 DEF ReadingInv
<1>3. CASE DrawData
  <2>1. (measured \in Measurements)' /\ DataMatches' /\ DataTyped'
    BY <1>3 DEF DrawData, ReadingInv, DataMatches, DataTyped
  <2>2. /\ valueLine' = Overwritten(valueLine, FormatTemp(measured.temp) \o Blanks(Filler))
        /\ longest' = Max({longest, Len(FormatTemp(measured.temp))})
        /\ shown' = measured /\ ~Faulty(measured)
        /\ UNCHANGED <<levelLine, level>>
    BY <1>1, <1>3 DEF DrawData
  <2>3. LineLong(valueLine', longest') /\ HoldsText(valueLine', longest', FormatTemp(measured.temp))
    BY <1>1, <2>2, ValueDrawn
  <2>4. (LevelLineIs(levelLine) /\ level \in Levels \cup {0}
            /\ (level # 0 => LevelShows(levelLine, level)))'
    BY <2>2 DEF ReadingInv, LinesHold
  <2>5. LinesHold'
    BY <1>1, <2>2, <2>3, <2>4 DEF LinesHold
  <2> QED
    BY <2>1, <2>5 DEF ReadingInv
<1>4. CASE DrawError
  <2>1. (measured \in Measurements)' /\ DataMatches' /\ DataTyped'
    BY <1>4 DEF DrawError, ReadingInv, DataMatches, DataTyped
  <2>2. /\ valueLine' = Overwritten(Overwritten(valueLine, Blanks(8)), [i \in 1..6 |-> ErrorCell])
        /\ longest' = 0
        /\ shown' = measured /\ Faulty(measured)
        /\ UNCHANGED <<levelLine, level>>
    BY <1>1, <1>4 DEF DrawError
  <2>3. LineLong(valueLine', longest') /\ HoldsError(valueLine')
    BY <1>1, <2>2, ErrorDrawn
  <2>4. (LevelLineIs(levelLine) /\ level \in Levels \cup {0}
            /\ (level # 0 => LevelShows(levelLine, level)))'
    BY <2>2 DEF ReadingInv, LinesHold
  <2>5. LinesHold'
    BY <1>1, <2>2, <2>3, <2>4 DEF LinesHold
  <2> QED
    BY <2>1, <2>5 DEF ReadingInv
<1>5. ASSUME NEW percent \in Levels, DrawLevel(percent)
      PROVE  ReadingInv'
  <2>1. (measured \in Measurements)' /\ DataMatches' /\ DataTyped'
    BY <1>5 DEF DrawLevel, ReadingInv, DataMatches, DataTyped
  <2>2. /\ levelLine' = Overwritten(levelLine, LevelText(percent)) /\ level' = percent
        /\ UNCHANGED <<valueLine, shown, longest>>
    BY <1>5 DEF DrawLevel
  <2>3. percent \in 1..100
    BY LevelAssumption
  <2>4. LevelLineIs(levelLine') /\ LevelShows(levelLine', level')
    BY <1>1, <2>2, <2>3, LevelDrawn
  <2>5. LinesHold'
    BY <2>2, <2>4 DEF ReadingInv, LinesHold
  <2> QED
    BY <2>1, <2>5 DEF ReadingInv
<1>6. CASE UNCHANGED readingVars
  BY <1>6 DEF readingVars, ReadingInv, DataMatches, DataTyped, LinesHold
<1> QED
  BY <1>2, <1>3, <1>4, <1>5, <1>6 DEF ReadingNext

\* A line of a given length is a row of cells.
LEMMA LineIsCells ==
    ASSUME NEW cells \in Seq(Codes), NEW n \in Nat, Len(cells) = n
    PROVE  cells \in Cells(n)
<1>1. cells \in [1..n -> Codes]
  OBVIOUS
<1> QED
  BY <1>1, CodesAreCells

LEMMA LinesTyped ==
    ReadingInv => ReadingTypeOK
<1> SUFFICES ASSUME ReadingInv PROVE ReadingTypeOK
  OBVIOUS
<1>1. valueLine \in Cells(12) /\ longest \in 0..8
  <2>1. valueLine \in Seq(Codes) /\ Len(valueLine) = 12 /\ longest \in 0..8 /\ 12 \in Nat
    BY DEF ReadingInv, LinesHold, LineLong, LineLength
  <2> QED
    BY <2>1, LineIsCells
<1>2. levelLine \in Cells(5)
  <2>1. levelLine \in Seq(Codes) /\ Len(levelLine) = 5 /\ 5 \in Nat
    BY DEF ReadingInv, LinesHold, LevelLineIs, LevelLength
  <2> QED
    BY <2>1, LineIsCells
<1>3. valueLine \in Cells(LineLength) /\ levelLine \in Cells(LevelLength) /\ longest \in 0..LineLength
  BY <1>1, <1>2 DEF LineLength, LevelLength
<1>4. shown \in Measurements \cup {NoReading} /\ level \in Levels \cup {0}
  BY DEF ReadingInv, LinesHold
<1>5. measured \in Measurements
  BY DEF ReadingInv
<1> QED
  BY <1>3, <1>4, <1>5 DEF ReadingInv, DataTyped, ReadingTypeOK

LEMMA LinesRead ==
    ReadingInv => ScreenReads
<1> SUFFICES ASSUME ReadingInv PROVE ScreenReads
  OBVIOUS
<1>1. LineLong(valueLine, longest)
  BY DEF ReadingInv, LinesHold
<1>2. SensorReads
  <2> SUFFICES ASSUME shown # NoReading
               PROVE  IF Faulty(shown)
                      THEN Visible(valueLine) = [i \in 1..6 |-> ErrorCell]
                      ELSE longest <= Len(FormatTemp(shown.temp)) + 3 =>
                               /\ WellFormed(Visible(valueLine))
                               /\ Hundredths(Visible(valueLine)) = 25 * shown.temp
    BY DEF SensorReads
  <2>1. shown \in Measurement /\ shown.temp \in Signed14
    BY MeasurementAssumption DEF ReadingInv, LinesHold, Measurement
  <2>2. CASE Faulty(shown)
    <3>1. LineLong(valueLine, 0) /\ HoldsError(valueLine)
      BY <1>1, <2>2 DEF ReadingInv, LinesHold
    <3>2. Visible(valueLine) = [i \in 1..6 |-> ErrorCell]
      BY <3>1, ErrorReads
    <3> QED
      BY <2>2, <3>2
  <2>3. CASE ~Faulty(shown)
    <3>1. HoldsText(valueLine, longest, FormatTemp(shown.temp))
      BY <2>3 DEF ReadingInv, LinesHold
    <3>2. longest <= Len(FormatTemp(shown.temp)) + 3 =>
              WellFormed(Visible(valueLine)) /\ Hundredths(Visible(valueLine)) = 25 * shown.temp
      BY <1>1, <2>1, <3>1, ValueReads
    <3> QED
      BY <2>3, <3>2
  <2> QED
    BY <2>2, <2>3
<1>3. LevelReads
  BY DEF ReadingInv, LinesHold, LevelReads, LevelShows
<1> QED
  BY <1>2, <1>3 DEF ScreenReads

LEMMA ReadingInvariant == ReadingSpec => []ReadingInv
  BY ReadingStarts, ReadingGoesOn, PTL DEF ReadingSpec

\* No text runs over the end of its line, and every cell holds a character of
\* the texts in use, whatever is measured and drawn, in whatever order
\* (UserTasks.c:250-285).
THEOREM ReadingTypeCorrect == ReadingSpec => []ReadingTypeOK
  BY ReadingInvariant, LinesTyped, PTL

\* Whatever was measured, drawn and announced before, every temperature of the
\* converter's 14 bits reads on the screen as it is, to the hundredth, unless
\* a text longer by more than its filling was there; an error reads as one
\* and a level as its number (UserTasks.c:250-285, utils.c:39-124).
THEOREM ScreenAlwaysReads == ReadingSpec => []ScreenReads
  BY ReadingInvariant, LinesRead, PTL
=============================================================================
