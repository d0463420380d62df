--------------------------- MODULE SamogonProofs ---------------------------
(***************************************************************************)
(* The composition, for every set of levels and readings, every length of  *)
(* the queues and every window of the relay: the relay and the control     *)
(* task meet only what their modules' environments allow, and the heater   *)
(* is driven only after a confirmed press.                                 *)
(*                                                                         *)
(* The relay's environment stores a level before it turns the power on     *)
(* first; that needs Booted, which holds of the control task in whatever   *)
(* company.  The control task's environment queues only display messages;  *)
(* that needs Fresh, which holds of the sensor task.                       *)
(*                                                                         *)
(* That the screen catches up is inductive only when it says of every      *)
(* point of the three tasks what is still to be announced: ToldInv.  The   *)
(* announcements are followed through the queue by the last message of     *)
(* each field in it (LastNews), so that a step of the display task is      *)
(* seen to change nothing of what will be shown, and a send to change only *)
(* its own field.                                                          *)
(***************************************************************************)
EXTENDS Samogon, SequenceTheorems, TLAPS

ControlTypes ==
    /\ controlQueue \in Seq(Control!ControlMessage)
    /\ powerOn \in BOOLEAN
    /\ powerPercent \in Levels \cup {0}
    /\ nvmPower \in Levels
    /\ flash \in Levels \cup {Blank}
    /\ buttonHigh \in BOOLEAN
    /\ controlPc \in Control!Places
    /\ booting \in BOOLEAN
    /\ on \in BOOLEAN
    /\ level \in Levels
    /\ last \in [Control!RotaryChannels -> Stamps \cup {0}]
    /\ confirmed \in BOOLEAN

\* Until the loop is entered nothing is on; in the loop a level is stored.
Booted ==
    /\ controlPc \in {"receive", "confirm", "persist"} => ~booting
    /\ booting => ~on /\ ~powerOn
    /\ ~booting => powerPercent \in Levels

RelayTypes ==
    /\ zeroCrossCount \in 0..(CountWrap - 1)
    /\ moduloCounter \in 0..(Modulo - 1)
    /\ ssrOn \in BOOLEAN
    /\ ssrPin \in BOOLEAN

\* Whatever is on, a confirmed press turned on.
Pressed == (on \/ powerOn \/ ~ssrPin) => confirmed

\* What the sensor task's buffers hold at each place is what the converters
\* returned since the tick.
Fresh ==
    /\ sensorPc = "readFirst" => sampled = Sensor!NothingSampled
    /\ sensorPc = "readSecond" =>
           tempData[1] \in Readings /\ sampled[1] = {tempData[1]} /\ sampled[2] = {}
    /\ sensorPc = "sendData" =>
           /\ tempData \in [{1, 2} -> Readings] /\ tempData # lastTemp
           /\ sampled[1] = {tempData[1]} /\ sampled[2] = {tempData[2]}
    /\ sensorPc = "sendError" => Fault \in sampled[1] \/ Fault \in sampled[2]

PortTypes ==
    /\ displayPc \in {"receive", "draw", "print"}
    /\ message \in Display!DisplayMessage \cup {Display!NothingShown}
    /\ displayPc # "receive" => message \in Display!DisplayMessage
    /\ screen \in [Display!Fields -> Display!DisplayMessage \cup {Display!NothingShown}]
    /\ debugPrint \in BOOLEAN
    /\ authorized \in BOOLEAN
    /\ running \in BOOLEAN
    /\ portFree \in 0..PortLines
    /\ cdcPc \in {"check", "getc", "reply", "fill"}

ControlPart == ControlTypes /\ Booted
SensorPart  == Sensor!TypeOK /\ Fresh
Queued      == displayQueue \in Seq(Display!DisplayMessage)

Inv ==
    /\ ControlPart /\ RelayTypes /\ Pressed /\ SensorPart
    /\ PortTypes /\ Queued /\ missed \subseteq Kinds

Simulates == [Control!Next]_(Control!vars) /\ [Ssr!Next]_(Ssr!vars)

---------------------------------------------------------------------------
(* What has been announced.  *)

\* The last message of field f in q is v.
LastNews(q, f, v) ==
    \E i \in 1..Len(q) :
        /\ q[i] = v /\ Display!Field(v) = f
        /\ \A j \in (i + 1)..Len(q) : Display!Field(q[j]) # f

NoNews(q, f) == \A i \in 1..Len(q) : Display!Field(q[i]) # f

\* A field that shows s, with the messages of q to come, will show v.
Shown(q, s, f, v) == LastNews(q, f, v) \/ (NoNews(q, f) /\ s = v)

\* What the task's level is compared with is the level.
Saved == controlPc # "persist" => nvmPower = level

\* The switch and the level have been announced as they are.
OutputTold ==
    controlPc # "sendOn" /\ "PowerOutputChanged" \notin missed =>
        Shown(Coming, screen["output"], "output", Display!PowerOutputChanged(on))

LevelAnnounced ==
    \/ controlPc = "storeLevel"
    \/ ~booting /\ controlPc \notin {"persist", "sendLevel"}

LevelTold ==
    LevelAnnounced /\ "PowerLevelChanged" \notin missed =>
        Shown(Coming, screen["level"], "level", Display!PowerLevelChanged(level))

\* What the sensors' field may show: see SensorsCatchUp.
Sensed ==
    {Display!SensorDataChanged(lastTemp), Display!SensorError}
        \cup (IF lastTemp = [s \in {1, 2} |-> Zero]
              THEN {Display!NothingShown} ELSE {})

DataTold ==
    "SensorDataChanged" \notin missed =>
        \E v \in Sensed : Shown(Coming, screen["sensors"], "sensors", v)

\* An output message is still the display task's while its line is printed:
\* it has been drawn, and what wiped it off was drawn over or missed it.
Drawn ==
    /\ displayPc = "print" /\ message.type = "PowerOutputChanged"
    /\ "PowerOutputChanged" \notin missed
    => screen["output"] = message \/ ~NoNews(displayQueue, "output")

\* Only the two power messages are printed.
Printing ==
    displayPc = "print" => message.type \in {"PowerOutputChanged", "PowerLevelChanged"}

ToldInv == Saved /\ Printing /\ OutputTold /\ LevelTold /\ DataTold /\ Drawn


---------------------------------------------------------------------------
(* What is sent.  *)

\* The control task's and the sensor task's messages are display messages.
LEMMA MessageLemma ==
    /\ \A b \in BOOLEAN : Control!PowerOutputChanged(b) \in Display!DisplayMessage
    /\ \A l \in Levels : Control!PowerLevelChanged(l) \in Display!DisplayMessage
    /\ SensorMessages \subseteq Display!DisplayMessage
    /\ Sensor!SensorError \in SensorMessages
    /\ \A t \in [{1, 2} -> Readings] : Sensor!SensorDataChanged(t) \in SensorMessages
    /\ Control!DisplayMessage = Display!DisplayMessage
BY DEF SensorMessages, Control!DisplayMessage, Control!PowerOutputChanged,
       Control!PowerLevelChanged, Sensor!SensorError, Sensor!SensorDataChanged,
       Display!DisplayMessage, Display!PowerOutputChanged, Display!PowerLevelChanged,
       Display!SensorDataChanged, Display!SensorError

\* What is read from flash is a level.
LEMMA RestoredLemma ==
    ASSUME NEW row \in Levels \cup {Blank}
    PROVE  Control!Restored(row) \in Levels
BY LevelsAssumption DEF Control!Restored

\* With no edge seen, no channel waits.
LEMMA NoEdgeLemma == Control!NoEdge \in [Control!RotaryChannels -> Stamps \cup {0}]
BY DEF Control!NoEdge

\* A send leaves a queue of display messages, whether it found room or not.
LEMMA SendLemma ==
    ASSUME Queued, NEW m \in Display!DisplayMessage,
           Control!Send(m) \/ Sensor!Send(m)
    PROVE  Queued'
BY DEF Queued, Control!Send, Sensor!Send

---------------------------------------------------------------------------
\* The supply comes on.
LEMMA InitInv == Init => Inv
<1> SUFFICES ASSUME Init PROVE Inv
  OBVIOUS
<1>0. Control!Init /\ Ssr!Init /\ Sensor!Init /\ Display!Init
  BY DEF Init
<1>1. ControlPart
  <2>1. nvmPower \in Levels /\ level = nvmPower
    BY <1>0, RestoredLemma DEF Control!Init
  <2>2. controlQueue \in Seq(Control!ControlMessage)
    BY <1>0 DEF Control!Init
  <2>3. last \in [Control!RotaryChannels -> Stamps \cup {0}]
    BY <1>0, NoEdgeLemma DEF Control!Init
  <2>4. /\ powerOn = FALSE /\ powerPercent = 0 /\ flash \in Levels \cup {Blank}
        /\ buttonHigh \in BOOLEAN /\ controlPc = "sendOn" /\ booting = TRUE
        /\ on = FALSE /\ confirmed = FALSE
    BY <1>0 DEF Control!Init
  <2> QED
    BY <2>1, <2>2, <2>3, <2>4 DEF ControlPart, ControlTypes, Booted, Control!Places
<1>2. RelayTypes
  <2>1. 0 \in 0..(CountWrap - 1) /\ 0 \in 0..(Modulo - 1)
    BY CountersAssumption
  <2> QED
    BY <1>0, <2>1 DEF Ssr!Init, RelayTypes
<1>3. Pressed
  BY DEF Init, Ssr!Init, Control!Init, Pressed
<1>4. SensorPart
  <2>1. Sensor!TypeOK
    <3>1. sampled \in [{1, 2} -> SUBSET (Readings \cup {Fault})]
      BY DEF Init, Sensor!Init, Sensor!NothingSampled, Sensor!Sensors
    <3> QED
      BY <3>1, ReadingsAssumption DEF Init, Sensor!Init, Sensor!TypeOK, Sensor!Sensors
  <2> QED
    BY <2>1 DEF Init, Sensor!Init, SensorPart, Fresh
<1>5. PortTypes
  <2>1. PortLines \in 0..PortLines
    BY PortAssumption
  <2> QED
    BY <1>0, <2>1 DEF Display!Init, PortTypes
<1>6. Queued /\ missed \subseteq Kinds
  BY DEF Init, Display!Init, Queued
<1> QED
  BY <1>1, <1>2, <1>3, <1>4, <1>5, <1>6 DEF Inv

---------------------------------------------------------------------------
(* The control task.  *)

\* What the control task's steps keep: the types of its variables,
LEMMA TaskControlTypes ==
    ASSUME ControlTypes, ControlRuns
    PROVE  ControlTypes'
<1> USE DEF ControlTypes, ControlRuns, ControlSends, ControlComputes, Control!Places,
            Control!shared, Control!config, Control!locals
<1>1. CASE Control!SendOn \/ Control!SendLevel \/ Control!StoreOn \/ Control!ConfirmPress
           \/ Control!Persist
  BY <1>1 DEF Control!SendOn, Control!SendLevel, Control!StoreOn, Control!ConfirmPress,
              Control!Persist
<1>2. CASE Control!StoreLevel
  BY <1>2, NoEdgeLemma DEF Control!StoreLevel
<1> DEFINE m == Head(controlQueue)
<1>3. ASSUME controlQueue # << >>
      PROVE  m.type \in {"PushButton", "ChannelA", "ChannelB"} /\ m.ticks \in Stamps
             /\ Tail(controlQueue) \in Seq(Control!ControlMessage)
  <2>1. m \in Control!ControlMessage /\ Tail(controlQueue) \in Seq(Control!ControlMessage)
    BY <1>3
  <2> QED
    BY <2>1 DEF Control!ControlMessage
<1>4. CASE Control!ReceivePress
  BY <1>3, <1>4 DEF Control!ReceivePress
<1>5. CASE Control!ReceiveEdge
  <2>1. Control!KeepEdge(last, m.type, m.ticks) \in [Control!RotaryChannels -> Stamps \cup {0}]
    BY <1>3, <1>5, NoEdgeLemma DEF Control!ReceiveEdge, Control!KeepEdge
  <2> QED
    BY <1>3, <1>5, <2>1 DEF Control!ReceiveEdge
<1>6. CASE Control!ReceiveTurn
  <2>1. level' \in Levels
    BY <1>6, LevelsAssumption DEF Control!ReceiveTurn
  <2> QED
    BY <1>3, <1>6, <2>1, NoEdgeLemma DEF Control!ReceiveTurn
<1> QED
  BY <1>1, <1>2, <1>4, <1>5, <1>6

\* that nothing is on before the loop is entered, where a level is stored,
LEMMA TaskBooted ==
    ASSUME ControlTypes, Booted, ControlRuns
    PROVE  Booted'
<1> USE DEF ControlTypes, Booted, ControlRuns, ControlSends, ControlComputes,
            Control!shared, Control!config, Control!locals
<1>1. CASE Control!SendOn \/ Control!SendLevel
  BY <1>1 DEF Control!SendOn, Control!SendLevel
<1>2. CASE Control!StoreOn
  BY <1>2 DEF Control!StoreOn
<1>3. CASE Control!StoreLevel
  BY <1>3 DEF Control!StoreLevel
<1>4. CASE Control!ReceivePress \/ Control!ReceiveEdge \/ Control!ReceiveTurn
  BY <1>4 DEF Control!ReceivePress, Control!ReceiveEdge, Control!ReceiveTurn
<1>5. CASE Control!ConfirmPress \/ Control!Persist
  BY <1>5 DEF Control!ConfirmPress, Control!Persist
<1> QED
  BY <1>1, <1>2, <1>3, <1>4, <1>5

\* that whatever is on was pressed,
LEMMA TaskPressed ==
    ASSUME ControlTypes, Pressed, ControlRuns
    PROVE  Pressed'
BY DEF ControlTypes, Pressed, ControlRuns, ControlSends, ControlComputes, relayOwn,
       Control!shared, Control!config, Control!locals,
       Control!SendOn, Control!SendLevel, Control!StoreOn, Control!StoreLevel,
       Control!ReceivePress, Control!ReceiveEdge, Control!ReceiveTurn,
       Control!ConfirmPress, Control!Persist

\* and that the display queue holds display messages.
LEMMA TaskQueues ==
    ASSUME ControlTypes, Queued, missed \subseteq Kinds, ControlRuns
    PROVE  Queued' /\ missed' \subseteq Kinds
<1>1. CASE ControlSends
  <2>1. missed' \subseteq Kinds
    BY <1>1 DEF ControlSends, Track, Kinds
  <2>2. CASE Control!SendOn
    <3>1. Control!Send(Control!PowerOutputChanged(on))
      BY <2>2 DEF Control!SendOn
    <3>2. Control!PowerOutputChanged(on) \in Display!DisplayMessage
      BY MessageLemma DEF ControlTypes
    <3> QED
      BY <2>1, <3>1, <3>2, SendLemma
  <2>3. CASE Control!SendLevel
    <3>1. Control!Send(Control!PowerLevelChanged(level))
      BY <2>3 DEF Control!SendLevel
    <3>2. Control!PowerLevelChanged(level) \in Display!DisplayMessage
      BY MessageLemma DEF ControlTypes
    <3> QED
      BY <2>1, <3>1, <3>2, SendLemma
  <2> QED
    BY <1>1, <2>1, <2>2, <2>3 DEF ControlSends
<1>2. CASE ControlComputes
  BY <1>2 DEF ControlComputes, Queued, Control!StoreOn, Control!StoreLevel,
              Control!ReceivePress, Control!ConfirmPress, Control!ReceiveEdge,
              Control!ReceiveTurn, Control!Persist
<1> QED
  BY <1>1, <1>2 DEF ControlRuns

\* The control task is the relay's environment: it turns the power on only
\* with a level stored.
LEMMA TaskSimulates ==
    ASSUME ControlTypes, Booted, ControlRuns
    PROVE  Simulates
<1>1. Control!Next
  BY DEF ControlRuns, ControlSends, ControlComputes, Control!Next, Control!TaskStep
<1>2. [Ssr!Next]_(Ssr!vars)
  <2>1. UNCHANGED <<zeroCrossCount, moduloCounter, ssrOn, ssrPin>>
    BY DEF ControlRuns, ControlSends, ControlComputes, relayOwn
  <2>2. CASE Control!StoreOn
    <3>1. /\ powerOn' = on /\ on \in BOOLEAN /\ UNCHANGED powerPercent
          /\ on => powerPercent \in Levels
      BY <2>2 DEF Control!StoreOn, ControlTypes, Booted
    <3>2. Ssr!StorePowerOn
      BY <2>1, <3>1 DEF Ssr!StorePowerOn, Ssr!relay
    <3> QED
      BY <3>2 DEF Ssr!Next
  <2>3. CASE Control!StoreLevel
    <3>1. powerPercent' = level /\ level \in Levels /\ UNCHANGED powerOn
      BY <2>3 DEF Control!StoreLevel, ControlTypes
    <3>2. Ssr!StorePowerPercent
      BY <2>1, <3>1 DEF Ssr!StorePowerPercent, Ssr!relay
    <3> QED
      BY <3>2 DEF Ssr!Next
  <2>4. CASE ~Control!StoreOn /\ ~Control!StoreLevel
    <3>1. UNCHANGED <<powerOn, powerPercent>>
      BY <2>4 DEF ControlRuns, ControlSends, ControlComputes, Control!shared,
                  Control!SendOn, Control!SendLevel, Control!ReceivePress,
                  Control!ConfirmPress, Control!ReceiveEdge, Control!ReceiveTurn,
                  Control!Persist
    <3> QED
      BY <2>1, <3>1 DEF Ssr!vars, Ssr!settings, Ssr!relay
  <2> QED
    BY <2>2, <2>3, <2>4
<1> QED
  BY <1>1, <1>2 DEF Simulates

\* So a step of the control task keeps Inv, and is one of ControlTask alone.
LEMMA ControlStep == Inv /\ ControlRuns => Inv' /\ Simulates
<1> SUFFICES ASSUME Inv, ControlRuns PROVE Inv' /\ Simulates
  OBVIOUS
<1>1. UNCHANGED <<tickQueue, relayOwn, sensorOwn, displayOwn, portOwn, converters>>
  BY DEF ControlRuns, ControlSends, ControlComputes
<1>2. RelayTypes' /\ SensorPart' /\ PortTypes'
  BY <1>1 DEF Inv, RelayTypes, SensorPart, Fresh, PortTypes, relayOwn, sensorOwn,
              displayOwn, portOwn, Sensor!TypeOK, Sensor!NothingSampled
<1> QED
  BY <1>2, TaskControlTypes, TaskBooted, TaskPressed, TaskQueues, TaskSimulates
     DEF Inv, ControlPart

---------------------------------------------------------------------------
(* Steps that leave the control task and the relay alone.  *)

\* They keep the control part of the invariant,
LEMMA AloneControl ==
    ASSUME Inv,
           UNCHANGED <<controlQueue, settings, controlOwn, relayOwn, buttonHigh>>
    PROVE  ControlPart' /\ RelayTypes' /\ Pressed'
BY DEF Inv, ControlPart, ControlTypes, Booted, RelayTypes, Pressed,
       settings, controlOwn, relayOwn

\* and are at most a queue operation to ControlTask.
LEMMA AloneSimulates ==
    ASSUME UNCHANGED <<controlQueue, settings, controlOwn, relayOwn, buttonHigh>>,
           UNCHANGED displayQueue \/ Control!SensorTaskSends \/ Control!DisplayReceives
    PROVE  Simulates
<1>1. [Ssr!Next]_(Ssr!vars)
  BY DEF settings, relayOwn, Ssr!vars, Ssr!settings, Ssr!relay
<1>2. [Control!Next]_(Control!vars)
  <2>1. CASE UNCHANGED displayQueue
    BY <2>1 DEF settings, controlOwn, Control!vars, Control!taskVars, Control!shared,
                Control!config, Control!locals
  <2>2. CASE Control!SensorTaskSends \/ Control!DisplayReceives
    BY <2>2 DEF Control!Next
  <2> QED
    BY <2>1, <2>2
<1> QED
  BY <1>1, <1>2 DEF Simulates

\* The sensor task sends only display messages.
LEMMA SensorStep == Inv /\ (SensorRuns \/ TempSampleTimer \/ ConverterChanges) => Inv' /\ Simulates
<1> SUFFICES ASSUME Inv, SensorRuns \/ TempSampleTimer \/ ConverterChanges
             PROVE  Inv' /\ Simulates
  OBVIOUS
<1>1. /\ UNCHANGED <<controlQueue, settings, controlOwn, relayOwn, displayOwn, portOwn, buttonHigh>>
      /\ missed' \subseteq Kinds
  BY DEF SensorRuns, SensorSends, SensorComputes, TempSampleTimer, ConverterChanges,
         Track, Kinds, Inv
<1>2. PortTypes'
  BY <1>1 DEF Inv, PortTypes, displayOwn, portOwn
<1>3. SensorPart'
  <2> USE DEF Inv, SensorPart, Fresh, Sensor!TypeOK, Sensor!NothingSampled, Sensor!Sensors
  <2>1. CASE Sensor!SendData
    BY <2>1 DEF Sensor!SendData
  <2>2. CASE Sensor!SendError
    BY <2>2 DEF Sensor!SendError
  <2>3. CASE Sensor!ReceiveTick
    BY <2>3 DEF Sensor!ReceiveTick
  <2>4. CASE Sensor!ReadFirst
    BY <2>4 DEF Sensor!ReadFirst, Sensor!Read
  <2>5. CASE Sensor!ReadSecond
    <3>1. /\ sensorPc = "readSecond"
          /\ tempData' = [tempData EXCEPT ![2] = converters[2]]
          /\ sensorPc' = IF converters[2] = Fault THEN "sendError"
                         ELSE IF tempData' # lastTemp THEN "sendData" ELSE "receive"
          /\ sampled' = [sampled EXCEPT ![2] = @ \cup {converters[2]}]
          /\ UNCHANGED <<tickQueue, converters, lastTemp>>
      BY <2>5 DEF Sensor!ReadSecond, Sensor!Read
    <3>2. tempData' \in [{1, 2} -> Readings \cup {Fault}]
      BY <3>1
    <3>3. converters[2] # Fault => tempData' \in [{1, 2} -> Readings]
      <4>1. converters[2] # Fault => tempData'[1] \in Readings /\ tempData'[2] \in Readings
        BY <3>1
      <4> QED
        BY <3>2, <4>1
    <3>4. /\ sampled' \in [{1, 2} -> SUBSET (Readings \cup {Fault})]
          /\ sampled'[1] = {tempData'[1]} /\ sampled'[2] = {tempData'[2]}
          /\ converters[2] = Fault => Fault \in sampled'[2]
      BY <3>1
    <3> QED
      BY <3>1, <3>2, <3>3, <3>4
  <2>6. CASE TempSampleTimer
    BY <2>6 DEF TempSampleTimer, Sensor!TempSampleCallback, Sensor!taskVars
  <2>7. CASE ConverterChanges
    <3>1. converters' \in [{1, 2} -> Readings \cup {Fault}]
      BY <2>7, ConversionsAssumption DEF ConverterChanges
    <3> QED
      BY <2>7, <3>1 DEF ConverterChanges, Sensor!ConverterChanges, Sensor!taskVars
  <2> QED
    BY <2>1, <2>2, <2>3, <2>4, <2>5, <2>6, <2>7 DEF SensorRuns, SensorSends, SensorComputes
<1>4. \/ UNCHANGED displayQueue
      \/ \E m \in SensorMessages : Sensor!Send(m)
  <2>1. CASE Sensor!SendData
    <3>1. sensorPc = "sendData" /\ Sensor!Send(Sensor!SensorDataChanged(tempData))
      BY <2>1 DEF Sensor!SendData
    <3>2. tempData \in [{1, 2} -> Readings]
      BY <3>1 DEF Inv, SensorPart, Fresh, Sensor!NothingSampled, Sensor!Sensors
    <3>3. Sensor!SensorDataChanged(tempData) \in SensorMessages
      BY <3>2, MessageLemma
    <3> QED
      BY <3>1, <3>3
  <2>2. CASE Sensor!SendError
    BY <2>2, MessageLemma DEF Sensor!SendError
  <2>3. CASE ~Sensor!SendData /\ ~Sensor!SendError
    BY <2>3 DEF SensorRuns, SensorSends, SensorComputes, TempSampleTimer, ConverterChanges,
                Sensor!ReceiveTick, Sensor!ReadFirst, Sensor!ReadSecond,
                Sensor!TempSampleCallback, Sensor!ConverterChanges
  <2> QED
    BY <2>1, <2>2, <2>3
<1>5. Queued'
  <2>1. CASE UNCHANGED displayQueue
    BY <2>1 DEF Inv, Queued
  <2>2. CASE \E m \in SensorMessages : Sensor!Send(m)
    BY <2>2, SendLemma, MessageLemma DEF Inv
  <2> QED
    BY <1>4, <2>1, <2>2
<1>6. UNCHANGED displayQueue \/ Control!SensorTaskSends
  <2>1. ASSUME NEW m \in SensorMessages, Sensor!Send(m)
        PROVE  UNCHANGED displayQueue \/ Control!SensorTaskSends
    BY <1>1, <2>1 DEF Sensor!Send, Control!SensorTaskSends, Control!taskVars, Control!shared,
              Control!config, Control!locals, settings, controlOwn
  <2> QED
    BY <1>4, <2>1
<1> QED
  BY <1>1, <1>2, <1>3, <1>5, <1>6, AloneControl, AloneSimulates DEF Inv

\* The display task, the CDC task and the host.
LEMMA DisplayStep == Inv /\ (DisplayRuns \/ CdcRuns \/ HostActs) => Inv' /\ Simulates
<1> SUFFICES ASSUME Inv, DisplayRuns \/ CdcRuns \/ HostActs
             PROVE  Inv' /\ Simulates
  OBVIOUS
<1>1. /\ UNCHANGED <<controlQueue, tickQueue, settings, controlOwn, relayOwn, sensorOwn, world>>
      /\ missed' \subseteq Kinds
  BY DEF DisplayRuns, CdcRuns, HostActs, Kinds, Inv
<1>2. SensorPart'
  BY <1>1 DEF Inv, SensorPart, Fresh, Sensor!TypeOK, Sensor!NothingSampled, sensorOwn, world
<1>3. PortTypes /\ Queued /\ PortLines \in Nat \ {0}
  BY PortAssumption DEF Inv
<1>4. CASE Display!Receive
  <2>1. displayQueue # << >> /\ displayQueue' = Tail(displayQueue) /\ message' = Head(displayQueue)
        /\ displayPc' \in {"print", "draw"}
        /\ UNCHANGED <<screen, debugPrint, authorized, running, portFree, cdcPc>>
    BY <1>4 DEF Display!Receive, Display!port
  <2>2. Queued' /\ message' \in Display!DisplayMessage
    BY <1>3, <2>1 DEF Queued
  <2>3. PortTypes'
    BY <1>3, <2>1, <2>2 DEF PortTypes
  <2>4. Control!DisplayReceives
    BY <1>1, <2>1 DEF Control!DisplayReceives, Control!taskVars, Control!shared,
       Control!config, Control!locals, settings, controlOwn, world
  <2> QED
    BY <1>1, <1>2, <2>2, <2>3, <2>4, AloneControl, AloneSimulates DEF Inv, world
<1>5. CASE ~Display!Receive
  <2>1. UNCHANGED displayQueue
    BY <1>5 DEF DisplayRuns, CdcRuns, HostActs, Display!TaskStep, Display!CdcStep, Display!HostStep,
       Display!Draw, Display!PrintLine, Display!Check, Display!GetChar, Display!Reply,
       Display!FillScreen, Display!HostReads, Display!HostConfigures
  <2>2. PortTypes'
    <3> USE DEF PortTypes, Display!port, Display!taskVars, Display!Done
    <3>1. CASE Display!Draw
      <4>1. Display!Field(message) \in Display!Fields /\ message \in Display!DisplayMessage
        BY <1>3, <3>1 DEF Display!Draw, Display!Field, Display!Fields
      <4> QED
        BY <1>3, <3>1, <4>1 DEF Display!Draw
    <3>2. CASE Display!PrintLine
      <4>1. portFree' \in 0..PortLines
        BY <1>3, <3>2 DEF Display!PrintLine, Display!WriteLine
      <4> QED
        BY <1>3, <3>2, <4>1 DEF Display!PrintLine
    <3>3. CASE Display!CdcStep
      <4>1. portFree' \in 0..PortLines
        BY <1>3, <3>3 DEF Display!CdcStep, Display!Check, Display!GetChar, Display!Reply,
           Display!FillScreen, Display!WriteLine
      <4>2. screen' \in [Display!Fields -> Display!DisplayMessage \cup {Display!NothingShown}]
        BY <1>3, <3>3 DEF Display!CdcStep, Display!Check, Display!GetChar, Display!Reply,
           Display!FillScreen
      <4> QED
        BY <1>3, <3>3, <4>1, <4>2 DEF Display!CdcStep, Display!Check, Display!GetChar,
           Display!Reply, Display!FillScreen
    <3>4. CASE Display!HostStep
      <4>1. portFree' \in 0..PortLines
        BY <1>3, <3>4 DEF Display!HostStep, Display!HostReads, Display!HostConfigures
      <4> QED
        BY <1>3, <3>4, <4>1 DEF Display!HostStep, Display!HostReads, Display!HostConfigures
    <3> QED
      BY <1>5, <3>1, <3>2, <3>3, <3>4 DEF DisplayRuns, CdcRuns, HostActs, Display!TaskStep
  <2>3. Queued'
    BY <1>3, <2>1 DEF Queued
  <2> QED
    BY <1>1, <1>2, <2>1, <2>2, <2>3, AloneControl, AloneSimulates DEF Inv, world
<1> QED
  BY <1>4, <1>5

---------------------------------------------------------------------------
(* The panel, the mains and the supply.  *)

\* The button and the panel's interrupts.
LEMMA PanelStep == Inv /\ (PanelInterrupt \/ ButtonMoves) => Inv' /\ Simulates
<1> SUFFICES ASSUME Inv, PanelInterrupt \/ ButtonMoves PROVE Inv' /\ Simulates
  OBVIOUS
<1>1. /\ Control!Interrupt \/ Control!ButtonMoves
      /\ UNCHANGED <<tickQueue, relayOwn, sensorOwn, displayOwn, portOwn, converters, missed>>
  BY DEF PanelInterrupt, ButtonMoves
<1>2. UNCHANGED <<displayQueue, Control!taskVars>>
  BY <1>1 DEF Control!Interrupt, Control!ButtonMoves
<1>3. controlQueue' \in Seq(Control!ControlMessage) /\ buttonHigh' \in BOOLEAN
  <2>1. controlQueue \in Seq(Control!ControlMessage) /\ buttonHigh \in BOOLEAN
    BY DEF Inv, ControlPart, ControlTypes
  <2>2. CASE Control!Interrupt
    <3>1. PICK m \in Control!ControlMessage : controlQueue' = Append(controlQueue, m)
      BY <2>2 DEF Control!Interrupt
    <3>2. buttonHigh' = buttonHigh
      BY <2>2 DEF Control!Interrupt
    <3> QED
      BY <2>1, <3>1, <3>2
  <2>3. CASE Control!ButtonMoves
    <3>1. controlQueue' = controlQueue
      BY <2>3 DEF Control!ButtonMoves, Control!taskVars
    <3>2. buttonHigh' \in BOOLEAN
      BY <2>3, <2>1 DEF Control!ButtonMoves
    <3> QED
      BY <2>1, <3>1, <3>2
  <2> QED
    BY <1>1, <2>2, <2>3
<1>4. ControlPart' /\ Pressed'
  BY <1>1, <1>2, <1>3 DEF Inv, ControlPart, ControlTypes, Booted, Pressed, relayOwn,
     Control!taskVars, Control!shared, Control!config, Control!locals
<1>5. RelayTypes' /\ SensorPart' /\ PortTypes' /\ Queued' /\ missed' \subseteq Kinds
  BY <1>1, <1>2 DEF Inv, RelayTypes, SensorPart, Fresh, PortTypes, Queued, relayOwn, sensorOwn,
     displayOwn, portOwn, Sensor!TypeOK, Sensor!NothingSampled
<1>6. Simulates
  BY <1>1, <1>2 DEF Simulates, Control!Next, Ssr!vars, Ssr!settings, Ssr!relay, relayOwn,
     Control!taskVars, Control!shared
<1> QED
  BY <1>4, <1>5, <1>6 DEF Inv

\* The zero crossing.
LEMMA MainsStep == Inv /\ ZeroCross => Inv' /\ Simulates
<1> SUFFICES ASSUME Inv, ZeroCross PROVE Inv' /\ Simulates
  OBVIOUS
<1>1. /\ Ssr!ZeroCross
      /\ UNCHANGED <<controlQueue, displayQueue, tickQueue, controlOwn, sensorOwn, displayOwn,
                     portOwn, world, missed>>
      /\ UNCHANGED <<powerOn, powerPercent>>
  BY DEF ZeroCross, Ssr!ZeroCross, Ssr!settings
<1>2. ControlPart' /\ SensorPart' /\ PortTypes' /\ Queued' /\ missed' \subseteq Kinds
  BY <1>1 DEF Inv, ControlPart, ControlTypes, Booted, SensorPart, Fresh, PortTypes, Queued,
     controlOwn, sensorOwn, displayOwn, portOwn, world, Sensor!TypeOK, Sensor!NothingSampled
<1>3. RelayTypes'
  <2>1. \A k \in Nat, n \in Nat \ {0} : k % n \in 0..(n - 1)
    OBVIOUS
  <2>2. zeroCrossCount + 1 \in Nat /\ moduloCounter + 1 \in Nat
    BY CountersAssumption DEF Inv, RelayTypes
  <2>3. zeroCrossCount' \in 0..(CountWrap - 1) /\ moduloCounter' \in 0..(Modulo - 1)
    BY <1>1, <2>1, <2>2, CountersAssumption DEF Ssr!ZeroCross, Ssr!NextCount
  <2>4. ssrOn' \in BOOLEAN /\ ssrPin' \in BOOLEAN
    BY <1>1 DEF Inv, RelayTypes, Ssr!ZeroCross, Ssr!SwitchOn, Ssr!SwitchOff, Ssr!relay
  <2> QED
    BY <2>3, <2>4 DEF RelayTypes
<1>4. Pressed'
  BY <1>1 DEF Inv, RelayTypes, Pressed, Ssr!ZeroCross, Ssr!SwitchOn, Ssr!SwitchOff, Ssr!relay,
     controlOwn
<1>5. Simulates
  BY <1>1 DEF Simulates, Ssr!Next, Control!vars, Control!taskVars, Control!shared,
     Control!config, Control!locals, controlOwn, world
<1> QED
  BY <1>2, <1>3, <1>4, <1>5 DEF Inv

\* The supply fails.
LEMMA SupplyStep == Inv /\ PowerFailure => Inv' /\ Simulates
<1> SUFFICES ASSUME Inv, PowerFailure PROVE Inv' /\ Simulates
  OBVIOUS
<1>1. /\ Control!PowerFailure /\ Ssr!PowerFailure
      /\ Sensor!PowerFailure /\ Display!PowerFailure /\ missed' = {}
  BY DEF PowerFailure
<1>2. ControlPart'
  <2>1. Control!Restored(flash) \in Levels
    BY RestoredLemma DEF Inv, ControlPart, ControlTypes
  <2>2. nvmPower' \in Levels /\ level' \in Levels
    BY <1>1, <2>1 DEF Control!PowerFailure
  <2>3. controlQueue' \in Seq(Control!ControlMessage)
    BY <1>1 DEF Control!PowerFailure
  <2>4. last' \in [Control!RotaryChannels -> Stamps \cup {0}]
    BY <1>1, NoEdgeLemma DEF Control!PowerFailure
  <2>5. /\ powerOn' = FALSE /\ powerPercent' = 0 /\ controlPc' = "sendOn" /\ booting' = TRUE
        /\ on' = FALSE /\ confirmed' = FALSE /\ UNCHANGED <<flash, buttonHigh>>
    BY <1>1 DEF Control!PowerFailure
  <2> QED
    BY <2>2, <2>3, <2>4, <2>5 DEF Inv, ControlPart, ControlTypes, Booted, Control!Places
<1>3. RelayTypes' /\ Pressed'
  <2>1. 0 \in 0..(CountWrap - 1) /\ 0 \in 0..(Modulo - 1)
    BY CountersAssumption
  <2>2. /\ zeroCrossCount' = 0 /\ moduloCounter' = 0 /\ ssrOn' = FALSE /\ ssrPin' = TRUE
        /\ powerOn' = FALSE /\ on' = FALSE
    BY <1>1 DEF Ssr!PowerFailure, Control!PowerFailure
  <2> QED
    BY <2>1, <2>2 DEF RelayTypes, Pressed
<1>4. SensorPart'
  <2>1. [s \in {1, 2} |-> Zero] \in [{1, 2} -> Readings]
    BY ReadingsAssumption
  <2>2. /\ tickQueue' = FALSE /\ sensorPc' = "receive" /\ UNCHANGED converters
        /\ tempData' = [s \in {1, 2} |-> Zero] /\ lastTemp' = [s \in {1, 2} |-> Zero]
    BY <1>1 DEF Sensor!PowerFailure, Sensor!Sensors
  <2>3. sampled' \in [{1, 2} -> SUBSET (Readings \cup {Fault})]
    BY <1>1 DEF Sensor!PowerFailure, Sensor!NothingSampled, Sensor!Sensors
  <2> QED
    BY <2>1, <2>2, <2>3 DEF Inv, SensorPart, Fresh, Sensor!TypeOK, Sensor!Sensors
<1>5. PortTypes'
  <2>1. PortLines \in 0..PortLines
    BY PortAssumption
  <2> QED
    BY <1>1, <2>1 DEF PortTypes, Display!PowerFailure
<1>6. Queued'
  BY <1>1 DEF Display!PowerFailure, Queued
<1>7. Simulates
  BY <1>1 DEF Simulates, Control!Next, Ssr!Next
<1> QED
  BY <1>1, <1>2, <1>3, <1>4, <1>5, <1>6, <1>7 DEF Inv

\* Whatever moves, every part keeps its invariant, and the step is one of the
\* control task's and one of the relay's module, or a stutter.
LEMMA Step == Inv /\ [Next]_vars => Inv' /\ Simulates
<1> SUFFICES ASSUME Inv, [Next]_vars PROVE Inv' /\ Simulates
  OBVIOUS
<1>1. CASE UNCHANGED vars
  <2>1. UNCHANGED <<controlQueue, settings, controlOwn, relayOwn, buttonHigh, displayQueue,
                    sensorOwn, tickQueue, converters, displayOwn, portOwn, missed>>
    BY <1>1 DEF vars, world
  <2>2. SensorPart' /\ PortTypes' /\ Queued' /\ missed' \subseteq Kinds
    BY <2>1 DEF Inv, SensorPart, Fresh, PortTypes, Queued, sensorOwn, displayOwn, portOwn,
       Sensor!TypeOK, Sensor!NothingSampled
  <2> QED
    BY <2>1, <2>2, AloneControl, AloneSimulates DEF Inv
<1> QED
  BY <1>1, ControlStep, SensorStep, DisplayStep, PanelStep, MainsStep, SupplyStep DEF Next

---------------------------------------------------------------------------
(* What the screen shows of what has been announced.  *)

\* A message that is queued decides what its field will show,
LEMMA NewsDecides ==
    ASSUME NEW S, NEW q \in Seq(S), NEW m \in S
    PROVE  LastNews(Append(q, m), Display!Field(m), m)
<1>1. /\ Len(Append(q, m)) = Len(q) + 1 /\ Len(q) \in Nat
      /\ Append(q, m)[Len(q) + 1] = m
  OBVIOUS
<1>2. Len(q) + 1 \in 1..Len(Append(q, m))
  BY <1>1
<1>3. \A j \in ((Len(q) + 1) + 1)..Len(Append(q, m)) : FALSE
  BY <1>1
<1> QED
  BY <1>1, <1>2, <1>3 DEF LastNews

\* and leaves the other fields alone.
LEMMA OtherNews ==
    ASSUME NEW S, NEW q \in Seq(S), NEW m \in S, NEW s, NEW f, NEW v,
           Display!Field(m) # f, Shown(q, s, f, v)
    PROVE  Shown(Append(q, m), s, f, v)
<1> DEFINE r == Append(q, m)
           n == Len(q)
<1>1. /\ Len(r) = n + 1 /\ n \in Nat /\ r[n + 1] = m
      /\ \A i \in 1..n : r[i] = q[i]
  OBVIOUS
<1> HIDE DEF r, n
<1>2. CASE NoNews(q, f) /\ s = v
  <2>1. ASSUME NEW i \in 1..Len(r) PROVE Display!Field(r[i]) # f
    <3>1. CASE i \in 1..n
      BY <1>1, <1>2, <3>1 DEF NoNews, n
    <3>2. CASE i = n + 1
      BY <1>1, <3>2
    <3> QED
      BY <1>1, <3>1, <3>2
  <2> QED
    BY <1>2, <2>1 DEF NoNews, Shown, r
<1>3. CASE LastNews(q, f, v)
  <2>1. PICK i \in 1..n :
            /\ q[i] = v /\ Display!Field(v) = f
            /\ \A j \in (i + 1)..n : Display!Field(q[j]) # f
    BY <1>3 DEF LastNews, n
  <2>2. i \in 1..Len(r) /\ r[i] = v
    BY <1>1, <2>1
  <2>3. ASSUME NEW j \in (i + 1)..Len(r) PROVE Display!Field(r[j]) # f
    <3>1. CASE j \in (i + 1)..n
      <4>1. j \in 1..n
        BY <1>1, <3>1
      <4> QED
        BY <1>1, <2>1, <3>1, <4>1
    <3>2. CASE j = n + 1
      BY <1>1, <3>2
    <3> QED
      BY <1>1, <3>1, <3>2
  <2> QED
    BY <2>1, <2>2, <2>3 DEF LastNews, Shown, r
<1> QED
  BY <1>2, <1>3 DEF Shown

\* A message dealt with: its field shows it or will show another, the other
\* fields are left alone.
LEMMA NewsTaken ==
    ASSUME NEW S, NEW m \in S, NEW q \in Seq(S), NEW s, NEW s1, NEW f, NEW v,
           Shown(<<m>> \o q, s, f, v),
           Display!Field(m) # f => s1 = s,
           Display!Field(m) = f => s1 = m \/ ~NoNews(q, f)
    PROVE  Shown(q, s1, f, v)
<1> DEFINE r == <<m>> \o q
           n == Len(q)
<1>1. /\ Len(r) = n + 1 /\ n \in Nat /\ r[1] = m
      /\ \A i \in 1..n : r[i + 1] = q[i]
  OBVIOUS
<1> HIDE DEF r, n
<1>2. CASE NoNews(r, f) /\ s = v
  <2>1. \A i \in 1..(n + 1) : Display!Field(r[i]) # f
    BY <1>1, <1>2 DEF NoNews
  <2>2. Display!Field(m) # f
    <3>1. 1 \in 1..(n + 1)
      BY <1>1
    <3> QED
      BY <1>1, <2>1, <3>1
  <2>3. ASSUME NEW i \in 1..n PROVE Display!Field(q[i]) # f
    <3>1. i + 1 \in 1..(n + 1) /\ r[i + 1] = q[i]
      BY <1>1
    <3> QED
      BY <2>1, <3>1
  <2> QED
    BY <1>2, <2>2, <2>3 DEF Shown, NoNews, n
<1>3. CASE LastNews(r, f, v)
  <2>1. PICK i \in 1..(n + 1) :
            /\ r[i] = v /\ Display!Field(v) = f
            /\ \A j \in (i + 1)..(n + 1) : Display!Field(r[j]) # f
    BY <1>1, <1>3 DEF LastNews
  <2>2. CASE i = 1
    <3>1. m = v /\ Display!Field(m) = f
      BY <1>1, <2>1, <2>2
    <3>2. ASSUME NEW j \in 1..n PROVE Display!Field(q[j]) # f
      <4>1. j + 1 \in (i + 1)..(n + 1) /\ r[j + 1] = q[j]
        BY <1>1, <2>2
      <4> QED
        BY <2>1, <4>1
    <3>3. NoNews(q, f)
      BY <3>2 DEF NoNews, n
    <3> QED
      BY <3>1, <3>3 DEF Shown
  <2>3. CASE i # 1
    <3> DEFINE k == i - 1
    <3>1. k \in 1..n /\ k + 1 = i
      BY <1>1, <2>3
    <3> HIDE DEF k
    <3>2. q[k] = v
      BY <1>1, <2>1, <3>1
    <3>3. ASSUME NEW j \in (k + 1)..n PROVE Display!Field(q[j]) # f
      <4>1. j + 1 \in (i + 1)..(n + 1) /\ j \in 1..n
        BY <1>1, <3>1
      <4>2. r[j + 1] = q[j]
        BY <1>1, <4>1
      <4> QED
        BY <2>1, <4>1, <4>2
    <3>4. LastNews(q, f, v)
      BY <2>1, <3>1, <3>2, <3>3 DEF LastNews, n
    <3> QED
      BY <3>4 DEF Shown
  <2> QED
    BY <2>2, <2>3
<1> QED
  BY <1>2, <1>3 DEF Shown, r

\* A message that is drawn but not done with is still to come.
LEMMA NewsDrawn ==
    ASSUME NEW S, NEW m \in S, NEW q \in Seq(S), NEW s, NEW s1, NEW f, NEW v,
           Shown(<<m>> \o q, s, f, v), Display!Field(m) = f
    PROVE  Shown(<<m>> \o q, s1, f, v)
<1> DEFINE r == <<m>> \o q
<1>1. Len(r) \in Nat /\ Len(r) >= 1 /\ r[1] = m
  OBVIOUS
<1> HIDE DEF r
<1>2. ~NoNews(r, f)
  <2>1. 1 \in 1..Len(r)
    BY <1>1
  <2> QED
    BY <1>1, <2>1 DEF NoNews
<1> QED
  BY <1>2 DEF Shown, r

\* What is shown so is what WillShow says.
LEMMA WillShowIs ==
    ASSUME NEW f, NEW v, Coming \in Seq(Display!DisplayMessage),
           Shown(Coming, screen[f], f, v)
    PROVE  WillShow(f) = v
<1> DEFINE news == {i \in 1..Len(Coming) : Display!Field(Coming[i]) = f}
<1>1. WillShow(f) = IF news = {} THEN screen[f] ELSE Coming[Max(news)]
  BY DEF WillShow
<1>2. CASE NoNews(Coming, f) /\ screen[f] = v
  <2>1. news = {}
    BY <1>2 DEF NoNews
  <2> QED
    BY <1>1, <1>2, <2>1
<1>3. CASE LastNews(Coming, f, v)
  <2>1. PICK i \in 1..Len(Coming) :
            /\ Coming[i] = v /\ Display!Field(v) = f
            /\ \A j \in (i + 1)..Len(Coming) : Display!Field(Coming[j]) # f
    BY <1>3 DEF LastNews
  <2>2. i \in news /\ \A j \in news : i >= j
    BY <2>1
  <2>3. \A j \in news : j \in Int
    OBVIOUS
  <2>4. \A j \in news : (\A k \in news : j >= k) => j = i
    BY <2>2, <2>3
  <2> HIDE DEF news
  <2>5. Max(news) = i
    <3>1. \E j \in news : \A k \in news : j >= k
      BY <2>2
    <3> QED
      BY <2>4, <3>1, Zenon DEF Max
  <2> QED
    BY <1>1, <2>1, <2>2, <2>5
<1> QED
  BY <1>2, <1>3 DEF Shown

---------------------------------------------------------------------------
(* What the screen will show.  *)

\* What is to come is display messages, one or more while one is dealt with.
LEMMA ComingLemma ==
    ASSUME PortTypes, Queued
    PROVE  /\ Coming \in Seq(Display!DisplayMessage)
           /\ displayPc = "receive" => Coming = displayQueue
           /\ displayPc # "receive" => Coming = <<message>> \o displayQueue
<1>1. CASE displayPc = "receive"
  <2>1. Coming = << >> \o displayQueue
    BY <1>1 DEF Coming
  <2>2. << >> \o displayQueue = displayQueue
    BY ConcatEmptySeq DEF Queued
  <2> QED
    BY <1>1, <2>1, <2>2 DEF Queued
<1>2. CASE displayPc # "receive"
  <2>1. Coming = <<message>> \o displayQueue
    BY <1>2 DEF Coming
  <2>2. <<message>> \in Seq(Display!DisplayMessage)
    BY <1>2 DEF PortTypes
  <2>3. <<message>> \o displayQueue \in Seq(Display!DisplayMessage)
    BY <2>2, ConcatProperties DEF Queued
  <2> QED
    BY <1>2, <2>1, <2>3
<1> QED
  BY <1>1, <1>2

\* A message queued is the last to come.
LEMMA ComingGrows ==
    ASSUME PortTypes, Queued, Queued', NEW m \in Display!DisplayMessage,
           displayQueue' = Append(displayQueue, m), UNCHANGED displayOwn
    PROVE  Coming' = Append(Coming, m)
<1> DEFINE head == IF displayPc # "receive" THEN <<message>> ELSE << >>
<1>1. head \in Seq(Display!DisplayMessage)
  BY DEF PortTypes
<1>2. Coming = head \o displayQueue /\ Coming' = head \o Append(displayQueue, m)
  BY DEF Coming, displayOwn
<1> HIDE DEF head
<1>3. <<m>> \in Seq(Display!DisplayMessage)
  OBVIOUS
<1>4. Append(displayQueue, m) = displayQueue \o <<m>>
  BY AppendIsConcat DEF Queued
<1>5. head \o (displayQueue \o <<m>>) = (head \o displayQueue) \o <<m>>
  BY <1>1, <1>3, ConcatAssociative DEF Queued
<1>6. Append(Coming, m) = Coming \o <<m>>
  BY ComingLemma, AppendIsConcat
<1> QED
  BY <1>2, <1>4, <1>5, <1>6, Zenon

\* The screen will show a message that is queued, and what it was to show in
\* the other fields.
LEMMA SentIsTold ==
    ASSUME PortTypes, Queued, Queued', NEW m \in Display!DisplayMessage,
           displayQueue' = Append(displayQueue, m), UNCHANGED displayOwn
    PROVE  /\ \A s : Shown(Coming', s, Display!Field(m), m)
           /\ \A s, f, v : Display!Field(m) # f /\ Shown(Coming, s, f, v)
                               => Shown(Coming', s, f, v)
<1>1. Coming \in Seq(Display!DisplayMessage) /\ Coming' = Append(Coming, m)
  BY ComingLemma, ComingGrows
<1>2. LastNews(Append(Coming, m), Display!Field(m), m)
  BY <1>1, NewsDecides
<1>3. \A s, f, v : Display!Field(m) # f /\ Shown(Coming, s, f, v)
                       => Shown(Append(Coming, m), s, f, v)
  BY <1>1, OtherNews
<1> QED
  BY <1>1, <1>2, <1>3 DEF Shown

\* The display task's own steps change nothing of what the screen will show:
\* it takes the messages in their order, and has drawn one before it drops it.
LEMMA DisplayKeeps ==
    ASSUME PortTypes, Queued, PortTypes', Queued', Printing, Drawn, DisplayRuns,
           NEW f \in Display!Fields, NEW v, Shown(Coming, screen[f], f, v),
           f = "output" => "PowerOutputChanged" \notin missed
    PROVE  Shown(Coming', screen'[f], f, v)
<1> DEFINE DM == Display!DisplayMessage
<1>1. CASE Display!Receive
  <2>1. /\ displayPc = "receive" /\ displayPc' # "receive" /\ displayQueue # << >>
        /\ displayQueue' = Tail(displayQueue) /\ message' = Head(displayQueue)
        /\ screen' = screen
    BY <1>1 DEF Display!Receive
  <2>2. Coming = displayQueue /\ Coming' = <<message'>> \o displayQueue'
    BY <2>1, ComingLemma DEF Coming
  <2>3. <<Head(displayQueue)>> \o Tail(displayQueue) = displayQueue
    BY <2>1, HeadTailProperties DEF Queued
  <2>4. Coming' = Coming
    BY <2>1, <2>2, <2>3
  <2> QED
    BY <2>1, <2>4
<1>2. CASE displayPc # "receive"
  <2> DEFINE m == message
  <2>1. m \in DM /\ displayQueue \in Seq(DM) /\ Coming = <<m>> \o displayQueue
    BY <1>2, ComingLemma DEF PortTypes, Queued
  <2>2. Shown(<<m>> \o displayQueue, screen[f], f, v)
    BY <2>1
  <2>3. displayQueue' = displayQueue
    BY <1>2 DEF DisplayRuns, Display!TaskStep, Display!Receive, Display!Draw, Display!PrintLine
  <2>4. CASE displayPc' # "receive"
    <3>1. message' = m
      BY <1>2, <2>4 DEF DisplayRuns, Display!TaskStep, Display!Receive, Display!Draw,
                        Display!PrintLine, Display!Done
    <3>2. Coming' = <<m>> \o displayQueue
      BY <2>3, <2>4, <3>1 DEF Coming
    <3>3. CASE Display!Field(m) = f
      BY <2>1, <2>2, <3>2, <3>3, NewsDrawn
    <3>4. CASE Display!Field(m) # f
      <4>1. screen'[f] = screen[f]
        BY <1>2, <3>4 DEF DisplayRuns, Display!TaskStep, Display!Receive, Display!Draw,
                          Display!PrintLine, PortTypes
      <4> QED
        BY <2>1, <2>2, <3>2, <4>1
    <3> QED
      BY <3>3, <3>4
  <2>5. CASE displayPc' = "receive"
    <3>1. Coming' = displayQueue
      BY <2>3, <2>5, ConcatEmptySeq DEF Coming, Queued
    <3>2. Display!Field(m) # f => screen'[f] = screen[f]
      BY <1>2 DEF DisplayRuns, Display!TaskStep, Display!Receive, Display!Draw,
                  Display!PrintLine, PortTypes
    <3>3. Display!Field(m) = f => screen'[f] = m \/ ~NoNews(displayQueue, f)
      <4>1. CASE Display!Draw
        BY <4>1 DEF Display!Draw, PortTypes
      <4>2. CASE Display!PrintLine
        <5>1. displayPc = "print" /\ screen' = screen /\ m.type # "PowerLevelChanged"
          BY <2>5, <4>2 DEF Display!PrintLine
        <5>2. m.type = "PowerOutputChanged"
          BY <5>1 DEF Printing
        <5>3. Display!Field(m) = "output"
          BY <5>2 DEF Display!Field
        <5> QED
          BY <5>1, <5>2, <5>3 DEF Drawn
      <4> QED
        BY <1>2, <4>1, <4>2 DEF DisplayRuns, Display!TaskStep, Display!Receive
    <3> QED
      BY <2>1, <2>2, <3>1, <3>2, <3>3, NewsTaken
  <2> QED
    BY <2>4, <2>5
<1> QED
  BY <1>1, <1>2 DEF DisplayRuns, Display!TaskStep, Display!Draw, Display!PrintLine

\* A message that is printed is a power message; an output message's line is
\* printed after it has been drawn.
LEMMA DisplayDrawn ==
    ASSUME PortTypes, Queued, Printing, Drawn, DisplayRuns
    PROVE  Printing' /\ Drawn'
<1>0. UNCHANGED missed
  BY DEF DisplayRuns
<1>1. CASE Display!Receive
  BY <1>1 DEF Display!Receive, Printing, Drawn
<1>2. CASE Display!Draw
  <2>1. CASE message.type = "PowerOutputChanged"
    <3>1. displayPc' = "print" /\ message' = message
      BY <1>2, <2>1 DEF Display!Draw
    <3>2. Display!Field(message) = "output"
      BY <2>1 DEF Display!Field
    <3>3. screen'["output"] = message
      BY <1>2, <3>2 DEF Display!Draw, PortTypes, Display!Fields
    <3> QED
      BY <2>1, <3>1, <3>3 DEF Printing, Drawn
  <2>2. CASE message.type # "PowerOutputChanged"
    <3>1. displayPc' = "receive"
      BY <1>2, <2>2 DEF Display!Draw, Display!Done
    <3> QED
      BY <3>1 DEF Printing, Drawn
  <2> QED
    BY <2>1, <2>2
<1>3. CASE Display!PrintLine
  <2>1. displayPc' # "print"
    BY <1>3 DEF Display!PrintLine, Display!Done
  <2> QED
    BY <2>1 DEF Printing, Drawn
<1> QED
  BY <1>1, <1>2, <1>3 DEF DisplayRuns, Display!TaskStep

---------------------------------------------------------------------------
(* What the tasks have told is what the screen will show.  *)

\* Steps that move neither the tasks nor the screen.
LEMMA StillTold ==
    ASSUME ToldInv,
           UNCHANGED <<controlOwn, displayOwn, displayQueue, lastTemp, missed>>
    PROVE  ToldInv'
BY DEF ToldInv, Saved, Printing, OutputTold, LevelAnnounced, LevelTold, Sensed, DataTold, Drawn,
       Coming, controlOwn, displayOwn

\* The supply comes on: nothing is shown, and the announcements are to come.
LEMMA InitTold == Init => ToldInv
<1> SUFFICES ASSUME Init PROVE ToldInv
  OBVIOUS
<1>1. /\ controlPc = "sendOn" /\ booting /\ level = nvmPower
      /\ displayPc = "receive" /\ displayQueue = << >>
      /\ screen = [f \in Display!Fields |-> Display!NothingShown]
      /\ lastTemp = [s \in {1, 2} |-> Zero]
  BY DEF Init, Control!Init, Display!Init, Sensor!Init, Sensor!Sensors
<1>2. Coming = << >>
  BY <1>1 DEF Coming
<1>3. Shown(Coming, screen["sensors"], "sensors", Display!NothingShown)
  BY <1>1, <1>2 DEF Shown, NoNews, Display!Fields
<1>4. Display!NothingShown \in Sensed
  BY <1>1 DEF Sensed
<1> QED
  BY <1>1, <1>3, <1>4 DEF ToldInv, Saved, Printing, OutputTold, LevelAnnounced, LevelTold,
                          DataTold, Drawn

\* The supply fails and comes back.
LEMMA SupplyTold == PowerFailure => ToldInv'
<1> SUFFICES ASSUME PowerFailure PROVE ToldInv'
  OBVIOUS
<1>1. /\ controlPc' = "sendOn" /\ booting' /\ level' = nvmPower'
      /\ displayPc' = "receive" /\ displayQueue' = << >>
      /\ screen' = [f \in Display!Fields |-> Display!NothingShown]
      /\ lastTemp' = [s \in {1, 2} |-> Zero]
  BY DEF PowerFailure, Control!PowerFailure, Display!PowerFailure, Sensor!PowerFailure,
         Sensor!Sensors
<1>2. Coming' = << >>
  BY <1>1 DEF Coming
<1>3. Shown(Coming', screen'["sensors"], "sensors", Display!NothingShown)
  BY <1>1, <1>2 DEF Shown, NoNews, Display!Fields
<1>4. Display!NothingShown \in Sensed'
  BY <1>1 DEF Sensed
<1> QED
  BY <1>1, <1>3, <1>4 DEF ToldInv, Saved, Printing, OutputTold, LevelAnnounced, LevelTold,
                          DataTold, Drawn

\* The display task.
LEMMA DisplayTold ==
    ASSUME Inv, Inv', ToldInv, DisplayRuns
    PROVE  ToldInv'
<1>0. /\ PortTypes /\ PortTypes' /\ Queued /\ Queued' /\ Printing /\ Drawn
      /\ UNCHANGED <<controlOwn, lastTemp, missed>>
  BY DEF Inv, ToldInv, DisplayRuns, sensorOwn
<1>1. Printing' /\ Drawn'
  BY <1>0, DisplayDrawn
<1>2. \A f \in Display!Fields : \A v :
          /\ Shown(Coming, screen[f], f, v)
          /\ f = "output" => "PowerOutputChanged" \notin missed
          => Shown(Coming', screen'[f], f, v)
  BY <1>0, DisplayKeeps
<1>3. "output" \in Display!Fields /\ "level" \in Display!Fields /\ "sensors" \in Display!Fields
  BY DEF Display!Fields
<1>4. Saved' /\ OutputTold'
  BY <1>0, <1>2, <1>3 DEF ToldInv, Saved, OutputTold, controlOwn
<1>5. LevelTold'
  BY <1>0, <1>2, <1>3 DEF ToldInv, LevelTold, LevelAnnounced, controlOwn
<1>6. DataTold'
  BY <1>0, <1>2, <1>3 DEF ToldInv, DataTold, Sensed
<1> QED
  BY <1>1, <1>4, <1>5, <1>6 DEF ToldInv

\* The CDC task: command 'f' wipes off all three fields.
LEMMA CdcTold ==
    ASSUME Inv, ToldInv, CdcRuns
    PROVE  ToldInv'
<1>1. CASE Display!FillScreen
  <2>1. missed' = Kinds
    BY <1>1 DEF CdcRuns, Display!FillScreen
  <2>2. UNCHANGED <<controlOwn, displayPc, message>>
    BY <1>1 DEF CdcRuns, Display!FillScreen
  <2> QED
    BY <2>1, <2>2 DEF ToldInv, Saved, Printing, OutputTold, LevelTold, DataTold, Drawn, Kinds,
                      controlOwn
<1>2. CASE ~Display!FillScreen
  <2>1. UNCHANGED <<controlOwn, displayOwn, displayQueue, lastTemp, missed>>
    BY <1>2 DEF CdcRuns, Display!CdcStep, Display!Check, Display!GetChar, Display!Reply,
                Display!taskVars, displayOwn, sensorOwn
  <2> QED
    BY <2>1, StillTold
<1> QED
  BY <1>1, <1>2

\* The sensor task.
LEMMA SensorTold ==
    ASSUME Inv, Inv', ToldInv, SensorRuns
    PROVE  ToldInv'
<1>0. /\ PortTypes /\ Queued /\ Queued' /\ UNCHANGED <<controlOwn, displayOwn>>
  BY DEF Inv, SensorRuns, SensorSends, SensorComputes
<1>1. CASE SensorComputes
  <2>1. UNCHANGED <<displayQueue, lastTemp, missed>>
    BY <1>1 DEF SensorComputes, Sensor!ReceiveTick, Sensor!ReadFirst, Sensor!ReadSecond
  <2> QED
    BY <1>0, <2>1, StillTold
<1>2. ASSUME NEW m \in Display!DisplayMessage, displayQueue' = Append(displayQueue, m),
             Display!Field(m) = "sensors",
             m \in Sensed',
             missed' \cup {"SensorDataChanged"} = missed \cup {"SensorDataChanged"}
      PROVE  ToldInv'
  <2>1. /\ Shown(Coming', screen["sensors"], "sensors", m)
        /\ \A s, f, v : Display!Field(m) # f /\ Shown(Coming, s, f, v)
                            => Shown(Coming', s, f, v)
    BY <1>0, <1>2, SentIsTold
  <2>2. Saved' /\ Printing' /\ OutputTold'
    <3>1. "PowerOutputChanged" \notin missed' => "PowerOutputChanged" \notin missed
      BY <1>2
    <3> QED
      BY <1>0, <1>2, <2>1, <3>1 DEF ToldInv, Saved, Printing, OutputTold, controlOwn, displayOwn
  <2>3. LevelTold'
    <3>1. "PowerLevelChanged" \notin missed' => "PowerLevelChanged" \notin missed
      BY <1>2
    <3> QED
      BY <1>0, <1>2, <2>1, <3>1 DEF ToldInv, LevelTold, LevelAnnounced, controlOwn, displayOwn
  <2>4. DataTold'
    BY <1>0, <1>2, <2>1 DEF DataTold, displayOwn
  <2>5. Drawn'
    <3>1. "PowerOutputChanged" \notin missed' => "PowerOutputChanged" \notin missed
      BY <1>2
    <3>2. ~NoNews(displayQueue, "output") => ~NoNews(displayQueue', "output")
      BY <1>0, <1>2 DEF NoNews, Queued
    <3> QED
      BY <1>0, <3>1, <3>2 DEF ToldInv, Drawn, displayOwn
  <2> QED
    BY <2>2, <2>3, <2>4, <2>5 DEF ToldInv
<1>3. CASE Sensor!SendData /\ Track("SensorDataChanged")
  <2> DEFINE m == Sensor!SensorDataChanged(tempData)
  <2>0. /\ sensorPc = "sendData" /\ Sensor!Send(m) /\ lastTemp' = tempData
    BY <1>3 DEF Sensor!SendData
  <2>1. /\ m = Display!SensorDataChanged(lastTemp') /\ Display!Field(m) = "sensors"
    BY <2>0 DEF Sensor!SensorDataChanged, Display!SensorDataChanged, Display!Field
  <2>2. m \in Display!DisplayMessage
    <3>1. tempData \in [{1, 2} -> Readings]
      BY <2>0 DEF Inv, SensorPart, Fresh, Sensor!NothingSampled, Sensor!Sensors
    <3> QED
      BY <3>1, MessageLemma
  <2>3. CASE displayQueue' = Append(displayQueue, m)
    <3>1. missed' = missed \ {"SensorDataChanged"}
      BY <1>0, <1>3, <2>3 DEF Track, Queued
    <3>2. m \in Sensed'
      BY <2>1 DEF Sensed
    <3> HIDE DEF m
    <3> QED
      BY <1>2, <2>1, <2>2, <2>3, <3>1, <3>2
  <2>4. CASE displayQueue' = displayQueue
    <3>1. missed' = missed \cup {"SensorDataChanged"}
      BY <1>3, <2>4 DEF Track
    <3> QED
      BY <1>0, <2>4, <3>1 DEF ToldInv, Saved, Printing, OutputTold, LevelAnnounced, LevelTold,
                              DataTold, Drawn, Coming, controlOwn, displayOwn
  <2> QED
    BY <2>0, <2>3, <2>4 DEF Sensor!Send
<1>4. CASE Sensor!SendError /\ UNCHANGED missed
  <2> DEFINE m == Sensor!SensorError
  <2>0. Sensor!Send(m) /\ lastTemp' = lastTemp
    BY <1>4 DEF Sensor!SendError
  <2>1. /\ m = Display!SensorError /\ Display!Field(m) = "sensors"
        /\ m \in Display!DisplayMessage /\ m \in Sensed'
    BY MessageLemma DEF Sensor!SensorError, Display!SensorError, Display!Field, Sensed
  <2>3. CASE displayQueue' = Append(displayQueue, m)
    <3> HIDE DEF m
    <3> QED
      BY <1>2, <1>4, <2>1, <2>3
  <2>4. CASE displayQueue' = displayQueue
    BY <1>0, <1>4, <2>0, <2>4, StillTold
  <2> QED
    BY <2>0, <2>3, <2>4 DEF Sensor!Send
<1> QED
  BY <1>1, <1>3, <1>4 DEF SensorRuns, SensorSends

\* The control task.
LEMMA ControlTold ==
    ASSUME Inv, Inv', ToldInv, ControlRuns
    PROVE  ToldInv'
<1>0. /\ PortTypes /\ Queued /\ Queued' /\ ControlTypes /\ Booted
      /\ UNCHANGED <<displayOwn, lastTemp>>
  BY DEF Inv, ControlPart, ControlRuns, ControlSends, ControlComputes, sensorOwn
<1>1. ASSUME UNCHANGED <<displayQueue, missed>>, Saved', OutputTold', LevelTold'
      PROVE  ToldInv'
  BY <1>0, <1>1 DEF ToldInv, Printing, DataTold, Sensed, Drawn, Coming, displayOwn
<1>2. CASE Control!SendOn /\ Track("PowerOutputChanged")
  <2> DEFINE m == Control!PowerOutputChanged(on)
  <2>0. /\ Control!Send(m) /\ controlPc' = "storeOn" /\ controlPc = "sendOn"
        /\ UNCHANGED <<nvmPower, booting, on, level>>
    BY <1>2 DEF Control!SendOn, Control!config, Control!locals
  <2>1. /\ m = Display!PowerOutputChanged(on) /\ Display!Field(m) = "output"
        /\ m \in Display!DisplayMessage
    BY <1>0, MessageLemma DEF Control!PowerOutputChanged, Display!PowerOutputChanged,
       Display!Field, ControlTypes
  <2>2. Saved' /\ Printing'
    BY <1>0, <2>0 DEF ToldInv, Saved, Printing, displayOwn
  <2> HIDE DEF m
  <2>3. CASE displayQueue' = Append(displayQueue, m)
    <3>1. missed' = missed \ {"PowerOutputChanged"}
      BY <1>0, <1>2, <2>3 DEF Track, Queued
    <3>2. /\ Shown(Coming', screen["output"], "output", m)
          /\ \A s, f, v : Display!Field(m) # f /\ Shown(Coming, s, f, v)
                              => Shown(Coming', s, f, v)
      BY <1>0, <2>1, <2>3, SentIsTold
    <3>3. OutputTold'
      BY <1>0, <2>0, <2>1, <3>2 DEF OutputTold, displayOwn
    <3>4. LevelTold'
      BY <1>0, <2>0, <2>1, <3>1, <3>2 DEF ToldInv, LevelTold, LevelAnnounced, displayOwn
    <3>5. DataTold'
      BY <1>0, <2>1, <3>1, <3>2 DEF ToldInv, DataTold, Sensed, displayOwn
    <3>6. Drawn'
      <4>1. ~NoNews(displayQueue', "output")
        <5>1. LastNews(displayQueue', "output", m)
          BY <1>0, <2>1, <2>3, NewsDecides DEF Queued
        <5> QED
          BY <5>1 DEF LastNews, NoNews
      <4> QED
        BY <4>1 DEF Drawn
    <3> QED
      BY <2>2, <3>3, <3>4, <3>5, <3>6 DEF ToldInv
  <2>4. CASE displayQueue' = displayQueue
    <3>1. missed' = missed \cup {"PowerOutputChanged"}
      BY <1>2, <2>4 DEF Track
    <3>2. LevelTold' /\ DataTold'
      BY <1>0, <2>0, <2>4, <3>1 DEF ToldInv, LevelTold, LevelAnnounced, DataTold, Sensed,
         Coming, displayOwn
    <3> QED
      BY <2>2, <3>1, <3>2 DEF ToldInv, OutputTold, Drawn
  <2> QED
    BY <2>0, <2>3, <2>4 DEF Control!Send
<1>3. CASE Control!SendLevel /\ Track("PowerLevelChanged")
  <2> DEFINE m == Control!PowerLevelChanged(level)
  <2>0. /\ Control!Send(m) /\ controlPc' = "storeLevel" /\ controlPc = "sendLevel"
        /\ UNCHANGED <<nvmPower, booting, on, level>>
    BY <1>3 DEF Control!SendLevel, Control!config, Control!locals
  <2>1. /\ m = Display!PowerLevelChanged(level) /\ Display!Field(m) = "level"
        /\ m \in Display!DisplayMessage
    BY <1>0, MessageLemma DEF Control!PowerLevelChanged, Display!PowerLevelChanged,
       Display!Field, ControlTypes
  <2>2. Saved' /\ Printing'
    BY <1>0, <2>0 DEF ToldInv, Saved, Printing, displayOwn
  <2> HIDE DEF m
  <2>3. CASE displayQueue' = Append(displayQueue, m)
    <3>1. missed' = missed \ {"PowerLevelChanged"}
      BY <1>0, <1>3, <2>3 DEF Track, Queued
    <3>2. /\ Shown(Coming', screen["level"], "level", m)
          /\ \A s, f, v : Display!Field(m) # f /\ Shown(Coming, s, f, v)
                              => Shown(Coming', s, f, v)
      BY <1>0, <2>1, <2>3, SentIsTold
    <3>3. LevelTold'
      BY <1>0, <2>0, <2>1, <3>2 DEF LevelTold, displayOwn
    <3>4. OutputTold'
      BY <1>0, <2>0, <2>1, <3>1, <3>2 DEF ToldInv, OutputTold, displayOwn
    <3>5. DataTold'
      BY <1>0, <2>1, <3>1, <3>2 DEF ToldInv, DataTold, Sensed, displayOwn
    <3>6. Drawn'
      <4>1. ~NoNews(displayQueue, "output") => ~NoNews(displayQueue', "output")
        BY <1>0, <2>1, <2>3 DEF NoNews, Queued
      <4> QED
        BY <1>0, <3>1, <4>1 DEF ToldInv, Drawn, displayOwn
    <3> QED
      BY <2>2, <3>3, <3>4, <3>5, <3>6 DEF ToldInv
  <2>4. CASE displayQueue' = displayQueue
    <3>1. missed' = missed \cup {"PowerLevelChanged"}
      BY <1>3, <2>4 DEF Track
    <3>2. OutputTold' /\ DataTold' /\ Drawn'
      BY <1>0, <2>0, <2>4, <3>1 DEF ToldInv, OutputTold, DataTold, Sensed, Drawn,
         Coming, displayOwn
    <3> QED
      BY <2>2, <3>1, <3>2 DEF ToldInv, LevelTold
  <2> QED
    BY <2>0, <2>3, <2>4 DEF Control!Send
<1>4. CASE ControlComputes
  <2>0. UNCHANGED <<displayQueue, missed>>
    BY <1>4 DEF ControlComputes, Control!StoreOn, Control!StoreLevel, Control!ReceivePress,
       Control!ConfirmPress, Control!ReceiveEdge, Control!ReceiveTurn, Control!Persist
  <2> USE DEF ToldInv, Saved, OutputTold, LevelTold, LevelAnnounced, Coming, displayOwn,
              Control!config, Control!locals
  <2>1. CASE Control!StoreOn \/ Control!StoreLevel
    BY <1>0, <1>1, <2>0, <2>1 DEF Booted, Control!StoreOn, Control!StoreLevel
  <2>2. CASE Control!ReceivePress \/ Control!ReceiveEdge
    BY <1>0, <1>1, <2>0, <2>2 DEF Booted, Control!ReceivePress, Control!ReceiveEdge
  <2>3. CASE Control!ConfirmPress
    BY <1>0, <1>1, <2>0, <2>3 DEF Booted, Control!ConfirmPress
  <2>4. CASE Control!Persist
    BY <1>0, <1>1, <2>0, <2>4 DEF Booted, Control!Persist
  <2>5. CASE Control!ReceiveTurn
    BY <1>0, <1>1, <2>0, <2>5 DEF Booted, Control!ReceiveTurn
  <2> QED
    BY <1>4, <2>1, <2>2, <2>3, <2>4, <2>5 DEF ControlComputes
<1> QED
  BY <1>2, <1>3, <1>4 DEF ControlRuns, ControlSends

\* Whatever moves.
LEMMA StepTold == Inv /\ Inv' /\ ToldInv /\ [Next]_vars => ToldInv'
<1> SUFFICES ASSUME Inv, Inv', ToldInv, [Next]_vars PROVE ToldInv'
  OBVIOUS
<1>1. CASE TempSampleTimer \/ PanelInterrupt \/ ZeroCross \/ ButtonMoves \/ ConverterChanges
           \/ HostActs \/ UNCHANGED vars
  <2>1. UNCHANGED <<controlOwn, displayOwn, displayQueue, lastTemp, missed>>
    <3>1. CASE TempSampleTimer \/ ConverterChanges
      BY <3>1 DEF TempSampleTimer, ConverterChanges, Sensor!TempSampleCallback,
         Sensor!ConverterChanges, Sensor!taskVars
    <3>2. CASE PanelInterrupt \/ ButtonMoves
      BY <3>2 DEF PanelInterrupt, ButtonMoves, Control!Interrupt, Control!ButtonMoves,
         Control!taskVars, Control!config, Control!locals, controlOwn, sensorOwn
    <3>3. CASE ZeroCross \/ HostActs
      BY <3>3 DEF ZeroCross, HostActs, Display!HostStep, Display!HostReads,
         Display!HostConfigures, Display!taskVars, displayOwn, sensorOwn
    <3>4. CASE UNCHANGED vars
      BY <3>4 DEF vars, sensorOwn
    <3> QED
      BY <1>1, <3>1, <3>2, <3>3, <3>4
  <2> QED
    BY <2>1, StillTold
<1> QED
  BY <1>1, DisplayTold, CdcTold, SensorTold, ControlTold, SupplyTold DEF Next

\* So both invariants hold throughout.
LEMMA TellsInv == Spec => [](Inv /\ ToldInv)
<1>1. Init => Inv /\ ToldInv
  BY InitInv, InitTold
<1>2. Inv /\ ToldInv /\ [Next]_vars => (Inv /\ ToldInv)'
  BY Step, StepTold
<1> QED
  BY <1>1, <1>2, PTL DEF Spec

---------------------------------------------------------------------------
\* Every queue, word and flag of the controller keeps its type in the
\* company of all the others.
THEOREM ControllerTypeCorrect == Spec => []TypeOK
<1>1. Inv => TypeOK
  BY MessageLemma DEF Inv, ControlPart, ControlTypes, RelayTypes, SensorPart, PortTypes, Queued,
     TypeOK, Control!TypeOK, Ssr!TypeOK, Display!TypeOK
<1> QED
  BY InitInv, Step, <1>1, PTL DEF Spec

\* The heater is driven only after a confirmed press, whatever the zero-cross
\* interrupt, the tasks and failures of the supply do in between.
THEOREM OnlyPressesDrive == Spec => []DrivenOnlyAfterPress
<1>1. Inv => DrivenOnlyAfterPress
  BY DEF Inv, Pressed, DrivenOnlyAfterPress, Ssr!Driven
<1> QED
  BY InitInv, Step, <1>1, PTL DEF Spec

\* Only the sensor task puts a sensor message into the display queue, and
\* what it sends is what this sampling has read.
LEMMA FreshStep == Inv /\ [Next]_vars => Sensor!FreshSend
<1> SUFFICES ASSUME Inv, [Next]_vars, Len(displayQueue') > Len(displayQueue)
             PROVE  LET m == displayQueue'[Len(displayQueue')] IN
                    /\ m.type = "SensorDataChanged" =>
                           /\ sampled[1] = {m.temperatures[1]} /\ sampled[2] = {m.temperatures[2]}
                           /\ m.temperatures \in [{1, 2} -> Readings] \ {lastTemp}
                    /\ m.type = "SensorError" => Fault \in sampled[1] \/ Fault \in sampled[2]
  BY DEF Sensor!FreshSend, Sensor!Sensors
<1>1. displayQueue \in Seq(Display!DisplayMessage) /\ Fresh
  BY DEF Inv, Queued, SensorPart
<1>2. ASSUME NEW m, displayQueue' = Append(displayQueue, m)
      PROVE  displayQueue'[Len(displayQueue')] = m
  BY <1>1, <1>2, AppendProperties
<1>3. CASE ControlSends
  <2>1. PICK m : /\ displayQueue' = Append(displayQueue, m)
                 /\ m.type \in {"PowerOutputChanged", "PowerLevelChanged"}
    BY <1>3 DEF ControlSends, Control!SendOn, Control!SendLevel, Control!Send,
                Control!PowerOutputChanged, Control!PowerLevelChanged
  <2> QED
    BY <1>2, <2>1
<1>4. CASE Sensor!SendData
  <2>1. /\ sensorPc = "sendData"
        /\ displayQueue' = Append(displayQueue, Sensor!SensorDataChanged(tempData))
    BY <1>4 DEF Sensor!SendData, Sensor!Send
  <2> QED
    BY <1>1, <1>2, <2>1 DEF Fresh, Sensor!SensorDataChanged
<1>5. CASE Sensor!SendError
  <2>1. /\ sensorPc = "sendError"
        /\ displayQueue' = Append(displayQueue, Sensor!SensorError)
    BY <1>5 DEF Sensor!SendError, Sensor!Send
  <2> QED
    BY <1>1, <1>2, <2>1 DEF Fresh, Sensor!SensorError
<1>6. CASE Display!Receive
  <2>1. displayQueue # << >> /\ displayQueue' = Tail(displayQueue)
    BY <1>6 DEF Display!Receive
  <2>2. Len(displayQueue') < Len(displayQueue)
    BY <1>1, <2>1
  <2> QED
    BY <1>1, <2>1, <2>2
<1>7. CASE PowerFailure
  <2>1. displayQueue' = << >>
    BY <1>7 DEF PowerFailure, Sensor!PowerFailure
  <2> QED
    BY <1>1, <2>1
<1>8. CASE UNCHANGED displayQueue
  BY <1>1, <1>8
<1>9. \/ ControlSends \/ Sensor!SendData \/ Sensor!SendError \/ Display!Receive
      \/ PowerFailure \/ UNCHANGED displayQueue
  <2>1. CASE ControlRuns
    BY <2>1 DEF ControlRuns, ControlComputes, Control!StoreOn, Control!StoreLevel,
       Control!ReceivePress, Control!ConfirmPress, Control!ReceiveEdge, Control!ReceiveTurn,
       Control!Persist
  <2>2. CASE SensorRuns \/ TempSampleTimer \/ ConverterChanges
    BY <2>2 DEF SensorRuns, SensorSends, SensorComputes, TempSampleTimer, ConverterChanges,
       Sensor!ReceiveTick, Sensor!ReadFirst, Sensor!ReadSecond, Sensor!TempSampleCallback,
       Sensor!ConverterChanges
  <2>3. CASE DisplayRuns \/ CdcRuns \/ HostActs
    BY <2>3 DEF DisplayRuns, CdcRuns, HostActs, Display!TaskStep, Display!CdcStep, Display!HostStep,
       Display!Draw, Display!PrintLine, Display!Check, Display!GetChar, Display!Reply,
       Display!FillScreen, Display!HostReads, Display!HostConfigures
  <2>4. CASE PanelInterrupt \/ ZeroCross \/ ButtonMoves
    BY <2>4 DEF PanelInterrupt, ZeroCross, ButtonMoves, Control!Interrupt, Control!ButtonMoves
  <2>5. CASE UNCHANGED vars
    BY <2>5 DEF vars
  <2> QED
    BY <2>1, <2>2, <2>3, <2>4, <2>5 DEF Next
<1> QED
  BY <1>3, <1>4, <1>5, <1>6, <1>7, <1>8, <1>9

\* Every data message in the display queue was put there with what both
\* converters returned in the sampling that sent it, and was news; every
\* report of an error with a fault of that sampling.
THEOREM DataAlwaysFresh == Spec => SendsFreshData
BY InitInv, Step, FreshStep, PTL DEF Spec, SendsFreshData

\* In the controller the relay meets only what SsrPwm lets its environment
\* do, so what is proved of SsrPwm alone holds here.
THEOREM RelayInCompany == Spec => ImplementsSsr
<1>1. Init => Ssr!Init
  BY DEF Init
<1>2. Simulates => [Ssr!Next]_(Ssr!vars)
  BY DEF Simulates
<1> QED
  BY InitInv, Step, <1>1, <1>2, PTL DEF Spec, ImplementsSsr

\* And the control task meets only what ControlTask lets its environment do.
THEOREM ControlInCompany == Spec => ImplementsControl
<1>1. Init => Control!Init
  BY DEF Init
<1>2. Simulates => [Control!Next]_(Control!vars)
  BY DEF Simulates
<1> QED
  BY InitInv, Step, <1>1, <1>2, PTL DEF Spec, ImplementsControl

\* Unless its last announcement was lost or wiped off, the screen shows, or
\* will show once the display task has taken what is queued, the switch and
\* the level of the control task.
THEOREM ScreenAlwaysCatchesUp == Spec => []ScreenCatchesUp
<1>1. Inv /\ ToldInv => ScreenCatchesUp
  <2> SUFFICES ASSUME Inv, ToldInv, controlPc \in {"receive", "confirm"}
               PROVE  /\ "PowerOutputChanged" \notin missed =>
                             WillShow("output") = Display!PowerOutputChanged(on)
                      /\ "PowerLevelChanged" \notin missed =>
                             WillShow("level") = Display!PowerLevelChanged(level)
    BY DEF ScreenCatchesUp
  <2>1. Coming \in Seq(Display!DisplayMessage)
    BY ComingLemma DEF Inv
  <2>2. ~booting
    BY DEF Inv, ControlPart, Booted
  <2>3. "PowerOutputChanged" \notin missed =>
            Shown(Coming, screen["output"], "output", Display!PowerOutputChanged(on))
    BY DEF ToldInv, OutputTold
  <2>4. "PowerLevelChanged" \notin missed =>
            Shown(Coming, screen["level"], "level", Display!PowerLevelChanged(level))
    BY <2>2 DEF ToldInv, LevelTold, LevelAnnounced
  <2> QED
    BY <2>1, <2>3, <2>4, WillShowIs
<1> QED
  BY TellsInv, <1>1, PTL

\* The same for the sensors: the last data found worth sending, or an error
\* reported since.
THEOREM SensorsAlwaysCatchUp == Spec => []SensorsCatchUp
<1>1. Inv /\ ToldInv => SensorsCatchUp
  <2> SUFFICES ASSUME Inv, ToldInv, "SensorDataChanged" \notin missed
               PROVE  WillShow("sensors") \in Sensed
    BY DEF SensorsCatchUp, Sensed
  <2>1. Coming \in Seq(Display!DisplayMessage)
    BY ComingLemma DEF Inv
  <2>2. PICK v \in Sensed : Shown(Coming, screen["sensors"], "sensors", v)
    BY DEF ToldInv, DataTold
  <2> QED
    BY <2>1, <2>2, WillShowIs
<1> QED
  BY TellsInv, <1>1, PTL
============================================================================
