------------------------------ MODULE Samogon ------------------------------
(***************************************************************************)
(* The controller: the interrupt callbacks, the control task, the sensor   *)
(* task, the display task with the USB port, and the relay, joined by the  *)
(* queues and the two words of g_appData they share.  Every step is a step *)
(* of one component's module; the components' environment actions are      *)
(* replaced by the steps of their neighbours.                              *)
(***************************************************************************)
EXTENDS Integers, Sequences, FiniteSetsExt

CONSTANTS
    DebounceTicks, MaxTick, MinLevel, MaxLevel, LevelStep, Levels,
    DefaultLevel, Blank, ControlQueueLength, DisplayQueueLength, Stamps,
    Modulo, CountWrap, Readings, Zero, Fault, Unknown, PortLines,
    Conversions,    \* what the pair of converters may measure in a run
    Acts            \* the parts of the world, or of the machine, that act in
                    \* a run: a run leaves out what its question is not about

ASSUME ActsAssumption ==
    Acts \subseteq {"Button", "Knob", "Timer", "Mains", "Host", "Cdc",
                    "Fill", "Converters", "Supply"}
ASSUME ReadingsAssumption == Zero \in Readings /\ Fault \notin Readings
ASSUME PortAssumption == PortLines \in Nat \ {0}
ASSUME ConversionsAssumption ==
    Conversions \subseteq [{1, 2} -> Readings \cup {Fault}]

VARIABLES
    controlQueue, displayQueue, tickQueue,              \* the queues
    powerOn, powerPercent, nvmPower, flash, buttonHigh, \* ControlTask
    controlPc, booting, on, level, last, confirmed,
    zeroCrossCount, moduloCounter, ssrOn, ssrPin,       \* SsrPwm
    converters, sensorPc, tempData, lastTemp, sampled,  \* SensorTask
    displayPc, message, screen, debugPrint,             \* DisplayTask
    authorized, running, portFree, cdcPc,
    missed          \* history: the kinds of message whose last one was
                    \* lost, or wiped off the screen by command 'f'

Kinds == {"PowerOutputChanged", "PowerLevelChanged", "SensorDataChanged"}

SensorMessages ==
    {[type |-> "SensorError"]} \cup
    {[type |-> "SensorDataChanged", temperatures |-> t] : t \in [{1, 2} -> Readings]}

Control == INSTANCE ControlTask WITH pc <- controlPc, OtherMessages <- SensorMessages
Ssr     == INSTANCE SsrPwm WITH Percents <- Levels
Sensor  == INSTANCE SensorTask WITH pc <- sensorPc
Display == INSTANCE DisplayTask WITH
               pc <- displayPc, Outputs <- BOOLEAN, PowerLevels <- Levels,
               SensorData <- [{1, 2} -> Readings]

ASSUME LevelsAssumption ==
    /\ DefaultLevel \in Levels
    /\ \A l \in Levels, c \in Control!RotaryChannels : Control!Stepped(l, c) \in Levels
ASSUME CountersAssumption == Modulo \in Nat \ {0} /\ CountWrap \in Nat \ {0}

controlOwn == <<nvmPower, flash, controlPc, booting, on, level, last, confirmed>>
relayOwn   == <<zeroCrossCount, moduloCounter, ssrOn, ssrPin>>
sensorOwn  == <<sensorPc, tempData, lastTemp, sampled>>
displayOwn == <<displayPc, message, screen>>
portOwn    == <<debugPrint, authorized, running, portFree, cdcPc>>
settings   == <<powerOn, powerPercent>>
world      == <<buttonHigh, converters>>

vars == <<controlQueue, displayQueue, tickQueue, settings, controlOwn,
          relayOwn, sensorOwn, displayOwn, portOwn, world, missed>>

Init ==
    /\ Control!Init /\ Ssr!Init /\ Sensor!Init /\ Display!Init
    /\ converters \in Conversions
    /\ running => "Host" \in Acts
    /\ buttonHigh \/ "Button" \in Acts
    /\ missed = {}

---------------------------------------------------------------------------
\* A send of a task ends with its message queued or, when the queue is
\* full, lost.
Track(kind) ==
    missed' = IF displayQueue' = displayQueue THEN missed \cup {kind}
                                              ELSE missed \ {kind}

ControlSends ==
    /\ \/ Control!SendOn /\ Track("PowerOutputChanged")
       \/ Control!SendLevel /\ Track("PowerLevelChanged")
    /\ UNCHANGED <<tickQueue, relayOwn, sensorOwn, displayOwn, portOwn, converters>>

ControlComputes ==
    /\ \/ Control!StoreOn \/ Control!StoreLevel \/ Control!ReceivePress
       \/ Control!ConfirmPress \/ Control!ReceiveEdge \/ Control!ReceiveTurn
       \/ Control!Persist
    /\ UNCHANGED <<tickQueue, relayOwn, sensorOwn, displayOwn, portOwn,
                   converters, missed>>

SensorSends ==
    /\ \/ Sensor!SendData /\ Track("SensorDataChanged")
       \/ Sensor!SendError /\ UNCHANGED missed
    /\ UNCHANGED <<controlQueue, settings, controlOwn, relayOwn, displayOwn,
                   portOwn, buttonHigh>>

SensorComputes ==
    /\ Sensor!ReceiveTick \/ Sensor!ReadFirst \/ Sensor!ReadSecond
    /\ UNCHANGED <<controlQueue, settings, controlOwn, relayOwn, displayOwn,
                   portOwn, buttonHigh, missed>>

TempSampleTimer ==
    /\ "Timer" \in Acts
    /\ Sensor!TempSampleCallback
    /\ UNCHANGED <<controlQueue, settings, controlOwn, relayOwn, displayOwn,
                   portOwn, buttonHigh, missed>>

DisplayRuns ==
    /\ Display!TaskStep
    /\ UNCHANGED <<controlQueue, tickQueue, settings, controlOwn, relayOwn,
                   sensorOwn, world, missed>>

CdcRuns ==
    /\ "Cdc" \in Acts
    /\ Display!CdcStep
    /\ cdcPc' = "fill" => "Fill" \in Acts
    /\ missed' = IF cdcPc = "fill" THEN Kinds ELSE missed
    /\ UNCHANGED <<controlQueue, tickQueue, settings, controlOwn, relayOwn,
                   sensorOwn, world>>

---------------------------------------------------------------------------
\* Interrupts.
PanelInterrupt ==
    /\ Control!Interrupt
    /\ LET contact == controlQueue'[Len(controlQueue')].type
       IN  IF contact = "PushButton" THEN "Button" \in Acts ELSE "Knob" \in Acts
    /\ UNCHANGED <<tickQueue, relayOwn, sensorOwn, displayOwn, portOwn,
                   converters, missed>>

ZeroCross ==
    /\ "Mains" \in Acts
    /\ Ssr!ZeroCross
    /\ UNCHANGED <<controlQueue, displayQueue, tickQueue, controlOwn,
                   sensorOwn, displayOwn, portOwn, world, missed>>

\* The world outside.
ButtonMoves ==
    /\ "Button" \in Acts
    /\ Control!ButtonMoves
    /\ UNCHANGED <<tickQueue, relayOwn, sensorOwn, displayOwn, portOwn,
                   converters, missed>>

ConverterChanges ==
    /\ "Converters" \in Acts
    /\ Sensor!ConverterChanges /\ converters' \in Conversions
    /\ UNCHANGED <<controlQueue, settings, controlOwn, relayOwn, displayOwn,
                   portOwn, buttonHigh, missed>>

HostActs ==
    /\ "Host" \in Acts
    /\ Display!HostStep
    /\ UNCHANGED <<controlQueue, tickQueue, settings, controlOwn, relayOwn,
                   sensorOwn, world, missed>>

\* The supply fails and comes back: everything but the flash starts over.
PowerFailure ==
    /\ "Supply" \in Acts
    /\ Control!PowerFailure /\ Ssr!PowerFailure
    /\ Sensor!PowerFailure /\ Display!PowerFailure
    /\ missed' = {}

ControlRuns == ControlSends \/ ControlComputes
SensorRuns  == SensorSends \/ SensorComputes

Next ==
    \/ ControlRuns \/ SensorRuns \/ TempSampleTimer \/ DisplayRuns \/ CdcRuns
    \/ PanelInterrupt \/ ZeroCross \/ ButtonMoves \/ ConverterChanges
    \/ HostActs \/ PowerFailure

\* The scheduler runs every ready task, the timer is periodic and the mains
\* keeps crossing zero.  Nothing is assumed of the hand, the host, the
\* converters and the supply.
Fairness ==
    /\ WF_vars(ControlRuns) /\ WF_vars(SensorRuns) /\ WF_vars(DisplayRuns)
    /\ WF_vars(TempSampleTimer) /\ WF_vars(ZeroCross)

Spec == Init /\ [][Next]_vars /\ Fairness

---------------------------------------------------------------------------
TypeOK ==
    /\ Control!TypeOK /\ Ssr!TypeOK /\ Sensor!TypeOK /\ Display!TypeOK
    /\ missed \subseteq Kinds

\* What a field of the screen will show once the display task has taken all
\* that is queued now: the last message of that field.
Coming ==
    (IF displayPc # "receive" THEN <<message>> ELSE << >>) \o displayQueue

WillShow(f) ==
    LET news == {i \in 1..Len(Coming) : Display!Field(Coming[i]) = f}
    IN  IF news = {} THEN screen[f] ELSE Coming[Max(news)]

\* Unless its last announcement was lost or wiped off, the screen shows, or
\* will show without anybody's doing, the switch and the level of the control
\* task, whatever the interleaving of the three tasks and their blocking.
ScreenCatchesUp ==
    (controlPc \in {"receive", "confirm"}) =>
        /\ "PowerOutputChanged" \notin missed =>
               WillShow("output") = Display!PowerOutputChanged(on)
        /\ "PowerLevelChanged" \notin missed =>
               WillShow("level") = Display!PowerLevelChanged(level)

\* The same for the sensors: the screen is to show the last data the sensor
\* task found worth sending, or an error reported since.
SensorsCatchUp ==
    (sensorPc = "receive" /\ "SensorDataChanged" \notin missed) =>
        WillShow("sensors") \in
            {Display!SensorDataChanged(lastTemp), Display!SensorError}
                \cup (IF lastTemp = [s \in {1, 2} |-> Zero]
                      THEN {Display!NothingShown} ELSE {})

\* Switching off reaches the relay, whatever the display, the USB host, the
\* converters and the flash do: the heater stops, or the switch is on again.
OffReachesRelay == ~on ~> (~Ssr!Driven \/ on)

\* The heater is driven only after a confirmed press, across failures of the
\* supply and whatever the zero-cross interrupt meets of a half-done change.
DrivenOnlyAfterPress == Ssr!Driven => confirmed

\* A sampling that was cut short by a fault leaves old readings behind; every
\* data message in the display queue was put there with what both converters
\* returned in the sampling that sent it, and was news, and every error with a
\* fault of that sampling (see SensorTask!FreshSend).
SendsFreshData == [][Sensor!FreshSend]_vars

\* A converter's fault that persists is shown for good, though single reports
\* of it may find the display queue full, and nothing repeats them but the
\* next sampling.
FaultIsShown ==
    \A s \in {1, 2} :
        <>[](converters[s] = Fault) => <>[](screen["sensors"] = Display!SensorError)

\* Nothing but a port without room keeps the display task from its next
\* message: either it receives again and again, or the host, which has
\* configured the device, again and again leaves the port's buffers full
\* (printfToCdc busy-waits in udi_cdc_write_buf).
OnlyAFullPortStops ==
    []<>(displayPc = "receive") \/ []<>(running /\ portFree = 0)

\* The neighbours are no worse than the environments that the modules of the
\* control task and the relay were checked, and proved about, with.
ImplementsControl == Control!Init /\ [][Control!Next]_Control!vars
ImplementsSsr     == Ssr!Init /\ [][Ssr!Next]_Ssr!vars
============================================================================
