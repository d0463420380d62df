---------------------------- MODULE DisplayTask ----------------------------
(***************************************************************************)
(* taskDisplayLoop (UserTasks.c) takes the messages of the control and the *)
(* sensor task from the display queue, draws what they say and, for the    *)
(* two power messages, prints a line to the USB serial port.  printfToCdc  *)
(* busy-waits in udi_cdc_write_buf while the port's buffers are full, for  *)
(* as long as the host keeps the data interface running.                   *)
(*                                                                         *)
(* taskCdcLoop, of the same priority, answers the characters the host      *)
(* sends over the same buffers; its command 'f' fills the screen.          *)
(***************************************************************************)
EXTENDS Integers, Sequences

CONSTANTS
    Outputs,            \* the messages of each kind: power output changed,
    PowerLevels,        \* power level changed,
    SensorData,         \* sensor data changed (and sensor error)
    Unknown,            \* what the screen shows before the first message
    PortLines           \* lines the port's buffers hold

VARIABLES
    displayQueue,   \* hDisplayChangeQueue
    pc,             \* where the display task is
    message,        \* the message it deals with
    screen,         \* what each field of the screen shows
    debugPrint,     \* g_enableDebugPrintToCdc
    authorized,     \* g_appData.bAutorizeCdcTransfer
    running,        \* udi_cdc_data_running: the host configured the device
    portFree,       \* lines the port's buffers have room for
    cdcPc           \* where the CDC task is

port     == <<authorized, running, portFree>>
taskVars == <<pc, message, screen>>
vars     == <<displayQueue, taskVars, debugPrint, port, cdcPc>>

PowerOutputChanged(b) == [type |-> "PowerOutputChanged", powerOn |-> b]
PowerLevelChanged(l)  == [type |-> "PowerLevelChanged", powerLevelPercent |-> l]
SensorDataChanged(t)  == [type |-> "SensorDataChanged", temperatures |-> t]
SensorError           == [type |-> "SensorError"]

DisplayMessage ==
    {PowerOutputChanged(b) : b \in Outputs}
        \cup {PowerLevelChanged(l) : l \in PowerLevels}
        \cup {SensorDataChanged(t) : t \in SensorData}
        \cup {SensorError}

\* The field of the screen a message is drawn in.
Field(m) ==
    CASE m.type = "PowerOutputChanged" -> "output"
      [] m.type = "PowerLevelChanged"  -> "level"
      [] OTHER                         -> "sensors"

Fields == {"output", "level", "sensors"}

NothingShown == [type |-> Unknown]

Init ==
    /\ displayQueue = << >>
    /\ pc = "receive"
    /\ message = NothingShown
    /\ screen = [f \in Fields |-> NothingShown]
    /\ debugPrint = FALSE
    /\ authorized = TRUE
    /\ running \in BOOLEAN
    /\ portFree = PortLines
    /\ cdcPc = "check"

---------------------------------------------------------------------------
\* A power output message is drawn and then printed, a power level message
\* printed and then drawn, the sensors' are drawn only.
Receive ==
    /\ pc = "receive" /\ displayQueue # << >>
    /\ message' = Head(displayQueue)
    /\ displayQueue' = Tail(displayQueue)
    /\ pc' = IF message'.type = "PowerLevelChanged" THEN "print" ELSE "draw"
    /\ UNCHANGED <<screen, debugPrint, port, cdcPc>>

\* The message has been dealt with.
Done ==
    /\ pc' = "receive"
    /\ message' = NothingShown

Draw ==
    /\ pc = "draw"
    /\ screen' = [screen EXCEPT ![Field(message)] = message]
    /\ \/ /\ message.type = "PowerOutputChanged"
          /\ pc' = "print" /\ UNCHANGED message
       \/ message.type # "PowerOutputChanged" /\ Done
    /\ UNCHANGED <<displayQueue, debugPrint, port, cdcPc>>

\* Faults: room is not looked at; the port is waited for though no host reads.
WriteLineAnyway == portFree' = portFree - 1
WriteLineWaits ==
    /\ portFree > 0
    /\ portFree' = portFree - 1

\* udi_cdc_write_buf of one line: it fits, or the data interface is not
\* running and it is dropped.  Otherwise the caller waits.
WriteLine ==
    \/ /\ portFree > 0
       /\ portFree' = portFree - 1
    \/ /\ portFree = 0 /\ ~running
       /\ UNCHANGED portFree

PrintLine ==
    /\ pc = "print"
    /\ IF debugPrint THEN WriteLine ELSE UNCHANGED portFree
    /\ \/ /\ message.type = "PowerLevelChanged"
          /\ pc' = "draw" /\ UNCHANGED message
       \/ message.type # "PowerLevelChanged" /\ Done
    /\ UNCHANGED <<displayQueue, screen, debugPrint, authorized, running, cdcPc>>

TaskStep == Receive \/ Draw \/ PrintLine

---------------------------------------------------------------------------
\* taskCdcLoop looks whether transfers are allowed, and if not again after
\* ten milliseconds.
Check ==
    /\ cdcPc = "check"
    /\ authorized
    /\ cdcPc' = "getc"
    /\ UNCHANGED <<displayQueue, taskVars, debugPrint, port>>

\* udi_cdc_getc waits for a character of the host, takes one left in the
\* buffers, or returns 0 at once when the data interface is not running; from
\* then on the debug lines are printed.
GetChar ==
    /\ cdcPc = "getc"
    /\ cdcPc' \in {"reply", "fill"}
    /\ debugPrint' = TRUE
    /\ UNCHANGED <<displayQueue, taskVars, port>>

Reply ==
    /\ cdcPc = "reply"
    /\ WriteLine
    /\ cdcPc' = "check"
    /\ UNCHANGED <<displayQueue, taskVars, debugPrint, authorized, running>>

\* Command 'f'.
FillScreen ==
    /\ cdcPc = "fill"
    /\ screen' = [f \in Fields |-> NothingShown]
    /\ cdcPc' = "check"
    /\ UNCHANGED <<displayQueue, pc, message, debugPrint, port>>

---------------------------------------------------------------------------
\* The host and the supply.
HostReads ==
    /\ running /\ portFree < PortLines
    /\ portFree' = portFree + 1
    /\ UNCHANGED <<displayQueue, taskVars, debugPrint, authorized, running, cdcPc>>

\* The host configures the device, or resets or leaves it
\* (samogon_callback_cdc_enable and _disable); the buffers are empty when the
\* data interface starts.
HostConfigures ==
    /\ running' = ~running
    /\ authorized' = running'
    /\ portFree' = IF running' THEN PortLines ELSE portFree
    /\ UNCHANGED <<displayQueue, taskVars, debugPrint, cdcPc>>

PowerFailure ==
    /\ displayQueue' = << >>
    /\ pc' = "receive"
    /\ message' = NothingShown
    /\ screen' = [f \in Fields |-> NothingShown]
    /\ debugPrint' = FALSE
    /\ authorized' = TRUE
    /\ running' = FALSE
    /\ portFree' = PortLines
    /\ cdcPc' = "check"

CdcStep == Check \/ GetChar \/ Reply \/ FillScreen

HostStep == HostReads \/ HostConfigures

---------------------------------------------------------------------------
TypeOK ==
    /\ displayQueue \in Seq(DisplayMessage)
    /\ pc \in {"receive", "draw", "print"}
    /\ message \in DisplayMessage \cup {NothingShown}
    /\ screen \in [Fields -> DisplayMessage \cup {NothingShown}]
    /\ debugPrint \in BOOLEAN
    /\ authorized \in BOOLEAN
    /\ running \in BOOLEAN
    /\ portFree \in 0..PortLines
    /\ cdcPc \in {"check", "getc", "reply", "fill"}
============================================================================
