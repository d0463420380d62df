---------------------------- MODULE ControlTask ----------------------------
(***************************************************************************)
(* taskControlProcessLoop (UserTasks.c): it takes the panel's messages     *)
(* from the control queue, keeps the power switch and the power level,     *)
(* saves the level in flash, announces both to the display task and stores *)
(* them where callbackZeroCross reads them.                                *)
(*                                                                         *)
(* A step is what the task does between two points where an interrupt or   *)
(* another task can see or change something it uses.  A send waits up to   *)
(* ten ticks for room in the display queue; how long ten ticks are is left *)
(* open, so a send into a full queue may give up at any time.              *)
(*                                                                         *)
(* The environment is the interrupt callbacks that queue messages, the     *)
(* sensor task that shares the display queue, the display task that takes  *)
(* from it, the push button's pin, and a power supply that may fail at any *)
(* time.                                                                   *)
(***************************************************************************)
EXTENDS Rotary, Sequences

CONSTANTS
    Levels,             \* the levels a run may find in flash or the default
    DefaultLevel,       \* CONFIG_DEFAULT_POWER_LEVEL (50)
    Blank,              \* a configuration row that does not check
    ControlQueueLength, \* length of hControlQueue (10)
    DisplayQueueLength, \* length of hDisplayChangeQueue (10)
    Stamps,             \* the ticks the callbacks stamp on messages
    OtherMessages       \* what the sensor task sends to the display task

ASSUME LevelsAssumption ==
    /\ Levels \subseteq MinLevel..MaxLevel
    /\ DefaultLevel \in Levels
    /\ \A l \in Levels, c \in RotaryChannels : Stepped(l, c) \in Levels
    /\ Blank \notin Levels
ASSUME QueueLengthAssumption ==
    /\ ControlQueueLength \in Nat \ {0}
    /\ DisplayQueueLength \in Nat \ {0}
\* Debounce!StampsNonzero
ASSUME StampsAssumption == Stamps \subseteq 1..MaxTick

VARIABLES
    controlQueue,   \* hControlQueue
    displayQueue,   \* hDisplayChangeQueue
    powerOn,        \* g_appData.powerOn, read by callbackZeroCross
    powerPercent,   \* g_appData.powerPercent, likewise
    nvmPower,       \* g_appData.nvmUserConfig.power
    flash,          \* the level in the configuration row, or Blank
    buttonHigh,     \* level of the push button's pin: low while pressed
    pc,             \* where the task is
    booting,        \* it has not entered its loop yet
    on,             \* its local powerOn
    level,          \* its local powerLevel
    last,           \* its lastTimeChannelA and lastTimeChannelB
    confirmed       \* history: a press was confirmed since the start

shared   == <<powerOn, powerPercent>>
config   == <<nvmPower, flash>>
locals   == <<booting, on, level, last>>
taskVars == <<shared, config, pc, locals, confirmed>>
vars     == <<controlQueue, displayQueue, buttonHigh, taskVars>>

ControlMessage ==
    [type : {"PushButton", "ChannelA", "ChannelB"}, ticks : Stamps]

PowerOutputChanged(b) == [type |-> "PowerOutputChanged", powerOn |-> b]
PowerLevelChanged(l)  == [type |-> "PowerLevelChanged", powerLevelPercent |-> l]

---------------------------------------------------------------------------
\* Fault: the row is not checked.
RestoredUnchecked(row) == row

\* main: g_appData is cleared and the configuration read from flash, or the
\* default taken when the row does not check; the task starts.
Restored(row) == IF row = Blank THEN DefaultLevel ELSE row

Init ==
    /\ flash \in Levels \cup {Blank}
    /\ controlQueue = << >>
    /\ displayQueue = << >>
    /\ powerOn = FALSE
    /\ powerPercent = 0
    /\ nvmPower = Restored(flash)
    /\ buttonHigh \in BOOLEAN
    /\ pc = "sendOn"
    /\ booting = TRUE
    /\ on = FALSE
    /\ level = nvmPower
    /\ last = NoEdge
    /\ confirmed = FALSE

PowerFailure ==
    /\ controlQueue' = << >>
    /\ displayQueue' = << >>
    /\ powerOn' = FALSE
    /\ powerPercent' = 0
    /\ nvmPower' = Restored(flash)
    /\ pc' = "sendOn"
    /\ booting' = TRUE
    /\ on' = FALSE
    /\ level' = Restored(flash)
    /\ last' = NoEdge
    /\ confirmed' = FALSE
    /\ UNCHANGED <<flash, buttonHigh>>

---------------------------------------------------------------------------
\* Fault: the send waits for room for ever.
SendForEver(message) ==
    /\ Len(displayQueue) < DisplayQueueLength
    /\ displayQueue' = Append(displayQueue, message)

\* xQueueSendToBack(hDisplayChangeQueue, ..., 10), its result ignored.
Send(message) ==
    \/ /\ Len(displayQueue) < DisplayQueueLength
       /\ displayQueue' = Append(displayQueue, message)
    \/ /\ Len(displayQueue) >= DisplayQueueLength
       /\ UNCHANGED displayQueue

SendOn ==
    /\ pc = "sendOn"
    /\ Send(PowerOutputChanged(on))
    /\ pc' = "storeOn"
    /\ UNCHANGED <<controlQueue, buttonHigh, shared, config, locals, confirmed>>

\* Fault: the task starts without storing the level.
StoreOnOnly ==
    /\ pc = "storeOn"
    /\ powerOn' = on
    /\ pc' = "receive"
    /\ UNCHANGED <<controlQueue, displayQueue, buttonHigh, powerPercent,
                   config, locals, confirmed>>

\* g_appData.powerOn = powerOn; at the start the level is announced next.
StoreOn ==
    /\ pc = "storeOn"
    /\ powerOn' = on
    /\ pc' = IF booting THEN "sendLevel" ELSE "receive"
    /\ UNCHANGED <<controlQueue, displayQueue, buttonHigh, powerPercent,
                   config, locals, confirmed>>

SendLevel ==
    /\ pc = "sendLevel"
    /\ Send(PowerLevelChanged(level))
    /\ pc' = "storeLevel"
    /\ UNCHANGED <<controlQueue, buttonHigh, shared, config, locals, confirmed>>

StoreLevel ==
    /\ pc = "storeLevel"
    /\ powerPercent' = level
    /\ pc' = "receive"
    /\ booting' = FALSE
    /\ last' = NoEdge
    /\ UNCHANGED <<controlQueue, displayQueue, buttonHigh, powerOn, config,
                   on, level, confirmed>>

---------------------------------------------------------------------------
\* xQueueReceive returns a message.  A press is looked at again a
\* millisecond later.
ReceivePress ==
    /\ pc = "receive" /\ controlQueue # << >>
    /\ Head(controlQueue).type = "PushButton"
    /\ controlQueue' = Tail(controlQueue)
    /\ pc' = "confirm"
    /\ UNCHANGED <<displayQueue, buttonHigh, shared, config, locals, confirmed>>

\* Fault: the pin is not looked at again.
ConfirmAnyPress ==
    /\ pc = "confirm"
    /\ pc' = "sendOn"
    /\ on' = ~on
    /\ confirmed' = (confirmed \/ ~buttonHigh)
    /\ UNCHANGED <<controlQueue, displayQueue, buttonHigh, shared, config,
                   booting, level, last>>

\* Fault: the press is not announced.
ConfirmSilently ==
    /\ pc = "confirm"
    /\ pc' = IF buttonHigh THEN "receive" ELSE "storeOn"
    /\ on' = (on # ~buttonHigh)
    /\ confirmed' = (confirmed \/ ~buttonHigh)
    /\ UNCHANGED <<controlQueue, displayQueue, buttonHigh, shared, config,
                   booting, level, last>>

ConfirmPress ==
    /\ pc = "confirm"
    /\ \/ /\ buttonHigh
          /\ pc' = "receive"
          /\ UNCHANGED <<on, confirmed>>
       \/ /\ ~buttonHigh
          /\ pc' = "sendOn"
          /\ on' = ~on
          /\ confirmed' = TRUE
    /\ UNCHANGED <<controlQueue, displayQueue, buttonHigh, shared, config,
                   booting, level, last>>

\* An edge of the encoder that completes no step.
ReceiveEdge ==
    /\ pc = "receive" /\ controlQueue # << >>
    /\ LET m == Head(controlQueue)
       IN  /\ m.type \in RotaryChannels
           /\ ~Turns(last, m.type, m.ticks)
           /\ last' = KeepEdge(last, m.type, m.ticks)
    /\ controlQueue' = Tail(controlQueue)
    /\ UNCHANGED <<displayQueue, buttonHigh, shared, config, pc, booting, on,
                   level, confirmed>>

\* An edge that completes a step: the level moves, and unless the clamp kept
\* it where the configuration has it, it is saved and announced.
ReceiveTurn ==
    /\ pc = "receive" /\ controlQueue # << >>
    /\ LET m == Head(controlQueue)
       IN  /\ m.type \in RotaryChannels
           /\ Turns(last, m.type, m.ticks)
           /\ level' = Stepped(level, m.type)
    /\ controlQueue' = Tail(controlQueue)
    /\ \/ level' = nvmPower /\ pc' = "receive" /\ last' = NoEdge
       \/ level' # nvmPower /\ pc' = "persist" /\ UNCHANGED last
    /\ UNCHANGED <<displayQueue, buttonHigh, shared, config, booting, on, confirmed>>

\* Faults: the configuration keeps the old level; the level is not announced.
PersistOldLevel ==
    /\ pc = "persist"
    /\ flash' \in {nvmPower, flash, Blank}
    /\ pc' = "sendLevel"
    /\ UNCHANGED <<controlQueue, displayQueue, buttonHigh, shared, nvmPower,
                   locals, confirmed>>

PersistSilently ==
    /\ pc = "persist"
    /\ nvmPower' = level
    /\ flash' \in {level, flash, Blank}
    /\ pc' = "storeLevel"
    /\ UNCHANGED <<controlQueue, displayQueue, buttonHigh, shared, locals, confirmed>>

\* nvmUserConfig.power = powerLevel; writeNvmUserConfig, its result ignored:
\* the row is written, or could not be erased, or was left erased.
Persist ==
    /\ pc = "persist"
    /\ nvmPower' = level
    /\ flash' \in {level, flash, Blank}
    /\ pc' = "sendLevel"
    /\ UNCHANGED <<controlQueue, displayQueue, buttonHigh, shared, locals, confirmed>>

---------------------------------------------------------------------------
\* The environment.
Interrupt ==
    /\ Len(controlQueue) < ControlQueueLength
    /\ \E m \in ControlMessage : controlQueue' = Append(controlQueue, m)
    /\ UNCHANGED <<displayQueue, buttonHigh, taskVars>>

SensorTaskSends ==
    /\ Len(displayQueue) < DisplayQueueLength
    /\ \E m \in OtherMessages : displayQueue' = Append(displayQueue, m)
    /\ UNCHANGED <<controlQueue, buttonHigh, taskVars>>

DisplayReceives ==
    /\ displayQueue # << >>
    /\ displayQueue' = Tail(displayQueue)
    /\ UNCHANGED <<controlQueue, buttonHigh, taskVars>>

ButtonMoves ==
    /\ buttonHigh' = ~buttonHigh
    /\ UNCHANGED <<controlQueue, displayQueue, taskVars>>

TaskStep ==
    \/ SendOn \/ StoreOn \/ SendLevel \/ StoreLevel
    \/ ReceivePress \/ ConfirmPress \/ ReceiveEdge \/ ReceiveTurn \/ Persist

Next ==
    \/ TaskStep
    \/ Interrupt \/ SensorTaskSends \/ DisplayReceives \/ ButtonMoves
    \/ PowerFailure

\* The task has a higher priority than the display and the CDC task, and the
\* only tasks at or above it block after a bounded piece of work.
Spec == Init /\ [][Next]_vars /\ WF_vars(TaskStep)

---------------------------------------------------------------------------
Places == {"sendOn", "storeOn", "sendLevel", "storeLevel", "receive",
           "confirm", "persist"}

DisplayMessage ==
    {PowerOutputChanged(b) : b \in BOOLEAN}
        \cup {PowerLevelChanged(l) : l \in Levels}
        \cup OtherMessages

TypeOK ==
    /\ controlQueue \in Seq(ControlMessage)
    /\ displayQueue \in Seq(DisplayMessage)
    /\ powerOn \in BOOLEAN
    /\ powerPercent \in Levels \cup {0}
    /\ nvmPower \in Levels
    /\ flash \in Levels \cup {Blank}
    /\ buttonHigh \in BOOLEAN
    /\ pc \in Places
    /\ booting \in BOOLEAN
    /\ on \in BOOLEAN
    /\ level \in Levels
    /\ last \in [RotaryChannels -> Stamps \cup {0}]
    /\ confirmed \in BOOLEAN

\* The zero-cross callback never finds the power on without a level of the
\* allowed range beside it: after a start the switch is off until the level
\* has been stored.
PoweredHasLevel == powerOn => powerPercent \in Levels

\* A supply that fails and comes back leaves the heater off: nothing but a
\* press that was still held a millisecond later turns it on.
OnlyAPressTurnsOn == powerOn => confirmed

\* Between two messages the copies of the level and of the switch agree:
\* the task's, the ones the zero-cross callback reads, the one to be saved.
CopiesAgree ==
    pc \in {"receive", "confirm"} =>
        /\ powerOn = on
        /\ powerPercent = level
        /\ nvmPower = level

\* At most one channel waits for its partner: the two lastTime variables
\* are never both set, or one edge would complete two steps.
OneEdgeWaits == \E c \in RotaryChannels : last[c] = 0

\* Whatever happens to the display, the task comes back for the next
\* message: a full display queue costs it ten ticks, never the control.
\* (Unless the supply keeps failing before it gets there.)
AlwaysReceivesAgain ==
    <>[][~PowerFailure]_vars => []<>(pc = "receive")
============================================================================
