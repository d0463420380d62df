------------------------- MODULE ControlTaskProofs -------------------------
(***************************************************************************)
(* Proofs about the control task, for every set of levels, every length of *)
(* its queues and every width of the tick counter.                         *)
(*                                                                         *)
(* The inductive invariant is ControlInv.  Its part Agreement says, place  *)
(* by place, which copies of the switch and of the level agree already;    *)
(* Boot, that the task has not switched anything on before it entered its  *)
(* loop.                                                                   *)
(***************************************************************************)
EXTENDS ControlTask, TLAPS

\* Until the loop is entered nothing is on; in the loop a level is stored.
Boot ==
    /\ pc \in {"receive", "confirm", "persist"} => ~booting
    /\ booting => ~on /\ ~powerOn
    /\ ~booting => powerPercent \in Levels

\* Whatever is on, a confirmed press turned on.
Pressed == (on \/ powerOn) => confirmed

Agreement ==
    /\ pc \notin {"sendOn", "storeOn"} => powerOn = on
    /\ pc # "persist" => nvmPower = level
    /\ ~booting /\ pc \notin {"persist", "sendLevel", "storeLevel"} =>
           powerPercent = level

ControlInv == TypeOK /\ Boot /\ Pressed /\ Agreement /\ OneEdgeWaits

---------------------------------------------------------------------------
\* A send leaves a queue of display messages, whether it found room or not.
LEMMA SendLemma ==
    ASSUME displayQueue \in Seq(DisplayMessage),
           NEW message \in DisplayMessage, Send(message)
    PROVE  displayQueue' \in Seq(DisplayMessage)
BY DEF Send

\* What the task announces are display messages.
LEMMA MessageLemma ==
    /\ \A b \in BOOLEAN : PowerOutputChanged(b) \in DisplayMessage
    /\ \A l \in Levels : PowerLevelChanged(l) \in DisplayMessage
    /\ OtherMessages \subseteq DisplayMessage
BY DEF DisplayMessage

\* A message taken from the queue is one, and leaves a queue of them.
LEMMA TakeLemma ==
    ASSUME controlQueue \in Seq(ControlMessage), controlQueue # << >>
    PROVE  /\ Head(controlQueue) \in ControlMessage
           /\ Tail(controlQueue) \in Seq(ControlMessage)
OBVIOUS

\* An edge that is kept leaves its partner's time clear.
LEMMA KeepEdgeLemma ==
    ASSUME last \in [RotaryChannels -> Stamps \cup {0}],
           NEW c \in RotaryChannels, NEW t \in Stamps
    PROVE  /\ KeepEdge(last, c, t) \in [RotaryChannels -> Stamps \cup {0}]
           /\ KeepEdge(last, c, t)[OtherChannel(c)] = 0
           /\ OtherChannel(c) \in RotaryChannels
BY DEF KeepEdge, NoEdge, OtherChannel, RotaryChannels

\* With no edge seen, no channel waits.
LEMMA NoEdgeLemma ==
    /\ NoEdge \in [RotaryChannels -> Stamps \cup {0}]
    /\ \E c \in RotaryChannels : NoEdge[c] = 0
BY DEF NoEdge, RotaryChannels

\* What is read from flash is a level.
LEMMA RestoredLemma ==
    ASSUME NEW row \in Levels \cup {Blank}
    PROVE  Restored(row) \in Levels
BY LevelsAssumption DEF Restored

---------------------------------------------------------------------------
\* The task starts in the invariant.
LEMMA InitControlInv == Init => ControlInv
<1> SUFFICES ASSUME Init PROVE ControlInv
  OBVIOUS
<1> USE DEF Init
<1>1. TypeOK
  <2>1. nvmPower \in Levels
    BY RestoredLemma
  <2>2. controlQueue \in Seq(ControlMessage) /\ displayQueue \in Seq(DisplayMessage)
    OBVIOUS
  <2> QED
    BY <2>1, <2>2, NoEdgeLemma DEF TypeOK, Places
<1>2. Boot /\ Pressed /\ Agreement
  BY DEF Boot, Pressed, Agreement
<1>3. OneEdgeWaits
  BY NoEdgeLemma DEF OneEdgeWaits
<1> QED
  BY <1>1, <1>2, <1>3 DEF ControlInv

\* A step of the task keeps the types.
LEMMA TaskTypeOK == TypeOK /\ TaskStep => TypeOK'
<1> SUFFICES ASSUME TypeOK, TaskStep PROVE TypeOK'
  OBVIOUS
<1> USE DEF TypeOK, Places, shared, config, locals
<1>1. CASE SendOn
  <2>1. displayQueue' \in Seq(DisplayMessage)
    BY <1>1, SendLemma, MessageLemma DEF SendOn
  <2> QED
    BY <1>1, <2>1 DEF SendOn
<1>2. CASE StoreOn
  BY <1>2 DEF StoreOn
<1>3. CASE SendLevel
  <2>1. displayQueue' \in Seq(DisplayMessage)
    BY <1>3, SendLemma, MessageLemma DEF SendLevel
  <2> QED
    BY <1>3, <2>1 DEF SendLevel
<1>4. CASE StoreLevel
  BY <1>4, NoEdgeLemma DEF StoreLevel
<1>5. CASE ReceivePress
  BY <1>5, TakeLemma DEF ReceivePress
<1>6. CASE ConfirmPress
  BY <1>6 DEF ConfirmPress
<1>7. CASE ReceiveEdge
  <2> DEFINE m == Head(controlQueue)
  <2>1. m.type \in RotaryChannels /\ m.ticks \in Stamps
        /\ controlQueue' \in Seq(ControlMessage)
    BY <1>7, TakeLemma DEF ReceiveEdge, ControlMessage
  <2>2. last' = KeepEdge(last, m.type, m.ticks)
    BY <1>7 DEF ReceiveEdge
  <2>3. last' \in [RotaryChannels -> Stamps \cup {0}]
    BY <2>1, <2>2, KeepEdgeLemma
  <2> QED
    BY <1>7, <2>1, <2>3 DEF ReceiveEdge
<1>8. CASE ReceiveTurn
  <2> DEFINE m == Head(controlQueue)
  <2>1. m.type \in RotaryChannels /\ controlQueue' \in Seq(ControlMessage)
    BY <1>8, TakeLemma DEF ReceiveTurn
  <2>2. level' \in Levels
    BY <1>8, <2>1, LevelsAssumption DEF ReceiveTurn
  <2>3. last' \in [RotaryChannels -> Stamps \cup {0}]
    BY <1>8, NoEdgeLemma DEF ReceiveTurn
  <2> QED
    BY <1>8, <2>1, <2>2, <2>3 DEF ReceiveTurn
<1>9. CASE Persist
  BY <1>9 DEF Persist
<1> QED
  BY <1>1, <1>2, <1>3, <1>4, <1>5, <1>6, <1>7, <1>8, <1>9 DEF TaskStep

\* A step of the task keeps the rest of the invariant.
LEMMA TaskControlInv == ControlInv /\ TaskStep => ControlInv'
<1> SUFFICES ASSUME ControlInv, TaskStep PROVE ControlInv'
  OBVIOUS
<1>1. TypeOK /\ Boot /\ Pressed /\ Agreement /\ OneEdgeWaits
  BY DEF ControlInv
<1>2. TypeOK'
  BY <1>1, TaskTypeOK
<1>3. /\ level \in Levels /\ nvmPower \in Levels
      /\ on \in BOOLEAN /\ powerOn \in BOOLEAN
      /\ booting \in BOOLEAN /\ confirmed \in BOOLEAN
  BY <1>1 DEF TypeOK
<1> USE DEF shared, config, locals
<1>4. Boot' /\ Pressed' /\ Agreement'
  <2> USE <1>1, <1>3 DEF Boot, Pressed, Agreement
  <2>1. CASE SendOn
    BY <2>1 DEF SendOn
  <2>2. CASE StoreOn
    BY <2>2 DEF StoreOn
  <2>3. CASE SendLevel
    BY <2>3 DEF SendLevel
  <2>4. CASE StoreLevel
    BY <2>4 DEF StoreLevel
  <2>5. CASE ReceivePress
    BY <2>5 DEF ReceivePress
  <2>6. CASE ConfirmPress
    BY <2>6 DEF ConfirmPress
  <2>7. CASE ReceiveEdge
    BY <2>7 DEF ReceiveEdge
  <2>8. CASE ReceiveTurn
    BY <2>8 DEF ReceiveTurn
  <2>9. CASE Persist
    BY <2>9 DEF Persist
  <2> QED
    BY <2>1, <2>2, <2>3, <2>4, <2>5, <2>6, <2>7, <2>8, <2>9 DEF TaskStep
<1>5. OneEdgeWaits'
  <2>1. CASE last' = last
    BY <1>1, <2>1 DEF OneEdgeWaits
  <2>2. CASE last' = NoEdge
    BY <2>2, NoEdgeLemma DEF OneEdgeWaits
  <2>3. CASE ReceiveEdge
    <3> DEFINE m == Head(controlQueue)
    <3>1. m.type \in RotaryChannels /\ m.ticks \in Stamps
          /\ last' = KeepEdge(last, m.type, m.ticks)
      BY <1>1, <2>3, TakeLemma DEF ReceiveEdge, TypeOK, ControlMessage
    <3>2. last \in [RotaryChannels -> Stamps \cup {0}]
      BY <1>1 DEF TypeOK
    <3> QED
      BY <3>1, <3>2, KeepEdgeLemma DEF OneEdgeWaits
  <2>4. ReceiveEdge \/ last' = last \/ last' = NoEdge
    BY DEF TaskStep, SendOn, StoreOn, SendLevel, StoreLevel, ReceivePress,
           ConfirmPress, ReceiveTurn, Persist
  <2> QED
    BY <2>1, <2>2, <2>3, <2>4
<1> QED
  BY <1>2, <1>4, <1>5 DEF ControlInv

\* The interrupts, the other tasks and the button touch the queues and the
\* pin only.
LEMMA EnvironmentControlInv ==
    ASSUME ControlInv,
           Interrupt \/ SensorTaskSends \/ DisplayReceives \/ ButtonMoves
    PROVE  ControlInv'
<1>1. TypeOK /\ Boot /\ Pressed /\ Agreement /\ OneEdgeWaits
  BY DEF ControlInv
<1>2. UNCHANGED taskVars
  BY DEF Interrupt, SensorTaskSends, DisplayReceives, ButtonMoves
<1>3. controlQueue' \in Seq(ControlMessage)
  BY <1>1 DEF TypeOK, Interrupt, SensorTaskSends, DisplayReceives, ButtonMoves
<1>4. displayQueue' \in Seq(DisplayMessage)
  <2>1. CASE SensorTaskSends
    BY <1>1, <2>1, MessageLemma DEF SensorTaskSends, TypeOK
  <2>2. CASE DisplayReceives
    BY <1>1, <2>2 DEF DisplayReceives, TypeOK
  <2>3. CASE Interrupt \/ ButtonMoves
    BY <1>1, <2>3 DEF Interrupt, ButtonMoves, TypeOK
  <2> QED
    BY <2>1, <2>2, <2>3
<1>5. buttonHigh' \in BOOLEAN
  BY <1>1 DEF TypeOK, Interrupt, SensorTaskSends, DisplayReceives, ButtonMoves
<1> QED
  BY <1>1, <1>2, <1>3, <1>4, <1>5
     DEF ControlInv, TypeOK, Boot, Pressed, Agreement, OneEdgeWaits,
         taskVars, shared, config, locals

\* A supply that fails puts the task back to its start.
LEMMA PowerFailureControlInv ==
    ASSUME ControlInv, PowerFailure
    PROVE  ControlInv'
<1>1. TypeOK
  BY DEF ControlInv
<1>2. Restored(flash) \in Levels
  BY <1>1, RestoredLemma DEF TypeOK
<1>3. controlQueue' \in Seq(ControlMessage) /\ displayQueue' \in Seq(DisplayMessage)
  BY DEF PowerFailure
<1>4. TypeOK'
  BY <1>1, <1>2, <1>3, NoEdgeLemma DEF TypeOK, PowerFailure, Places
<1>5. Boot' /\ Pressed' /\ Agreement'
  BY DEF PowerFailure, Boot, Pressed, Agreement
<1>6. OneEdgeWaits'
  BY NoEdgeLemma DEF PowerFailure, OneEdgeWaits
<1> QED
  BY <1>4, <1>5, <1>6 DEF ControlInv

\* ControlInv is an invariant.
LEMMA ControlInvariant == Spec => []ControlInv
<1>1. ControlInv /\ [Next]_vars => ControlInv'
  <2>1. CASE UNCHANGED vars
    BY <2>1 DEF vars, taskVars, shared, config, locals, ControlInv, TypeOK,
                Boot, Pressed, Agreement, OneEdgeWaits
  <2> QED
    BY <2>1, TaskControlInv, EnvironmentControlInv, PowerFailureControlInv
       DEF Next
<1> QED
  BY <1>1, InitControlInv, PTL DEF Spec

---------------------------------------------------------------------------
\* Type correctness of the control task and its queues.
THEOREM TypeCorrect == Spec => []TypeOK
<1>1. ControlInv => TypeOK
  BY DEF ControlInv
<1> QED
  BY <1>1, ControlInvariant, PTL

\* The zero-cross callback never finds the power on without a level of the
\* allowed range beside it.
THEOREM PoweredAlwaysHasLevel == Spec => []PoweredHasLevel
<1>1. ControlInv => PoweredHasLevel
  BY DEF ControlInv, Boot, TypeOK, PoweredHasLevel
<1> QED
  BY <1>1, ControlInvariant, PTL

\* After a start nothing but a press the pin confirmed turns the heater on.
THEOREM OnlyPressesTurnOn == Spec => []OnlyAPressTurnsOn
<1>1. ControlInv => OnlyAPressTurnsOn
  BY DEF ControlInv, Pressed, OnlyAPressTurnsOn
<1> QED
  BY <1>1, ControlInvariant, PTL

\* Between two messages every copy of the switch and of the level agrees.
THEOREM CopiesAlwaysAgree == Spec => []CopiesAgree
<1>1. ControlInv => CopiesAgree
  BY DEF ControlInv, Boot, Agreement, CopiesAgree
<1> QED
  BY <1>1, ControlInvariant, PTL

\* The two lastTime variables are never both set.
THEOREM OneEdgeAlwaysWaits == Spec => []OneEdgeWaits
<1>1. ControlInv => OneEdgeWaits
  BY DEF ControlInv
<1> QED
  BY <1>1, ControlInvariant, PTL
============================================================================
