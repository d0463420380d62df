----------------------------- MODULE Debounce -----------------------------
(***************************************************************************)
(* From the panel's contacts to the control queue: the falling edges of    *)
(* the push button and of the two channels of the rotary encoder raise     *)
(* flags of the external interrupt controller; EIC_Handler runs, for every *)
(* flag it finds, the channel's callback, and the callback stamps and      *)
(* queues a message unless its channel already did so within the last      *)
(* DebounceTicks ticks (queueMessageFromCallback, main.c).                 *)
(*                                                                         *)
(* The tick counter is a machine word that wraps after MaxTick, and stands *)
(* still until the scheduler runs.  The interrupts are enabled earlier     *)
(* than that, before the queue exists.                                     *)
(***************************************************************************)
EXTENDS Integers, Sequences, FiniteSets

CONSTANTS
    DebounceTicks,      \* DEBOUNCE_TICKS (200)
    MaxTick,            \* the largest TickType_t (2^32 - 1)
    ControlQueueLength, \* length of hControlQueue (10)
    ServiceTicks        \* the longest the control task takes for a message

ASSUME DebounceAssumption ==
    /\ DebounceTicks \in Nat
    /\ MaxTick \in Nat
    /\ DebounceTicks < MaxTick
ASSUME QueueAssumption ==
    /\ ControlQueueLength \in Nat \ {0}
    /\ ServiceTicks \in Nat \ {0}

VARIABLES
    phase,        \* how far main has come
    tick,         \* xTickCount
    pending,      \* the channels whose interrupt flag is raised
    initial,      \* s_initialSignalTicks of each channel's callback
    controlQueue, \* hControlQueue
    due,          \* ticks within which the control task takes a message
    age,          \* history: ticks since the channel's last message
    lost,         \* history: a message found the queue full
    halted        \* a configASSERT failed: interrupts off, endless loop

taskVars == <<controlQueue, due>>
isrVars  == <<pending, initial, age, lost, halted>>
vars     == <<phase, tick, taskVars, isrVars>>

Channels == {"PushButton", "ChannelA", "ChannelB"}

\* An age is counted up to a whole turn of the counter, which also stands
\* for "no message yet".
Saturated == MaxTick + 1

Message == [type : Channels, ticks : 0..MaxTick]

---------------------------------------------------------------------------
Init ==
    /\ phase = "interruptsOn"
    /\ tick = 0
    /\ pending = {}
    /\ initial = [c \in Channels |-> 0]
    /\ controlQueue = << >>
    /\ due = 0
    /\ age = [c \in Channels |-> Saturated]
    /\ lost = FALSE
    /\ halted = FALSE

\* main, after configureGpioInterrupts: the queues are created, then the
\* scheduler starts.
CreateQueues ==
    /\ ~halted /\ phase = "interruptsOn"
    /\ phase' = "queuesCreated"
    /\ UNCHANGED <<tick, taskVars, isrVars>>

StartScheduler ==
    /\ ~halted /\ phase = "queuesCreated"
    /\ phase' = "running"
    /\ UNCHANGED <<tick, taskVars, isrVars>>

\* A contact closes, or bounces.
Edge(c) ==
    /\ pending' = pending \cup {c}
    /\ UNCHANGED <<phase, tick, taskVars, initial, age, lost, halted>>

---------------------------------------------------------------------------
\* The comparison value the callback uses: 0 after a wrap of the counter.
Rebased(c) == IF tick < initial[c] THEN 0 ELSE initial[c]

\* Faults: a channel that never signalled passes; the interval is a tick
\* shorter; it is not looked at.
PassesFirst(c) == initial[c] = 0 \/ tick - Rebased(c) > DebounceTicks
PassesSooner(c) == tick - Rebased(c) >= DebounceTicks
PassesNextTick(c) == tick # Rebased(c)

Passes(c) == tick - Rebased(c) > DebounceTicks

Signals == {c \in pending : Passes(c)}

NextInitial(c) ==
    CASE c \in Signals           -> tick
      [] c \in pending \ Signals -> Rebased(c)
      [] OTHER                   -> initial[c]

\* xQueueSendToBackFromISR: a message that finds no room is dropped.
SendFromISR(q, c) ==
    IF c \in Signals /\ Len(q) < ControlQueueLength
    THEN Append(q, [type |-> c, ticks |-> tick])
    ELSE q

\* EIC_Handler visits the channels in the order of their EIC lines.
Queued ==
    SendFromISR(SendFromISR(SendFromISR(controlQueue, "PushButton"),
                            "ChannelA"), "ChannelB")

\* Sending to a queue that does not exist yet fails configASSERT(pxQueue).
SendsToNoQueue == phase = "interruptsOn" /\ Signals # {}

EicHandler ==
    /\ ~halted /\ pending # {}
    /\ pending' = {}
    /\ initial' = [c \in Channels |-> NextInitial(c)]
    /\ age' = [c \in Channels |-> IF c \in Signals THEN 0 ELSE age[c]]
    /\ halted' = SendsToNoQueue
    /\ controlQueue' = IF SendsToNoQueue THEN controlQueue ELSE Queued
    /\ lost' = (lost \/ Len(controlQueue) + Cardinality(Signals) > ControlQueueLength)
    \* the callbacks pass no pxHigherPriorityTaskWoken: an idle control task
    \* is switched to no earlier than the next tick
    /\ due' = IF due = 0 /\ controlQueue = << >> THEN 1 ELSE due
    /\ UNCHANGED <<phase, tick>>

\* The control task takes the next message.
Receive ==
    /\ ~halted /\ phase = "running" /\ controlQueue # << >>
    /\ controlQueue' = Tail(controlQueue)
    /\ due' = ServiceTicks
    /\ UNCHANGED <<phase, tick, isrVars>>

\* SysTick counts, once the scheduler runs.  The bound on the time the
\* control task takes for a message is a bound on how far it may count.
TickInterrupt ==
    /\ ~halted /\ phase = "running"
    /\ controlQueue = << >> \/ due > 0
    /\ tick' = IF tick = MaxTick THEN 0 ELSE tick + 1
    /\ due' = IF due > 0 THEN due - 1 ELSE 0
    /\ age' = [c \in Channels |-> IF age[c] < Saturated THEN age[c] + 1 ELSE age[c]]
    /\ UNCHANGED <<phase, pending, initial, controlQueue, lost, halted>>

Next ==
    \/ CreateQueues \/ StartScheduler
    \/ \E c \in Channels : Edge(c)
    \/ EicHandler \/ Receive \/ TickInterrupt

Spec == Init /\ [][Next]_vars

---------------------------------------------------------------------------
TypeOK ==
    /\ phase \in {"interruptsOn", "queuesCreated", "running"}
    /\ tick \in 0..MaxTick
    /\ pending \subseteq Channels
    /\ initial \in [Channels -> 0..MaxTick]
    /\ controlQueue \in Seq(Message)
    /\ due \in 0..ServiceTicks
    /\ age \in [Channels -> 0..Saturated]
    /\ lost \in BOOLEAN
    /\ halted \in BOOLEAN

\* "debounce logic: only signal once within DEBOUNCE_TICKS interval"
\* (main.c): two messages of one channel are more than DebounceTicks ticks
\* apart, counted by the clock and not by the counter that wraps.
OncePerInterval ==
    [][EicHandler => \A c \in Signals : age[c] > DebounceTicks]_vars

\* The external interrupts are enabled before the control queue is created;
\* nothing in main keeps a callback from sending to the null handle but the
\* debounce test, which no signal passes while the tick counter stands still.
NeverHalts == ~halted

\* No queued message bears the tick 0, which the control task's lastTime
\* variables use for "no edge seen", nor any tick of the first interval.
StampsNonzero ==
    \A i \in 1..Len(controlQueue) : controlQueue[i].ticks > DebounceTicks

\* A queue this short is never full when a callback sends: three channels,
\* each at most once in DebounceTicks, and a task that keeps up with them.
NothingLost == ~lost

\* The strengthening that makes OncePerInterval inductive: a channel's
\* comparison value is never further back than its last message, unless the
\* counter wrapped since, and then more ticks have passed than it shows.
AgeBound(c) ==
    \/ age[c] = Saturated
    \/ tick >= initial[c] /\ age[c] >= tick - initial[c]
    \/ age[c] > tick
AgesOK == \A c \in Channels : AgeBound(c)
===========================================================================
