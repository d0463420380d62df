-------------------------- MODULE DebounceProofs --------------------------
(***************************************************************************)
(* Proofs about the panel's interrupt callbacks and the decoding of the    *)
(* rotary encoder, for every debounce interval, width of the tick counter  *)
(* and queue length.                                                       *)
(*                                                                         *)
(* The inductive invariant is DebounceInv.  That a channel signals once    *)
(* per interval rests on AgesOK, which ties the stamp the callback keeps   *)
(* to the real age of the channel's last message across wraps of the tick  *)
(* counter; that no callback sends to a queue that does not exist yet      *)
(* rests on TickStandsStill.  That no message is lost is LineInv: each one *)
(* waiting is taken before its channel may signal again.  That the level   *)
(* follows the hand is EncoderInv, on top of both: the messages on their   *)
(* way, with the edge remembered, are worth what the hand still has to     *)
(* come.                                                                   *)
(***************************************************************************)
EXTENDS Encoder, FiniteSetTheorems, TLAPS

\* Before the scheduler runs no time has passed and nothing was stamped.
TickStandsStill ==
    phase # "running" => tick = 0 /\ \A c \in Channels : initial[c] = 0

\* Every message of a queue is stamped later than the first interval.
StampedLate(q) == \A i \in 1..Len(q) : q[i].ticks > DebounceTicks

DebounceInv ==
    /\ TypeOK
    /\ AgesOK
    /\ TickStandsStill
    /\ NeverHalts
    /\ StampsNonzero

---------------------------------------------------------------------------
\* What the callback compares with is a tick of the past.
LEMMA RebasedLemma ==
    ASSUME TypeOK, NEW c \in Channels
    PROVE  Rebased(c) \in 0..MaxTick /\ Rebased(c) <= tick
BY DebounceAssumption DEF TypeOK, Rebased

\* No signal passes within the first interval of the counter.
LEMMA SignalsLate ==
    ASSUME TypeOK, NEW c \in Signals
    PROVE  c \in Channels /\ tick > DebounceTicks
<1>1. c \in Channels /\ tick - Rebased(c) > DebounceTicks
  BY DEF Signals, Passes, TypeOK
<1>2. Rebased(c) \in 0..MaxTick /\ tick \in 0..MaxTick
  BY <1>1, RebasedLemma DEF TypeOK
<1> QED
  BY <1>1, <1>2, DebounceAssumption

\* A send from an interrupt leaves a queue of messages, all stamped late.
LEMMA SendLemma ==
    ASSUME TypeOK, NEW c \in Channels,
           NEW q \in Seq(Message), StampedLate(q)
    PROVE  SendFromISR(q, c) \in Seq(Message) /\ StampedLate(SendFromISR(q, c))
<1>1. CASE c \in Signals /\ Len(q) < ControlQueueLength
  <2> DEFINE m == [type |-> c, ticks |-> tick]
  <2>1. m \in Message /\ m.ticks > DebounceTicks
    BY <1>1, SignalsLate DEF TypeOK, Message
  <2>2. SendFromISR(q, c) = Append(q, m)
    BY <1>1 DEF SendFromISR
  <2> HIDE DEF m
  <2>3. Append(q, m) \in Seq(Message) /\ StampedLate(Append(q, m))
    BY <2>1 DEF StampedLate
  <2> QED
    BY <2>2, <2>3
<1>2. CASE ~(c \in Signals /\ Len(q) < ControlQueueLength)
  BY <1>2 DEF SendFromISR
<1> QED
  BY <1>1, <1>2

\* So does the handler, which runs the callbacks of all three channels.
LEMMA QueuedLemma ==
    ASSUME TypeOK, StampsNonzero
    PROVE  Queued \in Seq(Message) /\ StampedLate(Queued)
<1> DEFINE q1 == SendFromISR(controlQueue, "PushButton")
           q2 == SendFromISR(q1, "ChannelA")
<1>1. controlQueue \in Seq(Message) /\ StampedLate(controlQueue)
  BY DEF TypeOK, StampsNonzero, StampedLate
<1>2. q1 \in Seq(Message) /\ StampedLate(q1)
  BY <1>1, SendLemma DEF Channels
<1> HIDE DEF q1
<1>3. q2 \in Seq(Message) /\ StampedLate(q2)
  BY <1>2, SendLemma DEF Channels
<1> HIDE DEF q2
<1>4. /\ SendFromISR(q2, "ChannelB") \in Seq(Message)
      /\ StampedLate(SendFromISR(q2, "ChannelB"))
  BY <1>3, SendLemma DEF Channels
<1> QED
  BY <1>4 DEF Queued, q1, q2

\* A stamp the handler leaves is a tick.
LEMMA NextInitialLemma ==
    ASSUME TypeOK, NEW c \in Channels
    PROVE  NextInitial(c) \in 0..MaxTick
<1>1. tick \in 0..MaxTick /\ initial[c] \in 0..MaxTick
  BY DEF TypeOK
<1> QED
  BY <1>1, RebasedLemma DEF NextInitial

---------------------------------------------------------------------------
\* The initial states satisfy the invariant.
LEMMA InitDebounceInv == Init => DebounceInv
<1> SUFFICES ASSUME Init PROVE DebounceInv
  OBVIOUS
<1> USE DEF Init
<1>1. TypeOK
  <2>1. 0 \in 0..MaxTick /\ Saturated \in 0..Saturated /\ 0 \in 0..ServiceTicks
    BY DebounceAssumption, QueueAssumption DEF Saturated
  <2>2. controlQueue \in Seq(Message)
    OBVIOUS
  <2>3. initial \in [Channels -> 0..MaxTick] /\ age \in [Channels -> 0..Saturated]
    BY <2>1
  <2> QED
    BY <2>1, <2>2, <2>3 DEF TypeOK
<1>2. AgesOK
  BY DEF AgesOK, AgeBound
<1>3. TickStandsStill /\ NeverHalts /\ StampsNonzero
  BY DEF TickStandsStill, NeverHalts, StampsNonzero
<1> QED
  BY <1>1, <1>2, <1>3 DEF DebounceInv

\* The handler keeps the invariant.
LEMMA HandlerDebounceInv ==
    ASSUME DebounceInv, EicHandler
    PROVE  DebounceInv'
<1> USE DebounceAssumption, QueueAssumption
<1>1. TypeOK /\ AgesOK /\ TickStandsStill /\ NeverHalts /\ StampsNonzero
  BY DEF DebounceInv
<1>2. /\ UNCHANGED <<phase, tick>>
      /\ pending' = {}
      /\ initial' = [c \in Channels |-> NextInitial(c)]
      /\ age' = [c \in Channels |-> IF c \in Signals THEN 0 ELSE age[c]]
      /\ halted' = SendsToNoQueue
      /\ controlQueue' = IF SendsToNoQueue THEN controlQueue ELSE Queued
  BY DEF EicHandler
<1>3. \A c \in Signals : phase = "running"
  <2> SUFFICES ASSUME NEW c \in Signals, phase # "running" PROVE FALSE
    OBVIOUS
  <2> QED
    BY <1>1, SignalsLate DEF TickStandsStill
<1>4. ~SendsToNoQueue
  BY <1>3 DEF SendsToNoQueue
<1>5. controlQueue' \in Seq(Message) /\ StampedLate(controlQueue')
  BY <1>1, <1>2, <1>4, QueuedLemma
<1>6. TypeOK'
  <2>1. initial' \in [Channels -> 0..MaxTick]
    BY <1>1, <1>2, NextInitialLemma
  <2>2. age' \in [Channels -> 0..Saturated]
    BY <1>1, <1>2 DEF TypeOK, Saturated
  <2>3. due' \in 0..ServiceTicks /\ lost' \in BOOLEAN
    BY <1>1 DEF EicHandler, TypeOK
  <2>4. phase' \in {"interruptsOn", "queuesCreated", "running"}
        /\ tick' \in 0..MaxTick
    BY <1>1, <1>2 DEF TypeOK
  <2>5. halted' \in BOOLEAN /\ pending' \subseteq Channels
    BY <1>2 DEF SendsToNoQueue
  <2> QED
    BY <1>5, <2>1, <2>2, <2>3, <2>4, <2>5 DEF TypeOK
<1>7. AgesOK'
  <2> SUFFICES ASSUME NEW c \in Channels PROVE AgeBound(c)'
    BY DEF AgesOK
  <2>1. tick \in 0..MaxTick /\ initial[c] \in 0..MaxTick /\ age[c] \in 0..Saturated
    BY <1>1 DEF TypeOK
  <2>2. AgeBound(c)
    BY <1>1 DEF AgesOK
  <2>3. initial'[c] = NextInitial(c) /\ tick' = tick
    BY <1>2
  <2>4. CASE c \in Signals
    <3>1. initial'[c] = tick /\ age'[c] = 0
      BY <1>2, <2>3, <2>4 DEF NextInitial
    <3>2. tick' >= initial'[c] /\ age'[c] >= tick' - initial'[c]
      BY <2>1, <2>3, <3>1
    <3> QED
      BY <3>2 DEF AgeBound
  <2>5. CASE c \in pending \ Signals
    <3>1. initial'[c] = Rebased(c) /\ age'[c] = age[c]
      BY <1>2, <2>3, <2>5 DEF NextInitial
    <3> QED
      BY <2>1, <2>2, <2>3, <3>1 DEF AgeBound, Rebased, Saturated
  <2>6. CASE c \notin pending
    <3>1. initial'[c] = initial[c] /\ age'[c] = age[c]
      BY <1>2, <2>3, <2>6 DEF NextInitial, Signals
    <3> QED
      BY <2>2, <2>3, <3>1 DEF AgeBound
  <2> QED
    BY <2>4, <2>5, <2>6
<1>8. TickStandsStill'
  <2> SUFFICES ASSUME phase' # "running"
               PROVE  tick' = 0 /\ \A c \in Channels : initial'[c] = 0
    BY DEF TickStandsStill
  <2>1. tick = 0 /\ \A c \in Channels : initial[c] = 0 /\ c \notin Signals
    BY <1>1, <1>2, <1>3 DEF TickStandsStill
  <2> QED
    BY <1>2, <2>1 DEF NextInitial, Rebased
<1>9. NeverHalts' /\ StampsNonzero'
  BY <1>2, <1>4, <1>5 DEF NeverHalts, StampsNonzero, StampedLate
<1> QED
  BY <1>6, <1>7, <1>8, <1>9 DEF DebounceInv

\* The tick keeps the invariant: where it wraps, every age has passed zero.
LEMMA TickDebounceInv ==
    ASSUME DebounceInv, TickInterrupt
    PROVE  DebounceInv'
<1> USE DebounceAssumption, QueueAssumption
<1>1. TypeOK /\ AgesOK /\ TickStandsStill /\ NeverHalts /\ StampsNonzero
  BY DEF DebounceInv
<1>2. /\ phase = "running"
      /\ UNCHANGED <<phase, pending, initial, controlQueue, lost, halted>>
      /\ tick' = IF tick = MaxTick THEN 0 ELSE tick + 1
      /\ due' = IF due > 0 THEN due - 1 ELSE 0
      /\ age' = [c \in Channels |->
                   IF age[c] < Saturated THEN age[c] + 1 ELSE age[c]]
  BY DEF TickInterrupt
<1>3. TypeOK'
  BY <1>1, <1>2 DEF TypeOK, Saturated
<1>4. AgesOK'
  <2> SUFFICES ASSUME NEW c \in Channels PROVE AgeBound(c)'
    BY DEF AgesOK
  <2>1. tick \in 0..MaxTick /\ initial[c] \in 0..MaxTick /\ age[c] \in 0..Saturated
    BY <1>1 DEF TypeOK
  <2>2. AgeBound(c)
    BY <1>1 DEF AgesOK
  <2>3. /\ initial'[c] = initial[c]
        /\ age'[c] = IF age[c] < Saturated THEN age[c] + 1 ELSE age[c]
    BY <1>2
  <2> QED
    BY <1>2, <2>1, <2>2, <2>3 DEF AgeBound, Saturated
<1>5. TickStandsStill' /\ NeverHalts' /\ StampsNonzero'
  BY <1>1, <1>2 DEF TickStandsStill, NeverHalts, StampsNonzero
<1> QED
  BY <1>3, <1>4, <1>5 DEF DebounceInv

\* So does taking a message.
LEMMA ReceiveDebounceInv ==
    ASSUME DebounceInv, Receive
    PROVE  DebounceInv'
<1>1. TypeOK /\ AgesOK /\ TickStandsStill /\ NeverHalts /\ StampsNonzero
  BY DEF DebounceInv
<1>2. /\ controlQueue # << >> /\ controlQueue' = Tail(controlQueue)
      /\ due' = ServiceTicks
      /\ UNCHANGED <<phase, tick, pending, initial, age, lost, halted>>
  BY DEF Receive, isrVars
<1>3. controlQueue' \in Seq(Message)
  BY <1>1, <1>2 DEF TypeOK
<1>4. TypeOK'
  BY <1>1, <1>2, <1>3, QueueAssumption DEF TypeOK
<1>5. StampsNonzero'
  BY <1>1, <1>2 DEF StampsNonzero, TypeOK
<1>6. AgesOK' /\ TickStandsStill' /\ NeverHalts'
  BY <1>1, <1>2 DEF AgesOK, AgeBound, TickStandsStill, NeverHalts
<1> QED
  BY <1>4, <1>5, <1>6 DEF DebounceInv

\* Every step keeps the invariant.
LEMMA StepDebounceInv == DebounceInv /\ [Next]_vars => DebounceInv'
<1> SUFFICES ASSUME DebounceInv, [Next]_vars PROVE DebounceInv'
  OBVIOUS
<1> USE DEF DebounceInv, TypeOK, AgesOK, AgeBound, TickStandsStill,
            NeverHalts, StampsNonzero
<1>1. CASE CreateQueues \/ StartScheduler
  BY <1>1 DEF CreateQueues, StartScheduler, taskVars, isrVars
<1>2. ASSUME NEW c \in Channels, Edge(c) PROVE DebounceInv'
  BY <1>2 DEF Edge, taskVars
<1>3. CASE EicHandler
  BY <1>3, HandlerDebounceInv
<1>4. CASE Receive
  BY <1>4, ReceiveDebounceInv
<1>5. CASE TickInterrupt
  BY <1>5, TickDebounceInv
<1>6. CASE UNCHANGED vars
  BY <1>6 DEF vars, taskVars, isrVars
<1> QED
  BY <1>1, <1>2, <1>3, <1>4, <1>5, <1>6 DEF Next

\* DebounceInv is an invariant.
LEMMA DebounceInvariant == Spec => []DebounceInv
BY InitDebounceInv, StepDebounceInv, PTL DEF Spec

---------------------------------------------------------------------------
\* Type correctness of the callbacks, the queue and the tick counter.
THEOREM TypeCorrect == Spec => []TypeOK
<1>1. DebounceInv => TypeOK
  BY DEF DebounceInv
<1> QED
  BY <1>1, DebounceInvariant, PTL

\* No callback sends to the control queue before main has created it: the
\* debounce test, on a tick counter that stands still, lets none through.
THEOREM NeverSendsToNoQueue == Spec => []NeverHalts
<1>1. DebounceInv => NeverHalts
  BY DEF DebounceInv
<1> QED
  BY <1>1, DebounceInvariant, PTL

\* No message bears a tick the control task would take for "no edge seen".
THEOREM StampsAlwaysNonzero == Spec => []StampsNonzero
<1>1. DebounceInv => StampsNonzero
  BY DEF DebounceInv
<1> QED
  BY <1>1, DebounceInvariant, PTL

\* A channel's edge passes only when its last message is old.
LEMMA PassesOld ==
    ASSUME DebounceInv, NEW c \in Channels, Passes(c)
    PROVE  age[c] > DebounceTicks
<1>1. TypeOK /\ AgesOK
  BY DEF DebounceInv
<1>2. tick - Rebased(c) > DebounceTicks
  BY DEF Passes
<1>3. tick \in 0..MaxTick /\ initial[c] \in 0..MaxTick /\ age[c] \in 0..Saturated
  BY <1>1 DEF TypeOK
<1>4. AgeBound(c)
  BY <1>1 DEF AgesOK
<1> QED
  BY <1>2, <1>3, <1>4, DebounceAssumption DEF AgeBound, Rebased, Saturated

LEMMA SignalsOld ==
    ASSUME DebounceInv, NEW c \in Signals
    PROVE  c \in Channels /\ age[c] > DebounceTicks
<1>1. c \in Channels /\ Passes(c)
  BY DEF DebounceInv, TypeOK, Signals
<1> QED
  BY <1>1, PassesOld

\* Two messages of one channel are more than DEBOUNCE_TICKS apart, on
\* whichever side of a wrap of the tick counter they are.
THEOREM SignalsOncePerInterval == Spec => OncePerInterval
<1>1. DebounceInv /\ [Next]_vars
         => [EicHandler => \A c \in Signals : age[c] > DebounceTicks]_vars
  BY SignalsOld
<1> QED
  BY <1>1, DebounceInvariant, PTL DEF Spec, OncePerInterval

---------------------------------------------------------------------------
(* No message is lost while the control task keeps up with the panel.  *)

\* The queue has a place for each channel, and the task takes a message of
\* each in one debounce interval.
KeepsUp ==
    /\ ControlQueueLength >= 3
    /\ ServiceTicks + ServiceTicks + ServiceTicks <= DebounceTicks

\* How long the task takes for the messages before the i-th.
Ahead(i) == CASE i = 1 -> 0
              [] i = 2 -> ServiceTicks
              [] OTHER -> ServiceTicks + ServiceTicks

\* With the channels' ages a and d ticks to go until the next is taken, each
\* message of q is taken before its channel may signal again.
TakenInTime(q, a, d) ==
    \A i \in 1..Len(q) : a[q[i].type] + d + Ahead(i) <= DebounceTicks

\* No channel has two messages in q.
OneEach(q) ==
    \A i, j \in 1..Len(q) : i # j => q[i].type # q[j].type

LineInv ==
    /\ ~lost
    /\ TakenInTime(controlQueue, age, due) /\ OneEach(controlQueue)

LEMMA TypesAreChannels ==
    ASSUME NEW q \in Seq(Message)
    PROVE  \A i \in 1..Len(q) : q[i].type \in Channels
<1>1. \A i \in 1..Len(q) : q[i] \in Message
  OBVIOUS
<1> QED
  BY <1>1 DEF Message

\* So there is a message of some channels at most, and room for the others.
LEMMA OneEachFits ==
    ASSUME NEW q \in Seq(Message), OneEach(q), NEW rest \in SUBSET Channels,
           \A i \in 1..Len(q) : q[i].type \notin rest
    PROVE  Len(q) + Cardinality(rest) <= 3 /\ Cardinality(rest) \in Nat
<1> DEFINE type(i) == q[i].type
           n == Len(q)
<1>1. n \in Nat /\ \A i \in 1..n : type(i) \in Channels
  BY TypesAreChannels
<1>2. \A i, j \in 1..n : i # j => type(i) # type(j)
  BY DEF OneEach
<1>3. \A i \in 1..n : type(i) \notin rest
  OBVIOUS
<1>4. IsFiniteSet(Channels) /\ Cardinality(Channels) = 3
  <2>1. IsFiniteSet({"PushButton"}) /\ Cardinality({"PushButton"}) = 1
    BY FS_Singleton
  <2> DEFINE one == {"PushButton"}
             two == one \cup {"ChannelA"}
  <2>2. "ChannelA" \notin one /\ "ChannelB" \notin two
    OBVIOUS
  <2>3. Channels = two \cup {"ChannelB"}
    BY DEF Channels
  <2> HIDE DEF one
  <2>4. IsFiniteSet(two) /\ Cardinality(two) = 2
    <3>1. IsFiniteSet(one) /\ Cardinality(one) = 1
      BY <2>1 DEF one
    <3>2. IsFiniteSet(two) /\ Cardinality(two) = Cardinality(one) + 1
      BY <2>2, <3>1, FS_AddElement
    <3> QED
      BY <3>1, <3>2
  <2> HIDE DEF two
  <2>5. /\ IsFiniteSet(two \cup {"ChannelB"})
        /\ Cardinality(two \cup {"ChannelB"}) = Cardinality(two) + 1
    BY <2>2, <2>4, FS_AddElement
  <2> QED
    BY <2>3, <2>4, <2>5
<1>5. IsFiniteSet(rest) /\ Cardinality(rest) \in Nat
  BY <1>4, FS_Subset, FS_CardinalityType
<1> HIDE DEF type, n
<1>6. CASE n = 0
  <2>1. Cardinality(rest) <= 3
    BY <1>4, FS_Subset
  <2> QED
    BY <1>5, <1>6, <2>1 DEF n
<1>7. CASE n = 1
  <2>1. type(1) \in Channels /\ rest \subseteq Channels \ {type(1)}
    BY <1>1, <1>3, <1>7
  <2>2. IsFiniteSet(Channels \ {type(1)}) /\ Cardinality(Channels \ {type(1)}) = 2
    BY <1>4, <2>1, FS_RemoveElement
  <2>3. Cardinality(rest) <= 2
    BY <2>1, <2>2, FS_Subset
  <2> QED
    BY <1>5, <1>7, <2>3 DEF n
<1>8. CASE n >= 2
  <2>1. /\ type(1) \in Channels /\ type(2) \in Channels /\ type(1) # type(2)
        /\ rest \subseteq (Channels \ {type(1)}) \ {type(2)}
    BY <1>1, <1>2, <1>3, <1>8
  <2>2. IsFiniteSet(Channels \ {type(1)}) /\ Cardinality(Channels \ {type(1)}) = 2
    BY <1>4, <2>1, FS_RemoveElement
  <2>3. /\ IsFiniteSet((Channels \ {type(1)}) \ {type(2)})
        /\ Cardinality((Channels \ {type(1)}) \ {type(2)}) = 1
    <3> DEFINE S == Channels \ {type(1)}
    <3>1. type(2) \in S /\ IsFiniteSet(S) /\ Cardinality(S) = 2
      BY <2>1, <2>2
    <3> HIDE DEF S
    <3>2. IsFiniteSet(S \ {type(2)}) /\ Cardinality(S \ {type(2)}) = Cardinality(S) - 1
      BY <3>1, FS_RemoveElement
    <3> QED
      BY <3>1, <3>2 DEF S
  <2>4. Cardinality(rest) <= 1
    BY <2>1, <2>3, FS_Subset
  <2>5. CASE n = 2
    BY <1>5, <2>4, <2>5 DEF n
  <2>6. CASE n >= 3
    <3>1. /\ type(3) \in Channels /\ type(3) \notin rest
          /\ type(3) # type(1) /\ type(3) # type(2)
      BY <1>1, <1>2, <1>3, <2>6
    <3>2. rest = {} /\ Channels = {type(1), type(2), type(3)}
      BY <2>1, <3>1 DEF Channels
    <3>3. n = 3
      <4> SUFFICES ASSUME n >= 4 PROVE FALSE
        BY <1>1, <2>6
      <4>1. type(4) \in Channels /\ type(4) \notin {type(1), type(2), type(3)}
        BY <1>1, <1>2, <2>6
      <4> QED
        BY <3>2, <4>1
    <3>4. Cardinality(rest) = 0
      BY <3>2, FS_EmptySet
    <3> QED
      BY <3>3, <3>4 DEF n
  <2> QED
    BY <1>1, <1>8, <2>5, <2>6
<1> QED
  BY <1>1, <1>6, <1>7, <1>8

\* A callback's send keeps the line in order when its channel has no message
\* in it.
LEMMA SendInTime ==
    ASSUME TypeOK, KeepsUp, NEW c \in Channels, NEW q \in Seq(Message), OneEach(q),
           NEW a, NEW d \in 0..ServiceTicks, TakenInTime(q, a, d),
           c \in Signals => a[c] = 0 /\ \A i \in 1..Len(q) : q[i].type # c
    PROVE  LET r == SendFromISR(q, c)
           IN  /\ r \in Seq(Message) /\ OneEach(r) /\ TakenInTime(r, a, d)
               /\ \A i \in 1..Len(r) : \/ r[i].type = c
                                       \/ \E j \in 1..Len(q) : r[i].type = q[j].type
<1>1. CASE ~(c \in Signals /\ Len(q) < ControlQueueLength)
  BY <1>1 DEF SendFromISR
<1>2. CASE c \in Signals /\ Len(q) < ControlQueueLength
  <2> DEFINE m == [type |-> c, ticks |-> tick]
             n == Len(q)
             r == Append(q, m)
  <2>1. SendFromISR(q, c) = r
    BY <1>2 DEF SendFromISR
  <2>2. m \in Message /\ m.type = c /\ n \in Nat
    BY DEF TypeOK, Message
  <2> HIDE DEF m
  <2>3. /\ r \in Seq(Message) /\ Len(r) = n + 1 /\ r[n + 1] = m
        /\ \A i \in 1..n : r[i] = q[i]
    BY <2>2
  <2>4. n <= 2
    <3> DEFINE rest == {c}
    <3>1. n + Cardinality(rest) <= 3
      <4>1. rest \in SUBSET Channels /\ \A i \in 1..Len(q) : q[i].type \notin rest
        BY <1>2
      <4> HIDE DEF rest
      <4> QED
        BY <4>1, OneEachFits
    <3>2. Cardinality(rest) = 1
      BY FS_Singleton
    <3> QED
      BY <2>2, <3>1, <3>2
  <2> HIDE DEF r, n
  <2>5. OneEach(r)
    <3> SUFFICES ASSUME NEW i \in 1..Len(r), NEW j \in 1..Len(r), i # j
                 PROVE  r[i].type # r[j].type
      BY DEF OneEach
    <3>1. \A k \in 1..n : q[k].type # c
      BY <1>2 DEF n
    <3>2. \A k, l \in 1..n : k # l => q[k].type # q[l].type
      BY DEF OneEach, n
    <3>3. i \in 1..n \/ i = n + 1
      BY <2>2, <2>3
    <3>4. j \in 1..n \/ j = n + 1
      BY <2>2, <2>3
    <3> QED
      BY <2>2, <2>3, <3>1, <3>2, <3>3, <3>4
  <2>6. TakenInTime(r, a, d)
    <3> SUFFICES ASSUME NEW i \in 1..Len(r)
                 PROVE  a[r[i].type] + d + Ahead(i) <= DebounceTicks
      BY DEF TakenInTime
    <3>1. CASE i \in 1..n
      <4>1. r[i] = q[i]
        BY <2>3, <3>1
      <4> QED
        BY <3>1, <4>1 DEF TakenInTime, n
    <3>2. CASE i = n + 1
      <4>1. a[r[i].type] = 0
        BY <1>2, <2>2, <2>3, <3>2
      <4>2. Ahead(i) \in 0..(ServiceTicks + ServiceTicks) /\ ServiceTicks \in Nat
        BY QueueAssumption DEF Ahead
      <4> QED
        BY <4>1, <4>2, DebounceAssumption DEF KeepsUp
    <3> QED
      BY <2>2, <2>3, <3>1, <3>2
  <2>7. \A i \in 1..Len(r) : r[i].type = c \/ \E j \in 1..Len(q) : r[i].type = q[j].type
    <3> SUFFICES ASSUME NEW i \in 1..Len(r)
                 PROVE  r[i].type = c \/ \E j \in 1..n : r[i].type = q[j].type
      BY DEF n
    <3>1. i \in 1..n \/ i = n + 1
      BY <2>2, <2>3
    <3> QED
      BY <2>2, <2>3, <3>1
  <2> QED
    BY <2>1, <2>3, <2>5, <2>6, <2>7
<1> QED
  BY <1>1, <1>2

\* So the handler, which runs the callbacks of all three channels, keeps it.
LEMMA HandlerLineInv ==
    ASSUME KeepsUp, DebounceInv, LineInv, EicHandler
    PROVE  LineInv'
<1>1. TypeOK
  BY DEF DebounceInv
<1>2. /\ \A c \in Signals : c \in Channels /\ age'[c] = 0 /\ age[c] > DebounceTicks
      /\ \A c \in Channels \ Signals : age'[c] = age[c]
      /\ due' = IF due = 0 /\ controlQueue = << >> THEN 1 ELSE due
      /\ lost' = (lost \/ Len(controlQueue) + Cardinality(Signals) > ControlQueueLength)
      /\ controlQueue' = IF SendsToNoQueue THEN controlQueue ELSE Queued
  BY SignalsOld DEF EicHandler
<1>3. /\ controlQueue \in Seq(Message) /\ OneEach(controlQueue)
      /\ TakenInTime(controlQueue, age, due) /\ ~lost
      /\ due \in 0..ServiceTicks /\ ServiceTicks \in Nat \ {0}
      /\ \A c \in Channels : age[c] \in Nat
      /\ DebounceTicks \in Nat
  <2>1. \A c \in Channels : age[c] \in 0..Saturated
    BY <1>1 DEF TypeOK
  <2> QED
    BY <1>1, <2>1, QueueAssumption, DebounceAssumption DEF TypeOK, LineInv, Saturated
<1>4. ASSUME NEW i \in 1..Len(controlQueue)
      PROVE  controlQueue[i].type \in Channels \ Signals
  <2>1. controlQueue[i].type \in Channels
    BY <1>3, TypesAreChannels
  <2>2. age[controlQueue[i].type] + due + Ahead(i) <= DebounceTicks
    BY <1>3 DEF TakenInTime
  <2>3. Ahead(i) \in Nat
    BY <1>3 DEF Ahead
  <2>4. age[controlQueue[i].type] <= DebounceTicks
    BY <1>3, <2>1, <2>2, <2>3
  <2> QED
    BY <1>2, <1>3, <2>1, <2>4
<1>5. due' \in 0..ServiceTicks /\ TakenInTime(controlQueue, age', due')
  <2>1. CASE due = 0 /\ controlQueue = << >>
    <3>1. due' = 1 /\ Len(controlQueue) = 0
      BY <1>2, <2>1
    <3> QED
      BY <1>3, <3>1 DEF TakenInTime
  <2>2. CASE ~(due = 0 /\ controlQueue = << >>)
    <3>1. due' = due
      BY <1>2, <2>2
    <3>2. \A i \in 1..Len(controlQueue) : age'[controlQueue[i].type] = age[controlQueue[i].type]
      BY <1>2, <1>4
    <3> QED
      BY <1>3, <3>1, <3>2 DEF TakenInTime
  <2> QED
    BY <2>1, <2>2
<1>6. ~lost'
  <2>1. Len(controlQueue) + Cardinality(Signals) <= 3 /\ Cardinality(Signals) \in Nat
    <3>1. Signals \in SUBSET Channels
      BY <1>2
    <3> QED
      BY <1>3, <1>4, <3>1, OneEachFits
  <2> DEFINE n == Len(controlQueue) + Cardinality(Signals)
  <2>2. n <= 3 /\ n \in Nat
    <3>1. Len(controlQueue) \in Nat
      BY <1>3
    <3> QED
      BY <2>1, <3>1
  <2>3. lost' = (lost \/ n > ControlQueueLength)
    BY <1>2
  <2> HIDE DEF n
  <2>4. ~(n > ControlQueueLength)
    BY <2>2, QueueAssumption DEF KeepsUp
  <2> QED
    BY <1>3, <2>3, <2>4
<1>7. OneEach(controlQueue') /\ TakenInTime(controlQueue', age', due')
  <2>1. CASE SendsToNoQueue
    BY <1>2, <1>3, <1>5, <2>1
  <2>2. CASE ~SendsToNoQueue
    <3> DEFINE q1 == SendFromISR(controlQueue, "PushButton")
               q2 == SendFromISR(q1, "ChannelA")
               q3 == SendFromISR(q2, "ChannelB")
    <3>0. {"PushButton", "ChannelA", "ChannelB"} \subseteq Channels
      BY DEF Channels
    <3>1. /\ q1 \in Seq(Message) /\ OneEach(q1) /\ TakenInTime(q1, age', due')
          /\ \A i \in 1..Len(q1) : \/ q1[i].type = "PushButton"
                                   \/ \E j \in 1..Len(controlQueue) : q1[i].type = controlQueue[j].type
      BY <1>1, <1>2, <1>3, <1>4, <1>5, <3>0, SendInTime
    <3>2. \A i \in 1..Len(q1) : q1[i].type = "PushButton" \/ q1[i].type \notin Signals
      BY <1>4, <3>1
    <3> HIDE DEF q1
    <3>3. /\ q2 \in Seq(Message) /\ OneEach(q2) /\ TakenInTime(q2, age', due')
          /\ \A i \in 1..Len(q2) : \/ q2[i].type = "ChannelA"
                                   \/ \E j \in 1..Len(q1) : q2[i].type = q1[j].type
      BY <1>1, <1>2, <1>5, <3>0, <3>1, <3>2, SendInTime
    <3>4. \A i \in 1..Len(q2) : q2[i].type \in {"PushButton", "ChannelA"} \/ q2[i].type \notin Signals
      BY <3>2, <3>3
    <3> HIDE DEF q2
    <3>5. q3 \in Seq(Message) /\ OneEach(q3) /\ TakenInTime(q3, age', due')
      BY <1>1, <1>2, <1>5, <3>0, <3>3, <3>4, SendInTime
    <3> QED
      BY <1>2, <2>2, <3>5 DEF Queued, q1, q2
  <2> QED
    BY <2>1, <2>2
<1> QED
  BY <1>6, <1>7 DEF LineInv

\* A tick, which the task allows only while it still has time, keeps it.
LEMMA TickLineInv ==
    ASSUME DebounceInv, LineInv, TickInterrupt
    PROVE  LineInv'
<1>1. /\ controlQueue \in Seq(Message) /\ due \in 0..ServiceTicks
      /\ \A c \in Channels : age[c] \in 0..Saturated
  BY DEF DebounceInv, TypeOK
<1>2. /\ controlQueue = << >> \/ due > 0
      /\ due' = IF due > 0 THEN due - 1 ELSE 0
      /\ age' = [c \in Channels |-> IF age[c] < Saturated THEN age[c] + 1 ELSE age[c]]
      /\ controlQueue' = controlQueue /\ lost' = lost
  BY DEF TickInterrupt
<1>3. ASSUME NEW i \in 1..Len(controlQueue)
      PROVE  age'[controlQueue[i].type] + due' + Ahead(i) <= DebounceTicks
  <2> DEFINE c == controlQueue[i].type
  <2>1. c \in Channels
    BY <1>1, TypesAreChannels
  <2>2. age[c] + due + Ahead(i) <= DebounceTicks
    BY DEF LineInv, TakenInTime
  <2>3. due > 0
    BY <1>1, <1>2
  <2>4. Ahead(i) \in Nat
    BY QueueAssumption DEF Ahead
  <2>5. age[c] \in Nat /\ (age'[c] = age[c] + 1 \/ age'[c] = age[c])
    BY <1>1, <1>2, <2>1, DebounceAssumption DEF Saturated
  <2> HIDE DEF c
  <2>6. age'[c] + due' + Ahead(i) <= DebounceTicks
    BY <1>1, <1>2, <2>2, <2>3, <2>4, <2>5, DebounceAssumption, QueueAssumption
  <2> QED
    BY <2>6 DEF c
<1> QED
  BY <1>2, <1>3 DEF LineInv, TakenInTime, OneEach

\* And taking the first makes way for the next.
LEMMA ReceiveLineInv ==
    ASSUME DebounceInv, LineInv, Receive
    PROVE  LineInv'
<1> DEFINE q == controlQueue
           n == Len(controlQueue)
<1>1. /\ q \in Seq(Message) /\ due \in 0..ServiceTicks
      /\ \A c \in Channels : age[c] \in 0..Saturated
  BY DEF DebounceInv, TypeOK
<1>2. q # << >> /\ q' = Tail(q) /\ due' = ServiceTicks /\ age' = age /\ lost' = lost
  BY DEF Receive, isrVars
<1>3. n \in Nat /\ Len(q') = n - 1 /\ \A i \in 1..(n - 1) : q'[i] = q[i + 1] /\ i + 1 \in 1..n
  BY <1>1, <1>2
<1>4. \A i, j \in 1..n : i # j => q[i].type # q[j].type
  BY DEF LineInv, OneEach
<1>5. OneEach(q')
  BY <1>3, <1>4 DEF OneEach
<1>6. n <= 3
  <2>1. OneEach(q) /\ {} \in SUBSET Channels
    BY DEF LineInv
  <2>2. Len(q) + Cardinality({}) <= 3
    BY <1>1, <2>1, OneEachFits
  <2> QED
    BY <1>3, <2>2, FS_EmptySet
<1>7. ASSUME NEW i \in 1..Len(q')
      PROVE  age'[q'[i].type] + due' + Ahead(i) <= DebounceTicks
  <2> DEFINE c == q[i + 1].type
  <2>1. i + 1 \in 1..n /\ q'[i] = q[i + 1] /\ i \in 1..2
    BY <1>3, <1>6
  <2>2. c \in Channels
    BY <1>1, <2>1, TypesAreChannels
  <2>3. age[c] + due + Ahead(i + 1) <= DebounceTicks
    BY <2>1 DEF LineInv, TakenInTime
  <2>4. Ahead(i + 1) = ServiceTicks + Ahead(i) /\ Ahead(i) \in Nat
    BY <2>1, QueueAssumption DEF Ahead
  <2>5. age[c] \in Nat
    BY <1>1, <2>2, DebounceAssumption DEF Saturated
  <2>6. age'[q'[i].type] = age[c]
    BY <1>2, <2>1
  <2> DEFINE x == age[c]
             y == Ahead(i)
             z == Ahead(i + 1)
  <2> HIDE DEF c
  <2>7. x \in Nat /\ y \in Nat /\ z = ServiceTicks + y /\ x + due + z <= DebounceTicks
    BY <2>3, <2>4, <2>5
  <2>8. due \in Nat /\ ServiceTicks \in Nat /\ DebounceTicks \in Nat /\ due' = ServiceTicks
    BY <1>1, <1>2, DebounceAssumption, QueueAssumption
  <2> HIDE DEF x, y, z
  <2>9. x + ServiceTicks + y <= DebounceTicks
    BY <2>7, <2>8
  <2> QED
    BY <2>6, <2>8, <2>9 DEF x, y
<1> QED
  BY <1>2, <1>5, <1>7 DEF LineInv, TakenInTime

LEMMA LineStep ==
    ASSUME KeepsUp
    PROVE  DebounceInv /\ LineInv /\ [Next]_vars => LineInv'
<1> SUFFICES ASSUME DebounceInv, LineInv, [Next]_vars PROVE LineInv'
  OBVIOUS
<1>1. CASE UNCHANGED <<controlQueue, due, age, lost>>
  BY <1>1 DEF LineInv
<1> QED
  BY <1>1, HandlerLineInv, TickLineInv, ReceiveLineInv
  DEF Next, CreateQueues, StartScheduler, Edge, taskVars, isrVars, vars

\* No message of the panel finds the queue full, on whatever ticks its
\* contacts close and bounce, when the queue has a place for each of the three
\* channels and the control task takes three messages in DEBOUNCE_TICKS
\* (main.c: 10 places, 200 ticks).
THEOREM NothingEverLost ==
    ASSUME KeepsUp
    PROVE  Spec => []NothingLost
<1>1. Init => LineInv
  BY DEF Init, LineInv, TakenInTime, OneEach
<1>2. DebounceInv /\ LineInv /\ [Next]_vars => LineInv'
  BY LineStep
<1>3. LineInv => NothingLost
  BY DEF LineInv, NothingLost
<1> QED
  BY <1>1, <1>2, <1>3, DebounceInvariant, PTL DEF Spec
---------------------------------------------------------------------------
(* The level follows the hand: Encoder, on the line of messages above.    *)

EncoderTypeOK ==
    /\ last \in [RotaryChannels -> 0..MaxTick]
    /\ knob \in RotaryChannels \cup {"None"}
    /\ halfway \in 0..Skew

\* Only the encoder's channels are heard.
OnlyTheKnob ==
    /\ pending \subseteq RotaryChannels
    /\ \A i \in 1..Len(controlQueue) : controlQueue[i].type \in RotaryChannels

\* The 32-bit difference to a channel's stamp is the age of its last message,
\* as long as that is less than a turn of the counter.
Dated(c, ticks) == age[c] <= MaxTick => UnsignedMinus(tick, ticks) = age[c]

StampsExact ==
    /\ \A c \in Channels : initial[c] = 0 \/ Dated(c, initial[c])
    /\ \A i \in 1..Len(controlQueue) : Dated(controlQueue[i].type, controlQueue[i].ticks)
    /\ \A c \in RotaryChannels :
           \/ last[c] = 0 \/ Dated(c, last[c])
           \/ \E i \in 1..Len(controlQueue) : controlQueue[i].type = c

\* Half-way through a detent: the second contact has been quiet and stays
\* audible, and the counter does not wrap, for as long as the hand may take.
Left == Skew - halfway

HalfTurned ==
    knob # "None" =>
        LET other == OtherChannel(knob)
        IN  /\ tick > DebounceTicks /\ tick + Left <= MaxTick
            /\ other \notin pending /\ age[other] > DebounceTicks
            /\ age[other] + Left <= MaxTick \/ (initial[other] = 0 /\ last[other] = 0)
            /\ IF knob \in Signals THEN halfway = 0 ELSE age[knob] = halfway

\* The messages on their way: those of queue q, then those of the flags S.
Sent(q, S, c, t) == IF c \in S THEN Append(q, [type |-> c, ticks |-> t]) ELSE q
LineOf(q, S, t) == Sent(Sent(q, S, "ChannelA", t), S, "ChannelB", t)
Line == LineOf(controlQueue, Signals, tick)

\* With edges l remembered, message m begins a detent, and edge c waits for
\* its partner.
Begins(l, m) ==
    LET e == l[OtherChannel(m.type)]
    IN  e = 0 \/ UnsignedMinus(m.ticks, e) >= DebounceTicks

Waits(l, c) == l[c] # 0 /\ l[OtherChannel(c)] = 0

\* The four states of a detent: nothing is on its way; the first message is;
\* the second is, the first remembered; both are.
Nothing(L, l, lev, k, int) ==
    /\ L = << >> /\ lev = int
    /\ k # "None" => Waits(l, k)
FirstOnly(L, l, lev, k, int) ==
    /\ Len(L) = 1 /\ lev = int
    /\ Begins(l, L[1])
    /\ k \in {L[1].type, "None"}
SecondOnly(L, l, lev, k, int) ==
    /\ Len(L) = 1 /\ k = "None" /\ int = Stepped(lev, L[1].type)
    /\ Waits(l, OtherChannel(L[1].type))
    /\ UnsignedMinus(L[1].ticks, l[OtherChannel(L[1].type)]) < DebounceTicks
Both(L, l, lev, k, int) ==
    /\ Len(L) = 2 /\ k = "None" /\ int = Stepped(lev, L[2].type)
    /\ Begins(l, L[1])
    /\ L[2].type = OtherChannel(L[1].type)
    /\ UnsignedMinus(L[2].ticks, L[1].ticks) < DebounceTicks

LevelIn(L, l, lev, k, int) ==
    \/ Nothing(L, l, lev, k, int) \/ FirstOnly(L, l, lev, k, int)
    \/ SecondOnly(L, l, lev, k, int) \/ Both(L, l, lev, k, int)

LevelInv == LevelIn(Line, last, level, knob, intended)

EncoderInv == EncoderTypeOK /\ OnlyTheKnob /\ StampsExact /\ HalfTurned /\ LevelInv

---------------------------------------------------------------------------
LEMMA OtherIsOther ==
    ASSUME NEW c \in RotaryChannels
    PROVE  /\ OtherChannel(c) \in RotaryChannels /\ OtherChannel(c) # c
           /\ OtherChannel(OtherChannel(c)) = c
           /\ RotaryChannels = {c, OtherChannel(c)}
           /\ c \in Channels /\ c # "None" /\ c # "PushButton"
BY DEF RotaryChannels, OtherChannel, Channels

\* One tick later an unsigned difference is one more, a wrap included.
LEMMA MinusTicks ==
    ASSUME NEW t \in 0..MaxTick, NEW s \in 0..MaxTick, s # 0,
           UnsignedMinus(t, s) < MaxTick
    PROVE  UnsignedMinus(IF t = MaxTick THEN 0 ELSE t + 1, s) = UnsignedMinus(t, s) + 1
BY DebounceAssumption DEF UnsignedMinus

LEMMA MinusSelf ==
    ASSUME NEW t \in 0..MaxTick
    PROVE  UnsignedMinus(t, t) = 0
BY DebounceAssumption DEF UnsignedMinus

LEMMA NoSignals ==
    ASSUME NEW q, NEW t
    PROVE  LineOf(q, {}, t) = q
BY DEF LineOf, Sent

LEMMA OneSignal ==
    ASSUME NEW q, NEW t, NEW c \in RotaryChannels
    PROVE  LineOf(q, {c}, t) = Append(q, [type |-> c, ticks |-> t])
BY DEF LineOf, Sent, RotaryChannels

\* Taking the first message of the queue takes the first of the line.
LEMMA LineTail ==
    ASSUME NEW q \in Seq(Message), q # << >>, NEW S, NEW t \in 0..MaxTick
    PROVE  /\ LineOf(q, S, t) \in Seq(Message) /\ LineOf(q, S, t) # << >>
           /\ Head(LineOf(q, S, t)) = Head(q)
           /\ LineOf(Tail(q), S, t) = Tail(LineOf(q, S, t))
<1>1. ASSUME NEW r \in Seq(Message), r # << >>, NEW c \in Channels
      PROVE  /\ Sent(r, S, c, t) \in Seq(Message) /\ Sent(r, S, c, t) # << >>
             /\ Head(Sent(r, S, c, t)) = Head(r)
             /\ Sent(Tail(r), S, c, t) = Tail(Sent(r, S, c, t))
  <2> DEFINE m == [type |-> c, ticks |-> t]
  <2>1. m \in Message
    BY DEF Message
  <2> HIDE DEF m
  <2>2. /\ Append(r, m) \in Seq(Message) /\ Append(r, m) # << >>
        /\ Head(Append(r, m)) = Head(r)
        /\ Append(Tail(r), m) = Tail(Append(r, m))
    BY <1>1, <2>1
  <2> QED
    BY <1>1, <2>2 DEF Sent, m
<1> DEFINE r == Sent(q, S, "ChannelA", t)
<1>2. "ChannelA" \in Channels /\ "ChannelB" \in Channels
  BY DEF Channels
<1>3. /\ r \in Seq(Message) /\ r # << >> /\ Head(r) = Head(q)
      /\ Sent(Tail(q), S, "ChannelA", t) = Tail(r)
  BY <1>1, <1>2
<1> HIDE DEF r
<1>4. /\ Sent(r, S, "ChannelB", t) \in Seq(Message) /\ Sent(r, S, "ChannelB", t) # << >>
      /\ Head(Sent(r, S, "ChannelB", t)) = Head(r)
      /\ Sent(Tail(r), S, "ChannelB", t) = Tail(Sent(r, S, "ChannelB", t))
  BY <1>1, <1>2, <1>3
<1> QED
  BY <1>3, <1>4 DEF LineOf, r

\* At most one message of each channel of the knob is waiting.
LEMMA KnobFits ==
    ASSUME NEW q \in Seq(Message), OneEach(q),
           \A i \in 1..Len(q) : q[i].type \in RotaryChannels
    PROVE  /\ Len(q) <= 2
           /\ \A c \in RotaryChannels :
                  (\A i \in 1..Len(q) : q[i].type # c) => Len(q) <= 1
<1> DEFINE n == Len(q)
<1>1. n \in Nat
  OBVIOUS
<1>2. \A i, j \in 1..n : i # j => q[i].type # q[j].type
  BY DEF OneEach
<1>3. n <= 2
  <2> SUFFICES ASSUME n > 2 PROVE FALSE
    BY <1>1
  <2>1. 1 \in 1..n /\ 2 \in 1..n /\ 3 \in 1..n
    BY <1>1
  <2>2. /\ q[1].type # q[2].type /\ q[1].type # q[3].type /\ q[2].type # q[3].type
        /\ q[1].type \in RotaryChannels /\ q[2].type \in RotaryChannels
        /\ q[3].type \in RotaryChannels
    BY <1>2, <2>1
  <2> QED
    BY <2>2 DEF RotaryChannels
<1>4. ASSUME NEW c \in RotaryChannels, \A i \in 1..n : q[i].type # c, n > 1
      PROVE  FALSE
  <2>1. 1 \in 1..n /\ 2 \in 1..n
    BY <1>1, <1>4
  <2>2. /\ q[1].type # q[2].type /\ q[1].type # c /\ q[2].type # c
        /\ q[1].type \in RotaryChannels /\ q[2].type \in RotaryChannels
    BY <1>2, <1>4, <2>1
  <2> QED
    BY <2>2 DEF RotaryChannels
<1> QED
  BY <1>1, <1>3, <1>4

\* So the callbacks of the handler find room: the queue becomes the line.
LEMMA QueuedIsLine ==
    ASSUME TypeOK, KeepsUp, OnlyTheKnob, OneEach(controlQueue),
           \A i \in 1..Len(controlQueue) : controlQueue[i].type \notin Signals
    PROVE  Queued = Line
<1> DEFINE q == controlQueue
           r == Sent(q, Signals, "ChannelA", tick)
<1>1. q \in Seq(Message) /\ ControlQueueLength \in Nat /\ ControlQueueLength >= 3
  BY QueueAssumption DEF TypeOK, KeepsUp
<1>2. "PushButton" \notin Signals
  BY DEF OnlyTheKnob, Signals, RotaryChannels
<1>3. Len(q) <= 2 /\ ("ChannelA" \in Signals => Len(q) <= 1)
  BY <1>1, KnobFits DEF OnlyTheKnob, RotaryChannels
<1>4. SendFromISR(q, "PushButton") = q
  BY <1>2 DEF SendFromISR
<1>5. SendFromISR(q, "ChannelA") = r
  BY <1>1, <1>3 DEF SendFromISR, Sent
<1>6. Len(r) <= 2
  <2>1. Len(q) \in Nat /\ Len(Append(q, [type |-> "ChannelA", ticks |-> tick])) = Len(q) + 1
    BY <1>1
  <2> QED
    BY <1>3, <2>1 DEF Sent
<1> HIDE DEF r
<1>7. SendFromISR(r, "ChannelB") = Sent(r, Signals, "ChannelB", tick)
  BY <1>1, <1>6 DEF SendFromISR, Sent
<1> QED
  BY <1>4, <1>5, <1>7 DEF Queued, Line, LineOf, r

\* A channel heard of less than a turn of the counter ago, or not at all, and
\* not within the debounce interval, passes.
LEMMA HeardPasses ==
    ASSUME TypeOK, StampsExact, NEW c \in Channels, tick > DebounceTicks,
           age[c] > DebounceTicks, age[c] <= MaxTick \/ initial[c] = 0
    PROVE  Passes(c)
<1>1. /\ tick \in 0..MaxTick /\ initial[c] \in 0..MaxTick /\ age[c] \in 0..Saturated
      /\ DebounceTicks \in Nat /\ MaxTick \in Nat
  BY DebounceAssumption DEF TypeOK
<1>2. initial[c] = 0 \/ UnsignedMinus(tick, initial[c]) = age[c]
  BY DEF StampsExact, Dated
<1> QED
  BY <1>1, <1>2 DEF Passes, Rebased, UnsignedMinus

\* The line is the queue, and a message of this tick for each signal.
LEMMA LineContents ==
    ASSUME NEW q \in Seq(Message), NEW S, NEW t \in 0..MaxTick
    PROVE  LET L == LineOf(q, S, t)
           IN  /\ L \in Seq(Message)
               /\ \A i \in 1..Len(L) :
                      \/ i \in 1..Len(q) /\ L[i] = q[i]
                      \/ L[i].type \in S /\ L[i].type \in RotaryChannels /\ L[i].ticks = t
               /\ \A i \in 1..Len(q) : i \in 1..Len(L) /\ L[i] = q[i]
               /\ \A c \in RotaryChannels \cap S : \E i \in 1..Len(L) : L[i].type = c
<1>1. ASSUME NEW r \in Seq(Message), NEW c \in RotaryChannels
      PROVE  LET s == Sent(r, S, c, t)
             IN  /\ s \in Seq(Message)
                 /\ \A i \in 1..Len(s) : \/ i \in 1..Len(r) /\ s[i] = r[i]
                                         \/ c \in S /\ s[i].type = c /\ s[i].ticks = t
                 /\ \A i \in 1..Len(r) : i \in 1..Len(s) /\ s[i] = r[i]
                 /\ c \in S => \E i \in 1..Len(s) : s[i].type = c
  <2> DEFINE m == [type |-> c, ticks |-> t]
             a == Append(r, m)
  <2>1. m \in Message /\ m.type = c /\ m.ticks = t
    BY OtherIsOther DEF Message
  <2> HIDE DEF m
  <2>2. /\ a \in Seq(Message) /\ Len(a) = Len(r) + 1 /\ Len(r) \in Nat
        /\ a[Len(r) + 1] = m /\ \A i \in 1..Len(r) : a[i] = r[i]
    BY <2>1
  <2> HIDE DEF a
  <2>3. CASE c \in S
    <3>1. Sent(r, S, c, t) = a
      BY <2>3 DEF Sent, a, m
    <3>2. \A i \in 1..Len(a) : i \in 1..Len(r) \/ i = Len(r) + 1
      BY <2>2
    <3>3. Len(r) + 1 \in 1..Len(a) /\ \A i \in 1..Len(r) : i \in 1..Len(a)
      BY <2>2
    <3> QED
      BY <2>1, <2>2, <2>3, <3>1, <3>2, <3>3
  <2>4. CASE c \notin S
    BY <2>4 DEF Sent
  <2> QED
    BY <2>3, <2>4
<1> DEFINE r == Sent(q, S, "ChannelA", t)
           L == Sent(r, S, "ChannelB", t)
<1>2. RotaryChannels = {"ChannelA", "ChannelB"}
  BY DEF RotaryChannels
<1>3. /\ r \in Seq(Message)
      /\ \A i \in 1..Len(r) : \/ i \in 1..Len(q) /\ r[i] = q[i]
                              \/ "ChannelA" \in S /\ r[i].type = "ChannelA" /\ r[i].ticks = t
      /\ \A i \in 1..Len(q) : i \in 1..Len(r) /\ r[i] = q[i]
      /\ "ChannelA" \in S => \E i \in 1..Len(r) : r[i].type = "ChannelA"
  BY <1>1, <1>2
<1> HIDE DEF r
<1>4. /\ L \in Seq(Message)
      /\ \A i \in 1..Len(L) : \/ i \in 1..Len(r) /\ L[i] = r[i]
                              \/ "ChannelB" \in S /\ L[i].type = "ChannelB" /\ L[i].ticks = t
      /\ \A i \in 1..Len(r) : i \in 1..Len(L) /\ L[i] = r[i]
      /\ "ChannelB" \in S => \E i \in 1..Len(L) : L[i].type = "ChannelB"
  BY <1>1, <1>2, <1>3
<1>5. LineOf(q, S, t) = L
  BY DEF LineOf, r
<1> HIDE DEF L
<1>6. \A i \in 1..Len(L) :
          \/ i \in 1..Len(q) /\ L[i] = q[i]
          \/ L[i].type \in S /\ L[i].type \in RotaryChannels /\ L[i].ticks = t
  BY <1>2, <1>3, <1>4
<1>7. \A i \in 1..Len(q) : i \in 1..Len(L) /\ L[i] = q[i]
  BY <1>3, <1>4
<1>8. \A c \in RotaryChannels \cap S : \E i \in 1..Len(L) : L[i].type = c
  BY <1>2, <1>3, <1>4
<1> QED
  BY <1>4, <1>5, <1>6, <1>7, <1>8

---------------------------------------------------------------------------

\* Start, and a hand that gives up, change nothing of the line.
LEMMA StartEncoderInv ==
    ASSUME EncoderInv, Start
    PROVE  EncoderInv'
<1>1. UNCHANGED <<tick, pending, initial, controlQueue, age, last, level, knob, halfway, intended>>
  BY DEF Start, CreateQueues, StartScheduler, taskVars, isrVars, knobVars
<1>2. Signals' = Signals
  BY <1>1 DEF Signals, Passes, Rebased
<1> QED
  BY <1>1, <1>2
  DEF EncoderInv, EncoderTypeOK, OnlyTheKnob, StampsExact, Dated, HalfTurned, Left,
      LevelInv, Line

LEMMA GiveUpEncoderInv ==
    ASSUME EncoderInv, GiveUp
    PROVE  EncoderInv'
<1>1. /\ UNCHANGED <<tick, pending, initial, controlQueue, age, last, level, halfway, intended>>
      /\ knob # "None" /\ knob' = "None"
  BY DEF GiveUp, vars, taskVars, isrVars
<1>2. Signals' = Signals /\ Line' = Line
  BY <1>1 DEF Signals, Passes, Rebased, Line
<1>3. LevelInv'
  BY <1>1, <1>2 DEF EncoderInv, LevelInv, LevelIn, Nothing, FirstOnly, SecondOnly, Both
<1> QED
  BY <1>1, <1>3 DEF EncoderInv, EncoderTypeOK, OnlyTheKnob, StampsExact, Dated, HalfTurned

\* The handler puts the line into the queue.
LEMMA InterruptEncoderInv ==
    ASSUME KeepsUp, DebounceInv, LineInv, EncoderInv, EncoderInterrupt, LineInv', DebounceInv'
    PROVE  EncoderInv'
<1>1. /\ TypeOK /\ EncoderTypeOK /\ OnlyTheKnob /\ StampsExact /\ HalfTurned /\ LevelInv
      /\ OneEach(controlQueue) /\ TypeOK'
  BY DEF DebounceInv, EncoderInv, LineInv
<1>2. /\ pending' = {}
      /\ initial' = [c \in Channels |-> NextInitial(c)]
      /\ age' = [c \in Channels |-> IF c \in Signals THEN 0 ELSE age[c]]
      /\ halted' = SendsToNoQueue
      /\ controlQueue' = IF SendsToNoQueue THEN controlQueue ELSE Queued
      /\ UNCHANGED <<tick, last, level, knob, halfway, intended>>
  BY DEF EncoderInterrupt, EicHandler, knobVars
<1>3. /\ tick \in 0..MaxTick /\ controlQueue \in Seq(Message)
      /\ \A c \in Channels : initial[c] \in 0..MaxTick
      /\ \A c \in Channels : age[c] \in 0..Saturated
      /\ due \in 0..ServiceTicks /\ Signals \subseteq Channels
  BY <1>1 DEF TypeOK, Signals
<1>4. ASSUME NEW i \in 1..Len(controlQueue)
      PROVE  controlQueue[i].type \in Channels \ Signals
  <2>1. controlQueue[i].type \in Channels
    BY <1>3, TypesAreChannels
  <2>2. age[controlQueue[i].type] + due + Ahead(i) <= DebounceTicks
    BY DEF LineInv, TakenInTime
  <2>3. Ahead(i) \in Nat
    BY QueueAssumption DEF Ahead
  <2>4. age[controlQueue[i].type] <= DebounceTicks
    BY <1>3, <2>1, <2>2, <2>3, DebounceAssumption, QueueAssumption DEF Saturated
  <2> QED
    BY <1>3, <2>1, <2>4, SignalsOld, DebounceAssumption DEF Saturated
<1>5. controlQueue' = Line
  <2>1. ~SendsToNoQueue
    BY <1>2 DEF DebounceInv, NeverHalts
  <2>2. Queued = Line
    BY <1>1, <1>4, QueuedIsLine
  <2> QED
    BY <1>2, <2>1, <2>2
<1>6. Signals' = {} /\ Line' = Line
  <2>1. Signals' = {}
    BY <1>2 DEF Signals
  <2>2. Line' = LineOf(Line, {}, tick)
    BY <1>2, <1>5, <2>1 DEF Line
  <2> QED
    BY <2>1, <2>2, NoSignals
<1>7. LevelInv'
  BY <1>1, <1>2, <1>6 DEF LevelInv
<1>8. EncoderTypeOK'
  BY <1>1, <1>2 DEF EncoderTypeOK
<1>9. /\ Line \in Seq(Message)
      /\ \A i \in 1..Len(Line) :
             \/ /\ i \in 1..Len(controlQueue) /\ Line[i] = controlQueue[i]
             \/ /\ Line[i].type \in Signals /\ Line[i].type \in RotaryChannels
                /\ Line[i].ticks = tick
      /\ \A i \in 1..Len(controlQueue) : i \in 1..Len(Line) /\ Line[i] = controlQueue[i]
      /\ \A c \in RotaryChannels \cap Signals : \E i \in 1..Len(Line) : Line[i].type = c
  BY <1>3, LineContents DEF Line
<1>10. OnlyTheKnob'
  BY <1>1, <1>2, <1>5, <1>9 DEF OnlyTheKnob
<1>11. /\ \A c \in Signals : age'[c] = 0
       /\ \A c \in Channels \ Signals : age'[c] = age[c]
  BY <1>2, <1>3
<1>12. UnsignedMinus(tick, tick) = 0
  BY <1>3, MinusSelf
<1>13. ASSUME NEW c \in Channels
       PROVE  initial'[c] = 0 \/ Dated(c, initial[c])'
  <2>1. CASE c \in Signals
    BY <1>2, <1>3, <1>11, <1>12, <2>1 DEF NextInitial, Dated
  <2>2. CASE c \notin Signals
    <3>1. initial'[c] = 0 \/ initial'[c] = initial[c]
      BY <1>2, <2>2 DEF NextInitial, Rebased
    <3> QED
      BY <1>1, <1>2, <1>11, <2>2, <3>1 DEF StampsExact, Dated
  <2> QED
    BY <2>1, <2>2
<1>14. ASSUME NEW i \in 1..Len(Line)
       PROVE  Dated(Line[i].type, Line[i].ticks)'
  <2>0. (Line[i].type)' = Line[i].type /\ (Line[i].ticks)' = Line[i].ticks
    BY <1>6
  <2>1. CASE i \in 1..Len(controlQueue) /\ Line[i] = controlQueue[i]
    BY <1>1, <1>2, <1>4, <1>11, <2>0, <2>1 DEF StampsExact, Dated
  <2>2. CASE Line[i].type \in Signals /\ Line[i].ticks = tick
    BY <1>2, <1>11, <1>12, <2>0, <2>2 DEF Dated
  <2> QED
    BY <1>9, <2>1, <2>2
<1>15. ASSUME NEW c \in RotaryChannels
       PROVE  \/ last'[c] = 0 \/ Dated(c, last[c])'
              \/ \E i \in 1..Len(Line) : Line[i].type = c
  <2>1. CASE c \in Signals
    BY <1>9, <2>1
  <2>2. CASE \E i \in 1..Len(controlQueue) : controlQueue[i].type = c
    BY <1>9, <2>2
  <2>3. CASE c \notin Signals /\ (last[c] = 0 \/ Dated(c, last[c]))
    <3>1. age'[c] = age[c]
      BY <1>11, <2>3, OtherIsOther
    <3> QED
      BY <1>2, <2>3, <3>1 DEF Dated
  <2> QED
    BY <1>1, <2>1, <2>2, <2>3 DEF StampsExact
<1>16. StampsExact'
  BY <1>5, <1>6, <1>13, <1>14, <1>15 DEF StampsExact
<1>17. HalfTurned'
  <2> SUFFICES ASSUME knob # "None"
               PROVE  LET other == OtherChannel(knob)
                      IN  /\ tick > DebounceTicks /\ tick + Left <= MaxTick
                          /\ other \notin pending' /\ age'[other] > DebounceTicks
                          /\ age'[other] + Left <= MaxTick \/ (initial'[other] = 0 /\ last[other] = 0)
                          /\ age'[knob] = halfway
    BY <1>2, <1>6 DEF HalfTurned, Left
  <2> DEFINE other == OtherChannel(knob)
  <2>1. knob \in Channels /\ other \in Channels /\ other \notin pending /\ other \notin Signals
    BY <1>1, OtherIsOther DEF EncoderTypeOK, HalfTurned, Signals
  <2>2. age'[other] = age[other] /\ initial'[other] = initial[other]
    BY <1>2, <1>11, <2>1 DEF NextInitial
  <2>3. age'[knob] = halfway
    BY <1>1, <1>11, <2>1 DEF HalfTurned
  <2> QED
    BY <1>1, <1>2, <2>2, <2>3 DEF HalfTurned
<1> QED
  BY <1>7, <1>8, <1>10, <1>16, <1>17 DEF EncoderInv

\* A tick makes every age and every difference one more.
LEMMA TickEncoderInv ==
    ASSUME DebounceInv, LineInv, EncoderInv, EncoderTick
    PROVE  EncoderInv'
<1>1. /\ TypeOK /\ StampsNonzero
      /\ EncoderTypeOK /\ OnlyTheKnob /\ StampsExact /\ HalfTurned /\ LevelInv
  BY DEF DebounceInv, EncoderInv
<1>2. /\ pending = {} /\ pending' = {}
      /\ controlQueue = << >> \/ due > 0
      /\ tick' = IF tick = MaxTick THEN 0 ELSE tick + 1
      /\ age' = [c \in Channels |-> IF age[c] < Saturated THEN age[c] + 1 ELSE age[c]]
      /\ UNCHANGED <<initial, controlQueue, last, level, knob, intended>>
      /\ IF knob = "None" THEN UNCHANGED halfway
                          ELSE halfway < Skew /\ halfway' = halfway + 1
  BY DEF EncoderTick, TickInterrupt
<1>3. /\ tick \in 0..MaxTick /\ controlQueue \in Seq(Message)
      /\ \A c \in Channels : initial[c] \in 0..MaxTick
      /\ \A c \in Channels : age[c] \in 0..Saturated
      /\ \A c \in RotaryChannels : last[c] \in 0..MaxTick
      /\ halfway \in 0..Skew /\ Skew \in Nat /\ Skew < DebounceTicks
      /\ MaxTick \in Nat /\ DebounceTicks \in Nat
  BY <1>1, DebounceAssumption, KnobAssumption DEF TypeOK, EncoderTypeOK
<1>4. Signals = {} /\ Signals' = {} /\ Line = controlQueue /\ Line' = controlQueue
  <2>1. Signals = {} /\ Signals' = {}
    BY <1>2 DEF Signals
  <2>2. Line = LineOf(controlQueue, {}, tick) /\ Line' = LineOf(controlQueue, {}, tick')
    BY <1>2, <2>1 DEF Line
  <2> QED
    BY <2>1, <2>2, NoSignals
<1>5. LevelInv'
  BY <1>1, <1>2, <1>4 DEF LevelInv
<1>6. EncoderTypeOK'
  <2>1. halfway' \in 0..Skew
    BY <1>2, <1>3
  <2> QED
    BY <1>1, <1>2, <2>1 DEF EncoderTypeOK
<1>7. OnlyTheKnob'
  BY <1>1, <1>2 DEF OnlyTheKnob
<1>8. ASSUME NEW c \in Channels
      PROVE  age'[c] = age[c] + 1 \/ (age[c] = Saturated /\ age'[c] = Saturated)
  BY <1>2, <1>3 DEF Saturated
<1>9. ASSUME NEW c \in Channels, NEW s \in 0..MaxTick, s # 0, Dated(c, s)
      PROVE  age'[c] <= MaxTick => UnsignedMinus(tick', s) = age'[c]
  <2> SUFFICES ASSUME age'[c] <= MaxTick PROVE UnsignedMinus(tick', s) = age'[c]
    OBVIOUS
  <2>1. age'[c] = age[c] + 1 /\ age[c] \in Nat /\ age[c] < MaxTick
    BY <1>3, <1>8 DEF Saturated
  <2>2. UnsignedMinus(tick, s) = age[c]
    BY <1>3, <1>9, <2>1 DEF Dated
  <2>3. UnsignedMinus(tick', s) = UnsignedMinus(tick, s) + 1
    BY <1>2, <1>3, <1>9, <2>1, <2>2, MinusTicks
  <2> QED
    BY <2>1, <2>2, <2>3
<1>10. ASSUME NEW c \in Channels
       PROVE  initial'[c] = 0 \/ Dated(c, initial[c])'
  <2>1. CASE initial[c] = 0
    BY <1>2, <2>1
  <2>2. CASE initial[c] # 0 /\ Dated(c, initial[c])
    BY <1>2, <1>3, <1>9, <2>2 DEF Dated
  <2> QED
    BY <1>1, <2>1, <2>2 DEF StampsExact
<1>11. ASSUME NEW i \in 1..Len(controlQueue)
       PROVE  Dated(controlQueue[i].type, controlQueue[i].ticks)'
  <2> DEFINE c == controlQueue[i].type
             s == controlQueue[i].ticks
  <2>1. c \in Channels
    BY <1>3, TypesAreChannels
  <2>2. s \in 0..MaxTick /\ s # 0
    <3>1. controlQueue[i] \in Message
      BY <1>3
    <3>2. s \in 0..MaxTick
      BY <3>1 DEF Message
    <3>3. s > DebounceTicks
      BY <1>1 DEF StampsNonzero
    <3> QED
      BY <1>3, <3>2, <3>3
  <2>3. Dated(c, s)
    BY <1>1 DEF StampsExact
  <2>4. c' = c /\ s' = s
    BY <1>2
  <2> HIDE DEF c, s
  <2>5. age'[c] <= MaxTick => UnsignedMinus(tick', s) = age'[c]
    BY <1>9, <2>1, <2>2, <2>3
  <2> QED
    BY <2>4, <2>5 DEF Dated, c, s
<1>12. ASSUME NEW c \in RotaryChannels
       PROVE  \/ last'[c] = 0 \/ Dated(c, last[c])'
              \/ \E i \in 1..Len(controlQueue) : controlQueue[i].type = c
  <2>1. CASE last[c] # 0 /\ Dated(c, last[c])
    BY <1>2, <1>3, <1>9, <2>1, OtherIsOther DEF Dated
  <2> QED
    BY <1>1, <1>2, <2>1 DEF StampsExact
<1>13. StampsExact'
  BY <1>2, <1>10, <1>11, <1>12 DEF StampsExact
<1>14. HalfTurned'
  <2> DEFINE other == OtherChannel(knob)
  <2> SUFFICES ASSUME knob # "None"
               PROVE  /\ tick' > DebounceTicks /\ tick' + (Skew - halfway') <= MaxTick
                      /\ other \notin pending' /\ age'[other] > DebounceTicks
                      /\ \/ age'[other] + (Skew - halfway') <= MaxTick
                         \/ initial'[other] = 0 /\ last'[other] = 0
                      /\ age'[knob] = halfway'
    BY <1>2, <1>4 DEF HalfTurned, Left
  <2>1. knob \in Channels /\ other \in Channels
    BY <1>1, OtherIsOther DEF EncoderTypeOK
  <2>2. /\ tick > DebounceTicks /\ tick + (Skew - halfway) <= MaxTick
        /\ age[other] > DebounceTicks
        /\ age[other] + (Skew - halfway) <= MaxTick \/ (initial[other] = 0 /\ last[other] = 0)
        /\ age[knob] = halfway
    BY <1>1, <1>4 DEF HalfTurned, Left
  <2>3. halfway < Skew /\ halfway' = halfway + 1
    BY <1>2
  <2>4. tick' = tick + 1
    BY <1>2, <1>3, <2>2, <2>3
  <2>5. age'[knob] = halfway'
    <3>1. age[knob] # Saturated
      BY <1>3, <2>2, DebounceAssumption DEF Saturated
    <3> QED
      BY <1>8, <2>1, <2>2, <2>3, <3>1
  <2>6. /\ age[other] \in Nat /\ age'[other] \in Nat /\ age'[other] >= age[other]
        /\ age'[other] <= age[other] + 1
    BY <1>3, <1>8, <2>1 DEF Saturated
  <2> HIDE DEF other
  <2>7. age'[other] > DebounceTicks
    BY <1>3, <2>2, <2>6
  <2>8. tick' > DebounceTicks /\ tick' + (Skew - halfway') <= MaxTick
    BY <1>3, <2>2, <2>3, <2>4
  <2>9. \/ age'[other] + (Skew - halfway') <= MaxTick
        \/ initial'[other] = 0 /\ last'[other] = 0
    BY <1>2, <1>3, <2>2, <2>3, <2>6
  <2> QED
    BY <1>2, <2>5, <2>7, <2>8, <2>9
<1> QED
  BY <1>5, <1>6, <1>7, <1>13, <1>14 DEF EncoderInv

\* A flag leaves the stamps alone.
LEMMA EdgeStampsExact ==
    ASSUME StampsExact, NEW c, Edge(c), UNCHANGED last
    PROVE  StampsExact'
BY DEF Edge, taskVars, StampsExact, Dated

\* The first contact of a detent closes: a message that begins one is on its
\* way.
LEMMA TurnFirstEncoderInv ==
    ASSUME DebounceInv, LineInv, EncoderInv, NEW c \in RotaryChannels, TurnFirst(c)
    PROVE  EncoderInv'
<1>1. /\ TypeOK /\ OneEach(controlQueue) /\ TakenInTime(controlQueue, age, due)
      /\ EncoderTypeOK /\ OnlyTheKnob /\ StampsExact /\ LevelInv
  BY DEF DebounceInv, LineInv, EncoderInv
<1>2. /\ knob = "None" /\ tick > DebounceTicks /\ tick + Skew <= MaxTick
      /\ \A d \in RotaryChannels : Heard(d) /\ d \notin pending
      /\ pending' = pending \cup {c}
      /\ knob' = c /\ halfway' = 0
      /\ UNCHANGED <<tick, initial, controlQueue, due, age, last, level, intended>>
  BY DEF TurnFirst, Edge, taskVars
<1>3. /\ tick \in 0..MaxTick /\ controlQueue \in Seq(Message) /\ due \in 0..ServiceTicks
      /\ \A d \in RotaryChannels : d \in Channels /\ age[d] \in 0..Saturated
      /\ \A d \in RotaryChannels : last[d] \in 0..MaxTick
      /\ Skew \in Nat /\ MaxTick \in Nat /\ DebounceTicks \in Nat /\ ServiceTicks \in Nat
  BY <1>1, OtherIsOther, DebounceAssumption, KnobAssumption, QueueAssumption
  DEF TypeOK, EncoderTypeOK
<1>4. controlQueue = << >>
  <2> SUFFICES ASSUME controlQueue # << >> PROVE FALSE
    OBVIOUS
  <2>1. 1 \in 1..Len(controlQueue)
    BY <1>3
  <2> DEFINE d == controlQueue[1].type
  <2>2. d \in RotaryChannels /\ age[d] + due + Ahead(1) <= DebounceTicks
    BY <1>1, <2>1 DEF OnlyTheKnob, TakenInTime
  <2>3. age[d] > DebounceTicks /\ Ahead(1) = 0
    BY <1>2, <2>2 DEF Heard, Ahead
  <2> HIDE DEF d
  <2> QED
    BY <1>3, <2>2, <2>3 DEF Saturated
<1>5. pending = {} /\ pending' = {c}
  BY <1>1, <1>2 DEF OnlyTheKnob
<1>6. Passes(c)
  <2>1. age[c] > DebounceTicks /\ (age[c] <= MaxTick \/ initial[c] = 0)
    BY <1>2, <1>3 DEF Heard, Saturated
  <2> QED
    BY <1>1, <1>2, <1>3, <2>1, HeardPasses
<1>7. Signals = {} /\ Signals' = {c}
  <2>1. Passes(c)'
    BY <1>2, <1>6 DEF Passes, Rebased
  <2> QED
    BY <1>5, <2>1 DEF Signals
<1>8. Line = << >>
  <2>1. Line = LineOf(controlQueue, {}, tick)
    BY <1>7 DEF Line
  <2> QED
    BY <1>4, <2>1, NoSignals
<1> DEFINE m == [type |-> c, ticks |-> tick]
<1>9. Line' = <<m>>
  <2>1. Line' = LineOf(<< >>, {c}, tick)
    BY <1>2, <1>4, <1>7 DEF Line
  <2>2. Line' = Append(<< >>, m)
    BY <2>1, OneSignal
  <2> QED
    BY <2>2
<1>10. Begins(last, m)
  <2> DEFINE d == OtherChannel(c)
  <2>1. d \in RotaryChannels /\ d \in Channels /\ m.type = c /\ m.ticks = tick
    BY <1>3, OtherIsOther
  <2>2. last[d] = 0 \/ Dated(d, last[d])
    BY <1>1, <1>4, <2>1 DEF StampsExact
  <2>3. age[d] > DebounceTicks /\ (age[d] <= MaxTick \/ last[d] = 0)
    BY <1>2, <1>3, <2>1 DEF Heard, Saturated
  <2>4. last[d] = 0 \/ UnsignedMinus(tick, last[d]) = age[d]
    BY <2>2, <2>3 DEF Dated
  <2>5. last[d] = 0 \/ UnsignedMinus(tick, last[d]) >= DebounceTicks
    <3>1. age[d] \in Nat
      BY <1>3, <2>1 DEF Saturated
    <3> QED
      BY <1>3, <2>3, <2>4, <3>1
  <2> QED
    BY <2>1, <2>5 DEF Begins
<1>11. LevelInv'
  <2>1. level = intended
    BY <1>1, <1>8 DEF LevelInv, LevelIn, Nothing, FirstOnly, SecondOnly, Both
  <2>2. Len(<<m>>) = 1 /\ <<m>>[1] = m /\ m.type = c
    OBVIOUS
  <2> HIDE DEF m
  <2>3. FirstOnly(<<m>>, last, level, c, intended)
    BY <1>10, <2>1, <2>2 DEF FirstOnly
  <2> QED
    BY <1>2, <1>9, <2>3 DEF LevelInv, LevelIn
<1>12. EncoderTypeOK'
  BY <1>1, <1>2, <1>3 DEF EncoderTypeOK
<1>13. OnlyTheKnob'
  BY <1>1, <1>2 DEF OnlyTheKnob
<1>14. StampsExact'
  BY <1>1, EdgeStampsExact DEF TurnFirst
<1>15. HalfTurned'
  <2> DEFINE d == OtherChannel(c)
  <2>1. d \in RotaryChannels /\ d # c /\ c # "None"
    BY OtherIsOther
  <2>2. Heard(d) /\ d \notin pending'
    BY <1>2, <2>1
  <2>3. Left' = Skew
    BY <1>2, <1>3 DEF Left
  <2> QED
    BY <1>2, <1>7, <2>2, <2>3 DEF HalfTurned, Heard
<1> QED
  BY <1>11, <1>12, <1>13, <1>14, <1>15 DEF EncoderInv

\* The second closes: its message follows the first, or finds it remembered.
LEMMA TurnSecondEncoderInv ==
    ASSUME DebounceInv, LineInv, EncoderInv, TurnSecond
    PROVE  EncoderInv'
<1>0. PICK c : c = OtherChannel(knob)
  OBVIOUS
<1>1. /\ TypeOK
      /\ EncoderTypeOK /\ OnlyTheKnob /\ StampsExact /\ HalfTurned /\ LevelInv
  BY DEF DebounceInv, EncoderInv
<1>2. /\ knob # "None" /\ knob \notin pending
      /\ pending' = pending \cup {c}
      /\ intended' = Stepped(intended, c)
      /\ knob' = "None"
      /\ UNCHANGED <<tick, initial, controlQueue, age, last, level, halfway>>
  BY <1>0 DEF TurnSecond, Edge, taskVars
<1>3. /\ knob \in RotaryChannels /\ c \in RotaryChannels /\ OtherChannel(c) = knob
      /\ RotaryChannels = {knob, c} /\ knob \in Channels /\ c \in Channels /\ c # knob
  BY <1>0, <1>1, <1>2, OtherIsOther DEF EncoderTypeOK
<1>4. /\ tick \in 0..MaxTick /\ controlQueue \in Seq(Message)
      /\ \A d \in Channels : age[d] \in 0..Saturated
      /\ halfway \in 0..Skew /\ Skew \in Nat /\ Skew < DebounceTicks
      /\ MaxTick \in Nat /\ DebounceTicks \in Nat
  BY <1>1, DebounceAssumption, KnobAssumption DEF TypeOK, EncoderTypeOK
<1>5. /\ tick > DebounceTicks /\ c \notin pending /\ age[c] > DebounceTicks
      /\ age[c] + (Skew - halfway) <= MaxTick \/ (initial[c] = 0 /\ last[c] = 0)
      /\ knob \notin Signals /\ age[knob] = halfway
  BY <1>0, <1>1, <1>2 DEF HalfTurned, Left, Signals
<1>6. pending = {} /\ pending' = {c}
  BY <1>1, <1>2, <1>3, <1>5 DEF OnlyTheKnob
<1>7. Passes(c)
  <2>1. age[c] <= MaxTick \/ initial[c] = 0
    BY <1>3, <1>4, <1>5 DEF Saturated
  <2> QED
    BY <1>1, <1>3, <1>5, <2>1, HeardPasses
<1>8. Signals = {} /\ Signals' = {c}
  <2>1. Passes(c)'
    BY <1>2, <1>7 DEF Passes, Rebased
  <2> QED
    BY <1>6, <2>1 DEF Signals
<1>9. Line = controlQueue
  <2>1. Line = LineOf(controlQueue, {}, tick)
    BY <1>8 DEF Line
  <2> QED
    BY <2>1, NoSignals
<1> DEFINE m == [type |-> c, ticks |-> tick]
<1>10. Line' = Append(controlQueue, m)
  <2>1. Line' = LineOf(controlQueue, {c}, tick)
    BY <1>2, <1>8 DEF Line
  <2> QED
    BY <1>3, <2>1, OneSignal
<1>11. m \in Message /\ m.type = c /\ m.ticks = tick
  BY <1>3, <1>4 DEF Message
<1> HIDE DEF m
<1>12. age[knob] < DebounceTicks /\ age[knob] <= MaxTick
  BY <1>4, <1>5, DebounceAssumption
<1>13. ASSUME Nothing(Line, last, level, knob, intended) PROVE LevelInv'
  <2>1. controlQueue = << >> /\ level = intended /\ Waits(last, knob)
    BY <1>2, <1>9, <1>13 DEF Nothing
  <2>2. Dated(knob, last[knob])
    BY <1>1, <1>3, <2>1 DEF StampsExact, Waits
  <2>3. UnsignedMinus(tick, last[knob]) < DebounceTicks
    BY <1>12, <2>2 DEF Dated
  <2>4. Line' = <<m>> /\ Len(<<m>>) = 1 /\ <<m>>[1] = m
    BY <1>10, <2>1
  <2>5. SecondOnly(Line', last', level', knob', intended')
    BY <1>2, <1>3, <1>11, <2>1, <2>3, <2>4 DEF SecondOnly
  <2> QED
    BY <2>5 DEF LevelInv, LevelIn
<1>14. ASSUME FirstOnly(Line, last, level, knob, intended) PROVE LevelInv'
  <2> DEFINE f == controlQueue[1]
  <2>1. Len(controlQueue) = 1 /\ level = intended /\ Begins(last, f) /\ f.type = knob
    BY <1>2, <1>9, <1>14 DEF FirstOnly
  <2>2. Dated(f.type, f.ticks)
    BY <1>1, <2>1 DEF StampsExact
  <2>3. UnsignedMinus(tick, f.ticks) < DebounceTicks
    BY <1>12, <2>1, <2>2 DEF Dated
  <2>4. Len(Line') = 2 /\ Line'[1] = f /\ Line'[2] = m
    <3>1. /\ Len(Append(controlQueue, m)) = Len(controlQueue) + 1
          /\ Append(controlQueue, m)[Len(controlQueue) + 1] = m
          /\ \A i \in 1..Len(controlQueue) : Append(controlQueue, m)[i] = controlQueue[i]
      BY <1>4, <1>11
    <3> QED
      BY <1>10, <2>1, <3>1
  <2> HIDE DEF f
  <2>5. Both(Line', last', level', knob', intended')
    BY <1>0, <1>2, <1>3, <1>11, <2>1, <2>3, <2>4 DEF Both
  <2> QED
    BY <2>5 DEF LevelInv, LevelIn
<1>15. LevelInv'
  BY <1>1, <1>2, <1>13, <1>14 DEF LevelInv, LevelIn, SecondOnly, Both
<1>16. EncoderTypeOK'
  BY <1>1, <1>2 DEF EncoderTypeOK
<1>17. OnlyTheKnob'
  BY <1>1, <1>2, <1>3 DEF OnlyTheKnob
<1>18. StampsExact'
  BY <1>1, EdgeStampsExact DEF TurnSecond
<1>19. HalfTurned'
  BY <1>2 DEF HalfTurned
<1> QED
  BY <1>15, <1>16, <1>17, <1>18, <1>19 DEF EncoderInv

\* A bounce passes none of the tests.
LEMMA BounceEncoderInv ==
    ASSUME DebounceInv, EncoderInv, NEW c \in RotaryChannels, Bounce(c)
    PROVE  EncoderInv'
<1>1. /\ TypeOK
      /\ EncoderTypeOK /\ OnlyTheKnob /\ StampsExact /\ HalfTurned /\ LevelInv
  BY DEF DebounceInv, EncoderInv
<1>2. /\ age[c] <= BounceTicks
      /\ pending' = pending \cup {c}
      /\ UNCHANGED <<tick, initial, controlQueue, age, last, level, knob, halfway, intended>>
  BY DEF Bounce, Edge, taskVars, knobVars
<1>3. ~(age[c] > DebounceTicks)
  <2>1. age[c] \in Nat
    BY <1>1, OtherIsOther, DebounceAssumption DEF TypeOK, Saturated
  <2> QED
    BY <1>2, <2>1, KnobAssumption, DebounceAssumption
<1>4. Signals' = Signals
  <2>1. ~Passes(c)
    BY <1>3, PassesOld, OtherIsOther
  <2>2. \A d : Passes(d)' = Passes(d)
    BY <1>2 DEF Passes, Rebased
  <2> QED
    BY <1>2, <2>1, <2>2 DEF Signals
<1>5. Line' = Line
  BY <1>2, <1>4 DEF Line
<1>6. LevelInv'
  BY <1>1, <1>2, <1>5 DEF LevelInv
<1>7. EncoderTypeOK'
  BY <1>1, <1>2 DEF EncoderTypeOK
<1>8. OnlyTheKnob'
  BY <1>1, <1>2 DEF OnlyTheKnob
<1>9. StampsExact'
  BY <1>1, EdgeStampsExact DEF Bounce
<1>10. HalfTurned'
  <2> SUFFICES ASSUME knob # "None" PROVE OtherChannel(knob) \notin pending'
    BY <1>1, <1>2, <1>4 DEF HalfTurned, Left
  <2>1. OtherChannel(knob) \notin pending /\ age[OtherChannel(knob)] > DebounceTicks
    BY <1>1 DEF HalfTurned
  <2> QED
    BY <1>2, <1>3, <2>1
<1> QED
  BY <1>6, <1>7, <1>8, <1>9, <1>10 DEF EncoderInv

\* Decoding the first message on its way leaves the level to the rest.
LEMMA DecodeEncoderInv ==
    ASSUME DebounceInv, EncoderInv, DecodeMessage
    PROVE  EncoderInv'
<1> DEFINE m == Head(controlQueue)
           c == m.type
           d == OtherChannel(c)
<1>1. /\ TypeOK /\ StampsNonzero
      /\ EncoderTypeOK /\ OnlyTheKnob /\ StampsExact /\ HalfTurned /\ LevelInv
  BY DEF DebounceInv, EncoderInv
<1>2. /\ controlQueue # << >> /\ controlQueue' = Tail(controlQueue)
      /\ IF Turns(last, c, m.ticks)
         THEN last' = NoEdge /\ level' = Stepped(level, c)
         ELSE last' = KeepEdge(last, c, m.ticks) /\ level' = level
      /\ UNCHANGED <<tick, pending, initial, age, knob, halfway, intended>>
  BY DEF DecodeMessage, Receive, isrVars, knobVars
<1>3. /\ tick \in 0..MaxTick /\ controlQueue \in Seq(Message)
      /\ last \in [RotaryChannels -> 0..MaxTick]
      /\ MaxTick \in Nat /\ DebounceTicks \in Nat
  BY <1>1, DebounceAssumption DEF TypeOK, EncoderTypeOK
<1>4. /\ m = controlQueue[1] /\ 1 \in 1..Len(controlQueue)
      /\ Len(controlQueue') = Len(controlQueue) - 1 /\ Len(controlQueue) \in Nat
      /\ \A i \in 1..Len(controlQueue') :
             i + 1 \in 1..Len(controlQueue) /\ controlQueue'[i] = controlQueue[i + 1]
  BY <1>2, <1>3
<1>5. /\ m \in Message /\ m.ticks \in 0..MaxTick /\ m.ticks # 0
      /\ c \in RotaryChannels /\ Dated(c, m.ticks)
  <2>1. m \in Message
    BY <1>3, <1>4
  <2>2. m.ticks \in 0..MaxTick
    BY <2>1 DEF Message
  <2>3. m.ticks > DebounceTicks
    BY <1>1, <1>4 DEF StampsNonzero
  <2> QED
    BY <1>1, <1>3, <1>4, <2>1, <2>2, <2>3 DEF OnlyTheKnob, StampsExact
<1>6. d \in RotaryChannels /\ d # c /\ OtherChannel(d) = c /\ RotaryChannels = {c, d}
  BY <1>5, OtherIsOther
<1>7. Signals' = Signals
  BY <1>2 DEF Signals, Passes, Rebased
<1>8. Line # << >> /\ Line \in Seq(Message) /\ Line[1] = m /\ Line' = Tail(Line)
  <2>1. Line' = LineOf(Tail(controlQueue), Signals, tick)
    BY <1>2, <1>7 DEF Line
  <2>2. /\ Line \in Seq(Message) /\ Line # << >> /\ Head(Line) = Head(controlQueue)
        /\ Line' = Tail(Line)
    BY <1>2, <1>3, <2>1, LineTail DEF Line
  <2> QED
    BY <2>2
<1> HIDE DEF m, c, d
<1>9. last' = IF Turns(last, c, m.ticks) THEN NoEdge ELSE [NoEdge EXCEPT ![c] = m.ticks]
  <2>1. last[d] = 0 => KeepEdge(last, c, m.ticks) = [NoEdge EXCEPT ![c] = m.ticks]
    BY <1>3, <1>6 DEF KeepEdge, NoEdge, d
  <2>2. last[d] # 0 => KeepEdge(last, c, m.ticks) = [NoEdge EXCEPT ![c] = m.ticks]
    BY DEF KeepEdge, d
  <2> QED
    BY <1>2, <2>1, <2>2 DEF c, m
<1>10. /\ last' \in [RotaryChannels -> 0..MaxTick] /\ last'[d] = 0
       /\ last'[c] = 0 \/ last'[c] = m.ticks
  BY <1>3, <1>5, <1>6, <1>9 DEF NoEdge
<1>11. EncoderTypeOK'
  BY <1>1, <1>2, <1>10 DEF EncoderTypeOK
<1>12. OnlyTheKnob'
  BY <1>1, <1>2, <1>4 DEF OnlyTheKnob
<1>13. StampsExact'
  <2>1. \A e \in Channels : initial'[e] = 0 \/ Dated(e, initial[e])'
    BY <1>1, <1>2 DEF StampsExact, Dated
  <2>2. ASSUME NEW i \in 1..Len(controlQueue')
        PROVE  Dated(controlQueue[i].type, controlQueue[i].ticks)'
    <3>1. Dated(controlQueue[i + 1].type, controlQueue[i + 1].ticks)
      BY <1>1, <1>4 DEF StampsExact
    <3> QED
      BY <1>2, <1>4, <3>1 DEF Dated
  <2>3. ASSUME NEW e \in RotaryChannels
        PROVE  last'[e] = 0 \/ Dated(e, last[e])'
    BY <1>2, <1>5, <1>6, <1>10 DEF Dated
  <2> QED
    BY <2>1, <2>2, <2>3 DEF StampsExact
<1>14. HalfTurned'
  <2> SUFFICES ASSUME knob # "None", last[OtherChannel(knob)] = 0
               PROVE  last'[OtherChannel(knob)] = 0
    BY <1>1, <1>2, <1>7 DEF HalfTurned, Left
  <2>1. knob = c \/ knob = d
    BY <1>1, <1>6 DEF EncoderTypeOK
  <2>2. CASE knob = c
    BY <1>10, <2>2 DEF d
  \* the knob's own first message is the only one on its way
  <2>3. CASE knob = d
    <3>1. FirstOnly(Line, last, level, knob, intended)
      BY <1>1, <1>8 DEF LevelInv, LevelIn, Nothing, SecondOnly, Both
    <3> QED
      BY <1>6, <1>8, <2>3, <3>1 DEF FirstOnly, c
  <2> QED
    BY <2>1, <2>2, <2>3
<1>15. /\ Len(Line) = 1 => Line' = << >>
       /\ Len(Line) = 2 => Len(Line') = 1 /\ Line'[1] = Line[2]
  BY <1>8
<1>16. ASSUME Begins(last, m)
       PROVE  last'[c] = m.ticks /\ Waits(last', c) /\ level' = level
  <2>1. ~Turns(last, c, m.ticks)
    <3>1. last[d] = 0 \/ UnsignedMinus(m.ticks, last[d]) >= DebounceTicks
      BY <1>16 DEF Begins, c, d
    <3>2. last[d] # 0 => UnsignedMinus(m.ticks, last[d]) \in Int
      BY <1>3, <1>5, <1>6 DEF UnsignedMinus
    <3> QED
      BY <1>3, <3>1, <3>2 DEF Turns, d
  <2>2. last'[c] = m.ticks
    BY <1>3, <1>5, <1>6, <1>9, <2>1 DEF NoEdge
  <2> QED
    BY <1>2, <1>5, <1>10, <2>1, <2>2 DEF Waits, c, d, m
<1>17. LevelInv'
  <2>1. CASE FirstOnly(Line, last, level, knob, intended)
    <3>1. Line' = << >> /\ Begins(last, m) /\ level = intended /\ knob \in {c, "None"}
      BY <1>8, <1>15, <2>1 DEF FirstOnly, c
    <3>2. Nothing(Line', last', level', knob', intended')
      BY <1>2, <1>16, <3>1 DEF Nothing
    <3> QED
      BY <3>2 DEF LevelInv, LevelIn
  <2>2. CASE SecondOnly(Line, last, level, knob, intended)
    <3>1. /\ Line' = << >> /\ knob = "None" /\ intended = Stepped(level, c)
          /\ Turns(last, c, m.ticks)
      BY <1>8, <1>15, <2>2 DEF SecondOnly, Waits, Turns, c
    <3>2. Nothing(Line', last', level', knob', intended')
      BY <1>2, <3>1 DEF Nothing, c, m
    <3> QED
      BY <3>2 DEF LevelInv, LevelIn
  <2>3. CASE Both(Line, last, level, knob, intended)
    <3> DEFINE n == Line[2]
    <3>1. /\ Len(Line') = 1 /\ Line'[1] = n /\ Begins(last, m) /\ knob = "None"
          /\ intended = Stepped(level, n.type) /\ n.type = d
          /\ UnsignedMinus(n.ticks, m.ticks) < DebounceTicks
      BY <1>8, <1>15, <2>3 DEF Both, c, d
    <3> HIDE DEF n
    <3>2. SecondOnly(Line', last', level', knob', intended')
      BY <1>2, <1>6, <1>16, <3>1 DEF SecondOnly
    <3> QED
      BY <3>2 DEF LevelInv, LevelIn
  <2>4. ~Nothing(Line, last, level, knob, intended)
    BY <1>8 DEF Nothing
  <2> QED
    BY <1>1, <2>1, <2>2, <2>3, <2>4 DEF LevelInv, LevelIn
<1> QED
  BY <1>11, <1>12, <1>13, <1>14, <1>17 DEF EncoderInv

LEMMA InitEncoderInv == EncoderInit => DebounceInv /\ LineInv /\ EncoderInv
<1> SUFFICES ASSUME EncoderInit PROVE DebounceInv /\ LineInv /\ EncoderInv
  OBVIOUS
<1>1. DebounceInv /\ LineInv
  BY InitDebounceInv DEF EncoderInit, Init, LineInv, TakenInTime, OneEach
<1>2. /\ pending = {} /\ controlQueue = << >> /\ knob = "None" /\ level = intended
      /\ initial = [c \in Channels |-> 0] /\ last = NoEdge /\ halfway = 0
  BY DEF EncoderInit, Init
<1>3. Line = << >>
  <2>1. Signals = {}
    BY <1>2 DEF Signals
  <2>2. Line = LineOf(<< >>, {}, tick)
    BY <1>2, <2>1 DEF Line
  <2> QED
    BY <2>2, NoSignals
<1>4. LevelInv
  BY <1>2, <1>3 DEF LevelInv, LevelIn, Nothing
<1>5. EncoderTypeOK
  BY <1>2, KnobAssumption, DebounceAssumption DEF EncoderTypeOK, NoEdge
<1>6. OnlyTheKnob /\ StampsExact /\ HalfTurned
  BY <1>2 DEF OnlyTheKnob, StampsExact, HalfTurned, NoEdge
<1> QED
  BY <1>1, <1>4, <1>5, <1>6 DEF EncoderInv

LEMMA EncoderStep ==
    ASSUME KeepsUp
    PROVE  DebounceInv /\ LineInv /\ EncoderInv /\ [EncoderNext]_encoderVars
               => (DebounceInv /\ LineInv /\ EncoderInv)'
<1> SUFFICES ASSUME DebounceInv, LineInv, EncoderInv, [EncoderNext]_encoderVars
             PROVE  (DebounceInv /\ LineInv /\ EncoderInv)'
  OBVIOUS
\* what the knob's step is to the interrupts and the queue
<1>1. [Next]_vars
  BY OtherIsOther
  DEF EncoderNext, encoderVars, Start, EncoderInterrupt, DecodeMessage, EncoderTick,
      TurnFirst, Bounce, TurnSecond, GiveUp, Next, EncoderInv, EncoderTypeOK
<1>2. DebounceInv' /\ LineInv'
  BY <1>1, StepDebounceInv, LineStep
<1>3. ASSUME UNCHANGED encoderVars PROVE EncoderInv'
  BY <1>3
  DEF encoderVars, vars, taskVars, isrVars, knobVars, EncoderInv, EncoderTypeOK,
      OnlyTheKnob, StampsExact, Dated, HalfTurned, Left, LevelInv, Line, Signals,
      Passes, Rebased
<1>4. EncoderInv'
  BY <1>2, <1>3, StartEncoderInv, InterruptEncoderInv, DecodeEncoderInv, TickEncoderInv,
     TurnFirstEncoderInv, BounceEncoderInv, TurnSecondEncoderInv, GiveUpEncoderInv
  DEF EncoderNext
<1> QED
  BY <1>2, <1>4

\* A hand that turns slowly gets the level it asked for: no detent is lost,
\* counted twice or taken for the other direction, for every debounce interval,
\* width of the tick counter and set of levels, when the control task keeps up
\* with the panel.
THEOREM LevelAlwaysFollowsHand ==
    ASSUME KeepsUp
    PROVE  EncoderSpec => []LevelFollowsHand
<1>1. EncoderInv => LevelFollowsHand
  <2> SUFFICES ASSUME EncoderInv, knob = "None", pending = {}, controlQueue = << >>
               PROVE  level = intended
    BY DEF LevelFollowsHand
  <2>1. Signals = {}
    BY DEF Signals
  <2>2. Line = << >>
    <3>1. Line = LineOf(<< >>, {}, tick)
      BY <2>1 DEF Line
    <3> QED
      BY <3>1, NoSignals
  <2> QED
    BY <2>2 DEF EncoderInv, LevelInv, LevelIn, Nothing, FirstOnly, SecondOnly, Both
<1> QED
  BY <1>1, InitEncoderInv, EncoderStep, PTL DEF EncoderSpec
============================================================================
