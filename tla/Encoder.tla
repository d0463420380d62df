------------------------------ MODULE Encoder ------------------------------
(***************************************************************************)
(* A turning knob, the debounced interrupts of Debounce and the decoding   *)
(* of Rotary, together: does the level follow the hand?                    *)
(*                                                                         *)
(* One detent closes both contacts, one shortly after the other: channel A *)
(* first when the level is to go up, channel B first when it is to go      *)
(* down.  A contact bounces for a while, and the hand may give up half-way *)
(* through a detent.                                                       *)
(***************************************************************************)
EXTENDS Debounce

CONSTANTS
    MinLevel, MaxLevel, LevelStep,
    Skew,           \* the longest time between the two edges of a detent
    BounceTicks     \* how long a contact bounces

INSTANCE Rotary

ASSUME KnobAssumption ==
    /\ Skew \in Nat /\ Skew < DebounceTicks
    /\ BounceTicks \in Nat /\ BounceTicks <= DebounceTicks

VARIABLES
    last,       \* lastTimeChannelA and lastTimeChannelB
    level,      \* powerLevel of the control task
    knob,       \* the detent being turned: first channel closed, or "None"
    halfway,    \* ticks since the knob's first contact closed
    intended    \* the level the hand has asked for

knobVars    == <<knob, halfway, intended>>
encoderVars == <<vars, last, level, knobVars>>

EncoderInit ==
    /\ Init
    /\ last = NoEdge
    /\ level \in {l \in MinLevel..MaxLevel : l % LevelStep = 0}
    /\ knob = "None"
    /\ halfway = 0
    /\ intended = level

---------------------------------------------------------------------------
\* The hand turns slowly: both channels have been quiet for longer than the
\* debounce interval, and what the callbacks and the task remember of them is
\* less than a whole turn of the tick counter (49.7 days) old.  The first
\* interval after a start or a wrap of the counter hears nothing.
Heard(c) ==
    /\ age[c] > DebounceTicks
    /\ age[c] + Skew <= MaxTick \/ (initial[c] = 0 /\ last[c] = 0)

TurnFirst(c) ==
    /\ phase = "running" /\ knob = "None"
    /\ tick > DebounceTicks /\ tick + Skew <= MaxTick
    /\ \A d \in RotaryChannels : Heard(d) /\ d \notin pending
    /\ Edge(c)
    /\ knob' = c
    /\ halfway' = 0
    /\ UNCHANGED <<last, level, intended>>

TurnSecond ==
    /\ knob # "None" /\ knob \notin pending
    /\ Edge(OtherChannel(knob))
    /\ intended' = Stepped(intended, OtherChannel(knob))
    /\ knob' = "None"
    /\ UNCHANGED <<last, level, halfway>>

GiveUp ==
    /\ knob # "None"
    /\ knob' = "None"
    /\ UNCHANGED <<vars, last, level, halfway, intended>>

Bounce(c) ==
    /\ age[c] <= BounceTicks
    /\ Edge(c)
    /\ UNCHANGED <<last, level, knobVars>>

---------------------------------------------------------------------------
\* The part of the control task's loop that decides the level.
DecodeMessage ==
    /\ Receive
    /\ LET m == Head(controlQueue)
       IN  IF Turns(last, m.type, m.ticks)
           THEN last' = NoEdge /\ level' = Stepped(level, m.type)
           ELSE last' = KeepEdge(last, m.type, m.ticks) /\ UNCHANGED level
    /\ UNCHANGED knobVars

\* The external interrupt has a higher priority than SysTick, and the second
\* contact closes within Skew of the first.
EncoderTick ==
    /\ TickInterrupt
    /\ pending = {}
    /\ IF knob = "None" THEN UNCHANGED halfway
                        ELSE halfway < Skew /\ halfway' = halfway + 1
    /\ UNCHANGED <<last, level, knob, intended>>

EncoderInterrupt ==
    /\ EicHandler
    /\ UNCHANGED <<last, level, knobVars>>

Start ==
    /\ CreateQueues \/ StartScheduler
    /\ UNCHANGED <<last, level, knobVars>>

EncoderNext ==
    \/ Start \/ EncoderInterrupt \/ DecodeMessage \/ EncoderTick
    \/ \E c \in RotaryChannels : TurnFirst(c) \/ Bounce(c)
    \/ TurnSecond \/ GiveUp

EncoderSpec == EncoderInit /\ [][EncoderNext]_encoderVars

---------------------------------------------------------------------------
\* A hand that turns slowly enough gets, once the messages are handled, the
\* level it asked for: no detent is lost, counted twice or taken for the
\* other direction, whatever bounces, half-turned detents and wraps of the
\* tick counter came before.
LevelFollowsHand ==
    (knob = "None" /\ pending = {} /\ controlQueue = << >>) => level = intended
===========================================================================
