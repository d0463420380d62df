------------------------------ MODULE Rotary ------------------------------
(***************************************************************************)
(* How taskControlProcessLoop (UserTasks.c) turns the edges of the rotary  *)
(* encoder's two channels into steps of the power level.  The unsigned     *)
(* arithmetic is that of uint32_t, whose largest value is MaxTick.         *)
(***************************************************************************)
EXTENDS Integers

CONSTANTS
    DebounceTicks,  \* DEBOUNCE_TICKS (200)
    MaxTick,        \* the largest uint32_t and TickType_t
    MinLevel,       \* the clamp's bounds (5 and 100) and the size of a
    MaxLevel,       \* step (5)
    LevelStep

ASSUME LevelAssumption ==
    /\ MinLevel \in Nat /\ MaxLevel \in Nat /\ LevelStep \in Nat \ {0}
    /\ LevelStep <= MinLevel /\ MinLevel <= MaxLevel

RotaryChannels == {"ChannelA", "ChannelB"}

OtherChannel(c) == IF c = "ChannelA" THEN "ChannelB" ELSE "ChannelA"

\* a - b in uint32_t
UnsignedMinus(a, b) == IF a >= b THEN a - b ELSE a - b + MaxTick + 1

\* clampUInt32
Clamp(x, low, high) == IF x < low THEN low ELSE IF x > high THEN high ELSE x

---------------------------------------------------------------------------
\* last is the pair lastTimeChannelA, lastTimeChannelB; 0 is "no edge seen".
NoEdge == [c \in RotaryChannels |-> 0]

\* Fault: however long ago the other channel's edge was.
TurnsWhenever(last, c, ticks) == last[OtherChannel(c)] # 0

\* The edge completes a step: the other channel's edge is recent.
Turns(last, c, ticks) ==
    /\ last[OtherChannel(c)] # 0
    /\ UnsignedMinus(ticks, last[OtherChannel(c)]) < DebounceTicks

\* An edge that completes no step waits for its partner, and an edge of the
\* other channel that waited too long is dropped.
KeepEdge(last, c, ticks) ==
    IF last[OtherChannel(c)] = 0
    THEN [last EXCEPT ![c] = ticks]
    ELSE [NoEdge EXCEPT ![c] = ticks]

\* Channel A last is one step down, channel B last one step up.
Stepped(level, c) ==
    Clamp(IF c = "ChannelA" THEN UnsignedMinus(level, LevelStep)
                            ELSE level + LevelStep,
          MinLevel, MaxLevel)
===========================================================================
