------------------------------ MODULE SsrPwm ------------------------------
(***************************************************************************)
(* The burst-fire drive of the heater: callbackZeroCross (main.c), called  *)
(* by the external interrupt of the mains zero-cross detector, switches    *)
(* the solid-state relay for whole half-waves out of a window of Modulo.   *)
(* The control task stores g_appData.powerOn and g_appData.powerPercent    *)
(* between any two interrupts.  An interrupt handler runs to its end       *)
(* before a task runs again, so the callback is one action.                *)
(***************************************************************************)
EXTENDS Integers

CONSTANTS
    Modulo,     \* SSR_PWM_MODULO, half-waves in a window (40)
    Percents,   \* the levels the control task stores in powerPercent
    CountWrap   \* zeroCrossCount counts modulo this (2^32)

ASSUME ModuloAssumption == Modulo \in Nat \ {0}
ASSUME PercentsAssumption == Percents \subseteq 1..100
ASSUME CountWrapAssumption == CountWrap \in Nat \ {0}

VARIABLES
    powerOn,        \* g_appData.powerOn
    powerPercent,   \* g_appData.powerPercent
    zeroCrossCount, \* g_appData.zeroCrossCount
    moduloCounter,  \* s_moduloCounter
    ssrOn,          \* s_ssrOn
    ssrPin          \* level of CONF_BOARD_SSR_OUT: TRUE is high, relay off

settings == <<powerOn, powerPercent>>
relay    == <<ssrOn, ssrPin>>
vars     == <<settings, zeroCrossCount, moduloCounter, relay>>

\* The relay's output is active low.
Driven == ~ssrPin

---------------------------------------------------------------------------
\* main: the pin is driven high before the interrupt is enabled, g_appData
\* is cleared, and the callback's static variables start at zero.  Making the
\* pin an output (main.c:136) and setting it high (main.c:137) are one step:
\* the two or three instructions between them are left out.
Init ==
    /\ powerOn = FALSE
    /\ powerPercent = 0
    /\ zeroCrossCount = 0
    /\ moduloCounter = 0
    /\ ssrOn = FALSE
    /\ ssrPin = TRUE

\* Fault: the counter stops at the end of the window.
CountSticks == IF moduloCounter < Modulo - 1 THEN moduloCounter + 1 ELSE moduloCounter

NextCount == (moduloCounter + 1) % Modulo

\* Faults: the comparison takes a half-wave more, or one less.
PastDutyLate(k) == powerPercent * Modulo < (k - 1) * 100
PastDutyEarly(k) == powerPercent * Modulo <= k * 100

\* powerPercent * SSR_PWM_MODULO < s_moduloCounter * 100
PastDuty(k) == powerPercent * Modulo < k * 100

SwitchOn ==
    /\ ssrPin' = IF ssrOn THEN ssrPin ELSE FALSE
    /\ ssrOn' = TRUE

SwitchOff ==
    /\ ssrPin' = IF ssrOn THEN TRUE ELSE ssrPin
    /\ ssrOn' = FALSE

\* Fault: the relay closes wherever the duty allows it.
ZeroCrossRecloses ==
    /\ zeroCrossCount' = (zeroCrossCount + 1) % CountWrap
    /\ moduloCounter' = NextCount
    /\ IF powerOn /\ ~PastDuty(NextCount) THEN SwitchOn ELSE SwitchOff
    /\ UNCHANGED settings

\* Fault: the switch is looked at only where the relay may close.
ZeroCrossMissesOff ==
    /\ zeroCrossCount' = (zeroCrossCount + 1) % CountWrap
    /\ moduloCounter' = NextCount
    /\ \/ powerOn /\ NextCount = 0 /\ SwitchOn
       \/ NextCount # 0 /\ PastDuty(NextCount) /\ SwitchOff
       \/ (NextCount = 0 => ~powerOn) /\ (NextCount # 0 => ~PastDuty(NextCount))
              /\ UNCHANGED relay
    /\ UNCHANGED settings

ZeroCross ==
    /\ zeroCrossCount' = (zeroCrossCount + 1) % CountWrap
    /\ moduloCounter' = NextCount
    /\ \/ ~powerOn /\ SwitchOff
       \/ powerOn /\ NextCount = 0 /\ SwitchOn
       \/ powerOn /\ NextCount # 0 /\ PastDuty(NextCount) /\ SwitchOff
       \/ powerOn /\ NextCount # 0 /\ ~PastDuty(NextCount) /\ UNCHANGED relay
    /\ UNCHANGED settings

\* The control task's stores.  It stores a level before it first turns the
\* power on (ControlTask!PoweredHasLevel).
StorePowerOn ==
    /\ \E b \in BOOLEAN : (b => powerPercent \in Percents) /\ powerOn' = b
    /\ UNCHANGED <<powerPercent, zeroCrossCount, moduloCounter, relay>>

StorePowerPercent ==
    /\ \E p \in Percents : powerPercent' = p
    /\ UNCHANGED <<powerOn, zeroCrossCount, moduloCounter, relay>>

\* Fault: the pin is not driven high at the start.
PowerFailureKeepsPin ==
    /\ powerOn' = FALSE
    /\ powerPercent' = 0
    /\ zeroCrossCount' = 0
    /\ moduloCounter' = 0
    /\ ssrOn' = FALSE
    /\ UNCHANGED ssrPin

\* The supply fails: everything starts over, the pin's pull-up included.
PowerFailure ==
    /\ powerOn' = FALSE
    /\ powerPercent' = 0
    /\ zeroCrossCount' = 0
    /\ moduloCounter' = 0
    /\ ssrOn' = FALSE
    /\ ssrPin' = TRUE

Next == ZeroCross \/ StorePowerOn \/ StorePowerPercent \/ PowerFailure

\* The mains keeps crossing zero; the task may or may not store anything, and
\* the supply may or may not fail.
Spec == Init /\ [][Next]_vars /\ WF_vars(ZeroCross)

---------------------------------------------------------------------------
TypeOK ==
    /\ powerOn \in BOOLEAN
    /\ powerPercent \in Percents \cup {0}
    /\ zeroCrossCount \in 0..(CountWrap - 1)
    /\ moduloCounter \in 0..(Modulo - 1)
    /\ ssrOn \in BOOLEAN
    /\ ssrPin \in BOOLEAN

\* s_ssrOn, by which callbackZeroCross decides whether the pin needs a write,
\* never disagrees with the pin: otherwise a skipped write would leave the
\* heater driven with the power off.
PinFollowsFlag == Driven <=> ssrOn

\* The relay closes only at the start of a window and opens at most once in
\* it: turning the level up, or the power off and on, in the middle of a
\* window must not close it again (callbackZeroCross switches on at
\* s_moduloCounter == 0 only).
ClosesAtWindowStart == [][(~Driven /\ Driven') => moduloCounter' = 0]_vars

\* Power that stays on drives the heater in every later window.
OnDrives == <>[]powerOn => []<>Driven
===========================================================================
