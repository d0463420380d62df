--------------------------- MODULE SsrDutyProofs ---------------------------
(***************************************************************************)
(* Proofs about the burst-fire drive, for every window length, every set   *)
(* of levels and every width of zeroCrossCount.                            *)
(*                                                                         *)
(* The inductive invariant is DutyInv.  It adds to the properties that the *)
(* half-waves driven lie in the part of the window already gone by, that a *)
(* heater still driven was driven all through it, and that on a steady     *)
(* level the relay stands as the duty of the last half-wave has it.        *)
(***************************************************************************)
EXTENDS SsrDuty, FiniteSetTheorems, TLAPS

\* Half-wave k is within the duty of the level stored now.
WithinDuty(k) == k = 0 \/ powerPercent * Modulo >= k * 100

\* What is driven has gone by, and a heater still driven never paused.
BurstSoFar ==
    /\ drivenAt \subseteq 0..moduloCounter
    /\ Driven => 0..moduloCounter \subseteq drivenAt

\* On steady settings the relay stands as the level asks.
SteadyRelay == steady => (Driven <=> powerOn /\ WithinDuty(moduloCounter))

DutyInv ==
    /\ DutyTypeOK
    /\ PinFollowsFlag
    /\ DriveJustified
    /\ BurstSoFar
    /\ OneBurst
    /\ SteadyRelay
    /\ SteadyDuty

---------------------------------------------------------------------------
\* A window's counter moves up by one or starts over (NextCount, the
\* increment and comparison at the head of callbackZeroCross).
LEMMA NextCountLemma ==
    ASSUME moduloCounter \in 0..(Modulo - 1)
    PROVE  /\ NextCount \in 0..(Modulo - 1)
           /\ NextCount = 0 \/ NextCount = moduloCounter + 1
<1>1. CASE moduloCounter + 1 = Modulo
  BY <1>1, ModuloAssumption DEF NextCount
<1>2. CASE moduloCounter + 1 < Modulo
  BY <1>2, ModuloAssumption DEF NextCount
<1> QED
  BY <1>1, <1>2, ModuloAssumption

\* The product the callback compares is a number.
LEMMA ProductLemma ==
    ASSUME powerPercent \in Percents \cup {0}
    PROVE  powerPercent \in 0..100 /\ powerPercent * Modulo \in Nat
<1>1. powerPercent \in 0..100
  BY PercentsAssumption
<1> QED
  BY <1>1, ModuloAssumption

---------------------------------------------------------------------------
\* Zero counts both the half-waves and the crossings.
LEMMA ZeroCounts == 0 \in 0..(Modulo - 1) /\ 0 \in 0..(CountWrap - 1)
BY ModuloAssumption, CountWrapAssumption

\* The initial states are typed.
LEMMA InitTypeOK == DutyInit => DutyTypeOK
<1> SUFFICES ASSUME DutyInit PROVE DutyTypeOK
  OBVIOUS
<1>1. TypeOK
  BY ZeroCounts DEF DutyInit, Init, TypeOK
<1>2. sampled \in [on : BOOLEAN, percent : Percents \cup {0}]
  BY DEF DutyInit
<1> QED
  BY <1>1, <1>2 DEF DutyInit, DutyTypeOK

\* Every step keeps the types.
LEMMA StepTypeOK == DutyTypeOK /\ [DutyNext]_dutyVars => DutyTypeOK'
<1> SUFFICES ASSUME DutyTypeOK, [DutyNext]_dutyVars
             PROVE  DutyTypeOK'
  OBVIOUS
<1> USE DEF DutyTypeOK, TypeOK
<1>1. CASE ZeroCross /\ Observe
  <2>1. NextCount \in 0..(Modulo - 1)
    BY NextCountLemma
  <2>2. moduloCounter' = NextCount
    BY <1>1 DEF ZeroCross
  <2>3. zeroCrossCount' \in 0..(CountWrap - 1)
    BY <1>1, CountWrapAssumption DEF ZeroCross
  <2>4. ssrOn' \in BOOLEAN /\ ssrPin' \in BOOLEAN
    BY <1>1 DEF ZeroCross, SwitchOn, SwitchOff, relay
  <2>5. drivenAt' \subseteq 0..(Modulo - 1)
    BY <1>1, <2>1 DEF Observe
  <2> QED
    BY <1>1, <2>1, <2>2, <2>3, <2>4, <2>5 DEF ZeroCross, Observe, settings
<1>2. CASE (StorePowerOn \/ StorePowerPercent) /\ Disturb
  BY <1>2 DEF StorePowerOn, StorePowerPercent, Disturb, relay
<1>3. CASE PowerFailure /\ Forget
  BY <1>3, ZeroCounts DEF PowerFailure, Forget
<1>4. CASE UNCHANGED dutyVars
  BY <1>4 DEF dutyVars, vars, settings, relay
<1> QED
  BY <1>1, <1>2, <1>3, <1>4 DEF DutyNext

\* Type correctness of the drive's state and of the window watched in it.
THEOREM TypeCorrect == DutySpec => []DutyTypeOK
BY InitTypeOK, StepTypeOK, PTL DEF DutySpec

---------------------------------------------------------------------------
\* DutyInv holds at the start: nothing is driven and nothing was.
LEMMA InitDutyInv == DutyInit => DutyInv
<1> SUFFICES ASSUME DutyInit PROVE DutyInv
  OBVIOUS
<1>1. DutyTypeOK
  BY InitTypeOK
<1>2. ~Driven /\ ~ssrOn /\ drivenAt = {} /\ ~steady
  BY DEF DutyInit, Init, Driven
<1> QED
  BY <1>1, <1>2
     DEF DutyInv, PinFollowsFlag, DriveJustified, BurstSoFar, OneBurst,
         SteadyRelay, SteadyDuty

\* What one crossing does to the relay, whichever branch callbackZeroCross
\* takes, provided the flag tells the truth about the pin.
LEMMA CrossingLemma ==
    ASSUME DutyTypeOK, PinFollowsFlag, ZeroCross, Observe
    PROVE  /\ moduloCounter' = NextCount
           /\ UNCHANGED settings
           /\ PinFollowsFlag'
           /\ NextCount = 0 => (Driven' <=> powerOn)
           /\ NextCount # 0 =>
                  (Driven' <=> Driven /\ powerOn /\ WithinDuty(NextCount))
<1> USE DEF DutyTypeOK, TypeOK, PinFollowsFlag, Driven
<1>1. NextCount \in Nat /\ powerPercent * Modulo \in Nat
  BY NextCountLemma, ProductLemma, ModuloAssumption
<1>2. NextCount # 0 => (PastDuty(NextCount) <=> ~WithinDuty(NextCount))
  BY <1>1 DEF PastDuty, WithinDuty
<1>3. moduloCounter' = NextCount /\ UNCHANGED settings
  BY DEF ZeroCross
<1>4. CASE ~powerOn
  <2>1. SwitchOff
    BY <1>4 DEF ZeroCross
  <2> QED
    BY <1>3, <1>4, <2>1 DEF SwitchOff
<1>5. CASE powerOn /\ NextCount = 0
  <2>1. SwitchOn
    BY <1>5 DEF ZeroCross
  <2> QED
    BY <1>3, <1>5, <2>1 DEF SwitchOn
<1>6. CASE powerOn /\ NextCount # 0 /\ PastDuty(NextCount)
  <2>1. SwitchOff
    BY <1>6 DEF ZeroCross
  <2> QED
    BY <1>2, <1>3, <1>6, <2>1 DEF SwitchOff
<1>7. CASE powerOn /\ NextCount # 0 /\ ~PastDuty(NextCount)
  <2>1. UNCHANGED relay
    BY <1>7 DEF ZeroCross
  <2> QED
    BY <1>2, <1>3, <1>7, <2>1 DEF relay
<1> QED
  BY <1>4, <1>5, <1>6, <1>7

\* A crossing keeps DutyInv.
LEMMA CrossingDutyInv ==
    ASSUME DutyInv, DutyTypeOK', ZeroCross, Observe
    PROVE  DutyInv'
<1> DEFINE n == NextCount
           seen == IF n = 0 THEN {} ELSE drivenAt
<1>1. DutyTypeOK /\ PinFollowsFlag
  BY DEF DutyInv
<1>2. /\ moduloCounter' = n
      /\ powerOn' = powerOn /\ powerPercent' = powerPercent
      /\ PinFollowsFlag'
      /\ n = 0 => (Driven' <=> powerOn)
      /\ n # 0 => (Driven' <=> Driven /\ powerOn /\ WithinDuty(n))
  BY <1>1, CrossingLemma DEF settings
<1>3. /\ moduloCounter \in Nat /\ n \in Nat
      /\ n = 0 \/ n = moduloCounter + 1
  BY <1>1, NextCountLemma, ModuloAssumption DEF DutyTypeOK, TypeOK
<1>4. powerPercent \in 0..100 /\ powerPercent * Modulo \in Nat
  BY <1>1, ProductLemma DEF DutyTypeOK, TypeOK
<1>5. /\ drivenAt' = IF Driven' THEN seen \cup {n} ELSE seen
      /\ steady' = (steady \/ n = 0)
      /\ sampled' = [on |-> powerOn, percent |-> powerPercent]
  BY DEF Observe
<1>6. WithinDuty(moduloCounter)' <=> WithinDuty(n)
  BY <1>2, ModuloAssumption DEF WithinDuty
<1> HIDE DEF n
<1>7. DriveJustified'
  BY <1>2, <1>4, <1>5 DEF DriveJustified, WithinDuty
<1>8. BurstSoFar'
  <2>1. CASE n = 0
    BY <2>1, <1>2, <1>3, <1>5 DEF BurstSoFar
  <2>2. CASE n # 0
    <3>1. n = moduloCounter + 1 /\ seen = drivenAt
      BY <2>2, <1>3
    <3>2. drivenAt \subseteq 0..moduloCounter
          /\ (Driven => 0..moduloCounter \subseteq drivenAt)
      BY DEF DutyInv, BurstSoFar
    <3>3. 0..n = 0..moduloCounter \cup {n}
      BY <3>1, <1>3
    <3>4. drivenAt' \subseteq 0..n
      BY <3>1, <3>2, <3>3, <1>5
    <3>5. Driven' => 0..n \subseteq drivenAt'
      BY <2>2, <3>1, <3>2, <3>3, <1>2, <1>5
    <3> QED
      BY <3>4, <3>5, <1>2 DEF BurstSoFar
  <2> QED
    BY <2>1, <2>2
<1>9. OneBurst'
  <2> SUFFICES ASSUME NEW k \in drivenAt' PROVE 0..k \subseteq drivenAt'
    BY DEF OneBurst
  <2>1. CASE k \in seen
    BY <2>1, <1>5 DEF DutyInv, OneBurst
  <2>2. CASE k \notin seen
    <3>1. Driven' /\ k = n
      BY <2>2, <1>5
    <3> QED
      BY <3>1, <1>2, <1>8 DEF BurstSoFar
  <2> QED
    BY <2>1, <2>2
<1>10. SteadyRelay'
  <2> SUFFICES ASSUME steady'
               PROVE  Driven' <=> powerOn /\ WithinDuty(n)
    BY <1>2, <1>6 DEF SteadyRelay
  <2>1. CASE n = 0
    BY <2>1, <1>2 DEF WithinDuty
  <2>2. CASE n # 0
    <3>1. n = moduloCounter + 1 /\ steady
      BY <2>2, <1>3, <1>5
    <3>2. Driven <=> powerOn /\ WithinDuty(moduloCounter)
      BY <3>1 DEF DutyInv, SteadyRelay
    <3>3. WithinDuty(n) => WithinDuty(moduloCounter)
      BY <2>2, <3>1, <1>3, <1>4 DEF WithinDuty
    <3> QED
      BY <2>2, <3>2, <3>3, <1>2
  <2> QED
    BY <2>1, <2>2
<1>11. SteadyDuty'
  <2> SUFFICES ASSUME steady'
               PROVE  drivenAt' = IF powerOn THEN Duty' ELSE {}
    BY <1>2 DEF SteadyDuty
  <2>1. Driven' <=> powerOn /\ WithinDuty(n)
    BY <1>2, <1>6, <1>10 DEF SteadyRelay
  <2>2. Duty' = {k \in 0..n : k = 0 \/ powerPercent * Modulo >= k * 100}
    BY <1>2 DEF Duty
  <2>3. CASE n = 0
    <3>1. Duty' = {0}
      BY <2>2, <2>3
    <3> QED
      BY <2>3, <3>1, <1>2, <1>5
  <2>4. CASE n # 0 /\ ~powerOn
    BY <2>4, <1>2, <1>5 DEF DutyInv, SteadyDuty
  <2>5. CASE n # 0 /\ powerOn
    <3>1. n = moduloCounter + 1 /\ steady /\ seen = drivenAt
      BY <2>5, <1>3, <1>5
    <3>2. drivenAt = Duty
      BY <2>5, <3>1 DEF DutyInv, SteadyDuty
    <3>3. 0..n = 0..moduloCounter \cup {n}
      BY <3>1, <1>3
    <3>4. Duty' = IF WithinDuty(n) THEN Duty \cup {n} ELSE Duty
      BY <2>2, <3>3 DEF Duty, WithinDuty
    <3> QED
      BY <2>1, <2>5, <3>1, <3>2, <3>4, <1>5
  <2> QED
    BY <2>3, <2>4, <2>5
<1> QED
  BY <1>2, <1>7, <1>8, <1>9, <1>10, <1>11 DEF DutyInv

\* So does every other step: a store ends the steadiness it would disturb.
LEMMA StepDutyInv == DutyInv /\ [DutyNext]_dutyVars => DutyInv'
<1> SUFFICES ASSUME DutyInv, [DutyNext]_dutyVars
             PROVE  DutyInv'
  OBVIOUS
<1>1. DutyTypeOK'
  BY StepTypeOK DEF DutyInv
<1>2. CASE ZeroCross /\ Observe
  BY <1>1, <1>2, CrossingDutyInv
<1>3. CASE (StorePowerOn \/ StorePowerPercent) /\ Disturb
  <2>1. UNCHANGED <<moduloCounter, ssrOn, ssrPin, drivenAt, sampled>>
    BY <1>3 DEF StorePowerOn, StorePowerPercent, Disturb, relay
  <2>2. steady' => steady /\ powerOn' = powerOn /\ powerPercent' = powerPercent
    BY <1>3 DEF Disturb, settings
  <2>3. PinFollowsFlag' /\ DriveJustified' /\ BurstSoFar' /\ OneBurst'
    BY <2>1 DEF DutyInv, PinFollowsFlag, DriveJustified, BurstSoFar,
                OneBurst, Driven
  <2>4. SteadyRelay' /\ SteadyDuty'
    BY <2>1, <2>2 DEF DutyInv, SteadyRelay, SteadyDuty, WithinDuty, Duty, Driven
  <2> QED
    BY <1>1, <2>3, <2>4 DEF DutyInv
<1>4. CASE PowerFailure /\ Forget
  <2>1. ~Driven' /\ ~ssrOn' /\ drivenAt' = {} /\ ~steady'
    BY <1>4 DEF PowerFailure, Forget, Driven
  <2> QED
    BY <1>1, <2>1
       DEF DutyInv, PinFollowsFlag, DriveJustified, BurstSoFar, OneBurst,
           SteadyRelay, SteadyDuty
<1>5. CASE UNCHANGED dutyVars
  <2>1. UNCHANGED <<powerOn, powerPercent, moduloCounter, ssrOn, ssrPin,
                    drivenAt, steady, sampled>>
    BY <1>5 DEF dutyVars, vars, settings, relay
  <2> QED
    BY <1>1, <2>1
       DEF DutyInv, PinFollowsFlag, DriveJustified, BurstSoFar, OneBurst,
           SteadyRelay, SteadyDuty, WithinDuty, Duty, Driven
<1> QED
  BY <1>2, <1>3, <1>4, <1>5 DEF DutyNext

\* DutyInv is an invariant.
LEMMA DutyInvariant == DutySpec => []DutyInv
BY InitDutyInv, StepDutyInv, PTL DEF DutySpec

---------------------------------------------------------------------------
\* The flag s_ssrOn, by which callbackZeroCross decides whether to write the
\* pin, and the pin never disagree.
THEOREM PinAlwaysFollowsFlag == DutySpec => []PinFollowsFlag
<1>1. DutyInv => PinFollowsFlag
  BY DEF DutyInv
<1> QED
  BY <1>1, DutyInvariant, PTL

\* The heater is driven only on settings the last crossing found to ask for
\* it, however the control task's stores interleave with the crossings.
THEOREM DriveAlwaysJustified == DutySpec => []DriveJustified
<1>1. DutyInv => DriveJustified
  BY DEF DutyInv
<1> QED
  BY <1>1, DutyInvariant, PTL

\* The half-waves driven in a window are one burst from its first one on.
THEOREM AlwaysOneBurst == DutySpec => []OneBurst
<1>1. DutyInv => OneBurst
  BY DEF DutyInv
<1> QED
  BY <1>1, DutyInvariant, PTL

\* On settings left alone a window is driven for exactly its level's duty.
THEOREM SteadyAlwaysDuty == DutySpec => []SteadyDuty
<1>1. DutyInv => SteadyDuty
  BY DEF DutyInv
<1> QED
  BY <1>1, DutyInvariant, PTL

\* The relay closes only where a window starts (the branch at
\* s_moduloCounter == 0 is the only one that drives the pin low).
THEOREM AlwaysClosesAtWindowStart == DutySpec => ClosesAtWindowStart
<1>1. DutyInv /\ [DutyNext]_dutyVars
         => [(~Driven /\ Driven') => moduloCounter' = 0]_vars
  <2> SUFFICES ASSUME DutyInv, [DutyNext]_dutyVars, ~Driven, Driven'
               PROVE  moduloCounter' = 0
    OBVIOUS
  <2>1. ZeroCross /\ Observe
    BY DEF DutyNext, StorePowerOn, StorePowerPercent, PowerFailure, Driven,
           relay, dutyVars, vars
  <2> QED
    BY <2>1, CrossingLemma DEF DutyInv
<1> QED
  BY <1>1, DutyInvariant, PTL DEF DutySpec, ClosesAtWindowStart

\* The duty of a whole window is an interval of half-waves: all of them at
\* the level 100, else as many as the product allows and the first.
LEMMA DutyIsInterval ==
    ASSUME DutyTypeOK, moduloCounter = Modulo - 1
    PROVE  Duty = 0..(IF powerPercent = 100 THEN Modulo - 1
                                            ELSE (powerPercent * Modulo) \div 100)
<1> DEFINE product == powerPercent * Modulo
           q == product \div 100
<1>1. powerPercent \in 0..100 /\ product \in Nat /\ Modulo \in Nat \ {0}
  BY ProductLemma, ModuloAssumption DEF DutyTypeOK, TypeOK
<1>2. Duty = {k \in 0..(Modulo - 1) : k = 0 \/ product >= k * 100}
  BY DEF Duty
<1>3. CASE powerPercent = 100
  <2>1. product = 100 * Modulo
    BY <1>3
  <2>2. \A k \in 0..(Modulo - 1) : product >= k * 100
    BY <1>1, <2>1
  <2> QED
    BY <1>2, <1>3, <2>2
<1>4. CASE powerPercent # 100
  <2>1. product <= 99 * Modulo
    <3>1. powerPercent <= 99
      BY <1>1, <1>4
    <3> QED
      BY <1>1, <3>1, Z3
  <2> HIDE DEF product
  <2>2. q \in Nat /\ 100 * q <= product /\ product < 100 * q + 100
    BY <1>1
  <2> HIDE DEF q
  <2>3. q <= Modulo - 1
    BY <1>1, <2>1, <2>2
  <2>4. \A k \in 0..(Modulo - 1) : (k = 0 \/ product >= k * 100) <=> k <= q
    BY <1>1, <2>2
  <2>5. Duty = 0..q
    BY <1>1, <1>2, <2>2, <2>3, <2>4
  <2> QED
    BY <1>4, <2>5 DEF q, product
<1> QED
  BY <1>3, <1>4

\* The length of the burst in a whole window: the level's share of the
\* window rounded down, and one half-wave more.
THEOREM AlwaysWindowLength == DutySpec => []WindowLength
<1>1. DutyInv => WindowLength
  <2> SUFFICES ASSUME DutyInv, steady, powerOn, moduloCounter = Modulo - 1
               PROVE  Cardinality(drivenAt) =
                          IF powerPercent = 100 THEN Modulo
                          ELSE (powerPercent * Modulo) \div 100 + 1
    BY DEF WindowLength
  <2> DEFINE q == IF powerPercent = 100 THEN Modulo - 1
                                        ELSE (powerPercent * Modulo) \div 100
  <2>1. drivenAt = 0..q
    BY DutyIsInterval DEF DutyInv, SteadyDuty
  <2>2. q \in Nat /\ Modulo \in Nat
    BY ProductLemma, ModuloAssumption DEF DutyInv, DutyTypeOK, TypeOK
  <2>3. Cardinality(0..q) = q + 1
    <3> HIDE DEF q
    <3>1. 0 \in Int /\ q \in Int /\ ~(0 > q)
      BY <2>2
    <3>2. Cardinality(0..q) = IF 0 > q THEN 0 ELSE q - 0 + 1
      BY <3>1, FS_Interval
    <3> QED
      BY <2>2, <3>1, <3>2
  <2> QED
    BY <2>1, <2>2, <2>3
<1> QED
  BY <1>1, DutyInvariant, PTL
============================================================================
