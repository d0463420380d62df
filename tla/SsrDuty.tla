------------------------------ MODULE SsrDuty ------------------------------
(***************************************************************************)
(* What a window of the burst-fire drive amounts to.  Three history        *)
(* variables watch SsrPwm: the half-waves of the running window that the   *)
(* heater was driven for, whether the settings stayed as the window's      *)
(* first crossing found them, and what the last crossing found.            *)
(***************************************************************************)
EXTENDS SsrPwm, FiniteSets

VARIABLES
    drivenAt,   \* values of moduloCounter, in this window, that left it driven
    steady,     \* no setting changed since the window's first crossing
    sampled     \* the settings the last crossing found

dutyVars == <<vars, drivenAt, steady, sampled>>

DutyInit ==
    /\ Init
    /\ drivenAt = {}
    /\ steady = FALSE
    /\ sampled = [on |-> FALSE, percent |-> 0]

Observe ==
    LET seen == IF NextCount = 0 THEN {} ELSE drivenAt
    IN  /\ drivenAt' = IF Driven' THEN seen \cup {NextCount} ELSE seen
        /\ steady' = (steady \/ NextCount = 0)
        /\ sampled' = [on |-> powerOn, percent |-> powerPercent]

Disturb ==
    /\ steady' = (steady /\ UNCHANGED settings)
    /\ UNCHANGED <<drivenAt, sampled>>

Forget ==
    /\ drivenAt' = {}
    /\ steady' = FALSE
    /\ sampled' = [on |-> FALSE, percent |-> 0]

DutyNext ==
    \/ ZeroCross /\ Observe
    \/ (StorePowerOn \/ StorePowerPercent) /\ Disturb
    \/ PowerFailure /\ Forget

\* The mains keeps crossing zero; the task may or may not store anything, and
\* the supply may or may not fail.
DutySpec ==
    DutyInit /\ [][DutyNext]_dutyVars /\ WF_dutyVars(ZeroCross /\ Observe)

---------------------------------------------------------------------------
DutyTypeOK ==
    /\ TypeOK
    /\ drivenAt \subseteq 0..(Modulo - 1)
    /\ steady \in BOOLEAN
    /\ sampled \in [on : BOOLEAN, percent : Percents \cup {0}]

\* Whenever the heater is driven, the last crossing found the power on and
\* its half-wave within the duty of the level it found: however the control
\* task's stores interleave with the crossings, a stale drive never outlives
\* the next crossing.
DriveJustified ==
    Driven =>
        /\ sampled.on
        /\ \/ moduloCounter = 0
           \/ sampled.percent * Modulo >= moduloCounter * 100

\* The half-waves the callback drives at this level: the first one always.
Duty == {k \in 0..moduloCounter : k = 0 \/ powerPercent * Modulo >= k * 100}

\* With settings left alone, the half-waves driven so far are exactly those
\* of the level: the drive carries no debt or surplus over from an earlier
\* window or an earlier level.
SteadyDuty == steady => drivenAt = IF powerOn THEN Duty ELSE {}

\* Whatever the control task stores and whenever, the driven half-waves of a
\* window are one burst that begins with its first half-wave.
OneBurst == \A k \in drivenAt : 0..k \subseteq drivenAt

\* A whole window on a steady level is driven for the level's share of it
\* rounded down, and one half-wave more (the crossing at count 0 is driven
\* whatever the level).
WindowLength ==
    (steady /\ powerOn /\ moduloCounter = Modulo - 1) =>
        Cardinality(drivenAt) =
            IF powerPercent = 100 THEN Modulo
                                  ELSE (powerPercent * Modulo) \div 100 + 1
===========================================================================
