----------------------------- MODULE Scheduler -----------------------------
(***************************************************************************)
(* The scheduler of FreeRTOS 8.0.1 (tasks.c, list.c and the Cortex-M0      *)
(* port) as functions of its state, for the queues of module Kernel.       *)
(*                                                                         *)
(* The state is a record s.  A task control block has two list items, and  *)
(* an item is in one list at most: s.generic[t] names the list of t's      *)
(* xGenericListItem, s.event[t] that of its xEventListItem.  The lists are *)
(* kept in the order of priority or of wake time, so a list is the set of  *)
(* the tasks in it.  No two tasks of one priority wait for one event.      *)
(***************************************************************************)
EXTENDS Integers, FiniteSets, FiniteSetsExt

CONSTANTS
    Tasks,
    Priority,   \* the priority of each task
    MaxTick     \* the largest tick count, and portMAX_DELAY (2^32 - 1)

None == -1      \* no time of entry: xEntryTimeSet is false, or never read

\* The lists an event item may be in besides those of the queues.
Nowhere      == << >>
PendingReady == <<"pendingReady">>
ToSend(q)    == <<"send", q>>
ToReceive(q) == <<"receive", q>>

Waiters(s, list) == {t \in Tasks : s.event[t] = list}
InList(s, list)  == {t \in Tasks : s.generic[t] = list}
Outranks(t, u)   == Priority[t] > Priority[u]
Highest(ts)      == {t \in ts : \A u \in ts : ~Outranks(u, t)}

Started(first) ==
    [current       |-> first,
     generic       |-> [t \in Tasks |-> "ready"],
     event         |-> [t \in Tasks |-> Nowhere],
     wake          |-> [t \in Tasks |-> 0],     \* 0 outside the delayed lists
     entered       |-> [t \in Tasks |-> None],  \* xTimeOnEntering
     wrapped       |-> {},         \* for whom xNumOfOverflows differs from
                                   \* its xOverflowCount
     tick          |-> 0,          \* xTickCount
     pended        |-> 0,          \* uxPendedTicks
     nextUnblock   |-> MaxTick,    \* xNextTaskUnblockTime
     suspended     |-> FALSE,      \* uxSchedulerSuspended
     yieldPending  |-> FALSE,      \* xYieldPending
     switchPending |-> FALSE]      \* PendSV is pending

\* prvAddTaskToReadyList, after both items were taken out of their lists.
AddToReadyLists(s, ts) ==
    [s EXCEPT !.generic = [t \in Tasks |-> IF t \in ts THEN "ready" ELSE @[t]],
              !.event   = [t \in Tasks |-> IF t \in ts THEN Nowhere ELSE @[t]],
              !.wake    = [t \in Tasks |-> IF t \in ts THEN 0 ELSE @[t]]]

---------------------------------------------------------------------------
\* Events.

\* Fault: the caller alone is told that a switch is due.
RemoveFromEventListSilently(s, list) ==
    LET t == CHOOSE u \in Highest(Waiters(s, list)) : TRUE
    IN  IF s.suspended THEN [s EXCEPT !.event[t] = PendingReady]
        ELSE AddToReadyLists(s, {t})

RemoveFromEventList(s, list) ==
    LET t     == CHOOSE u \in Highest(Waiters(s, list)) : TRUE
        woken == IF s.suspended THEN [s EXCEPT !.event[t] = PendingReady]
                 ELSE AddToReadyLists(s, {t})
    IN  [woken EXCEPT !.yieldPending = @ \/ Outranks(t, s.current)]

\* An event without a waiter changes nothing.
Signal(s, list) ==
    IF Waiters(s, list) = {} THEN s ELSE RemoveFromEventList(s, list)

\* queueYIELD_IF_USING_PREEMPTION when the waiter is more urgent.
SignalAndYield(s, list) ==
    [Signal(s, list) EXCEPT !.switchPending =
         @ \/ \E t \in Waiters(s, list) : Outranks(t, s.current)]

---------------------------------------------------------------------------
\* Time.
EarliestWake(s) ==
    IF InList(s, "delayed") = {} THEN MaxTick
    ELSE Min({s.wake[t] : t \in InList(s, "delayed")})

\* Fault: xNextTaskUnblockTime keeps what it was for the list put away.
SwitchDelayedListsOnly(s) ==
    [s EXCEPT !.generic = [t \in Tasks |-> CASE @[t] = "delayed"  -> "overflow"
                                             [] @[t] = "overflow" -> "delayed"
                                             [] OTHER             -> @[t]],
              !.wrapped = {t \in Tasks : s.entered[t] # None}]

SwitchDelayedLists(s) ==
    LET switched ==
            [s EXCEPT !.generic = [t \in Tasks |-> CASE @[t] = "delayed"  -> "overflow"
                                                     [] @[t] = "overflow" -> "delayed"
                                                     [] OTHER             -> @[t]],
                      !.wrapped = {t \in Tasks : s.entered[t] # None}]
    IN  [switched EXCEPT !.nextUnblock = EarliestWake(switched)]

Advanced(s) ==
    LET next == [s EXCEPT !.tick = (@ + 1) % (MaxTick + 1)]
    IN  IF next.tick = 0 THEN SwitchDelayedLists(next) ELSE next

\* The tasks whose time has come at the tick of s.
Due(s) ==
    IF s.tick < s.nextUnblock THEN {}
    ELSE {t \in InList(s, "delayed") : s.wake[t] <= s.tick}

Unblocked(s) ==
    LET out == AddToReadyLists(s, Due(s)) IN
        IF s.tick < s.nextUnblock THEN s
        ELSE [out EXCEPT !.nextUnblock = EarliestWake(out)]

\* What xTaskIncrementTick answers: a task woken is as urgent as the current
\* one, or others share its priority.
TickSwitches(s) ==
    \/ s.yieldPending
    \/ /\ ~s.suspended
       /\ \/ \E t \in Due(Advanced(s)) : ~Outranks(s.current, t)
          \/ Cardinality({t \in InList(Unblocked(Advanced(s)), "ready") :
                              Priority[t] = Priority[s.current]}) > 1

IncrementTick(s) ==
    IF s.suspended THEN [s EXCEPT !.pended = @ + 1]
    ELSE Unblocked(Advanced(s))

---------------------------------------------------------------------------
\* The timeout of a task that waits; left is *pxTicksToWait.
SetTimeOutState(s, t) ==
    [s EXCEPT !.entered[t] = s.tick, !.wrapped = @ \ {t}]

\* The structure is a local of the call and goes with it.
DropTimeOut(s, t) == [s EXCEPT !.entered[t] = None, !.wrapped = @ \ {t}]

SinceEntering(s, t) == (s.tick - s.entered[t]) % (MaxTick + 1)

\* Fault: the tick count is taken for one that never wraps.
TimeIsUpUnwrapped(s, t, left) ==
    /\ left # MaxTick
    /\ s.tick < s.entered[t] \/ s.tick - s.entered[t] >= left

TimeIsUp(s, t, left) ==
    /\ left # MaxTick
    /\ \/ t \in s.wrapped /\ s.tick >= s.entered[t]
       \/ SinceEntering(s, t) >= left

---------------------------------------------------------------------------
\* The current task goes to sleep.
AddCurrentTaskToDelayedList(s, wake) ==
    LET put(list) == [s EXCEPT !.generic[s.current] = list, !.wake[s.current] = wake]
    IN  IF wake < s.tick THEN put("overflow")
        ELSE [put("delayed") EXCEPT !.nextUnblock = Min({@, wake})]

Delay(s, ticks) ==
    AddCurrentTaskToDelayedList(s, (s.tick + ticks) % (MaxTick + 1))

PlaceOnEventList(s, list, ticks) ==
    LET waiting == [s EXCEPT !.event[s.current] = list]
    IN  IF ticks = MaxTick
        THEN [waiting EXCEPT !.generic[s.current] = "suspended"]
        ELSE Delay(waiting, ticks)

---------------------------------------------------------------------------
\* The scheduler is suspended, resumed and asked for another task.
SuspendAll(s) == [s EXCEPT !.suspended = TRUE]

\* One of the ticks that were held back.
PendedTick(s) ==
    [IncrementTick(s) EXCEPT !.yieldPending = TickSwitches(s), !.pended = @ - 1]

\* All of them, one after the other.
CatchUp(s) ==
    LET caught[i \in 0..s.pended] ==
            IF i = 0 THEN s ELSE PendedTick(caught[i - 1])
    IN  caught[s.pended]

ResumeAll(s) ==
    LET pending == Waiters(s, PendingReady)
        moved   == [AddToReadyLists(s, pending) EXCEPT
                      !.suspended    = FALSE,
                      !.yieldPending = @ \/ \E t \in pending : ~Outranks(s.current, t)]
        caught  == CatchUp(moved)
    IN  [caught EXCEPT !.switchPending = @ \/ caught.yieldPending]

AlreadyYielded(s) == ResumeAll(s).yieldPending

Yield(s) == [s EXCEPT !.switchPending = TRUE]

\* The tasks vTaskSwitchContext may pick: the most urgent that are ready,
\* which take turns.
Eligible(s) == Highest(InList(s, "ready"))

SwitchContext(s, t) ==
    IF s.suspended
    THEN [s EXCEPT !.yieldPending = TRUE, !.switchPending = FALSE]
    ELSE [s EXCEPT !.yieldPending = FALSE, !.switchPending = FALSE, !.current = t]

SchedulerStates(lists, pending) ==
    [current : Tasks,
     generic : [Tasks -> {"ready", "delayed", "overflow", "suspended"}],
     event : [Tasks -> {Nowhere, PendingReady} \cup lists],
     wake : [Tasks -> 0..MaxTick], entered : [Tasks -> {None} \cup (0..MaxTick)],
     wrapped : SUBSET Tasks, tick : 0..MaxTick, pended : 0..pending,
     nextUnblock : 0..MaxTick, suspended : BOOLEAN, yieldPending : BOOLEAN,
     switchPending : BOOLEAN]
=============================================================================
