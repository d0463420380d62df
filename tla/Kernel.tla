------------------------------- MODULE Kernel -------------------------------
(***************************************************************************)
(* The three queues of the controller in FreeRTOS 8.0.1 (queue.c) and its  *)
(* tasks under the scheduler of module Scheduler: what the other modules   *)
(* take for bounded sequences and for tasks that wait.                     *)
(*                                                                         *)
(* A step is what happens between two points at which an interrupt may     *)
(* come: a critical section, or a stretch whose order with an interrupt    *)
(* does not matter.  A task runs only while it is current and no switch is *)
(* pending, for PendSV is taken as soon as interrupts are enabled.         *)
(***************************************************************************)
EXTENDS Integers, Sequences, FiniteSets, FiniteSetsExt

CONSTANTS
    ControlQueueLength,     \* 10
    TickQueueLength,        \* 1
    DisplayQueueLength,     \* 10
    SendTicks,              \* how long a task waits for room (10)
    Period,                 \* ticks between two samplings (1000)
    Inputs,                 \* what the panel's interrupts send
    MaxTick,                \* the largest tick count (2^32 - 1)
    MaxPended,              \* bound: ticks during one suspension
    MaxLate                 \* bound: ticks a task may be kept from its call
                            \* after its time is up

VARIABLES
    queue,      \* the queues
    sched,      \* the scheduler
    task,       \* where each task is in its call
    got,        \* history: the message just received, and by whom
    waited      \* history: ticks since a task began to wait

vars == <<queue, sched, task, got, waited>>

\* main.c and timers.c.  The CDC task never blocks, so the idle task never
\* runs and is left out.
Tasks    == {"sensor", "control", "timer", "display", "cdc"}
Priority == [t \in Tasks |-> CASE t = "sensor"               -> 3
                               [] t \in {"control", "timer"} -> 2
                               [] OTHER                      -> 1]
Queues   == {"control", "tick", "display"}
Length   == [q \in Queues |-> CASE q = "control" -> ControlQueueLength
                                [] q = "tick"    -> TickQueueLength
                                [] OTHER         -> DisplayQueueLength]
Messages == Inputs \cup {"sample", "off", "setting", "reading"}
Unread   == "unread"    \* what memory holds before the first message
Nothing  == <<Unread, "cdc">>

ASSUME LengthAssumption == \A q \in Queues : Length[q] \in Nat \ {0}
ASSUME TickAssumption ==
    /\ MaxTick \in Nat
    /\ SendTicks \in 1..(MaxTick - 1) /\ Period \in 1..(MaxTick - 1)
    /\ MaxPended \in Nat /\ MaxLate \in Nat

INSTANCE Scheduler

---------------------------------------------------------------------------
\* The calls of the tasks.
Forever == MaxTick

Send(q, m, ticks) == [op |-> "send", queue |-> q, message |-> m, ticks |-> ticks]
Receive(q)        == [op |-> "receive", queue |-> q, ticks |-> Forever]
Wait(ticks)       == [op |-> "wait", ticks |-> ticks]
Busy              == [op |-> "busy"]

SendOff     == Send("display", "off", SendTicks)
SendSetting == Send("display", "setting", SendTicks)
SendReading == Send("display", "reading", SendTicks)
SendSample  == Send("tick", "sample", 0)

FirstCall(t) == CASE t = "sensor"  -> Receive("tick")
                  [] t = "control" -> SendOff
                  [] t = "timer"   -> Wait(Period)
                  [] t = "display" -> Receive("display")
                  [] OTHER         -> Busy

\* What task t may call after c.  The control task announces that the power is
\* off and then the level before its loop, and at most one setting in each turn
\* of it.
NextCalls(t, c) ==
    CASE t = "sensor"  -> {Receive("tick")} \cup IF c.op = "receive" THEN {SendReading} ELSE {}
      [] t = "control" -> (IF c = SendOff THEN {} ELSE {Receive("control")})
                              \cup (IF c = SendOff \/ c.op = "receive" THEN {SendSetting} ELSE {})
      [] t = "timer"   -> IF c.op = "wait" THEN {SendSample} ELSE {Wait(Period)}
      [] OTHER         -> {FirstCall(t)}

\* A call begins: with its first critical section, or with the suspension.
Begun(c) ==
    [call    |-> c,
     pc      |-> IF c.op = "wait" THEN "suspend" ELSE "try",
      left    |-> IF c.op = "busy" THEN 0 ELSE c.ticks,    \* xTicksToWait
     then    |-> "again"]           \* what follows when tasks may switch

Init ==
    /\ queue = [q \in Queues |-> [store    |-> [i \in 0..(Length[q] - 1) |-> Unread],
                                  writeTo  |-> 0,
                                  readFrom |-> Length[q] - 1,
                                  waiting  |-> 0,
                                  txLock   |-> -1]]
    /\ sched = Started("sensor")
    /\ task = [t \in Tasks |-> Begun(FirstCall(t))]
    /\ got = Nothing
    /\ waited = [t \in Tasks |-> 0]

---------------------------------------------------------------------------
\* The store of a queue.
HasRoom(q)  == queue[q].waiting < Length[q]
IsEmpty(q)  == queue[q].waiting = 0
Unlocked(q) == queue[q].txLock = -1

CopyDataToQueue(r, q, m) ==
    [r EXCEPT !.store   = [@ EXCEPT ![r.writeTo] = m],
              !.writeTo = (@ + 1) % Length[q],
              !.waiting = @ + 1]

NextRead(q) == (queue[q].readFrom + 1) % Length[q]

\* Fault: the position is advanced after the copy, as the write position is.
FrontUnadvanced(q) == queue[q].store[queue[q].readFrom]

Front(q)    == queue[q].store[NextRead(q)]

CopyDataFromQueue(q) ==
    [queue[q] EXCEPT !.store[NextRead(q)] = Unread, !.readFrom = NextRead(q), !.waiting = @ - 1]

Contents(q) ==
    [i \in 1..queue[q].waiting |-> queue[q].store[(queue[q].readFrom + i) % Length[q]]]

---------------------------------------------------------------------------
\* The steps of a task.
At(t, pc) ==
    /\ sched.current = t /\ ~sched.switchPending
    /\ task[t].pc = pc

Goto(t, pc) == task' = [task EXCEPT ![t].pc = pc]

\* The call returns, and the scheduler is left as s.
Return(t, s) ==
    /\ \E c \in NextCalls(t, task[t].call) : task' = [task EXCEPT ![t] = Begun(c)]
    /\ sched' = DropTimeOut(s, t)
    /\ waited' = [waited EXCEPT ![t] = 0]

Continue(t, pc, s) ==
    /\ Goto(t, pc)
    /\ sched' = s
    /\ UNCHANGED waited

\* xQueueGenericSend finds room.
PutMessage(t) ==
    LET c == task[t].call IN
    /\ At(t, "try") /\ c.op = "send" /\ HasRoom(c.queue)
    /\ queue' = [queue EXCEPT ![c.queue] = CopyDataToQueue(@, c.queue, c.message)]
    /\ Return(t, SignalAndYield(sched, ToReceive(c.queue)))

\* xQueueGenericReceive finds a message.
GetMessage(t) ==
    LET c == task[t].call IN
    /\ At(t, "try") /\ c.op = "receive" /\ ~IsEmpty(c.queue)
    /\ queue' = [queue EXCEPT ![c.queue] = CopyDataFromQueue(c.queue)]
    /\ got' = <<Front(c.queue), t>>
    /\ Return(t, SignalAndYield(sched, ToSend(c.queue)))

\* The queue is full, or empty.
Blocked(c) ==
    \/ c.op = "send" /\ ~HasRoom(c.queue)
    \/ c.op = "receive" /\ IsEmpty(c.queue)

LeaveAtOnce(t) ==
    /\ At(t, "try") /\ Blocked(task[t].call) /\ task[t].left = 0
    /\ Return(t, sched)
    /\ UNCHANGED queue

\* The time of entry is taken in the first turn of the loop only.  That of a
\* task that waits for ever is never read, and left out.
BeginToWait(t) ==
    /\ At(t, "try") /\ Blocked(task[t].call) /\ task[t].left # 0
    /\ sched' = IF sched.entered[t] = None /\ task[t].left # Forever
                THEN SetTimeOutState(sched, t) ELSE sched
    /\ Goto(t, "suspend")
    /\ UNCHANGED <<queue, waited>>

\* The timer service wakes up, and calls tempSampleCallback.
TimerExpires(t) ==
    /\ At(t, "try") /\ task[t].call.op = "wait"
    /\ Return(t, sched)
    /\ UNCHANGED queue

\* vTaskSuspendAll and prvLockQueue; xRxLock is left out, for no interrupt
\* receives.  The timer service locks a queue nobody else uses.
Suspend(t) ==
    LET c == task[t].call IN
    /\ At(t, "suspend")
    /\ sched' = SuspendAll(sched)
    /\ queue' = IF c.op = "wait" THEN queue ELSE [queue EXCEPT ![c.queue].txLock = 0]
    /\ Goto(t, IF c.op = "wait" THEN "place" ELSE "check")
    /\ UNCHANGED waited

\* xTaskCheckForTimeOut, then prvIsQueueFull or prvIsQueueEmpty.
CheckExpired(t) ==
    /\ At(t, "check") /\ TimeIsUp(sched, t, task[t].left)
    /\ task' = [task EXCEPT ![t].pc = "resume", ![t].then = "fail"]
    /\ UNCHANGED <<queue, sched, waited>>

CheckWaits(t) ==
    LET blocked == Blocked(task[t].call)
        forever == task[t].left = Forever
    IN
    /\ At(t, "check") /\ ~TimeIsUp(sched, t, task[t].left)
    /\ task' = [task EXCEPT ![t].left = IF forever THEN @ ELSE @ - SinceEntering(sched, t),
                            ![t].pc   = IF blocked THEN "place" ELSE "resume",
                            ![t].then = IF blocked THEN "sleep" ELSE "again"]
    /\ sched' = IF forever THEN sched ELSE SetTimeOutState(sched, t)
    /\ UNCHANGED <<queue, waited>>

\* vTaskPlaceOnEventList.
Place(t) ==
    LET c == task[t].call IN
    /\ At(t, "place") /\ c.op # "wait"
    /\ sched' = PlaceOnEventList(sched, <<c.op, c.queue>>, task[t].left)
    /\ Goto(t, "resume")
    /\ UNCHANGED <<queue, waited>>

\* prvProcessTimerOrBlockTask of the timer service, which sleeps until its one
\* timer expires: Period after the service turned to it again.
PlaceTimer(t) ==
    /\ At(t, "place") /\ task[t].call.op = "wait"
    /\ sched' = Delay(sched, task[t].left)
    /\ task' = [task EXCEPT ![t].pc = "resume", ![t].then = "sleep"]
    /\ waited' = [waited EXCEPT ![t] = 0]
    /\ UNCHANGED queue

\* prvUnlockQueue: what interrupts sent meanwhile wakes as many tasks.
\* Fault: it wakes none.
WokenByNone(s, c) == s

WokenByUnlock(s, c) ==
    LET woken[i \in 0..queue[c.queue].txLock] ==
            IF i = 0 THEN s ELSE Signal(woken[i - 1], ToReceive(c.queue))
    IN  IF c.op = "wait" THEN s ELSE woken[queue[c.queue].txLock]

\* The queue is unlocked and xTaskResumeAll called, which answers whether it
\* asked for a switch itself.
Resume(t) ==
    LET c        == task[t].call
        then     == task[t].then
        unlocked == WokenByUnlock(sched, c)
        resumed  == ResumeAll(unlocked)
    IN
    /\ At(t, "resume")
    /\ queue' = IF c.op = "wait" THEN queue ELSE [queue EXCEPT ![c.queue].txLock = -1]
    /\ \/ then = "fail"  /\ Return(t, resumed)
       \/ then = "sleep" /\ ~AlreadyYielded(unlocked) /\ Continue(t, "yield", resumed)
       \/ /\ then = "sleep" => AlreadyYielded(unlocked)
          /\ then # "fail"
          /\ Continue(t, "try", resumed)

\* portYIELD_WITHIN_API.
YieldWithinApi(t) ==
    /\ At(t, "yield")
    /\ Continue(t, "try", Yield(sched))
    /\ UNCHANGED queue

\* A message received is handled, and forgotten, with the task's next step.
TaskStep(t) ==
    \/ GetMessage(t)
    \/ /\ \/ PutMessage(t) \/ LeaveAtOnce(t) \/ BeginToWait(t) \/ TimerExpires(t)
          \/ Suspend(t) \/ CheckExpired(t) \/ CheckWaits(t)
          \/ Place(t) \/ PlaceTimer(t) \/ Resume(t) \/ YieldWithinApi(t)
       /\ got' = Nothing

\* The task waits, and not for ever.
Timed(t) ==
    sched.entered[t] # None \/ task[t].call.op = "wait"

---------------------------------------------------------------------------
\* The interrupts.

\* xQueueSendToBackFromISR by a callback of the panel, which has the highest
\* priority and passes NULL for pxHigherPriorityTaskWoken.
SendFromISR(m) ==
    LET put == CopyDataToQueue(queue["control"], "control", m) IN
    /\ HasRoom("control")
    /\ IF Unlocked("control")
       THEN /\ queue' = [queue EXCEPT !["control"] = put]
            /\ sched' = Signal(sched, ToReceive("control"))
       ELSE /\ queue' = [queue EXCEPT !["control"] = [put EXCEPT !.txLock = @ + 1]]
            /\ UNCHANGED sched
    /\ UNCHANGED <<task, got, waited>>

\* xPortSysTickHandler.  PendSV has its priority and a lower number, so it is
\* taken first when both are pending.
SysTick ==
    /\ ~sched.switchPending
    /\ sched.suspended => sched.pended < MaxPended
    /\ \A t \in Tasks : Timed(t) => waited[t] < task[t].call.ticks + MaxLate
    /\ sched' = [IncrementTick(sched) EXCEPT !.switchPending = TickSwitches(sched)]
    /\ waited' = [t \in Tasks |-> IF Timed(t) THEN waited[t] + 1 ELSE 0]
    /\ UNCHANGED <<queue, task, got>>

\* xPortPendSVHandler.
PendSV(t) ==
    /\ sched.switchPending
    /\ IF sched.suspended THEN t = sched.current ELSE t \in Eligible(sched)
    /\ sched' = SwitchContext(sched, t)
    /\ UNCHANGED <<queue, task, got, waited>>

Interrupt == SysTick \/ \E m \in Inputs : SendFromISR(m)

Next ==
    \/ \E t \in Tasks : TaskStep(t) \/ PendSV(t)
    \/ Interrupt

Spec == Init /\ [][Next]_vars

---------------------------------------------------------------------------
QueueStates(q) ==
    [store : [0..(Length[q] - 1) -> Messages \cup {Unread}],
     writeTo : 0..(Length[q] - 1), readFrom : 0..(Length[q] - 1),
     waiting : 0..Length[q], txLock : -1..Length[q]]

TypeOK ==
    /\ \A q \in Queues : queue[q] \in QueueStates(q)
    /\ sched \in SchedulerStates({"send", "receive"} \X Queues, MaxPended)
    /\ \A t \in Tasks : /\ task[t].pc \in {"try", "suspend", "check", "place",
                                          "resume", "yield"}
                       /\ task[t].left \in 0..MaxTick
                       /\ task[t].then \in {"again", "sleep", "fail"}
    /\ got \in (Messages \cup {Unread}) \X Tasks

---------------------------------------------------------------------------
\* The queues are the bounded sequences that every other module takes them
\* for, whatever the interrupts and the scheduler do between two steps of a
\* call (queue.c).
Fifo == INSTANCE MessageQueues WITH
            content <- [q \in Queues |-> Contents(q)], Receivers <- Tasks

QueuesAreFifo == Fifo!Spec

\* No wake-up is lost: no task sleeps on a queue that has a message for it,
\* unless the lock of the queue remembers it; and none sleeps on one with
\* room, unless another sender is awake to take that room.
NobodySleepsOnWork ==
    \A q \in Queues :
        /\ Waiters(sched, ToReceive(q)) # {} => IsEmpty(q) \/ queue[q].txLock > 0
        /\ Waiters(sched, ToSend(q)) # {} /\ HasRoom(q) =>
               \E t \in Tasks : /\ task[t].call.op = "send" /\ task[t].call.queue = q
                               /\ sched.event[t] # ToSend(q)

\* Whoever runs is ready and nobody ready is more urgent, but while switches
\* are held off, asked for, or noted for the next tick: the panel's
\* interrupts wake the control task without asking for a switch (main.c:213).
RightTaskRuns ==
    \/ sched.suspended \/ sched.switchPending \/ sched.yieldPending
    \/ task[sched.current].pc = "yield"
    \/ sched.current \in Eligible(sched)

\* Nobody oversleeps: a task that waits for a time sleeps less than that
\* many ticks, across a wrap of the tick count and whatever sleeps besides
\* it; only ticks held back by a suspension may be on top.
WakesInTime ==
    \A t \in Tasks :
        sched.generic[t] \in {"delayed", "overflow"} =>
            waited[t] - sched.pended < task[t].call.ticks

\* A message is dropped for a full queue only when its sender has waited its
\* ticks out, in all the turns of the loop together, and there still is no
\* room (queue.c:767).
Drops(t) ==
    /\ At(t, "resume") /\ task[t].then = "fail"
    /\ task'[t] # task[t]

GivesUpOnTime ==
    [][\A t \in Tasks :
           Drops(t) => /\ waited[t] >= task[t].call.ticks
                       /\ ~HasRoom(task[t].call.queue)]_vars
=============================================================================
