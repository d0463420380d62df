SPECIFICATION Spec
CONSTANTS
    ControlQueueLength = 1
    TickQueueLength = 1
    DisplayQueueLength = 2
    SendTicks = 2
    Period = 1
    MaxTick = 3
    MaxPended = 1
    MaxLate = 0
    Inputs = {"press"}
INVARIANTS
    NobodySleepsOnWork
    RightTaskRuns
    WakesInTime
PROPERTIES
    QueuesAreFifo
    GivesUpOnTime
