SPECIFICATION Spec
CONSTANTS
    DebounceTicks = 3
    MaxTick = 9
    ControlQueueLength = 3
    ServiceTicks = 1
INVARIANTS
    NeverHalts
    NothingLost
PROPERTIES
    OncePerInterval
