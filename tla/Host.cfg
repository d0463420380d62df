SPECIFICATION Spec
CONSTANTS
    DebounceTicks = 2
    MaxTick = 9
    Blank = Blank
    ControlQueueLength = 1
    DisplayQueueLength = 1
    Stamps = {3}
    CountWrap = 1
    Zero = Zero
    Fault = Fault
    Unknown = Unknown
    PortLines = 1
    MinLevel = 100
    MaxLevel = 100
    LevelStep = 100
    Levels = {100}
    DefaultLevel = 100
    Modulo = 1
    Readings = {Zero}
    Conversions <- Quiet
    Acts = {"Button", "Mains", "Host", "Cdc", "Supply"}
INVARIANTS
    DrivenOnlyAfterPress
    ScreenCatchesUp
PROPERTIES
    OffReachesRelay
    OnlyAFullPortStops
    ImplementsSsr
