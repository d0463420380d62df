SPECIFICATION Spec
CONSTANTS
    DebounceTicks = 2
    MaxTick = 9
    Blank = Blank
    ControlQueueLength = 1
    DisplayQueueLength = 1
    Stamps = {3}
    CountWrap = 1
    Zero = Zero
    Fault = Fault
    Unknown = Unknown
    PortLines = 1
    MinLevel = 100
    MaxLevel = 100
    LevelStep = 100
    Levels = {100}
    DefaultLevel = 100
    Modulo = 3
    Readings = {Zero, Warm}
    Conversions <- OneMoves
    Acts = {"Timer", "Converters"}
INVARIANTS
    SensorsCatchUp
PROPERTIES
    SendsFreshData
    FaultIsShown
