SPECIFICATION Spec
CONSTANTS
    DebounceTicks = 2
    MaxTick = 9
    MinLevel = 5
    MaxLevel = 15
    LevelStep = 5
    Levels = {5, 10, 15}
    DefaultLevel = 10
    Blank = Blank
    ControlQueueLength = 1
    DisplayQueueLength = 2
    Stamps = {3, 6}
    OtherMessages = {SensorNews}
INVARIANTS
    PoweredHasLevel
    OnlyAPressTurnsOn
    CopiesAgree
PROPERTIES
    AlwaysReceivesAgain
