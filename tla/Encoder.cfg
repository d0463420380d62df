SPECIFICATION EncoderSpec
CONSTANTS
    DebounceTicks = 3
    MaxTick = 11
    ControlQueueLength = 3
    ServiceTicks = 1
    MinLevel = 5
    MaxLevel = 15
    LevelStep = 5
    Skew = 2
    BounceTicks = 3
INVARIANTS
    LevelFollowsHand
