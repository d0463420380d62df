SPECIFICATION ReadingSpec
CONSTANTS
    Measurements <- SampledMeasurements
    NoReading = NoReading
    Levels = {5, 95, 100}
INVARIANTS
    DataMatches
    ScreenReads
