SPECIFICATION Spec
CONSTANTS
    Levels = {5, 50, 100}
    DefaultLevel = 50
    Tries = 3
    Blank = Blank
    NoPage = NoPage
    NoCrc = NoCrc
INVARIANTS
    SavedIsRestored
    NeverAnOlderLevel
    PageOnErasedRow
