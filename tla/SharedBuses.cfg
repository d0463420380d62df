SPECIFICATION Spec
CONSTANTS
    Empty = Empty
    Junk = Junk
    WordLength = 4
    ArgBytes = 2
    Blocks <- SmallBlocks
INVARIANTS
    BytesBalance
    GenuineWhenAlone
    LoneDrawingIsExact
PROPERTIES
    BusesAreLeft
