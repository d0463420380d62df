SPECIFICATION Spec
CONSTANTS
    Writers = {"display", "cdc"}
    TxBuffers = 2
    RxBuffers = 2
    ZlpLimit = 2
    Frames = 2
    Traffic <- OneWayAtATime
INVARIANTS
    TypeOK
    CharactersInOrder
    ReceptionArmed
    OpensUnlessDenied
PROPERTIES
    ImplementsPipe
    WrittenBytesLeave

