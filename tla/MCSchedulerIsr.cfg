SPECIFICATION Spec
CONSTANTS
    ByteBase = 2
    NumStatic = 1
    NumDynamic = 2
    StaticInterval <- MCStaticInterval
    StaticDelay <- MCStaticDelay
    TicksPerHz = 1
    Intervals = {0, 1}
    FlashWords = {1}
    IsrSlots = {1}
    MaxCalls = 2
INVARIANTS
    RunningOnlyCurrent
    
PROPERTIES
    EarlyByLessThanAByte
