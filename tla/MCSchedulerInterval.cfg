SPECIFICATION Spec
CONSTANTS
    ByteBase = 4
    NumStatic = 1
    NumDynamic = 1
    StaticInterval <- MCStaticInterval
    StaticDelay <- MCStaticDelay
    TicksPerHz = 1
    Intervals = {2}
    FlashWords = {1}
    IsrSlots = {}
    MaxCalls = 1
PROPERTIES
    DynamicIntervalKept
