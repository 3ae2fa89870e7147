SPECIFICATION FairSpec
CONSTANTS
    ByteBase = 2
    NumStatic = 2
    NumDynamic = 2
    StaticInterval <- MCStaticInterval
    StaticDelay <- MCStaticDelay
    TicksPerHz = 1
    Intervals = {1}
    FlashWords = {1}
    IsrSlots = {}
    MaxCalls = 3
INVARIANT StaticAlive
INVARIANT OneshotAtMostOnce
PROPERTY NotEarly
PROPERTY SuspendedNotInvoked
PROPERTY StaticServed
PROPERTY OneshotServed
