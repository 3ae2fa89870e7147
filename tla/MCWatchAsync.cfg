SPECIFICATION WaFairSpec
CONSTANTS
    RESOLV_ENTRIES = 2
    MAX_RETRIES = 2
    SeqBase = 3
    MaxQueries = 2
    Names <- TwoNames
    Answers <- AllAnswers
    CONF_WATCHASYNC_BUFFERSIZE = 2
    CONF_WATCHASYNC_SERVER = 1
    MaxConns = 1
    MaxEvents = 3
INVARIANT PendingInTable
INVARIANT CalledAtMostOnce
INVARIANT QuestionsBounded
INVARIANT RingHoldsUnconfirmed
PROPERTY NoneSkipped
PROPERTY RetransmissionSame
PROPERTY EveryQueryEnds
PROPERTY EventsConfirmed
