SPECIFICATION FairSpec
CONSTANTS
    Conns <- OneConn
    MQTT_SENDBUFFER_LENGTH = 4
    ByteBase = 8
    MSS = 2
    MQTT_KEEPALIVE = 1
    UIP_MAXRTX = 1
    Length <- ShortPackets
    LongPackets <- NoPackets
    Inbound <- SomePackets
    MaxInflow = 2
INVARIANT PingAccounted
PROPERTY ImplementsPacketStream
PROPERTY StreamWellFormed
PROPERTY SilenceNoticed
