SPECIFICATION Spec
CONSTANTS
    MQTT_SENDBUFFER_LENGTH = 12
    Word = 64
    Queued = 2
    MaxPackets = 2
    Lengths = {0, 3}
INVARIANT PacketsRebuilt
CHECK_DEADLOCK FALSE
