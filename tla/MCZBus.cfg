SPECIFICATION FairSpec
CONSTANTS
    ZBUS_BUFFER_LEN = 3
    Connections = 2
 
 
 
 
PROPERTY SendingEnds
PROPERTY LockReleased
CHECK_DEADLOCK FALSE
