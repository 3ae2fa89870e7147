SPECIFICATION FairSpec
CONSTANTS
    c1 = c1
    c2 = c2
    c3 = c3
    Nobody = Nobody
    Clients <- ThreeClients
    Last <- ThreeImages
    AppBlocks = 3
    MaxBlocks = 5
    CONF_BOOTLOAD_DELAY = 3
INVARIANT StartsComplete
INVARIANT AckedIsProgrammed
PROPERTY TransferEnds
CHECK_DEADLOCK FALSE
