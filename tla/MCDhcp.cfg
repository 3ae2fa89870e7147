SPECIFICATION FairSpec
CONSTANTS
    HZ = 2
    RetryLimit = 2
    Width = 64
    Servers <- TwoServers
    Leases <- SomeLeases
INVARIANT ElapsedExact
PROPERTY RenewedBeforeExpiry
PROPERTY Settles
