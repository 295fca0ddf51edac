SPECIFICATION FairSpec
CONSTANTS
    Daemons = {d1, d2}
    Mortal = {d1}
    LeaseIds = {i1, i2, i3}
    TTL = 2
    Heartbeat = 1
    Retry = 1
    NoDaemon = NoDaemon
    NoLease = NoLease
INVARIANTS
    FreshLeaderHoldsLease
PROPERTIES
    Failover
    StaleLeaderStepsDown
