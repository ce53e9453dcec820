SPECIFICATION FairSpec
CONSTANTS
    path = path
    lease = lease
    Retry = 2
    Heartbeat = 10
    Timeout = 5
    TTL = 45
INVARIANTS TypeOK LiveLeaseIsFresh
PROPERTIES GoneIsForgotten ReadersAreServed
