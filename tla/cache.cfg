SPECIFICATION FairSpec
CONSTANTS
    t1 = t1
    t2 = t2
    t3 = t3
    stats = stats
    Thread = {t1, t2, t3}
    Cache = {stats}
    NoThread = NoThread
    NoCache = NoCache
    TTL <- MCTTL
    PoolSize = 1
    MaxTime = 3
    MaxSetBack = 1
    MaxFaults = 1
INVARIANTS TypeOK ServedFresh LoadsWhenDue NoCircularWait
PROPERTIES NeverOlder LockReleased
