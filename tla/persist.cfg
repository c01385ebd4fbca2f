\* Three requests of any kind on one dataset and a pool of two connections.
SPECIFICATION FairSpec
\* All requests are over.
CHECK_DEADLOCK FALSE
CONSTANTS
    r1 = r1
    r2 = r2
    r3 = r3
    d1 = d1
    Requests = {r1, r2, r3}
    Datasets = {d1}
    PoolSize = 2
INVARIANTS
    RunsAreSound
    EndsCleanly
PROPERTIES
    ImplementsLedger
