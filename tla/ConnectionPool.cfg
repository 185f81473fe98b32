\* Four requests and a probe on two connections and two threads.
CONSTANTS
    Requests = {r1, r2, r3, r4}
    Probes = {p1}
    PoolSize = 2
    Workers = 2
    MaxRepair = 1
    Nobody = Nobody
SPECIFICATION Spec
INVARIANTS
    TypeOK
    NoConnectionIsLost
    LoopWaitsForWorkersOnly
PROPERTIES
    EverythingEnds
CHECK_DEADLOCK FALSE
