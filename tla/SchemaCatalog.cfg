\* Two tables, two migrations each, a TTL of two ticks,
\* a request that takes two ticks from its schema to its statement.
CONSTANTS
    Tables = {t1, t2}
    TTL = 2
    MaxRevision = 2
    MaxScanTicks = 1
    MaxOutages = 1
    Horizon = 6
    MaxRequestTicks = 2
    NoEntry = NoEntry
    NoScan = NoScan
    NoSchema = NoSchema
SPECIFICATION ServiceSpec
INVARIANTS
    TypeOK
    RefreshedIsVisible
    BoundedStaleness
    StaleUseIsBounded
PROPERTIES
    DriftIsPickedUp
