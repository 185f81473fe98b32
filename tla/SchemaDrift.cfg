\* One table, one migration: is the change of version counted as drift?
CONSTANTS
    Tables = {t1}
    TTL = 2
    MaxRevision = 1
    MaxScanTicks = 1
    MaxOutages = 0
    Horizon = 4
    NoEntry = NoEntry
    NoScan = NoScan
    NoSchema = NoSchema
SPECIFICATION Spec
INVARIANT
    DriftIsCounted
