\* Two requests, one repair round.
CONSTANTS
    Requests = {r1, r2}
    Calls <- MCCalls
    ClientIds <- MCClientIds
    MaxRepair = 1
    MetricsEnabled = TRUE
SPECIFICATION Spec
INVARIANTS
    TypeOK
    QueriesAreTraceable
    IdsStayApart
    SpansNest
PROPERTIES
    EveryCallAnswered
\* Both requests are answered and no third one comes.
CHECK_DEADLOCK FALSE
