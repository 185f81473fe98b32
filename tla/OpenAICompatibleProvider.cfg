\* Two concurrent requests, two retries per post, two rounds of repair.
CONSTANTS
    Requests = {r1, r2}
    Feedbacks = {unknown_column}
    NoFeedback = NoFeedback
    MaxRetries = 2
    MaxRepair = 2
SPECIFICATION Spec
INVARIANTS
    TypeOK
    PostsAreBounded
    NoEarlySurrender
    ClientsAreClosed
PROPERTIES
    EveryLoopEnds
