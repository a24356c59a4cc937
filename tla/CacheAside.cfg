SPECIFICATION FairSpec
CONSTANTS
    Request = {r1, r2, r3}
    Empty = Empty
    Garbage = Garbage
    Misshapen = Misshapen
    NoReply = NoReply
    Connections = 2
    REDIS_FAILS = TRUE
    UPSTREAM_FAILS = TRUE
    FOREIGN_WRITES = TRUE
INVARIANTS
    TypeOK
    OnlyFetchedData
PROPERTIES
    FailsOnlyUpstream
    EveryRequestAnswered
CHECK_DEADLOCK FALSE
