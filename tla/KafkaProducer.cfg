SPECIFICATION FairSpec
CONSTANTS
    Message = {m1, m2, m3, m4}
    None = None
    Capacity = 2
    BROKER_FAILS = TRUE
    CRASHES = TRUE
INVARIANTS
    TypeOK
    InOrder
    MissingIsLost
PROPERTIES
    CallReturns
    ImplementsChannel
