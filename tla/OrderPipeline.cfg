SPECIFICATION FairPipeline
CONSTANTS
    Consumer = {c1, c2}
    Event = {o1, o2, bad}
    Order = {o1, o2}
    Undecodable = {bad}
    Nobody = Nobody
    MaxEvents = 3
    MaxFaults = 2
    CRASHES = TRUE
INVARIANTS
    TypeOK
    CommittedWasHandled
    RedeliveryBounded
    PaymentsMatchOrders
PROPERTIES
    CommitsMoveForward
    EveryOrderSettles
CHECK_DEADLOCK FALSE
