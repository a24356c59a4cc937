SPECIFICATION Spec
CONSTANTS
    r1 = r1
    r2 = r2
    r3 = r3
    r4 = r4
    k1 = k1
    k2 = k2
    w1 = w1
    w2 = w2
    Request = {r1, r2}
    Key = {k1}
    Worker = {w1, w2}
    KeyOf <- Retried
    HostOf <- TwoHosts
    Unstorable = {}
    Absent = Absent
    Processing = Processing
    Pending = Pending
    NoReply = NoReply
    Retries = 1
    REDIS_FAILS = FALSE
    REDIS_RESTARTS = FALSE
    TTL_EXPIRES = FALSE
    DB_FAILS = TRUE
    KAFKA_FAILS = FALSE
    CRASHES = FALSE
PROPERTIES
    ConflictMeansOrder
CHECK_DEADLOCK FALSE
