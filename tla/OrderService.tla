--------------------------- MODULE OrderService ---------------------------
(***************************************************************************)
(* POST /api/v1/orders: OrderService.place_order, run by any number of     *)
(* requests at once, one or more service processes (workers) and one       *)
(* Redis, one PostgreSQL and one Kafka producer buffer per worker.         *)
(*                                                                         *)
(* A request is a coroutine. It is cut at its awaits: one action per Redis *)
(* command, per database round trip whose place in the interleaving        *)
(* matters, and one for the synchronous Kafka call. An order is identified *)
(* with the request that stored it, since every INSERT draws a fresh id    *)
(* and a fresh order_number and a request inserts at most once; "order"    *)
(* stands for the rows of one transaction (order, items, status history).  *)
(***************************************************************************)
EXTENDS Naturals

CONSTANTS
    Request,        \* the POSTs, each client retry being one more
    Key,            \* the idempotency keys
    KeyOf,          \* KeyOf[r]: the key r carries
    Worker,         \* the service processes
    HostOf,         \* HostOf[r]: the worker that serves r
    Unstorable,     \* the requests the DTO accepts and a CHECK of the schema rejects
    Absent,         \* no such key in Redis; None
    Processing,     \* the value "PROCESSING" of a key in Redis
    Pending,        \* the "PENDING" of a reply
    NoReply,        \* not answered
    Retries,        \* how often the Redis client repeats a failed command
    \* The failures considered:
    REDIS_FAILS, REDIS_RESTARTS, TTL_EXPIRES, DB_FAILS, KAFKA_FAILS, CRASHES

\* The outcomes of a POST: 201, 409, the 500 of the service and that of the
\* catch-all handler.
Codes == {"CREATED", "DUPLICATE_ORDER", "ORDER_CREATION_FAILED", "INTERNAL_SERVER_ERROR"}

Replies == [code : Codes, order : Request \cup {Absent, Pending}]

ASSUME ConstantsAssumption ==
    /\ KeyOf \in [Request -> Key]
    /\ HostOf \in [Request -> Worker]
    /\ Unstorable \subseteq Request
    /\ Retries \in Nat
    /\ {REDIS_FAILS, REDIS_RESTARTS, TTL_EXPIRES, DB_FAILS, KAFKA_FAILS, CRASHES}
         \subseteq BOOLEAN

ASSUME ValuesAssumption ==
    /\ {Absent, Processing, Pending} \cap Request = {}
    /\ Absent # Processing /\ Absent # Pending /\ Processing # Pending
    /\ NoReply \notin Replies

VARIABLES
    pc,         \* where place_order is: the operation r is about to perform
    err,        \* the exception the janitor was called with
    found,      \* the janitor's "existing"
    tries,      \* repetitions of the Redis command r is performing
    redis,      \* redis[k]: the value of "idempotency:k"
    snapshot,   \* the RDB file
    orders,     \* the committed orders
    event,      \* event[r]: the order-created message of order r
    reply       \* reply[r]: the response

control == <<pc, err, found, tries>>
vars == <<pc, err, found, tries, redis, snapshot, orders, event, reply>>

\* The promise: what a client and a consumer may rely on.
Promise == INSTANCE IdempotentOrders
             WITH published <- {r \in Request : event[r] # "none"}

RedisCommands == {"lock", "peek", "finalize", "jdel", "jset"}
Steps == RedisCommands \cup {"insert", "commit", "publish", "jget"}
Labels == Steps \cup {"idle", "done", "dead"}
Errors == {"none", "integrity", "sql", "other"}

Values == Request \cup {Absent, Processing}

SameKey(r, q) == KeyOf[r] = KeyOf[q]

Init ==
    /\ pc = [r \in Request |-> "idle"]
    /\ err = [r \in Request |-> "none"]
    /\ found = [r \in Request |-> Absent]
    /\ tries = [r \in Request |-> 0]
    /\ redis = [k \in Key |-> Absent]
    /\ snapshot = [k \in Key |-> Absent]
    /\ orders = {}
    /\ event = [r \in Request |-> "none"]
    /\ reply = [r \in Request |-> NoReply]

-----------------------------------------------------------------------------
(* Control flow of one request. *)

Goto(r, label) ==
    /\ pc' = [pc EXCEPT ![r] = label]
    /\ tries' = [tries EXCEPT ![r] = 0]

\* The exception handler turns the outcome into a response.
Respond(r, code, order) ==
    /\ Goto(r, "done")
    /\ reply' = [reply EXCEPT ![r] = [code |-> code, order |-> order]]
    /\ UNCHANGED <<err, found>>

\* "except Exception as e": the janitor is called, and deletes the key first.
Janitor(r, e) ==
    /\ Goto(r, "jdel")
    /\ err' = [err EXCEPT ![r] = e]
    /\ UNCHANGED <<found, reply>>

\* An exception of a Redis command: inside the janitor nothing catches it.
RedisError(r) ==
    IF pc[r] \in {"jdel", "jset"}
    THEN Respond(r, "INTERNAL_SERVER_ERROR", Absent)
    ELSE Janitor(r, "other")

Arrive(r) ==
    /\ pc[r] = "idle"
    /\ Goto(r, "lock")
    /\ UNCHANGED <<err, found, redis, snapshot, orders, event, reply>>

-----------------------------------------------------------------------------
(* Redis. *)

\* Bug: SET without NX.
BugFree(k) == TRUE

Free(k) == redis[k] = Absent

\* Bug: the janitor leaves the key, and the marker with it.
BugKeptMarker(r) ==
    CASE pc[r] = "lock"     -> IF Free(KeyOf[r]) THEN Processing ELSE redis[KeyOf[r]]
      [] pc[r] = "finalize" -> r
      [] pc[r] = "jset"     -> found[r]
      [] OTHER              -> redis[KeyOf[r]]

\* Bug: the key is deleted after success, as a lock would be.
BugUnlock(r) ==
    CASE pc[r] = "lock" -> IF Free(KeyOf[r]) THEN Processing ELSE redis[KeyOf[r]]
      [] pc[r] \in {"finalize", "jdel"} -> Absent
      [] pc[r] = "jset" -> found[r]
      [] OTHER          -> redis[KeyOf[r]]

\* What the command r is about to perform makes of its key when Redis runs it.
Written(r) ==
    CASE pc[r] = "lock"     -> IF Free(KeyOf[r]) THEN Processing ELSE redis[KeyOf[r]]
      [] pc[r] = "finalize" -> r
      [] pc[r] = "jdel"     -> Absent
      [] pc[r] = "jset"     -> found[r]
      [] OTHER              -> redis[KeyOf[r]]

Run(r) == redis' = [redis EXCEPT ![KeyOf[r]] = Written(r)]

\* SET key PROCESSING NX EX 300: is_new decides.
Lock(r) ==
    /\ pc[r] = "lock"
    /\ Run(r)
    /\ Goto(r, IF Free(KeyOf[r]) THEN "insert" ELSE "peek")
    /\ UNCHANGED <<err, found, snapshot, orders, event, reply>>

\* Bug: the marker is shown to the client.
BugPayload(cached) == cached

\* The order_id of the 409: the value cached, PENDING for a marker.
Payload(cached) == IF cached = Processing THEN Pending ELSE cached

\* GET key, and the 409.
Peek(r) ==
    /\ pc[r] = "peek"
    /\ Respond(r, "DUPLICATE_ORDER", Payload(redis[KeyOf[r]]))
    /\ UNCHANGED <<redis, snapshot, orders, event>>

\* SETEX key 86400 id, and the 201.
Finalize(r) ==
    /\ pc[r] = "finalize"
    /\ Run(r)
    /\ Respond(r, "CREATED", r)
    /\ UNCHANGED <<snapshot, orders, event>>

\* Bug: the client repeats a command until it succeeds.
BugRedisRetry(r) ==
    /\ REDIS_FAILS
    /\ pc[r] \in RedisCommands
    /\ UNCHANGED redis \/ Run(r)
    /\ UNCHANGED <<control, snapshot, orders, event, reply>>

\* An attempt times out or its connection breaks, before or after Redis ran the
\* command, and the client repeats it.
RedisRetry(r) ==
    /\ REDIS_FAILS
    /\ pc[r] \in RedisCommands
    /\ tries[r] < Retries
    /\ UNCHANGED redis \/ Run(r)
    /\ tries' = [tries EXCEPT ![r] = @ + 1]
    /\ UNCHANGED <<pc, err, found, snapshot, orders, event, reply>>

\* The command raises: at once when it is not one the client repeats (no free
\* connection in the pool, an error reply), else after the last repetition,
\* which Redis may have run.
RedisRaises(r) ==
    /\ REDIS_FAILS
    /\ pc[r] \in RedisCommands
    /\ UNCHANGED redis \/ (tries[r] = Retries /\ Run(r))
    /\ RedisError(r)
    /\ UNCHANGED <<snapshot, orders, event>>

-----------------------------------------------------------------------------
(* PostgreSQL. A request at "commit" has inserted its row in an open        *)
(* transaction; the unique index makes an INSERT of the same key wait.      *)

\* Bug: the index on idempotency_key is not unique.
BugStored(r) == {o \in orders : o = r}

Stored(r) == {o \in orders : SameKey(o, r)}

Contended(r) == \E q \in Request \ {r} : pc[q] = "commit" /\ SameKey(q, r)

\* create_order: the flush sends the INSERT.
Insert(r) ==
    /\ pc[r] = "insert"
    /\ r \notin Unstorable
    /\ ~Contended(r)
    /\ Stored(r) = {}
    /\ Goto(r, "commit")
    /\ UNCHANGED <<err, found, redis, snapshot, orders, event, reply>>

\* IntegrityError: the CHECK, which is evaluated before any index is touched,
\* or the unique index, once no transaction holds the key.
InsertConflict(r) ==
    /\ pc[r] = "insert"
    /\ r \in Unstorable \/ (~Contended(r) /\ Stored(r) # {})
    /\ Janitor(r, "integrity")
    /\ UNCHANGED <<redis, snapshot, orders, event>>

\* Bug: the session is closed without a COMMIT.
BugCommit(r) ==
    /\ pc[r] = "commit"
    /\ Goto(r, "publish")
    /\ UNCHANGED <<err, found, redis, snapshot, orders, event, reply>>

\* Items and history are flushed, and the transaction commits.
Commit(r) ==
    /\ pc[r] = "commit"
    /\ orders' = orders \cup {r}
    /\ Goto(r, "publish")
    /\ UNCHANGED <<err, found, redis, snapshot, event, reply>>

\* Bug: a failed COMMIT is logged, and the request goes on.
BugDatabaseFails(r) ==
    /\ DB_FAILS
    /\ pc[r] = "commit"
    /\ Goto(r, "publish")
    /\ UNCHANGED <<err, found, redis, snapshot, orders, event, reply>>

\* The database fails the request: an SQLAlchemyError, or one the driver raises
\* unwrapped while connecting. A COMMIT whose answer is lost may have happened.
DatabaseFails(r) ==
    /\ DB_FAILS
    /\ \/ pc[r] = "insert" /\ UNCHANGED orders
       \/ pc[r] = "commit" /\ orders' \in {orders, orders \cup {r}}
    /\ \E e \in {"sql", "other"} : Janitor(r, e)
    /\ UNCHANGED <<redis, snapshot, event>>

-----------------------------------------------------------------------------
(* The janitor. *)

\* DELETE key; then what is next depends on the exception.
JanitorDelete(r) ==
    /\ pc[r] = "jdel"
    /\ Run(r)
    /\ \/ err[r] = "integrity" /\ Goto(r, "jget") /\ UNCHANGED <<err, found, reply>>
       \/ err[r] = "sql" /\ Respond(r, "ORDER_CREATION_FAILED", Absent)
       \/ err[r] = "other" /\ Respond(r, "INTERNAL_SERVER_ERROR", Absent)
    /\ UNCHANGED <<snapshot, orders, event>>

\* get_by_idempotency_key finds the order that took the key.
JanitorFinds(r) ==
    /\ pc[r] = "jget"
    /\ \E o \in Stored(r) : found' = [found EXCEPT ![r] = o]
    /\ Goto(r, "jset")
    /\ UNCHANGED <<err, redis, snapshot, orders, event, reply>>

\* It finds none, and an IntegrityError is an SQLAlchemyError.
JanitorFindsNone(r) ==
    /\ pc[r] = "jget"
    /\ Stored(r) = {}
    /\ Respond(r, "ORDER_CREATION_FAILED", Absent)
    /\ UNCHANGED <<redis, snapshot, orders, event>>

\* The query itself fails: nothing in the janitor catches that.
JanitorQueryFails(r) ==
    /\ DB_FAILS
    /\ pc[r] = "jget"
    /\ Respond(r, "INTERNAL_SERVER_ERROR", Absent)
    /\ UNCHANGED <<redis, snapshot, orders, event>>

\* SETEX key 86400 id of the order found, and the 409 that describes it.
JanitorSet(r) ==
    /\ pc[r] = "jset"
    /\ Run(r)
    /\ Respond(r, "DUPLICATE_ORDER", found[r])
    /\ UNCHANGED <<snapshot, orders, event>>

-----------------------------------------------------------------------------
(* Kafka. *)

\* publish and flush(1.0): the message is in the producer's buffer, delivered
\* from there by the client library's own thread.
Publish(r) ==
    /\ pc[r] = "publish"
    /\ event' = [event EXCEPT ![r] = "buffered"]
    /\ Goto(r, "finalize")
    /\ UNCHANGED <<err, found, redis, snapshot, orders, reply>>

\* publish raises before the message is buffered; the exception is logged.
PublishFails(r) ==
    /\ KAFKA_FAILS
    /\ pc[r] = "publish"
    /\ Goto(r, "finalize")
    /\ UNCHANGED <<err, found, redis, snapshot, orders, event, reply>>

Deliver(r) ==
    /\ event[r] = "buffered"
    /\ event' = [event EXCEPT ![r] = "delivered"]
    /\ UNCHANGED <<control, redis, snapshot, orders, reply>>

\* The library gives the message up; the delivery report is logged.
DeliveryFails(r) ==
    /\ KAFKA_FAILS
    /\ event[r] = "buffered"
    /\ event' = [event EXCEPT ![r] = "lost"]
    /\ UNCHANGED <<control, redis, snapshot, orders, reply>>

-----------------------------------------------------------------------------
(* Time and failures. *)

\* Bug: SET NX without EX.
BugExpirable(v) == v \notin {Absent, Processing}

\* Every value is written with a time to live: EX 300 or SETEX 86400.
Expirable(v) == v # Absent

\* The time to live of a key ends. An expiry is absolute, so the copy in the
\* RDB file, which is at most as young, has expired too, unless it is an order
\* id (a day) and the value in memory a marker (five minutes).
Expire(k) ==
    /\ TTL_EXPIRES
    /\ Expirable(redis[k])
    /\ redis' = [redis EXCEPT ![k] = Absent]
    /\ snapshot' = [snapshot EXCEPT ![k] =
                      IF redis[k] = Processing /\ @ # Processing THEN @ ELSE Absent]
    /\ UNCHANGED <<control, orders, event, reply>>

\* --save 60 1
RedisSave ==
    /\ REDIS_RESTARTS
    /\ snapshot' = redis
    /\ UNCHANGED <<control, redis, orders, event, reply>>

RedisRestart ==
    /\ REDIS_RESTARTS
    /\ redis' = snapshot
    /\ UNCHANGED <<control, snapshot, orders, event, reply>>

\* A worker dies: its requests are gone with their open transactions, and its
\* producer's buffer with them. Redis and the database know nothing of it.
Crash(w) ==
    /\ CRASHES
    /\ \E r \in Request : HostOf[r] = w /\ pc[r] \in Steps
    /\ pc' = [r \in Request |->
                IF HostOf[r] = w /\ pc[r] \in Steps THEN "dead" ELSE pc[r]]
    /\ event' = [r \in Request |->
                   IF HostOf[r] = w /\ event[r] = "buffered" THEN "lost" ELSE event[r]]
    /\ UNCHANGED <<err, found, tries, redis, snapshot, orders, reply>>

-----------------------------------------------------------------------------
\* One step of place_order, successful or not.
Step(r) ==
    \/ Lock(r) \/ Peek(r) \/ Finalize(r)
    \/ RedisRetry(r) \/ RedisRaises(r)
    \/ Insert(r) \/ InsertConflict(r) \/ Commit(r) \/ DatabaseFails(r)
    \/ JanitorDelete(r) \/ JanitorFinds(r) \/ JanitorFindsNone(r)
    \/ JanitorQueryFails(r) \/ JanitorSet(r)
    \/ Publish(r) \/ PublishFails(r)

Next ==
    \/ \E r \in Request : Arrive(r) \/ Step(r) \/ Deliver(r) \/ DeliveryFails(r)
    \/ \E k \in Key : Expire(k)
    \/ RedisSave \/ RedisRestart
    \/ \E w \in Worker : Crash(w)

Spec == Init /\ [][Next]_vars

\* The event loop runs every coroutine that is ready, a Redis command returns or
\* raises within its timeout, and Redis expires its keys. The engine sets no timeout
\* for a statement: that the database answers or fails is assumed of it.
Fairness ==
    /\ \A r \in Request : WF_vars(Step(r))
    /\ \A k \in Key : WF_vars(Expire(k))

FairSpec == Spec /\ Fairness

-----------------------------------------------------------------------------
(* Properties. *)

\* Every variable has the values its column, key or attribute can hold.
TypeOK ==
    /\ pc \in [Request -> Labels]
    /\ err \in [Request -> Errors]
    /\ found \in [Request -> Request \cup {Absent}]
    /\ tries \in [Request -> 0 .. Retries]
    /\ redis \in [Key -> Values]
    /\ snapshot \in [Key -> Values]
    /\ orders \subseteq Request
    /\ event \in [Request -> {"none", "buffered", "delivered", "lost"}]
    /\ reply \in [Request -> Replies \cup {NoReply}]

\* However Redis, the database and the workers fail, a key buys one order.
OneOrderPerKey == \A o, q \in orders : SameKey(o, q) => o = q

\* An order id under an idempotency key, in memory or in the RDB file, is that
\* of a committed order of that key: a 409 cannot send a client to an order
\* that was rolled back or that is someone else's.
MarkerTruthful ==
    \A k \in Key : \A v \in {redis[k], snapshot[k]} :
        v \in Request => v \in orders /\ KeyOf[v] = k

\* The service keeps its promise: what it adds to it (locks, retries, the
\* janitor, crashes) only ever stutters, places, answers or publishes once.
KeepsPromise == Promise!Spec

\* Past the Redis lock, with an order to place.
Working == {"insert", "commit", "publish", "finalize"}

\* "Guards against concurrent duplicate requests": no two requests of a key
\* are at work at the same time.
LockExclusion ==
    \A r, q \in Request :
        pc[r] \in Working /\ pc[q] \in Working /\ SameKey(r, q) => r = q

\* From SET NX to the value that replaces the marker, or to its DELETE.
Holding == Working \cup {"jdel"}

\* A marker has a holder who will replace or delete it, or who died.
MarkerHasHolder ==
    \A k \in Key : redis[k] = Processing =>
        \E r \in Request : KeyOf[r] = k /\ pc[r] \in Holding \cup {"dead"}

\* Once a 201 is out, a retry is told the id of the order and nothing else.
CreatedIsRemembered ==
    \A r \in Request :
        reply[r] = [code |-> "CREATED", order |-> r] => redis[KeyOf[r]] = r

\* "Order already processed or in progress": when a request is refused as a
\* duplicate there is an order of its key, or another request working on one.
ConflictMeansOrder ==
    [][\A r \in Request :
         /\ reply[r] = NoReply
         /\ reply'[r] \in {a \in Replies : a.code = "DUPLICATE_ORDER"}
         => \/ Stored(r) # {}
            \/ \E q \in Request \ {r} : SameKey(q, r) /\ pc[q] \in Steps]_vars

\* Every request that got past validation is answered, or its worker died.
EveryRequestAnswered ==
    \A r \in Request : pc[r] = "lock" ~> pc[r] \in {"done", "dead"}

\* A marker goes away whoever has died, so the key can be used again.
MarkerClears ==
    \A k \in Key : redis[k] = Processing ~> redis[k] # Processing

=============================================================================
