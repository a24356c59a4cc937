------------------------------ MODULE Lifespan ------------------------------
(***************************************************************************)
(* The lifespan of the order service: Redis, the database and Kafka are    *)
(* started in this order before the first request and stopped in the       *)
(* opposite one after the last, each by a function that raises when it     *)
(* cannot start its service and logs when it cannot stop it.               *)
(*                                                                         *)
(* The Redis manager, the engine and the Kafka producer are module globals *)
(* and outlive the lifespan: a process that runs it again, as an           *)
(* application under test does, finds what the last run left. Its task can *)
(* be cancelled at an await, with an exception that is no Exception. The   *)
(* server around it (external) starts a new process for one that ended.    *)
(***************************************************************************)
EXTENDS Naturals, Sequences

CONSTANTS
    STOP_FAILS,     \* stopping a service can fail, and be cancelled
    REENTERED       \* a process may run the lifespan again

ASSUME FlagsAssumption == {STOP_FAILS, REENTERED} \subseteq BOOLEAN

VARIABLES
    phase,      \* what the lifespan is doing
    at,         \* the service it starts or stops next, by its place in Order
    started,    \* redis_started, db_started, kafka_started
    held,       \* what the globals hold: _client, the engine's pooled
                \* connections, the producer
    answered,   \* the services that answered since this lifespan began
    left        \* those of which a failed start or stop left something

globals == <<held, left>>
vars == <<phase, at, started, held, answered, left>>

Order == <<"redis", "db", "kafka">>
Service == {"redis", "db", "kafka"}

Init ==
    /\ phase = "down"
    /\ at = 1
    /\ started = {}
    /\ held = {}
    /\ answered = {}
    /\ left = {}

\* A new process, or another run in the same one.
Enter ==
    /\ phase = "down" \/ (phase = "ended" /\ REENTERED)
    /\ phase' = "starting"
    /\ at' = 1
    /\ started' = {}
    /\ answered' = {}
    /\ UNCHANGED globals

-----------------------------------------------------------------------------
(* Startup *)

\* connect() and init_kafka_producer() return at once when their global is set.
Present(s) == s \in held /\ s # "db"

\* The client is kept after ping, the connection of SELECT 1 in the pool, and
\* the producer without a word from the broker.
Start(s) ==
    /\ phase = "starting" /\ s = Order[at]
    /\ started' = started \cup {s}
    /\ held' = held \cup {s}
    /\ answered' = IF Present(s) \/ s = "kafka" THEN answered ELSE answered \cup {s}
    /\ IF at = Len(Order)
       THEN phase' = "serving" /\ UNCHANGED at
       ELSE at' = at + 1 /\ UNCHANGED phase
    /\ UNCHANGED left

\* Bug: the exception is logged, and startup goes on.
BugStartFails(s) ==
    /\ phase = "starting" /\ s = Order[at]
    /\ ~Present(s)
    /\ IF at = Len(Order)
       THEN phase' = "serving" /\ UNCHANGED at
       ELSE at' = at + 1 /\ UNCHANGED phase
    /\ UNCHANGED <<started, answered, globals>>

\* The exception goes through: the finally clause, then the end. It may leave
\* the client, when the task is cancelled while ping waits, since only a
\* RedisError resets it, and a connection in the pool, when SELECT 1 fails on it.
StartFails(s) ==
    /\ phase = "starting" /\ s = Order[at]
    /\ ~Present(s)
    /\ \E kept \in SUBSET ({s} \ {"kafka"}) :
         /\ held' = held \cup kept
         /\ left' = left \cup kept
    /\ phase' = "stopping"
    /\ at' = Len(Order)
    /\ UNCHANGED <<started, answered>>

-----------------------------------------------------------------------------
(* Shutdown *)

\* The server has been told to stop, and its requests have been answered.
Shutdown ==
    /\ phase = "serving"
    /\ phase' = "stopping"
    /\ at' = Len(Order)
    /\ UNCHANGED <<started, answered, globals>>

\* Bug: the clause does not end with the first service.
BugEndless == at' = at - 1 /\ UNCHANGED phase

Proceed ==
    IF at = 1
    THEN phase' = "ended" /\ UNCHANGED at
    ELSE at' = at - 1 /\ UNCHANGED phase

\* "if redis_started", "if db_started", "if kafka_started"
Skip(s) ==
    /\ phase = "stopping" /\ s = Order[at]
    /\ s \notin started
    /\ Proceed
    /\ UNCHANGED <<started, answered, globals>>

\* Bug: disconnect() closes the client and keeps it.
BugKept(s) ==
    /\ phase = "stopping" /\ s = Order[at]
    /\ s \in started
    /\ held' = held \ ({s} \cap {"db"})
    /\ left' = left \ {s}
    /\ Proceed
    /\ UNCHANGED <<started, answered>>

\* Bug: flush without a timeout, and no broker.
BugStop(s) ==
    /\ phase = "stopping" /\ s = Order[at]
    /\ s \in started \ {"kafka"}
    /\ held' = held \ {s}
    /\ left' = left \ {s}
    /\ Proceed
    /\ UNCHANGED <<started, answered>>

\* disconnect() forgets the client and its pool, whose connections aclose() does
\* not close since the client was handed it; dispose() closes those of the engine;
\* the producer is flushed and stays.
Stop(s) ==
    /\ phase = "stopping" /\ s = Order[at]
    /\ s \in started
    /\ held' = IF s = "kafka" THEN held ELSE held \ {s}
    /\ left' = left \ {s}
    /\ Proceed
    /\ UNCHANGED <<started, answered>>

\* Bug: the exception is not caught, and nothing else is stopped.
BugStopFails(s) ==
    /\ STOP_FAILS
    /\ phase = "stopping" /\ s = Order[at]
    /\ s \in started
    /\ phase' = "ended"
    /\ left' = left \cup {s}
    /\ UNCHANGED <<at, started, answered, held>>

\* An exception is logged, and the next service is stopped. aclose() has nothing
\* to do that could raise.
StopFails(s) ==
    /\ STOP_FAILS
    /\ phase = "stopping" /\ s = Order[at]
    /\ s \in started \ {"redis"}
    /\ left' = left \cup {s}
    /\ Proceed
    /\ UNCHANGED <<started, answered, held>>

\* The task is cancelled while dispose() waits. "except Exception" does not catch
\* this, and Redis is not stopped.
Cancel(s) ==
    /\ STOP_FAILS
    /\ phase = "stopping" /\ s = Order[at]
    /\ s \in started \cap {"db"}
    /\ phase' = "ended"
    /\ left' = left \cup (started \ {"kafka"})
    /\ UNCHANGED <<at, started, answered, held>>

-----------------------------------------------------------------------------

\* The process is gone, after the lifespan or in the middle of it.
Exit ==
    /\ phase # "down"
    /\ phase' = "down"
    /\ at' = 1
    /\ started' = {}
    /\ held' = {}
    /\ answered' = {}
    /\ left' = {}

Call(s) == Start(s) \/ Skip(s) \/ Stop(s)

Failure(s) == StartFails(s) \/ StopFails(s) \/ Cancel(s)

Next ==
    \/ Enter \/ Shutdown \/ Exit
    \/ \E s \in Service : Call(s) \/ Failure(s)

Spec == Init /\ [][Next]_vars

-----------------------------------------------------------------------------
(* Properties. *)

TypeOK ==
    /\ phase \in {"down", "starting", "serving", "stopping", "ended"}
    /\ at \in DOMAIN Order
    /\ {started, held, answered, left} \subseteq SUBSET Service

\* No request meets a manager without a client or a producer that is None, in
\* the first run and in any later one.
ServingIsReady == phase = "serving" => Service \subseteq started \cap held

\* However far startup got and whichever stop raises, the others are stopped: only
\* the producer is still there, and what a failed start or stop, or a shutdown that
\* was cancelled, has left.
StoppedAtEnd == phase = "ended" => held \subseteq {"kafka"} \cup left

\* Startup and shutdown do not hang: one leads to requests or to shutdown, the
\* other to the end.
NeverHalfway == phase \in {"starting", "stopping"} ~> phase \notin {"starting", "stopping"}

\* redis.py, "Initial pulse check", and database_lifecycle.py,
\* "verifying_database_connection": no request is served before both have
\* answered this lifespan, with one exception: the client of an earlier run that
\* was cancelled is still there for the next connect(), which then asks nothing
\* of Redis.
PulseChecked ==
    phase = "serving" => "db" \in answered /\ "redis" \in answered \cup left

=============================================================================
