----------------------------- MODULE CacheAside -----------------------------
(***************************************************************************)
(* redis-practice, GET /random-users: any number of requests of one        *)
(* process read one key through RedisCache and, on a miss, fetch from the  *)
(* third-party API and store what they fetched.                            *)
(*                                                                         *)
(* A request is a coroutine, cut at its awaits. What it fetches is         *)
(* identified with the request, since every call of the API returns other  *)
(* users. A command holds a connection of the pool while it runs. Neither  *)
(* the commands nor the API call as a whole have a time limit (the client  *)
(* has no socket_timeout, and the five seconds of httpx are for each       *)
(* operation), so that a call may also never return.                       *)
(***************************************************************************)
EXTENDS Naturals, FiniteSets

CONSTANTS
    Request,        \* the GETs
    Empty,          \* the key is not in Redis
    Garbage,        \* not JSON, JSON that is not an object, or {}
    Misshapen,      \* an object that RandomUserAPIResponse rejects, or not UTF-8
    NoReply,        \* not answered
    Connections,    \* max_connections
    \* The failures considered:
    REDIS_FAILS, UPSTREAM_FAILS, FOREIGN_WRITES

ASSUME ConnectionsAssumption == Connections \in Nat
ASSUME FlagsAssumption == {REDIS_FAILS, UPSTREAM_FAILS, FOREIGN_WRITES} \subseteq BOOLEAN
ASSUME ValuesAssumption ==
    /\ {Empty, Garbage, Misshapen} \cap Request = {}
    /\ Empty # Garbage /\ Empty # Misshapen /\ Garbage # Misshapen

VARIABLES
    pc,         \* what the handler is waiting for
    cache,      \* the value of "random-users"
    reply,      \* reply[r]: the response
    hung        \* the requests whose call never returns

vars == <<pc, cache, reply, hung>>

Steps == {"get", "fetch", "set"}
Misses == {Empty, Garbage}
Values == Request \cup {Empty, Garbage, Misshapen}

\* 200 from the cache or the API, or a 5xx.
Replies ==
    [source : {"cache", "api"}, data : Request] \cup [source : {"error"}, data : {Empty}]

ASSUME ReplyAssumption == NoReply \notin Replies

Init ==
    /\ pc = [r \in Request |-> "idle"]
    /\ cache = Empty
    /\ reply = [r \in Request |-> NoReply]
    /\ hung = {}

\* The call of r that is under way may return.
Awaits(r, label) == pc[r] = label /\ r \notin hung

Goto(r, label) ==
    /\ pc' = [pc EXCEPT ![r] = label]
    /\ UNCHANGED <<reply, hung>>

Respond(r, source, data) ==
    /\ pc' = [pc EXCEPT ![r] = "done"]
    /\ reply' = [reply EXCEPT ![r] = [source |-> source, data |-> data]]
    /\ UNCHANGED hung

\* Bug: one connection more than the pool has.
BugConnected == Cardinality({r \in Request : pc[r] \in {"get", "set"}}) <= Connections

\* The pool does not wait for a connection: without a free one it raises. A
\* command that hangs keeps its own.
Connected == Cardinality({r \in Request : pc[r] \in {"get", "set"}}) < Connections

-----------------------------------------------------------------------------
(* RedisCache.get *)

\* A failed command, here one without a connection, is a miss.
Arrive(r) ==
    /\ pc[r] = "idle"
    /\ Goto(r, IF Connected THEN "get" ELSE "fetch")
    /\ UNCHANGED cache

Hit(r) ==
    /\ Awaits(r, "get")
    /\ cache \in Request
    /\ Respond(r, "cache", cache)
    /\ UNCHANGED cache

\* model_validate raises, and nothing catches it or deletes the key.
Invalid(r) ==
    /\ Awaits(r, "get")
    /\ cache = Misshapen
    /\ Respond(r, "error", Empty)
    /\ UNCHANGED cache

Miss(r) ==
    /\ Awaits(r, "get")
    /\ cache \in Misses
    /\ Goto(r, "fetch")
    /\ UNCHANGED cache

\* Bug: get lets the RedisError through.
BugGetRaises(r) ==
    /\ REDIS_FAILS
    /\ Awaits(r, "get")
    /\ Respond(r, "error", Empty)
    /\ UNCHANGED cache

GetRaises(r) ==
    /\ REDIS_FAILS
    /\ Awaits(r, "get")
    /\ Goto(r, "fetch")
    /\ UNCHANGED cache

-----------------------------------------------------------------------------
(* fetch_random_user *)

\* Bug: set waits for a connection, as on a blocking pool.
BugFetch(r) ==
    /\ Awaits(r, "fetch")
    /\ Connected
    /\ Goto(r, "set")
    /\ UNCHANGED cache

\* A RedisError of set, here for want of a connection, is only logged.
Fetch(r) ==
    /\ Awaits(r, "fetch")
    /\ IF Connected THEN Goto(r, "set") ELSE Respond(r, "api", r)
    /\ UNCHANGED cache

\* Bug: what the API said is cached before it is validated.
BugFetchFails(r) ==
    /\ UPSTREAM_FAILS
    /\ Awaits(r, "fetch")
    /\ cache' = r
    /\ Respond(r, "error", Empty)

\* A timeout, a status other than 200 (502) or a body of another shape (500).
FetchFails(r) ==
    /\ UPSTREAM_FAILS
    /\ Awaits(r, "fetch")
    /\ Respond(r, "error", Empty)
    /\ UNCHANGED cache

-----------------------------------------------------------------------------
(* RedisCache.set *)

\* SETEX random-users ttl data
Set(r) ==
    /\ Awaits(r, "set")
    /\ cache' = r
    /\ Respond(r, "api", r)

\* An attempt breaks, before or after Redis ran it, and the client library
\* repeats the command.
SetRetry(r) ==
    /\ REDIS_FAILS
    /\ Awaits(r, "set")
    /\ cache' \in {cache, r}
    /\ UNCHANGED <<pc, reply, hung>>

SetRaises(r) ==
    /\ REDIS_FAILS
    /\ Awaits(r, "set")
    /\ cache' \in {cache, r}
    /\ Respond(r, "api", r)

-----------------------------------------------------------------------------

\* From now on nothing comes back: neither an answer nor an error. Redis may have
\* run the command.
Hang(r) ==
    /\ pc[r] \in Steps /\ r \notin hung
    /\ hung' = hung \cup {r}
    /\ cache' \in IF pc[r] = "set" THEN {cache, r} ELSE {cache}
    /\ UNCHANGED <<pc, reply>>

-----------------------------------------------------------------------------
(* Redis *)

\* The time to live ends.
Expire ==
    /\ cache # Empty
    /\ cache' = Empty
    /\ UNCHANGED <<pc, reply, hung>>

\* Another program writes the key, or an earlier release of this one whose
\* response had another shape.
Write ==
    /\ FOREIGN_WRITES
    /\ cache' \in {Garbage, Misshapen}
    /\ UNCHANGED <<pc, reply, hung>>

-----------------------------------------------------------------------------

\* The call the handler waits for returns.
Handler(r) == Hit(r) \/ Invalid(r) \/ Miss(r) \/ Fetch(r) \/ Set(r)

Failure(r) == GetRaises(r) \/ FetchFails(r) \/ SetRetry(r) \/ SetRaises(r) \/ Hang(r)

Next ==
    \/ \E r \in Request : Arrive(r) \/ Handler(r) \/ Failure(r)
    \/ Expire \/ Write

Spec == Init /\ [][Next]_vars

\* The event loop runs what is ready. Of Redis and the API nothing is assumed:
\* each call returns, raises, or is one that hangs.
FairSpec ==
    /\ Spec
    /\ \A r \in Request : WF_vars(Handler(r))

-----------------------------------------------------------------------------
(* Properties. *)

TypeOK ==
    /\ pc \in [Request -> Steps \cup {"idle", "done"}]
    /\ cache \in Values
    /\ reply \in [Request -> Replies \cup {NoReply}]
    /\ hung \subseteq Request
    /\ Cardinality({r \in Request : pc[r] \in {"get", "set"}}) <= Connections

\* Served as users: what the request with this data got from the API itself, so
\* that a cached answer is the answer of a request that succeeded.
Fetched == {r \in Request : pc[r] = "set" \/ reply[r] = [source |-> "api", data |-> r]}

\* Neither the key nor a response ever holds data that the API did not deliver
\* whole, or that a request could not validate.
OnlyFetchedData ==
    /\ cache \in Request => cache \in Fetched
    /\ \A r \in Request : reply[r] # NoReply /\ reply[r].source # "error"
                            => reply[r].data \in Fetched

\* Redis is optional: a request fails because the API failed it, or because it
\* was handed an object of another shape.
FailsOnlyUpstream ==
    [][\A r \in Request :
         reply[r] = NoReply /\ reply'[r] = [source |-> "error", data |-> Empty]
         => pc[r] = "fetch" \/ (pc[r] = "get" /\ cache = Misshapen)]_vars

\* A request waits for ever only on a call of its own that never returns: the
\* hung calls of others, which keep their connections, hold up nobody, since the
\* pool raises when they have used it up.
EveryRequestAnswered ==
    \A r \in Request : pc[r] \in Steps ~> pc[r] = "done" \/ r \in hung

=============================================================================
