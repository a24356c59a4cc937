-------------------------- MODULE CacheAsideProofs --------------------------
(* Theorems about CacheAside, for any number of requests and connections.     *)
EXTENDS CacheAside, FiniteSetTheorems, TLAPS

Types ==
    /\ pc \in [Request -> Steps \cup {"idle", "done"}]
    /\ cache \in Values
    /\ reply \in [Request -> Replies \cup {NoReply}]
    /\ hung \subseteq Request

\* A request is answered when it is done, and then has what it fetched or what
\* was in the cache.
Answered == \A r \in Request : pc[r] # "done" => reply[r] = NoReply

\* The inductive invariant.
CacheInv == Types /\ Answered /\ OnlyFetchedData

\* What a request has fetched stays fetched when it goes on, or is answered with
\* something that somebody has fetched.
LEMMA Goes ==
    ASSUME CacheInv, NEW r \in Request, NEW label \in Steps,
           Goto(r, label), pc[r] \in {"idle", "get", "fetch"}, UNCHANGED cache
    PROVE  CacheInv'
<1>1. /\ pc'[r] = label /\ reply' = reply /\ cache' = cache
      /\ \A q \in Request \ {r} : pc'[q] = pc[q]
  BY DEF Goto, CacheInv, Types
<1>2. Types'
  BY DEF Goto, CacheInv, Types, Steps
<1>3. Answered'
  BY <1>1 DEF CacheInv, Answered
<1>4. Fetched \subseteq Fetched'
  BY <1>1 DEF Fetched
<1>5. OnlyFetchedData'
  BY <1>1, <1>4 DEF CacheInv, OnlyFetchedData
<1>6. QED
  BY <1>2, <1>3, <1>5 DEF CacheInv

LEMMA Responds ==
    ASSUME CacheInv, NEW r \in Request, pc[r] \in Steps,
           cache' = cache \/ (cache' = r /\ pc[r] = "set"),
           \/ pc[r] # "set" /\ Respond(r, "error", Empty)
           \/ pc[r] = "get" /\ cache \in Request /\ Respond(r, "cache", cache)
           \/ Respond(r, "api", r)
    PROVE  CacheInv'
<1>1. /\ pc'[r] = "done" /\ \A q \in Request \ {r} : pc'[q] = pc[q] /\ reply'[q] = reply[q]
      /\ reply[r] = NoReply
  BY DEF Respond, CacheInv, Types, Answered, Steps
<1>2. Types'
  BY DEF Respond, CacheInv, Types, Steps, Replies, Values
<1>3. Answered'
  BY <1>1 DEF CacheInv, Answered
<1>4. Fetched \ {r} \subseteq Fetched'
  BY <1>1 DEF Fetched
<1>5. r \in Fetched => r \in Fetched' /\ reply'[r] = [source |-> "api", data |-> r]
  <2>1. [source |-> "api", data |-> r] \in Replies
    BY DEF Replies
  <2>2. reply[r] # [source |-> "api", data |-> r]
    BY <1>1, <2>1, ReplyAssumption
  <2>3. ASSUME r \in Fetched PROVE reply'[r] = [source |-> "api", data |-> r]
    BY <2>2, <2>3 DEF Fetched, Respond, CacheInv, Types
  <2>4. QED
    BY <2>3 DEF Fetched
<1>6. OnlyFetchedData'
  <2>1. ASSUME cache' \in Request PROVE cache' \in Fetched'
    <3>1. CASE cache' = cache
      BY <1>4, <1>5, <2>1, <3>1 DEF CacheInv, OnlyFetchedData
    <3>2. CASE cache' = r /\ pc[r] = "set"
      BY <1>5, <3>2 DEF Fetched
    <3>3. QED
      BY <3>1, <3>2
  <2>2. ASSUME reply'[r].source # "error" PROVE reply'[r].data \in Fetched'
    <3>1. CASE Respond(r, "error", Empty)
      BY <2>2, <3>1 DEF Respond, CacheInv, Types
    <3>2. CASE cache \in Request /\ Respond(r, "cache", cache)
      BY <1>4, <1>5, <3>2 DEF Respond, CacheInv, Types, OnlyFetchedData
    <3>3. CASE Respond(r, "api", r)
      BY <3>3 DEF Respond, CacheInv, Types, Fetched
    <3>4. QED
      BY <3>1, <3>2, <3>3
  <2>3. QED
    BY <1>1, <1>4, <1>5, <2>1, <2>2 DEF CacheInv, OnlyFetchedData
<1>7. QED
  BY <1>2, <1>3, <1>6 DEF CacheInv

LEMMA CacheStep ==
    ASSUME CacheInv, [Next]_vars
    PROVE  CacheInv'
<1>1. CASE UNCHANGED vars
  BY <1>1 DEF vars, CacheInv, Types, Answered, OnlyFetchedData, Fetched
<1>2. ASSUME NEW r \in Request, Arrive(r) \/ Miss(r) \/ GetRaises(r) PROVE CacheInv'
  <2>1. Goto(r, "get") \/ Goto(r, "fetch")
    BY <1>2 DEF Arrive, Miss, GetRaises, Awaits
  <2>2. QED
    BY <1>2, <2>1, Goes DEF Arrive, Miss, GetRaises, Steps, Awaits
<1>3. ASSUME NEW r \in Request, Fetch(r) PROVE CacheInv'
  <2>1. CASE Goto(r, "set")
    BY <1>3, <2>1, Goes DEF Fetch, Steps, Awaits
  <2>2. CASE Respond(r, "api", r)
    BY <1>3, <2>2, Responds DEF Fetch, Steps, Awaits
  <2>3. QED
    BY <1>3, <2>1, <2>2 DEF Fetch
<1>4. ASSUME NEW r \in Request,
             Hit(r) \/ Invalid(r) \/ Set(r) \/ FetchFails(r) \/ SetRaises(r)
      PROVE  CacheInv'
  BY <1>4, Responds DEF Hit, Invalid, Set, FetchFails, SetRaises, Steps, Awaits
<1>5. ASSUME NEW r \in Request, SetRetry(r) \/ Hang(r) PROVE CacheInv'
  <2>1. /\ UNCHANGED <<pc, reply>> /\ hung' \subseteq Request
        /\ cache' = cache \/ (cache' = r /\ pc[r] = "set")
    BY <1>5 DEF SetRetry, Hang, Awaits, CacheInv, Types
  <2>2. QED
    BY <2>1 DEF CacheInv, Types, Values, Answered, OnlyFetchedData, Fetched
<1>6. CASE Expire \/ Write
  <2>1. cache' \in {Empty, Garbage, Misshapen} /\ cache' \notin Request
        /\ UNCHANGED <<pc, reply, hung>>
    BY <1>6, ValuesAssumption DEF Expire, Write
  <2>2. QED
    BY <2>1 DEF CacheInv, Types, Values, Answered, OnlyFetchedData, Fetched
<1>7. QED
  BY <1>1, <1>2, <1>3, <1>4, <1>5, <1>6 DEF Next, Handler, Failure

LEMMA CacheCorrect == Spec => []CacheInv
<1>1. Init => CacheInv
  BY ValuesAssumption DEF Init, CacheInv, Types, Steps, Values, Answered, OnlyFetchedData
<1>2. QED
  BY <1>1, CacheStep, PTL DEF Spec

-----------------------------------------------------------------------------

\* Neither Redis nor a response holds data that nobody fetched whole, however
\* many requests miss, store and repeat their SETEX around each other.
THEOREM OnlyFetched == Spec => []OnlyFetchedData
BY CacheCorrect, PTL DEF CacheInv

\* A request fails on account of the API or of an object of another shape in the
\* cache, and never on account of Redis.
THEOREM RedisOptional == Spec => FailsOnlyUpstream
<1>1. ASSUME CacheInv, [Next]_vars, NEW r \in Request,
             reply[r] = NoReply, reply'[r] = [source |-> "error", data |-> Empty]
      PROVE  pc[r] = "fetch" \/ (pc[r] = "get" /\ cache = Misshapen)
  <2>1. reply'[r] # reply[r]
    BY <1>1, ReplyAssumption DEF Replies
  <2>2. PICK q \in Request : Arrive(q) \/ Handler(q) \/ Failure(q)
    BY <1>1, <2>1 DEF Next, vars, Expire, Write
  <2>3. \/ Respond(q, "api", q) \/ Respond(q, "cache", cache)
        \/ Respond(q, "error", Empty) /\ (pc[q] = "fetch" \/ (pc[q] = "get" /\ cache = Misshapen))
    <3>1. CASE Hit(q) \/ Invalid(q) \/ Set(q) \/ FetchFails(q) \/ SetRaises(q)
      BY <3>1 DEF Hit, Invalid, Set, FetchFails, SetRaises, Awaits
    <3>2. CASE Fetch(q)
      BY <2>1, <3>2 DEF Fetch, Goto
    <3>3. CASE Arrive(q) \/ Miss(q) \/ GetRaises(q)
      <4>1. UNCHANGED reply
        BY <3>3 DEF Arrive, Miss, GetRaises, Goto
      <4>2. QED
        BY <2>1, <4>1
    <3>4. CASE SetRetry(q) \/ Hang(q)
      BY <2>1, <3>4 DEF SetRetry, Hang
    <3>5. QED
      BY <2>2, <3>1, <3>2, <3>3, <3>4 DEF Handler, Failure
  <2>4. r = q
    BY <1>1, <2>1, <2>3 DEF Respond, CacheInv, Types
  <2>5. QED
    BY <1>1, <2>3, <2>4 DEF Respond, CacheInv, Types
<1>2. CacheInv /\ [Next]_vars =>
        [\A r \in Request :
           reply[r] = NoReply /\ reply'[r] = [source |-> "error", data |-> Empty]
           => pc[r] = "fetch" \/ (pc[r] = "get" /\ cache = Misshapen)]_vars
  BY <1>1
<1>3. QED
  BY <1>2, CacheCorrect, PTL DEF Spec, FailsOnlyUpstream

-----------------------------------------------------------------------------

\* The requests with a connection. They are finitely many, also of infinitely
\* many requests.
Using == {r \in Request : pc[r] \in {"get", "set"}}

Pooled == IsFiniteSet(Using) /\ Cardinality(Using) <= Connections

\* A request takes a connection when one is free, and no other step takes any.
LEMMA PoolStep ==
    ASSUME Types, Pooled, [Next]_vars
    PROVE  Pooled'
<1>1. ASSUME Using' \subseteq Using PROVE Pooled'
  <2>1. /\ IsFiniteSet(Using') /\ Cardinality(Using') <= Cardinality(Using)
        /\ Cardinality(Using) \in Nat /\ Cardinality(Using') \in Nat
    BY <1>1, FS_Subset, FS_CardinalityType DEF Pooled
  <2>2. QED
    BY <2>1, ConnectionsAssumption DEF Pooled
<1>2. ASSUME NEW r \in Request, Connected, Using' \subseteq Using \cup {r} PROVE Pooled'
  <2>1. /\ IsFiniteSet(Using \cup {r}) /\ Cardinality(Using) \in Nat
        /\ Cardinality(Using \cup {r}) \in {Cardinality(Using), Cardinality(Using) + 1}
    BY FS_AddElement, FS_CardinalityType DEF Pooled
  <2>2. /\ IsFiniteSet(Using') /\ Cardinality(Using') <= Cardinality(Using \cup {r})
        /\ Cardinality(Using') \in Nat
    BY <1>2, <2>1, FS_Subset, FS_CardinalityType
  <2>3. Cardinality(Using) < Connections
    BY <1>2 DEF Connected, Using
  <2>4. QED
    BY <2>1, <2>2, <2>3, ConnectionsAssumption DEF Pooled
<1>3. CASE UNCHANGED vars
  BY <1>1, <1>3 DEF vars, Using
<1>4. ASSUME NEW r \in Request, Arrive(r) \/ Fetch(r) PROVE Pooled'
  <2>1. CASE Connected
    <3>1. Using' \subseteq Using \cup {r}
      BY <1>4 DEF Arrive, Fetch, Awaits, Goto, Respond, Using, Types
    <3>2. QED
      BY <1>2, <2>1, <3>1
  <2>2. CASE ~Connected
    <3>1. Using' \subseteq Using
      BY <1>4, <2>2 DEF Arrive, Fetch, Awaits, Goto, Respond, Using, Types
    <3>2. QED
      BY <1>1, <3>1
  <2>3. QED
    BY <2>1, <2>2
<1>5. ASSUME NEW r \in Request, Hit(r) \/ Invalid(r) \/ Miss(r) \/ Set(r) \/ Failure(r)
      PROVE  Pooled'
  <2>1. Using' \subseteq Using
    BY <1>5
    DEF Hit, Invalid, Miss, Set, Failure, GetRaises, FetchFails, SetRetry, SetRaises, Hang,
        Awaits, Goto, Respond, Using, Types
  <2>2. QED
    BY <1>1, <2>1
<1>6. CASE Expire \/ Write
  BY <1>1, <1>6 DEF Expire, Write, Using
<1>7. QED
  BY <1>3, <1>4, <1>5, <1>6 DEF Next, Handler

\* The state has its types, and no more connections are in use than the pool
\* has: a request without one goes on without Redis and holds none.
THEOREM PoolBounded == Spec => []TypeOK
<1>1. Init => Pooled
  <2> SUFFICES ASSUME Init PROVE Pooled
    OBVIOUS
  <2>1. Using = {}
    BY DEF Init, Using
  <2>2. QED
    BY <2>1, FS_EmptySet, ConnectionsAssumption DEF Pooled
<1>2. CacheInv /\ Pooled /\ [Next]_vars => Pooled'
  BY PoolStep DEF CacheInv
<1>3. CacheInv /\ Pooled => TypeOK
  BY DEF CacheInv, Types, Pooled, Using, TypeOK
<1>4. QED
  BY <1>1, <1>2, <1>3, CacheCorrect, PTL DEF Spec

=============================================================================
