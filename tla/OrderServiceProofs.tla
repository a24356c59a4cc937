------------------------ MODULE OrderServiceProofs ------------------------
(* Theorems about OrderService, for every set of requests, keys and workers. *)
EXTENDS OrderService, Integers, TLAPS

\* An open transaction holds its key alone, and nothing of it is committed yet.
CommitAlone ==
    \A r \in Request : pc[r] = "commit" =>
        /\ \A o \in orders : ~SameKey(o, r)
        /\ \A q \in Request : pc[q] = "commit" /\ SameKey(q, r) => q = r

\* What follows the transaction follows a committed order.
PostCommit == \A r \in Request : pc[r] \in {"publish", "finalize"} => r \in orders

\* What the janitor found is committed, and of the key it looked for.
FoundTruthful ==
    \A r \in Request : pc[r] = "jset" => found[r] \in orders /\ SameKey(found[r], r)

Unanswered == \A r \in Request : pc[r] # "done" => reply[r] = NoReply

\* An event has an order behind it, and is not there before its turn.
EventTruthful ==
    \A r \in Request :
        /\ event[r] # "none" => r \in orders
        /\ pc[r] \in {"idle", "lock", "peek", "insert", "commit", "publish"}
             => event[r] = "none"

\* The inductive invariant.
IInv ==
    /\ TypeOK
    /\ OneOrderPerKey
    /\ MarkerTruthful
    /\ CommitAlone
    /\ PostCommit
    /\ FoundTruthful
    /\ Unanswered
    /\ EventTruthful

-----------------------------------------------------------------------------

\* A Redis command leaves a value Redis can hold.
LEMMA WrittenType ==
    ASSUME TypeOK, NEW r \in Request
    PROVE  /\ Written(r) \in Values
           /\ KeyOf[r] \in Key
           /\ Run(r) => redis' \in [Key -> Values]
<1>1. KeyOf[r] \in Key
  BY ConstantsAssumption
<1>2. Written(r) \in Values
  BY <1>1 DEF Written, TypeOK, Values
<1>3. Run(r) => redis' \in [Key -> Values]
  BY <1>1, <1>2 DEF Run, TypeOK
<1>4. QED
  BY <1>1, <1>2, <1>3

\* Every step of the service and of its surroundings keeps every variable
\* within its type.
LEMMA TypeStep ==
    ASSUME TypeOK, [Next]_vars
    PROVE  TypeOK'
<1>1. CASE UNCHANGED vars
  BY <1>1 DEF vars, TypeOK
<1>2. ASSUME NEW r \in Request, Arrive(r) PROVE TypeOK'
  BY <1>2, ConstantsAssumption DEF Arrive, Goto, TypeOK, Labels, Steps, RedisCommands
<1>3. ASSUME NEW r \in Request, Step(r) PROVE TypeOK'
  <2>1. CASE Lock(r)
    BY <2>1, WrittenType, ConstantsAssumption
    DEF Lock, Goto, TypeOK, Labels, Steps, RedisCommands
  <2>2. CASE Peek(r)
    BY <2>2, WrittenType, ConstantsAssumption
    DEF Peek, Payload, Respond, Goto, TypeOK, Labels, Replies, Codes, Values
  <2>3. CASE Finalize(r)
    BY <2>3, WrittenType, ConstantsAssumption
    DEF Finalize, Respond, Goto, TypeOK, Labels, Replies, Codes
  <2>4. CASE RedisRetry(r)
    BY <2>4, WrittenType, ConstantsAssumption DEF RedisRetry, TypeOK
  <2>5. CASE RedisRaises(r)
    <3>1. redis' \in [Key -> Values]
      BY <2>5, WrittenType DEF RedisRaises, TypeOK
    <3>2. CASE Respond(r, "INTERNAL_SERVER_ERROR", Absent)
      BY <2>5, <3>1, <3>2, ConstantsAssumption
      DEF RedisRaises, Respond, Goto, TypeOK, Labels, Replies, Codes
    <3>3. CASE Janitor(r, "other")
      BY <2>5, <3>1, <3>3, ConstantsAssumption
      DEF RedisRaises, Janitor, Goto, TypeOK, Labels, Steps, RedisCommands, Errors
    <3>4. QED
      BY <2>5, <3>2, <3>3 DEF RedisRaises, RedisError
  <2>6. CASE Insert(r)
    BY <2>6, ConstantsAssumption DEF Insert, Goto, TypeOK, Labels, Steps
  <2>7. CASE InsertConflict(r)
    BY <2>7, ConstantsAssumption
    DEF InsertConflict, Janitor, Goto, TypeOK, Labels, Steps, RedisCommands, Errors
  <2>8. CASE Commit(r)
    BY <2>8, ConstantsAssumption DEF Commit, Goto, TypeOK, Labels, Steps
  <2>9. CASE DatabaseFails(r)
    BY <2>9, ConstantsAssumption
    DEF DatabaseFails, Janitor, Goto, TypeOK, Labels, Steps, RedisCommands, Errors
  <2>10. CASE JanitorDelete(r)
    <3>1. redis' \in [Key -> Values]
      BY <2>10, WrittenType DEF JanitorDelete
    <3>2. CASE Goto(r, "jget") /\ UNCHANGED <<err, found, reply>>
      BY <2>10, <3>1, <3>2, ConstantsAssumption
      DEF JanitorDelete, Goto, TypeOK, Labels, Steps
    <3>3. ASSUME NEW c \in Codes, Respond(r, c, Absent) PROVE TypeOK'
      BY <2>10, <3>1, <3>3, ConstantsAssumption
      DEF JanitorDelete, Respond, Goto, TypeOK, Labels, Replies
    <3>4. QED
      BY <2>10, <3>2, <3>3 DEF JanitorDelete, Codes
  <2>11. CASE JanitorFinds(r)
    BY <2>11, ConstantsAssumption
    DEF JanitorFinds, Stored, Goto, TypeOK, Labels, Steps, RedisCommands
  <2>12. CASE JanitorFindsNone(r) \/ JanitorQueryFails(r)
    BY <2>12, ConstantsAssumption
    DEF JanitorFindsNone, JanitorQueryFails, Respond, Goto, TypeOK, Labels,
        Replies, Codes
  <2>13. CASE JanitorSet(r)
    BY <2>13, WrittenType, ConstantsAssumption
    DEF JanitorSet, Respond, Goto, TypeOK, Labels, Replies, Codes
  <2>14. CASE Publish(r) \/ PublishFails(r)
    BY <2>14, ConstantsAssumption
    DEF Publish, PublishFails, Goto, TypeOK, Labels, Steps, RedisCommands
  <2>15. QED
    BY <1>3, <2>1, <2>2, <2>3, <2>4, <2>5, <2>6, <2>7, <2>8, <2>9, <2>10, <2>11,
       <2>12, <2>13, <2>14 DEF Step
<1>4. ASSUME NEW r \in Request, Deliver(r) \/ DeliveryFails(r) PROVE TypeOK'
  BY <1>4 DEF Deliver, DeliveryFails, control, TypeOK
<1>5. ASSUME NEW k \in Key, Expire(k) PROVE TypeOK'
  BY <1>5 DEF Expire, control, TypeOK, Values
<1>6. CASE RedisSave \/ RedisRestart
  BY <1>6 DEF RedisSave, RedisRestart, control, TypeOK
<1>7. ASSUME NEW w \in Worker, Crash(w) PROVE TypeOK'
  BY <1>7 DEF Crash, TypeOK, Labels
<1>8. QED
  BY <1>1, <1>2, <1>3, <1>4, <1>5, <1>6, <1>7 DEF Next

\* Type correctness of the service.
THEOREM TypeCorrect == Spec => []TypeOK
<1>1. Init => TypeOK
  BY ConstantsAssumption DEF Init, TypeOK, Labels, Errors, Values
<1>2. QED
  BY <1>1, TypeStep, PTL DEF Spec

-----------------------------------------------------------------------------
(* Safety. The steps that touch orders, event and the ids in Redis are few;  *)
(* the others only move a request from one label to another.                 *)

\* What is true of the answers and labels of one request is not disturbed by
\* the steps of the others: the only variables they share are redis and orders.
LEMMA MarkerStep ==
    ASSUME IInv, NEW r \in Request, Run(r), orders \subseteq orders', UNCHANGED snapshot
    PROVE  MarkerTruthful'
<1>1. KeyOf[r] \in Key
  BY ConstantsAssumption
<1>2. Written(r) \in Request => Written(r) \in orders /\ KeyOf[Written(r)] = KeyOf[r]
  BY <1>1, ValuesAssumption
  DEF Written, IInv, MarkerTruthful, PostCommit, FoundTruthful, SameKey
<1>3. QED
  BY <1>1, <1>2 DEF Run, IInv, TypeOK, MarkerTruthful

\* Every step keeps the invariant: only Commit adds an order, with the row lock
\* of its key held, and only steps that saw a stored order write its id.
LEMMA SafetyStep ==
    ASSUME IInv, [Next]_vars
    PROVE  IInv'
<1> USE ConstantsAssumption
<1>0. TypeOK /\ TypeOK'
  BY TypeStep DEF IInv
<1>1. CASE UNCHANGED vars
  BY <1>0, <1>1
  DEF vars, IInv, OneOrderPerKey, MarkerTruthful, CommitAlone, PostCommit,
      FoundTruthful, Unanswered, EventTruthful
<1>2. ASSUME NEW r \in Request, Arrive(r) PROVE IInv'
  BY <1>0, <1>2
  DEF Arrive, Goto, TypeOK, IInv, OneOrderPerKey, MarkerTruthful, CommitAlone,
      PostCommit, FoundTruthful, Unanswered, EventTruthful
<1>3. ASSUME NEW r \in Request, Step(r) PROVE IInv'
  <2> USE DEF TypeOK, IInv, OneOrderPerKey, CommitAlone, PostCommit,
              FoundTruthful, Unanswered, EventTruthful
  <2>1. CASE Lock(r)
    BY <1>0, <2>1, MarkerStep DEF Lock, Goto
  <2>2. CASE Peek(r)
    BY <1>0, <2>2 DEF Peek, Respond, Goto, MarkerTruthful
  <2>3. CASE Finalize(r)
    BY <1>0, <2>3, MarkerStep DEF Finalize, Respond, Goto
  <2>4. CASE RedisRetry(r)
    <3>1. MarkerTruthful'
      BY <2>4, MarkerStep DEF RedisRetry, MarkerTruthful
    <3>2. QED
      BY <1>0, <2>4, <3>1 DEF RedisRetry
  <2>5. CASE RedisRaises(r)
    <3>1. MarkerTruthful'
      BY <2>5, MarkerStep DEF RedisRaises, MarkerTruthful
    <3>2. CASE Respond(r, "INTERNAL_SERVER_ERROR", Absent)
      BY <1>0, <2>5, <3>1, <3>2 DEF RedisRaises, Respond, Goto
    <3>3. CASE Janitor(r, "other")
      BY <1>0, <2>5, <3>1, <3>3 DEF RedisRaises, RedisCommands, Janitor, Goto
    <3>4. QED
      BY <2>5, <3>2, <3>3 DEF RedisRaises, RedisError
  <2>6. CASE Insert(r)
    BY <1>0, <2>6 DEF Insert, Stored, Contended, SameKey, Goto, MarkerTruthful
  <2>7. CASE InsertConflict(r)
    BY <1>0, <2>7 DEF InsertConflict, Janitor, Goto, MarkerTruthful
  <2>8. CASE Commit(r)
    <3>1. OneOrderPerKey'
      BY <2>8 DEF Commit, SameKey
    <3>2. CommitAlone'
      BY <1>0, <2>8 DEF Commit, Goto, SameKey
    <3>3. QED
      BY <1>0, <2>8, <3>1, <3>2 DEF Commit, Goto, MarkerTruthful
  <2>9. CASE DatabaseFails(r)
    <3>1. OneOrderPerKey'
      BY <2>9 DEF DatabaseFails, SameKey
    <3>2. CommitAlone'
      BY <1>0, <2>9 DEF DatabaseFails, Janitor, Goto, SameKey
    <3>3. QED
      BY <1>0, <2>9, <3>1, <3>2 DEF DatabaseFails, Janitor, Goto, MarkerTruthful
  <2>10. CASE JanitorDelete(r)
    BY <1>0, <2>10, MarkerStep DEF JanitorDelete, Respond, Goto
  <2>11. CASE JanitorFinds(r)
    BY <1>0, <2>11 DEF JanitorFinds, Stored, Goto, MarkerTruthful
  <2>12. CASE JanitorFindsNone(r) \/ JanitorQueryFails(r)
    BY <1>0, <2>12
    DEF JanitorFindsNone, JanitorQueryFails, Respond, Goto, MarkerTruthful
  <2>13. CASE JanitorSet(r)
    BY <1>0, <2>13, MarkerStep DEF JanitorSet, Respond, Goto
  <2>14. CASE Publish(r) \/ PublishFails(r)
    BY <1>0, <2>14 DEF Publish, PublishFails, Goto, MarkerTruthful
  <2>15. QED
    BY <1>3, <2>1, <2>2, <2>3, <2>4, <2>5, <2>6, <2>7, <2>8, <2>9, <2>10, <2>11,
       <2>12, <2>13, <2>14 DEF Step
<1>4. ASSUME NEW r \in Request, Deliver(r) \/ DeliveryFails(r) PROVE IInv'
  BY <1>0, <1>4
  DEF Deliver, DeliveryFails, control, TypeOK, IInv, OneOrderPerKey, MarkerTruthful,
      CommitAlone, PostCommit, FoundTruthful, Unanswered, EventTruthful
<1>5. ASSUME NEW k \in Key, Expire(k) PROVE IInv'
  <2>1. MarkerTruthful'
    BY <1>0, <1>5, ValuesAssumption DEF Expire, TypeOK, IInv, MarkerTruthful
  <2>2. QED
    BY <1>0, <1>5, <2>1
    DEF Expire, control, IInv, OneOrderPerKey, CommitAlone, PostCommit,
        FoundTruthful, Unanswered, EventTruthful
<1>6. CASE RedisSave \/ RedisRestart
  BY <1>0, <1>6
  DEF RedisSave, RedisRestart, control, IInv, OneOrderPerKey, MarkerTruthful,
      CommitAlone, PostCommit, FoundTruthful, Unanswered, EventTruthful
<1>7. ASSUME NEW w \in Worker, Crash(w) PROVE IInv'
  <2>1. \A r \in Request :
          /\ pc'[r] \in {pc[r], "dead"}
          /\ event'[r] = event[r] \/ (event[r] = "buffered" /\ event'[r] = "lost")
    BY <1>7 DEF Crash
  <2>2. UNCHANGED <<found, redis, snapshot, orders, reply>>
    BY <1>7 DEF Crash
  <2>3. \A r \in Request : pc'[r] = "dead" => pc[r] # "done"
    BY <1>7 DEF Crash, Steps, RedisCommands
  <2>4. MarkerTruthful' /\ OneOrderPerKey'
    BY <2>2 DEF IInv, MarkerTruthful, OneOrderPerKey, SameKey
  <2>5. CommitAlone' /\ PostCommit' /\ FoundTruthful'
    BY <2>1, <2>2 DEF IInv, CommitAlone, PostCommit, FoundTruthful, SameKey
  <2>6. Unanswered' /\ EventTruthful'
    BY <2>1, <2>2, <2>3 DEF IInv, Unanswered, EventTruthful
  <2>7. QED
    BY <1>0, <2>4, <2>5, <2>6 DEF IInv
<1>8. QED
  BY <1>1, <1>2, <1>3, <1>4, <1>5, <1>6, <1>7 DEF Next

\* Nothing is stored, marked or answered to begin with.
LEMMA SafetyInit ==
    ASSUME Init
    PROVE  IInv
<1>1. TypeOK
  BY ConstantsAssumption DEF Init, TypeOK, Labels, Errors, Values
<1>2. QED
  BY <1>1, ValuesAssumption
  DEF Init, IInv, OneOrderPerKey, MarkerTruthful, CommitAlone, PostCommit,
      FoundTruthful, Unanswered, EventTruthful

\* Locks or not, the database's index carries the safety of the service: the
\* invariant holds of every behaviour, with every failure allowed.
THEOREM Inductive == Spec => []IInv
BY SafetyInit, SafetyStep, PTL DEF Spec

\* An idempotency key buys one order, whatever fails and whenever.
THEOREM OneOrder == Spec => []OneOrderPerKey
BY Inductive, PTL DEF IInv

\* No order id in Redis, or in its RDB file, ever lies.
THEOREM MarkersTruthful == Spec => []MarkerTruthful
BY Inductive, PTL DEF IInv

-----------------------------------------------------------------------------
(* Refinement: a step of the service is a step of the promise, or none.      *)

Published == {r \in Request : event[r] # "none"}

Stutter == UNCHANGED <<orders, reply, event>>

\* Locks, time and Redis's own steps are invisible to the promise.
LEMMA StutterRefines ==
    ASSUME Stutter
    PROVE  UNCHANGED Promise!vars
BY DEF Stutter, Promise!vars

\* Answering with something true is an answer of the promise.
LEMMA RespondRefines ==
    ASSUME IInv, NEW r \in Request, pc[r] # "done",
           NEW c \in Codes, NEW o \in Request \cup {Absent, Pending},
           c = "CREATED" => o = r /\ r \in orders,
           c = "DUPLICATE_ORDER" /\ o \in Request => o \in orders /\ SameKey(r, o),
           Respond(r, c, o), UNCHANGED <<orders, event>>
    PROVE  Promise!Answer(r)
<1>1. reply[r] = NoReply
  BY DEF IInv, Unanswered
<1>2. [code |-> c, order |-> o] \in Promise!Truthful(r)
  BY DEF Promise!Truthful, Promise!Replies, Promise!Codes, Codes, Promise!SameKey, SameKey
<1>3. reply' = [reply EXCEPT ![r] = [code |-> c, order |-> o]]
  BY DEF Respond
<1>4. QED
  BY <1>1, <1>2, <1>3 DEF Promise!Answer

\* What Redis holds may be told to the client.
LEMMA PayloadTruthful ==
    ASSUME IInv, NEW r \in Request
    PROVE  /\ Payload(redis[KeyOf[r]]) \in Request \cup {Absent, Pending}
           /\ Payload(redis[KeyOf[r]]) \in Request
                => /\ Payload(redis[KeyOf[r]]) \in orders
                   /\ SameKey(r, Payload(redis[KeyOf[r]]))
<1>1. KeyOf[r] \in Key
  BY ConstantsAssumption
<1>2. redis[KeyOf[r]] \in Request \cup {Absent, Processing}
  BY <1>1 DEF IInv, TypeOK, Values
<1>3. redis[KeyOf[r]] \in Request
        => redis[KeyOf[r]] \in orders /\ KeyOf[redis[KeyOf[r]]] = KeyOf[r]
  BY <1>1 DEF IInv, MarkerTruthful
<1>4. QED
  BY <1>2, <1>3, ValuesAssumption DEF Payload, SameKey

\* Every step of the service is a step of the promise or invisible to it.
LEMMA Refinement ==
    ASSUME IInv, [Next]_vars
    PROVE  Promise!Next \/ UNCHANGED Promise!vars
<1> DEFINE Goal == Promise!Next \/ UNCHANGED Promise!vars
<1> SUFFICES Goal
  OBVIOUS
<1>1. CASE UNCHANGED vars
  BY <1>1, StutterRefines DEF vars, Stutter
<1>2. ASSUME NEW r \in Request, Arrive(r) PROVE Goal
  BY <1>2, StutterRefines DEF Arrive, Stutter
<1>3. ASSUME NEW r \in Request, Step(r) PROVE Goal
  <2>1. CASE Lock(r) \/ RedisRetry(r) \/ Insert(r) \/ JanitorFinds(r) \/ PublishFails(r)
    BY <2>1, StutterRefines
    DEF Lock, RedisRetry, Insert, JanitorFinds, PublishFails, Stutter
  <2>2. CASE InsertConflict(r)
    BY <2>2, StutterRefines DEF InsertConflict, Janitor, Stutter
  <2>3. CASE Peek(r)
    BY <2>3, RespondRefines, PayloadTruthful DEF Peek, Promise!Next, Codes
  <2>4. CASE Finalize(r)
    BY <2>4, RespondRefines DEF Finalize, Promise!Next, Codes, IInv, PostCommit
  <2>5. CASE RedisRaises(r)
    <3>1. CASE Respond(r, "INTERNAL_SERVER_ERROR", Absent)
      BY <2>5, <3>1, RespondRefines DEF RedisRaises, RedisCommands, Promise!Next, Codes
    <3>2. CASE Janitor(r, "other")
      BY <2>5, <3>2, StutterRefines DEF RedisRaises, Janitor, Stutter
    <3>3. QED
      BY <2>5, <3>1, <3>2 DEF RedisRaises, RedisError
  <2>6. ASSUME pc[r] = "commit", orders' = orders \cup {r}, UNCHANGED <<reply, event>>
        PROVE  Promise!Place(r)
    BY <2>6 DEF Promise!Place, Promise!SameKey, SameKey, IInv, CommitAlone, Unanswered
  <2>7. CASE Commit(r)
    BY <2>6, <2>7 DEF Commit, Promise!Next
  <2>8. CASE DatabaseFails(r)
    <3>1. UNCHANGED <<reply, event>>
      BY <2>8 DEF DatabaseFails, Janitor
    <3>2. CASE UNCHANGED orders
      BY <3>1, <3>2, StutterRefines DEF Stutter
    <3>3. CASE pc[r] = "commit" /\ orders' = orders \cup {r}
      BY <2>6, <3>1, <3>3 DEF Promise!Next
    <3>4. QED
      BY <2>8, <3>2, <3>3 DEF DatabaseFails
  <2>9. CASE JanitorDelete(r)
    <3>1. CASE UNCHANGED reply
      BY <2>9, <3>1, StutterRefines DEF JanitorDelete, Stutter
    <3>2. ASSUME NEW c \in {"ORDER_CREATION_FAILED", "INTERNAL_SERVER_ERROR"},
                 Respond(r, c, Absent)
          PROVE  Goal
      BY <2>9, <3>2, RespondRefines DEF JanitorDelete, Promise!Next, Codes
    <3>3. QED
      BY <2>9, <3>1, <3>2 DEF JanitorDelete
  <2>10. CASE JanitorFindsNone(r)
    BY <2>10, RespondRefines DEF JanitorFindsNone, Promise!Next, Codes
  <2>11. CASE JanitorQueryFails(r)
    BY <2>11, RespondRefines DEF JanitorQueryFails, Promise!Next, Codes
  <2>12. CASE JanitorSet(r)
    <3>1. found[r] \in Request /\ found[r] \in orders /\ SameKey(r, found[r])
      BY <2>12 DEF JanitorSet, IInv, TypeOK, FoundTruthful, SameKey
    <3>2. QED
      BY <2>12, <3>1, RespondRefines DEF JanitorSet, Promise!Next, Codes
  <2>13. CASE Publish(r)
    <3>1. r \in orders \ Published
      BY <2>13 DEF Publish, IInv, PostCommit, EventTruthful, Published
    <3>2. Published' = Published \cup {r}
      BY <2>13 DEF Publish, Published, IInv, TypeOK
    <3>3. QED
      BY <2>13, <3>1, <3>2 DEF Publish, Published, Promise!Publish, Promise!Next
  <2>14. QED
    BY <1>3, <2>1, <2>2, <2>3, <2>4, <2>5, <2>7, <2>8, <2>9, <2>10, <2>11, <2>12,
       <2>13 DEF Step
<1>4. ASSUME NEW r \in Request, Deliver(r) \/ DeliveryFails(r) PROVE Goal
  <2>1. Published' = Published
    BY <1>4 DEF Deliver, DeliveryFails, Published, IInv, TypeOK
  <2>2. QED
    BY <1>4, <2>1 DEF Deliver, DeliveryFails, Published, Promise!vars
<1>5. ASSUME NEW k \in Key, Expire(k) PROVE Goal
  BY <1>5, StutterRefines DEF Expire, Stutter
<1>6. CASE RedisSave \/ RedisRestart
  BY <1>6, StutterRefines DEF RedisSave, RedisRestart, Stutter
<1>7. ASSUME NEW w \in Worker, Crash(w) PROVE Goal
  <2>1. Published' = Published
    BY <1>7 DEF Crash, Published, IInv, TypeOK
  <2>2. QED
    BY <1>7, <2>1 DEF Crash, Published, Promise!vars
<1>8. QED
  BY <1>1, <1>2, <1>3, <1>4, <1>5, <1>6, <1>7 DEF Next

\* place_order, with its locks, retries, janitor and crashes, implements the
\* promise: one order per key, one truthful answer per request, and an event
\* only of a stored order and only once.
THEOREM Implements == Spec => KeepsPromise
<1>1. Init => Promise!Init
  BY DEF Init, Promise!Init
<1>2. IInv /\ [Next]_vars => [Promise!Next]_(Promise!vars)
  BY Refinement
<1>3. QED
  BY <1>1, <1>2, Inductive, PTL DEF Spec, KeepsPromise, Promise!Spec

\* What the promise is worth to a client and to a consumer, at any later time:
\* a 201 and a 409 that names an order are about an order of the key that is
\* stored, one request of a key at most is told 201, and no event is about an
\* order that is not there.
WordIsKept ==
    /\ \A r \in Request : reply[r] # NoReply => reply[r] \in Promise!Truthful(r)
    /\ \A r, q \in Request :
         reply[r] # NoReply /\ reply[q] # NoReply /\ SameKey(r, q)
         /\ reply[r].code = "CREATED" /\ reply[q].code = "CREATED" => r = q
    /\ Published \subseteq orders

\* With every failure allowed: the replies and events of the service stay true.
THEOREM AnswersStayTrue == Spec => []WordIsKept
<1> DEFINE Told == \A r \in Request : reply[r] # NoReply => reply[r] \in Promise!Truthful(r)
           Announced == Published \subseteq orders
<1>1. Init => Told /\ Announced
  BY DEF Init, Published
<1>2. ASSUME IInv, [Next]_vars, Told, Announced PROVE Told' /\ Announced'
  <2>1. CASE UNCHANGED Promise!vars
    BY <1>2, <2>1 DEF Promise!vars, Promise!Truthful, Published
  <2>2. ASSUME NEW r \in Request, Promise!Place(r) \/ Promise!Publish(r)
        PROVE  Told' /\ Announced'
    BY <1>2, <2>2 DEF Promise!Place, Promise!Publish, Promise!Truthful, Published
  <2>3. ASSUME NEW r \in Request, Promise!Answer(r) PROVE Told' /\ Announced'
    BY <1>2, <2>3 DEF Promise!Answer, Promise!Truthful, Published, IInv, TypeOK
  <2>4. QED
    BY <1>2, <2>1, <2>2, <2>3, Refinement DEF Promise!Next
<1>3. IInv /\ Told /\ Announced => WordIsKept
  BY DEF WordIsKept, Promise!Truthful, IInv, OneOrderPerKey
<1> HIDE DEF Told, Announced
<1>4. QED
  BY <1>1, <1>2, <1>3, Inductive, PTL DEF Spec

-----------------------------------------------------------------------------
(* The Redis lock. It excludes duplicates as long as Redis answers, keeps    *)
(* its data and no marker outlives its five minutes; the counterexamples of  *)
(* the runs without these assumptions show that they are needed.             *)

Reliable == ~REDIS_FAILS /\ ~REDIS_RESTARTS /\ ~TTL_EXPIRES

\* The janitor, too, has the key to itself until it has deleted it.
HolderExclusion ==
    \A r, q \in Request :
        pc[r] \in Holding /\ pc[q] \in Holding /\ SameKey(r, q) => r = q

\* A holder's key is taken.
HolderMarks == \A r \in Request : pc[r] \in Holding => redis[KeyOf[r]] # Absent

Created(r) == reply[r] = [code |-> "CREATED", order |-> r]

\* A 201 ends the story of its key: the id is there, and no one works on it.
CreatedAlone ==
    \A r \in Request : Created(r) =>
        /\ r \in orders
        /\ redis[KeyOf[r]] = r
        /\ \A q \in Request : SameKey(q, r) => pc[q] \notin Holding

LockInv ==
    /\ IInv
    /\ HolderExclusion
    /\ HolderMarks
    /\ MarkerHasHolder
    /\ CreatedAlone

\* A step that leaves Redis, the replies and the set of holders alone.
LEMMA QuietStep ==
    ASSUME LockInv, UNCHANGED <<redis, reply>>, orders \subseteq orders',
           \A q \in Request : pc'[q] \in Holding <=> pc[q] \in Holding,
           \A q \in Request : pc[q] = "dead" => pc'[q] = "dead"
    PROVE  HolderExclusion' /\ HolderMarks' /\ MarkerHasHolder' /\ CreatedAlone'
BY DEF LockInv, HolderExclusion, HolderMarks, MarkerHasHolder, CreatedAlone, Created, SameKey

\* An answer other than a 201, by a request that holds no lock.
LEMMA RefusalStep ==
    ASSUME LockInv, NEW r \in Request, pc[r] \notin Holding \cup {"dead"},
           NEW c \in Codes \ {"CREATED"}, NEW o,
           Respond(r, c, o), UNCHANGED <<redis, orders>>
    PROVE  HolderExclusion' /\ HolderMarks' /\ MarkerHasHolder' /\ CreatedAlone'
<1>1. \A q \in Request : pc'[q] = IF q = r THEN "done" ELSE pc[q]
  BY DEF LockInv, IInv, TypeOK, Respond, Goto
<1>2. \A q \in Request : Created(q)' => Created(q)
  BY DEF LockInv, IInv, TypeOK, Respond, Created
<1>3. QED
  BY <1>1, <1>2
  DEF LockInv, HolderExclusion, HolderMarks, MarkerHasHolder, CreatedAlone, Holding, Working, SameKey

\* While Redis is reliable every step keeps the lock's invariant.
LEMMA LockStep ==
    ASSUME Reliable, LockInv, [Next]_vars
    PROVE  LockInv'
<1> DEFINE Goal == HolderExclusion' /\ HolderMarks' /\ MarkerHasHolder' /\ CreatedAlone'
<1> USE ConstantsAssumption
<1>0. IInv' /\ TypeOK
  BY SafetyStep DEF LockInv, IInv
<1> SUFFICES Goal
  BY <1>0 DEF LockInv
<1>1. CASE UNCHANGED vars
  BY <1>1, QuietStep DEF vars
<1>2. ASSUME NEW r \in Request, Arrive(r) PROVE Goal
  BY <1>0, <1>2, QuietStep DEF Arrive, Goto, TypeOK, Holding, Working
<1>3. ASSUME NEW r \in Request, Step(r) PROVE Goal
  <2>0. KeyOf[r] \in Key
    OBVIOUS
  <2>1. CASE Lock(r)
    <3>1. CASE Free(KeyOf[r])
      <4>1. redis' = [redis EXCEPT ![KeyOf[r]] = Processing]
        BY <2>1, <3>1 DEF Lock, Run, Written
      <4>2. pc' = [pc EXCEPT ![r] = "insert"] /\ pc[r] = "lock"
        BY <2>1, <3>1 DEF Lock, Goto
      <4>3. \A q \in Request : SameKey(q, r) => pc[q] \notin Holding /\ ~Created(q)
        BY <3>1, ValuesAssumption
        DEF Free, LockInv, HolderMarks, CreatedAlone, SameKey
      <4>4. UNCHANGED <<orders, reply>>
        BY <2>1 DEF Lock
      <4>5. HolderExclusion' /\ HolderMarks' /\ CreatedAlone'
        BY <1>0, <2>0, <4>1, <4>2, <4>3, <4>4, ValuesAssumption
        DEF LockInv, HolderExclusion, HolderMarks, CreatedAlone, Created, Holding, Working,
            SameKey, TypeOK
      <4>6. MarkerHasHolder'
        BY <1>0, <2>0, <4>1, <4>2, ValuesAssumption
        DEF LockInv, MarkerHasHolder, Holding, Working, TypeOK
      <4>7. QED
        BY <4>5, <4>6
    <3>2. CASE ~Free(KeyOf[r])
      <4>1. redis' = redis
        BY <1>0, <2>0, <2>1, <3>2 DEF Lock, Run, Written, TypeOK
      <4>2. QED
        BY <1>0, <2>1, <3>2, <4>1, QuietStep DEF Lock, Goto, TypeOK, Holding, Working
    <3>3. QED
      BY <3>1, <3>2
  <2>2. CASE Peek(r)
    BY <2>2, RefusalStep DEF Peek, Holding, Working, Codes
  <2>3. CASE Finalize(r)
    <3>1. redis' = [redis EXCEPT ![KeyOf[r]] = r]
      BY <2>3 DEF Finalize, Run, Written
    <3>2. /\ pc' = [pc EXCEPT ![r] = "done"] /\ pc[r] = "finalize"
          /\ reply' = [reply EXCEPT ![r] = [code |-> "CREATED", order |-> r]]
          /\ orders' = orders
      BY <2>3 DEF Finalize, Respond, Goto
    <3>3. r \in orders
      BY <3>2 DEF LockInv, IInv, PostCommit
    <3>4. \A q \in Request : SameKey(q, r) /\ q # r => pc[q] \notin Holding /\ ~Created(q)
      BY <3>2 DEF LockInv, HolderExclusion, CreatedAlone, Holding, Working, SameKey
    <3>5. HolderExclusion' /\ HolderMarks'
      BY <1>0, <2>0, <3>1, <3>2, <3>4
      DEF LockInv, HolderExclusion, HolderMarks, Holding, Working, SameKey, TypeOK
    <3>6. MarkerHasHolder'
      BY <1>0, <2>0, <3>1, <3>2, ValuesAssumption
      DEF LockInv, MarkerHasHolder, Holding, Working, TypeOK
    <3>7. CreatedAlone'
      BY <1>0, <2>0, <3>1, <3>2, <3>3, <3>4
      DEF LockInv, CreatedAlone, Created, Holding, Working, SameKey, TypeOK
    <3>8. QED
      BY <3>5, <3>6, <3>7
  <2>4. CASE RedisRetry(r) \/ RedisRaises(r)
    BY <2>4 DEF RedisRetry, RedisRaises, Reliable
  <2>5. CASE Insert(r) \/ Commit(r) \/ Publish(r) \/ PublishFails(r) \/ JanitorFinds(r)
    BY <1>0, <2>5, QuietStep
    DEF Insert, Commit, Publish, PublishFails, JanitorFinds, Goto, TypeOK, Holding, Working
  <2>6. CASE InsertConflict(r) \/ DatabaseFails(r)
    BY <1>0, <2>6, QuietStep
    DEF InsertConflict, DatabaseFails, Janitor, Goto, TypeOK, Holding, Working
  <2>7. CASE JanitorDelete(r)
    <3>1. redis' = [redis EXCEPT ![KeyOf[r]] = Absent]
      BY <2>7 DEF JanitorDelete, Run, Written
    <3>2. /\ pc[r] = "jdel" /\ orders' = orders
          /\ \E l \in {"jget", "done"} : pc' = [pc EXCEPT ![r] = l]
          /\ \A q \in Request : Created(q)' => Created(q)
      BY <1>0, <2>7 DEF JanitorDelete, Respond, Goto, Created, TypeOK
    <3>3. \A q \in Request : SameKey(q, r) /\ q # r => pc[q] \notin Holding /\ ~Created(q)
      BY <3>2 DEF LockInv, HolderExclusion, CreatedAlone, Holding, Working, SameKey
    <3>4. ~Created(r)
      BY <3>2 DEF LockInv, CreatedAlone, Holding, Working, SameKey
    <3>5. HolderExclusion' /\ HolderMarks'
      BY <1>0, <2>0, <3>1, <3>2, <3>3
      DEF LockInv, HolderExclusion, HolderMarks, Holding, Working, SameKey, TypeOK
    <3>6. MarkerHasHolder'
      BY <1>0, <2>0, <3>1, <3>2, ValuesAssumption
      DEF LockInv, MarkerHasHolder, Holding, Working, TypeOK
    <3>7. CreatedAlone'
      BY <1>0, <2>0, <3>1, <3>2, <3>3, <3>4
      DEF LockInv, CreatedAlone, Holding, Working, SameKey, TypeOK
    <3>8. QED
      BY <3>5, <3>6, <3>7
  <2>8. CASE JanitorFindsNone(r) \/ JanitorQueryFails(r)
    BY <2>8, RefusalStep DEF JanitorFindsNone, JanitorQueryFails, Holding, Working, Codes
  <2>9. CASE JanitorSet(r)
    <3>1. redis' = [redis EXCEPT ![KeyOf[r]] = found[r]]
      BY <2>9 DEF JanitorSet, Run, Written
    <3>2. found[r] \in orders /\ found[r] \in Request /\ KeyOf[found[r]] = KeyOf[r]
      BY <2>9 DEF JanitorSet, LockInv, IInv, TypeOK, FoundTruthful, SameKey
    <3>3. /\ pc[r] = "jset" /\ pc' = [pc EXCEPT ![r] = "done"] /\ orders' = orders
          /\ \A q \in Request : Created(q)' => Created(q)
      BY <1>0, <2>9 DEF JanitorSet, Respond, Goto, Created, TypeOK
    <3>4. \A q \in Request : Created(q) /\ SameKey(q, r) => q = found[r]
      BY <3>2 DEF LockInv, IInv, OneOrderPerKey, CreatedAlone, SameKey
    <3>5. HolderExclusion' /\ HolderMarks'
      BY <1>0, <2>0, <3>1, <3>2, <3>3, ValuesAssumption
      DEF LockInv, HolderExclusion, HolderMarks, Holding, Working, SameKey, TypeOK
    <3>6. MarkerHasHolder'
      BY <1>0, <2>0, <3>1, <3>2, <3>3, ValuesAssumption
      DEF LockInv, MarkerHasHolder, Holding, Working, TypeOK
    <3>7. CreatedAlone'
      BY <1>0, <2>0, <3>1, <3>3, <3>4
      DEF LockInv, CreatedAlone, Holding, Working, SameKey, TypeOK
    <3>8. QED
      BY <3>5, <3>6, <3>7
  <2>10. QED
    BY <1>3, <2>1, <2>2, <2>3, <2>4, <2>5, <2>6, <2>7, <2>8, <2>9 DEF Step
<1>4. ASSUME NEW r \in Request, Deliver(r) \/ DeliveryFails(r) PROVE Goal
  BY <1>4, QuietStep DEF Deliver, DeliveryFails, control
<1>5. ASSUME NEW k \in Key, Expire(k) PROVE Goal
  BY <1>5 DEF Expire, Reliable
<1>6. CASE RedisSave \/ RedisRestart
  BY <1>6 DEF RedisSave, RedisRestart, Reliable
<1>7. ASSUME NEW w \in Worker, Crash(w) PROVE Goal
  <2>1. \A q \in Request : pc'[q] = pc[q] \/ pc'[q] = "dead"
    BY <1>7 DEF Crash
  <2>2. UNCHANGED <<redis, reply, orders>>
    BY <1>7 DEF Crash
  <2>3. QED
    BY <2>1, <2>2
    DEF LockInv, HolderExclusion, HolderMarks, MarkerHasHolder, CreatedAlone, Created,
        Holding, Working, SameKey
<1>8. QED
  BY <1>1, <1>2, <1>3, <1>4, <1>5, <1>6, <1>7 DEF Next

\* The lock's invariant, with what it needs of the service's.
THEOREM LockInductive ==
    ASSUME Reliable
    PROVE  Spec => []LockInv
<1>1. Init => LockInv
  <2>1. Init => HolderExclusion /\ HolderMarks /\ MarkerHasHolder
    BY ValuesAssumption, ConstantsAssumption
    DEF Init, HolderExclusion, HolderMarks, MarkerHasHolder, Holding, Working
  <2>2. Init => CreatedAlone
    <3> SUFFICES ASSUME Init, NEW r \in Request, Created(r) PROVE FALSE
      BY DEF CreatedAlone
    <3>1. NoReply = [code |-> "CREATED", order |-> r]
      BY DEF Init, Created
    <3>2. QED
      BY <3>1, ValuesAssumption DEF Replies, Codes
  <2>3. QED
    BY SafetyInit, <2>1, <2>2 DEF LockInv
<1>2. LockInv /\ [Next]_vars => LockInv'
  BY LockStep
<1>3. QED
  BY <1>1, <1>2, PTL DEF Spec

\* While Redis is reliable, no two requests of a key are past its lock at once.
THEOREM Exclusion == ASSUME Reliable PROVE Spec => []LockExclusion
<1>1. LockInv => LockExclusion
  BY DEF LockInv, HolderExclusion, LockExclusion, Holding
<1>2. QED
  BY <1>1, LockInductive, PTL

\* While Redis is reliable, only a crash leaves a marker without a holder.
THEOREM NoOrphanMarker == ASSUME Reliable PROVE Spec => []MarkerHasHolder
BY LockInductive, PTL DEF LockInv

\* While Redis is reliable, a 201 is remembered: every retry is told its order.
THEOREM Remembered == ASSUME Reliable PROVE Spec => []CreatedIsRemembered
<1>1. LockInv => CreatedIsRemembered
  BY DEF LockInv, CreatedAlone, Created, CreatedIsRemembered
<1>2. QED
  BY <1>1, LockInductive, PTL

-----------------------------------------------------------------------------
(* "Order already processed or in progress". The 409 says so on the strength *)
(* of a key in Redis, and is right as long as whoever took the key gets to   *)
(* commit: Redis may restart from an old snapshot or expire a key too early, *)
(* but no command, transaction or worker may fail, and no CHECK may object.  *)

Steady == ~REDIS_FAILS /\ ~DB_FAILS /\ ~CRASHES /\ Unstorable = {}

\* There is an order of key k, or a request on its way to one.
Backed(k) ==
    \E q \in Request : KeyOf[q] = k /\ (q \in orders \/ pc[q] \in {"insert", "commit"})

\* What a duplicate is refused for, in memory, in the RDB file or already read.
BackedInv ==
    /\ IInv
    /\ \A k \in Key : Processing \in {redis[k], snapshot[k]} => Backed(k)
    /\ \A r \in Request : pc[r] = "peek" => Backed(KeyOf[r])

\* While nothing fails, the open transaction of a request ends by a conflict
\* or by its COMMIT.
LEMMA SteadyStep ==
    ASSUME Steady, TypeOK, [Next]_vars, NEW q \in Request
    PROVE  /\ orders \subseteq orders'
           /\ pc[q] = "insert" => pc'[q] = "insert" \/ Insert(q) \/ InsertConflict(q)
           /\ pc[q] = "commit" => pc'[q] = "commit" \/ Commit(q)
BY DEF Steady, TypeOK, Next, vars, control, Goto, Respond, Janitor, Arrive, Step, Lock, Peek,
       Finalize, RedisRetry, RedisRaises, RedisCommands, Insert, InsertConflict, Commit,
       DatabaseFails, JanitorDelete, JanitorFinds, JanitorFindsNone, JanitorQueryFails,
       JanitorSet, Publish, PublishFails, Deliver, DeliveryFails, Expire, RedisSave,
       RedisRestart, Crash

\* So a request on its way to an order arrives, or meets one that was faster.
LEMMA BackedStays ==
    ASSUME Steady, TypeOK, [Next]_vars, NEW k \in Key, Backed(k)
    PROVE  Backed(k)'
<1>1. PICK q \in Request : KeyOf[q] = k /\ (q \in orders \/ pc[q] \in {"insert", "commit"})
  BY DEF Backed
<1>2. orders \subseteq orders'
  BY <1>1, SteadyStep
<1>3. CASE q \in orders \/ pc'[q] \in {"insert", "commit"}
  BY <1>1, <1>2, <1>3 DEF Backed
<1>4. CASE Insert(q) \/ Commit(q)
  BY <1>1, <1>4 DEF Insert, Commit, Goto, TypeOK, Backed
<1>5. CASE InsertConflict(q)
  BY <1>1, <1>2, <1>5 DEF InsertConflict, Steady, Stored, SameKey, TypeOK, Backed
<1>6. QED
  BY <1>1, <1>3, <1>4, <1>5, SteadyStep

\* A key that is taken is backed: a marker by who set it, an id by its order.
LEMMA TakenIsBacked ==
    ASSUME BackedInv, NEW r \in Request, ~Free(KeyOf[r])
    PROVE  Backed(KeyOf[r])
<1>1. KeyOf[r] \in Key
  BY ConstantsAssumption
<1>2. CASE redis[KeyOf[r]] = Processing
  BY <1>1, <1>2 DEF BackedInv
<1>3. CASE redis[KeyOf[r]] \in Request
  BY <1>1, <1>3 DEF BackedInv, IInv, MarkerTruthful, Backed
<1>4. QED
  BY <1>1, <1>2, <1>3 DEF Free, BackedInv, IInv, TypeOK, Values

\* No key is marked but by the request that goes on to INSERT, and no request
\* reads a key it found free.
LEMMA BackedStep ==
    ASSUME Steady, BackedInv, [Next]_vars
    PROVE  BackedInv'
<1> USE ConstantsAssumption
<1>0. IInv' /\ TypeOK
  BY SafetyStep DEF BackedInv, IInv
<1>1. \A k \in Key : Backed(k) => Backed(k)'
  BY <1>0, BackedStays
<1> DEFINE Kept == /\ \A k \in Key : Processing \in {redis'[k], snapshot'[k]}
                                       => Processing \in {redis[k], snapshot[k]}
                   /\ \A r \in Request : pc'[r] = "peek" => pc[r] = "peek"
<1>2. ASSUME Kept PROVE BackedInv'
  BY <1>0, <1>1, <1>2 DEF BackedInv
<1> SUFFICES ASSUME ~Kept PROVE BackedInv'
  BY <1>2
<1>3. PICK r \in Request : Lock(r)
  <2>1. CASE UNCHANGED vars
    BY <2>1 DEF vars
  <2>2. ASSUME NEW r \in Request, Arrive(r) PROVE FALSE
    BY <1>0, <2>2 DEF Arrive, Goto, TypeOK
  <2>3. ASSUME NEW r \in Request, Step(r), ~Lock(r) PROVE FALSE
    <3>1. CASE Finalize(r) \/ JanitorDelete(r) \/ JanitorSet(r)
      <4>1. redis' = [redis EXCEPT ![KeyOf[r]] = Written(r)] /\ Written(r) # Processing
        BY <1>0, <3>1, ValuesAssumption
        DEF Finalize, JanitorDelete, JanitorSet, Run, Written, BackedInv, IInv, FoundTruthful,
            TypeOK
      <4>2. UNCHANGED snapshot /\ \A q \in Request : pc'[q] = "peek" => pc[q] = "peek"
        BY <1>0, <3>1 DEF Finalize, JanitorDelete, JanitorSet, Respond, Goto, TypeOK
      <4>3. QED
        BY <1>0, <4>1, <4>2 DEF TypeOK
    <3>2. CASE Peek(r) \/ Insert(r) \/ InsertConflict(r) \/ Commit(r) \/ JanitorFinds(r)
               \/ JanitorFindsNone(r) \/ Publish(r) \/ PublishFails(r)
      BY <1>0, <3>2
      DEF Peek, Insert, InsertConflict, Commit, JanitorFinds, JanitorFindsNone, Publish,
          PublishFails, Janitor, Respond, Goto, TypeOK
    <3>3. QED
      BY <2>3, <3>1, <3>2
      DEF Step, Steady, RedisRetry, RedisRaises, DatabaseFails, JanitorQueryFails
  <2>4. ASSUME NEW r \in Request, Deliver(r) \/ DeliveryFails(r) PROVE FALSE
    BY <2>4 DEF Deliver, DeliveryFails, control
  <2>5. ASSUME NEW k \in Key, Expire(k) PROVE FALSE
    BY <1>0, <2>5, ValuesAssumption DEF Expire, control, TypeOK
  <2>6. CASE RedisSave \/ RedisRestart
    BY <2>6 DEF RedisSave, RedisRestart, control
  <2>7. QED
    BY <2>1, <2>2, <2>3, <2>4, <2>5, <2>6 DEF Next, Steady, Crash
<1>4. CASE Free(KeyOf[r])
  <2>1. redis' = [redis EXCEPT ![KeyOf[r]] = Processing] /\ UNCHANGED snapshot
    BY <1>3, <1>4 DEF Lock, Run, Written
  <2>2. pc' = [pc EXCEPT ![r] = "insert"]
    BY <1>3, <1>4 DEF Lock, Goto
  <2>3. Backed(KeyOf[r])'
    BY <1>0, <2>2 DEF Backed, TypeOK
  <2>4. QED
    BY <1>0, <1>1, <2>1, <2>2, <2>3 DEF BackedInv, TypeOK
<1>5. CASE ~Free(KeyOf[r])
  <2>1. UNCHANGED <<redis, snapshot>>
    BY <1>0, <1>3, <1>5 DEF Lock, Run, Written, TypeOK
  <2>2. pc' = [pc EXCEPT ![r] = "peek"]
    BY <1>3, <1>5 DEF Lock, Goto
  <2>3. Backed(KeyOf[r])'
    BY <1>1, <1>5, TakenIsBacked
  <2>4. QED
    BY <1>0, <1>1, <2>1, <2>2, <2>3 DEF BackedInv, TypeOK
<1>6. QED
  BY <1>4, <1>5

\* While nothing fails but Redis's memory and Kafka, the 409 of a duplicate is
\* true: there is an order of its key, or a request at work on one.
THEOREM ConflictsAreTrue == ASSUME Steady PROVE Spec => ConflictMeansOrder
<1> DEFINE Refused(r) == /\ reply[r] = NoReply
                         /\ reply'[r] \in {a \in Replies : a.code = "DUPLICATE_ORDER"}
           Known(r) == \/ Stored(r) # {}
                       \/ \E q \in Request \ {r} : SameKey(q, r) /\ pc[q] \in Steps
<1>1. Init => BackedInv
  BY SafetyInit, ConstantsAssumption, ValuesAssumption DEF Init, BackedInv
<1>2. BackedInv /\ [Next]_vars => BackedInv'
  BY BackedStep
<1>3. ASSUME BackedInv, Next, NEW r \in Request, Refused(r) PROVE Known(r)
  <2>1. reply'[r] # reply[r]
    BY <1>3, ValuesAssumption
  <2>2. CASE Peek(r)
    <3>1. pc[r] = "peek" /\ Backed(KeyOf[r])
      BY <1>3, <2>2 DEF Peek, BackedInv
    <3>2. PICK q \in Request : KeyOf[q] = KeyOf[r] /\ (q \in orders \/ pc[q] \in {"insert", "commit"})
      BY <3>1 DEF Backed
    <3>3. QED
      BY <3>1, <3>2 DEF Stored, SameKey, Steps
  <2>3. CASE JanitorSet(r)
    BY <1>3, <2>3 DEF JanitorSet, BackedInv, IInv, FoundTruthful, Stored
  <2>4. CASE Step(r) /\ ~Peek(r) /\ ~JanitorSet(r)
    <3>1. \/ reply' = reply
          \/ \E c \in Codes \ {"DUPLICATE_ORDER"}, o \in {r, Absent} :
               reply' = [reply EXCEPT ![r] = [code |-> c, order |-> o]]
      BY <2>4
      DEF Step, Lock, Finalize, RedisRetry, RedisRaises, RedisError, Insert, InsertConflict,
          Commit, DatabaseFails, JanitorDelete, JanitorFinds, JanitorFindsNone,
          JanitorQueryFails, Publish, PublishFails, Janitor, Respond, Codes
    <3>2. QED
      BY <1>3, <2>1, <3>1 DEF BackedInv, IInv, TypeOK
  <2>5. ASSUME NEW q \in Request \ {r}, Step(q) PROVE FALSE
    <3>1. reply' = reply \/ \E x : reply' = [reply EXCEPT ![q] = x]
      BY <2>5
      DEF Step, Lock, Peek, Finalize, RedisRetry, RedisRaises, RedisError, Insert,
          InsertConflict, Commit, DatabaseFails, JanitorDelete, JanitorFinds,
          JanitorFindsNone, JanitorQueryFails, JanitorSet, Publish, PublishFails, Janitor,
          Respond
    <3>2. QED
      BY <1>3, <2>1, <3>1 DEF BackedInv, IInv, TypeOK
  <2>6. \E q \in Request : Step(q)
    BY <1>3, <2>1
    DEF Next, Arrive, Deliver, DeliveryFails, Expire, RedisSave, RedisRestart, Crash
  <2>7. QED
    BY <2>2, <2>3, <2>4, <2>5, <2>6
<1>4. BackedInv /\ [Next]_vars =>
        [\A r \in Request : Refused(r) => Known(r)]_vars
  BY <1>3
<1>5. QED
  BY <1>1, <1>2, <1>4, PTL DEF Spec, ConflictMeansOrder

-----------------------------------------------------------------------------
(* What of "every request is answered" needs no fairness: the steps a request *)
(* can still make are counted, and each one leaves fewer.                     *)

Rank == [idle |-> 10, lock |-> 9, insert |-> 8, commit |-> 7, publish |-> 6, finalize |-> 5,
         peek |-> 5, jdel |-> 4, jget |-> 3, jset |-> 2, done |-> 0, dead |-> 0]

\* The attempts left for the commands r may still send.
Work(r) == Rank[pc[r]] * (Retries + 1) + (Retries - tries[r])

Moves(r) == <<pc[r], tries[r]>>' # <<pc[r], tries[r]>>

\* A step that takes a request to a later label.
LEMMA Downwards ==
    ASSUME TypeOK, TypeOK', NEW r \in Request, Rank[pc'[r]] < Rank[pc[r]]
    PROVE  Work(r)' < Work(r)
<1> DEFINE n == Rank[pc[r]]
           m == Rank[pc'[r]]
           R == Retries + 1
<1>1. n \in 0 .. 10 /\ m \in 0 .. 10 /\ R \in Nat \ {0}
  BY ConstantsAssumption DEF TypeOK, Labels, Steps, RedisCommands, Rank
<1>2. m * R + R <= n * R
  <2>1. m + 1 <= n
    BY <1>1
  <2> HIDE DEF n, m, R
  <2>2. (n - (m + 1)) * R >= 0
    BY <1>1, <2>1
  <2>3. QED
    BY <1>1, <2>2
<1>3. tries[r] \in 0 .. Retries /\ tries'[r] \in 0 .. Retries
  BY DEF TypeOK
<1>4. m * R \in Int /\ n * R \in Int
  BY <1>1
<1>5. QED
  BY <1>2, <1>3, <1>4, ConstantsAssumption DEF Work

\* There is only so much to do.
LEMMA WorkIsFinite ==
    ASSUME TypeOK, NEW r \in Request
    PROVE  Work(r) \in Nat
<1>1. Rank[pc[r]] \in 0 .. 10 /\ tries[r] \in 0 .. Retries /\ Retries \in Nat
  BY ConstantsAssumption DEF TypeOK, Labels, Steps, RedisCommands, Rank
<1>2. Rank[pc[r]] * (Retries + 1) \in Nat /\ Retries - tries[r] \in Nat
  BY <1>1
<1>3. QED
  BY <1>2 DEF Work

\* Whatever fails, and for every Retries: a request never returns to a label it
\* has left, and repeats a command Retries times at most. It is done, or waits,
\* after a number of steps that does not depend on the other requests.
THEOREM BoundedWork ==
    Spec => [][\A r \in Request :
                 Work(r) \in Nat /\ (Moves(r) => Work(r)' < Work(r))]_vars
<1> USE ConstantsAssumption
<1>1. ASSUME TypeOK, TypeOK', Next, NEW r \in Request, Moves(r)
      PROVE  Work(r)' < Work(r)
  <2>1. CASE RedisRetry(r)
    <3>1. tries[r] \in Nat /\ tries'[r] = tries[r] + 1 /\ pc'[r] = pc[r]
      BY <1>1, <2>1 DEF RedisRetry, TypeOK
    <3>2. Rank[pc[r]] * (Retries + 1) \in Int
      BY <1>1 DEF TypeOK, Labels, Steps, RedisCommands, Rank
    <3>3. QED
      BY <3>1, <3>2 DEF Work
  <2>2. CASE Arrive(r) \/ (Step(r) /\ ~RedisRetry(r))
    <3>1. Rank[pc'[r]] < Rank[pc[r]]
      BY <1>1, <2>2
      DEF TypeOK, Labels, Steps, RedisCommands, Rank, Arrive, Step, Lock, Peek, Finalize,
          RedisRaises, RedisError, Insert, InsertConflict, Commit, DatabaseFails,
          JanitorDelete, JanitorFinds, JanitorFindsNone, JanitorQueryFails, JanitorSet,
          Publish, PublishFails, Janitor, Respond, Goto
    <3>2. QED
      BY <1>1, <3>1, Downwards
  <2>3. ASSUME NEW w \in Worker, Crash(w) PROVE Work(r)' < Work(r)
    <3>1. pc'[r] = "dead" /\ pc[r] \in Steps
      BY <1>1, <2>3 DEF Moves, Crash
    <3>2. QED
      BY <1>1, <3>1, Downwards DEF Steps, RedisCommands, Rank
  <2>4. ASSUME NEW q \in Request \ {r}, Arrive(q) \/ Step(q) PROVE FALSE
    <3>1. /\ pc' = pc \/ \E l \in Labels : pc' = [pc EXCEPT ![q] = l]
          /\ tries' = tries \/ \E n \in 0 .. Retries : tries' = [tries EXCEPT ![q] = n]
      BY <1>1, <2>4
      DEF TypeOK, Labels, Steps, RedisCommands, Arrive, Step, Lock, Peek, Finalize, RedisRetry,
          RedisRaises, RedisError, Insert, InsertConflict, Commit, DatabaseFails,
          JanitorDelete, JanitorFinds, JanitorFindsNone, JanitorQueryFails, JanitorSet,
          Publish, PublishFails, Janitor, Respond, Goto
    <3>2. QED
      BY <1>1, <2>4, <3>1 DEF Moves, TypeOK
  <2>5. ~UNCHANGED <<pc, tries>>
    BY <1>1 DEF Moves
  <2>6. QED
    BY <1>1, <2>1, <2>2, <2>3, <2>4, <2>5
    DEF Next, Deliver, DeliveryFails, Expire, RedisSave, RedisRestart, control
<1>2. TypeOK /\ TypeOK' /\ [Next]_vars
        => [\A r \in Request : Work(r) \in Nat /\ (Moves(r) => Work(r)' < Work(r))]_vars
  BY <1>1, WorkIsFinite
<1>3. QED
  BY <1>2, TypeCorrect, PTL DEF Spec
=============================================================================
