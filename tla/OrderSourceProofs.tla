------------------------- MODULE OrderSourceProofs -------------------------
(* Each process of OrderService is, to those who read the event stream, the  *)
(* service that OrderPipeline sets before the channel.                       *)
EXTENDS OrderServiceProofs

CONSTANT ThisWorker     \* any one of them

Hosted == {r \in Request : HostOf[r] = ThisWorker}

\* An order without an event counts as refused once its request is over: until
\* then the event may be on its way, or the COMMIT may be one the client of the
\* database has been told nothing about.
Fate(r) ==
    IF event[r] # "none" THEN event[r]
    ELSE IF r \in orders /\ pc[r] \in {"done", "dead"} THEN "refused"
    ELSE "new"

Source == INSTANCE OrderSource
            WITH Order <- Hosted,
                 orders <- orders \cap Hosted,
                 fate <- [r \in Hosted |-> Fate(r)]

SourceInv ==
    /\ IInv
    /\ \A r \in Request : pc[r] = "idle" => r \notin orders

-----------------------------------------------------------------------------

\* A step that moves one request at most, as the source would move it.
LEMMA OneMoves ==
    ASSUME NEW r \in Request,
           \A q \in Request \ {r} : Fate(q)' = Fate(q) /\ (q \in orders' <=> q \in orders),
           \/ Fate(r)' = Fate(r) /\ (r \in orders' <=> r \in orders)
           \/ Fate(r)' = Fate(r) /\ Fate(r) = "new" /\ r \notin orders /\ r \in orders'
           \/ /\ Fate(r) = "new" /\ Fate(r)' \in {"buffered", "refused"}
              /\ r \in orders /\ r \in orders'
           \/ /\ Fate(r) = "buffered" /\ Fate(r)' \in {"delivered", "lost"}
              /\ (r \in orders' <=> r \in orders)
    PROVE  Source!Next \/ UNCHANGED Source!vars
<1> DEFINE o == orders \cap Hosted
           f == [q \in Hosted |-> Fate(q)]
<1>1. CASE r \notin Hosted \/ (Fate(r)' = Fate(r) /\ (r \in orders' <=> r \in orders))
  <2>1. o' = o /\ f' = f
    BY <1>1 DEF Hosted
  <2>2. QED
    BY <2>1 DEF Source!vars
<1>2. CASE r \in Hosted /\ Fate(r)' = Fate(r) /\ Fate(r) = "new" /\ r \notin orders /\ r \in orders'
  <2>1. o' = o \cup {r} /\ f' = f
    BY <1>2 DEF Hosted
  <2>2. Source!Place(r)
    BY <1>2, <2>1 DEF Source!Place
  <2>3. QED
    BY <1>2, <2>2 DEF Source!Next
<1>3. CASE r \in Hosted /\ r \in orders /\ r \in orders'
           /\ Fate(r) = "new" /\ Fate(r)' \in {"buffered", "refused"}
  <2>1. o' = o /\ f' = [f EXCEPT ![r] = Fate(r)']
    BY <1>3 DEF Hosted
  <2>2. Source!Publish(r)
    BY <1>3, <2>1 DEF Source!Publish
  <2>3. QED
    BY <1>3, <2>2 DEF Source!Next
<1>4. CASE r \in Hosted /\ Fate(r) = "buffered" /\ Fate(r)' \in {"delivered", "lost"}
           /\ (r \in orders' <=> r \in orders)
  <2>1. o' = o /\ f' = [f EXCEPT ![r] = Fate(r)']
    BY <1>4 DEF Hosted
  <2>2. Source!Settle(r)
    BY <1>4, <2>1 DEF Source!Settle
  <2>3. QED
    BY <1>4, <2>2 DEF Source!Next
<1>5. QED
  BY <1>1, <1>2, <1>3, <1>4

\* A request is placed after it has arrived.
LEMMA SourceStep ==
    ASSUME SourceInv, [Next]_vars
    PROVE  SourceInv'
<1> USE ConstantsAssumption
<1>0. IInv' /\ TypeOK
  BY SafetyStep DEF SourceInv, IInv
<1>1. \A r \in Request :
        /\ pc'[r] = "idle" => pc[r] = "idle"
        /\ r \in orders' => r \in orders \/ pc[r] # "idle"
  BY <1>0
  DEF TypeOK, Next, vars, control, Goto, Respond, Janitor, Arrive, Step, Lock, Peek, Finalize,
      RedisRetry, RedisRaises, RedisError, Insert, InsertConflict, Commit, DatabaseFails,
      JanitorDelete, JanitorFinds, JanitorFindsNone, JanitorQueryFails, JanitorSet, Publish,
      PublishFails, Deliver, DeliveryFails, Expire, RedisSave, RedisRestart, Crash
<1>2. QED
  BY <1>0, <1>1 DEF SourceInv

\* Every step of the service is a step of each of its processes as a source.
LEMMA SourceRefines ==
    ASSUME SourceInv, [Next]_vars
    PROVE  Source!Next \/ UNCHANGED Source!vars
<1> DEFINE Goal == Source!Next \/ UNCHANGED Source!vars
<1> USE ConstantsAssumption
<1>0. TypeOK /\ EventTruthful /\ PostCommit /\ CommitAlone
  BY DEF SourceInv, IInv
<1> SUFFICES Goal
  OBVIOUS
<1>1. ASSUME UNCHANGED <<pc, orders, event>> PROVE Goal
  <2>1. UNCHANGED <<orders \cap Hosted, [r \in Hosted |-> Fate(r)]>>
    BY <1>1 DEF Fate
  <2>2. QED
    BY <2>1 DEF Source!vars
<1>2. ASSUME NEW r \in Request, NEW l \in Labels, pc' = [pc EXCEPT ![r] = l],
             pc[r] \notin {"done", "dead"}, UNCHANGED <<orders, event>>
      PROVE  Goal
  <2>1. \A q \in Request \ {r} : Fate(q)' = Fate(q)
    BY <1>0, <1>2 DEF Fate, TypeOK
  <2>2. Fate(r)' = Fate(r) \/ (Fate(r) = "new" /\ Fate(r)' = "refused" /\ r \in orders)
    BY <1>0, <1>2 DEF Fate, TypeOK
  <2>3. QED
    BY <1>2, <2>1, <2>2, OneMoves
<1>3. ASSUME NEW r \in Request, NEW l \in Labels \ {"done", "dead"},
             pc' = [pc EXCEPT ![r] = l], pc[r] = "commit",
             orders' \in {orders, orders \cup {r}}, UNCHANGED event
      PROVE  Goal
  <2>1. r \notin orders /\ event[r] = "none"
    BY <1>0, <1>3 DEF CommitAlone, EventTruthful, SameKey
  <2>2. \A q \in Request \ {r} : Fate(q)' = Fate(q) /\ (q \in orders' <=> q \in orders)
    BY <1>0, <1>3 DEF Fate, TypeOK
  <2>3. Fate(r)' = "new" /\ Fate(r) = "new"
    BY <1>0, <1>3, <2>1 DEF Fate, TypeOK
  <2>4. QED
    BY <1>3, <2>1, <2>2, <2>3, OneMoves
<1>4. ASSUME NEW r \in Request, Publish(r) PROVE Goal
  <2>1. r \in orders /\ event[r] = "none" /\ orders' = orders
    BY <1>0, <1>4 DEF Publish, PostCommit, EventTruthful
  <2>2. \A q \in Request \ {r} : Fate(q)' = Fate(q)
    BY <1>0, <1>4 DEF Publish, Goto, Fate, TypeOK
  <2>3. Fate(r) = "new" /\ Fate(r)' = "buffered"
    BY <1>0, <1>4, <2>1 DEF Publish, Fate, TypeOK
  <2>4. QED
    BY <2>1, <2>2, <2>3, OneMoves
<1>5. ASSUME NEW r \in Request, Deliver(r) \/ DeliveryFails(r) PROVE Goal
  <2>1. orders' = orders /\ pc' = pc
    BY <1>5 DEF Deliver, DeliveryFails, control
  <2>2. \A q \in Request \ {r} : Fate(q)' = Fate(q)
    BY <1>0, <1>5, <2>1 DEF Deliver, DeliveryFails, Fate, TypeOK
  <2>3. Fate(r) = "buffered" /\ Fate(r)' \in {"delivered", "lost"}
    BY <1>0, <1>5 DEF Deliver, DeliveryFails, Fate, TypeOK
  <2>4. QED
    BY <2>1, <2>2, <2>3, OneMoves
<1>6. ASSUME NEW w \in Worker, Crash(w) PROVE Goal
  <2>1. orders' = orders /\ CRASHES
    BY <1>6 DEF Crash
  <2>2. CASE w # ThisWorker
    <3>1. \A r \in Hosted : Fate(r)' = Fate(r)
      BY <1>6, <2>1, <2>2 DEF Crash, Hosted, Fate
    <3>2. UNCHANGED <<orders \cap Hosted, [r \in Hosted |-> Fate(r)]>>
      BY <2>1, <3>1 DEF Hosted
    <3>3. QED
      BY <3>2 DEF Source!vars
  <2>3. CASE w = ThisWorker
    <3>1. \A r \in Hosted :
            Fate(r)' = CASE r \in orders \cap Hosted /\ Fate(r) = "buffered" -> "lost"
                         [] r \in orders \cap Hosted /\ Fate(r) = "new" -> "refused"
                         [] OTHER -> Fate(r)
      <4> SUFFICES ASSUME NEW r \in Hosted
                   PROVE  Fate(r)' = CASE r \in orders /\ Fate(r) = "buffered" -> "lost"
                                       [] r \in orders /\ Fate(r) = "new" -> "refused"
                                       [] OTHER -> Fate(r)
        OBVIOUS
      <4>1. r \in Request /\ HostOf[r] = w
        BY <2>3 DEF Hosted
      <4>2. /\ pc'[r] = IF pc[r] \in Steps THEN "dead" ELSE pc[r]
            /\ event'[r] = IF event[r] = "buffered" THEN "lost" ELSE event[r]
        BY <1>6, <4>1 DEF Crash
      <4>3. r \in orders => pc[r] \in Steps \cup {"done", "dead"}
        BY <1>0, <4>1 DEF SourceInv, TypeOK, Labels
      <4>4. event[r] # "none" => r \in orders
        BY <1>0, <4>1 DEF EventTruthful
      <4>5. event[r] \in {"none", "buffered", "delivered", "lost"}
        BY <1>0, <4>1 DEF TypeOK
      <4>6. QED
        BY <2>1, <4>2, <4>3, <4>4, <4>5 DEF Fate, Steps, RedisCommands
    <3>2. Source!Die
      BY <2>1, <3>1 DEF Source!Die
    <3>3. QED
      BY <3>2 DEF Source!Next
  <2>4. QED
    BY <2>2, <2>3
<1>7. ASSUME NEW r \in Request, Arrive(r) PROVE Goal
  BY <1>2, <1>7 DEF Arrive, Goto, Labels, Steps, RedisCommands
<1>8. ASSUME NEW r \in Request, Step(r) PROVE Goal
  <2>1. CASE RedisRetry(r)
    BY <1>1, <2>1 DEF RedisRetry
  <2>2. CASE Commit(r) \/ (DatabaseFails(r) /\ pc[r] = "commit")
    BY <1>3, <2>2
    DEF Commit, DatabaseFails, Janitor, Goto, Labels, Steps, RedisCommands
  <2>3. CASE Publish(r)
    BY <1>4, <2>3
  <2>4. CASE Lock(r) \/ Peek(r) \/ Finalize(r) \/ RedisRaises(r) \/ Insert(r)
             \/ InsertConflict(r) \/ (DatabaseFails(r) /\ pc[r] = "insert")
             \/ JanitorDelete(r) \/ JanitorFinds(r) \/ JanitorFindsNone(r)
             \/ JanitorQueryFails(r) \/ JanitorSet(r) \/ PublishFails(r)
    <3>1. UNCHANGED <<orders, event>> /\ pc[r] \notin {"done", "dead"}
      BY <2>4
      DEF Lock, Peek, Finalize, RedisRaises, RedisCommands, Insert, InsertConflict,
          DatabaseFails, JanitorDelete, JanitorFinds, JanitorFindsNone, JanitorQueryFails,
          JanitorSet, PublishFails
    <3>2. \E l \in Labels : pc' = [pc EXCEPT ![r] = l]
      BY <2>4
      DEF Lock, Peek, Finalize, RedisRaises, RedisError, Insert, InsertConflict,
          DatabaseFails, JanitorDelete, JanitorFinds, JanitorFindsNone, JanitorQueryFails,
          JanitorSet, PublishFails, Janitor, Respond, Goto, Labels, Steps, RedisCommands
    <3>3. QED
      BY <1>2, <3>1, <3>2
  <2>5. QED
    BY <1>8, <2>1, <2>2, <2>3, <2>4 DEF Step, DatabaseFails
<1>9. CASE \/ RedisSave \/ RedisRestart \/ UNCHANGED vars
           \/ \E k \in Key : Expire(k)
  BY <1>1, <1>9 DEF RedisSave, RedisRestart, Expire, control, vars
<1>10. QED
  BY <1>4, <1>5, <1>6, <1>7, <1>8, <1>9 DEF Next

\* Whatever locks, janitors, retries and other processes do, and with every
\* failure allowed: towards the event stream a process only places orders,
\* publishes each of them once or never, and dies.
THEOREM ServiceIsSource == Spec => Source!Spec
<1>1. Init => SourceInv
  BY SafetyInit DEF SourceInv, Init
<1>2. Init => Source!Init
  BY DEF Init, Source!Init, Hosted, Fate
<1>3. SourceInv /\ [Next]_vars => SourceInv'
  BY SourceStep
<1>4. SourceInv /\ [Next]_vars => [Source!Next]_(Source!vars)
  BY SourceRefines
<1>5. QED
  BY <1>1, <1>2, <1>3, <1>4, PTL DEF Spec, Source!Spec
=============================================================================
