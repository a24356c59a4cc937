------------------------ MODULE OrderPipelineProofs ------------------------
(* Theorems about PaymentConsumer and OrderPipeline, for every group, every   *)
(* number of events and failures, and every set of orders.                    *)
EXTENDS OrderPipeline, FiniteSetTheorems, TLAPS

\* A member has read no more than there is, and holds what it handles.
Reading ==
    \A c \in Consumer :
        /\ position[c] <= Len(log) + 1
        /\ state[c] \in {"handling", "committing"} => position[c] >= 2

\* The owner reads from where the group is, and commits what it has handled.
Owning ==
    owner # Nobody =>
        /\ state[owner] = "polling" => position[owner] = committed
        /\ state[owner] \in {"handling", "committing"} => position[owner] = committed + 1
        /\ state[owner] = "committing" => handled[committed] > 0

CommittedIsStored == committed <= Len(log) + 1

\* The inductive invariant of the group.
GroupInv ==
    /\ TypeOK
    /\ Reading
    /\ Owning
    /\ CommittedIsStored
    /\ CommittedWasHandled

States == {"polling", "handling", "committing", "stopped"}

-----------------------------------------------------------------------------

\* A member that leaves the loop, with or without close, disturbs nothing.
LEMMA StopKeeps ==
    ASSUME GroupInv, NEW c \in Consumer, Stop(c) \/ (state' = [state EXCEPT ![c] = "stopped"]
                                                     /\ UNCHANGED <<owner, position>>),
           UNCHANGED <<log, handled>>, faults' \in 0 .. MaxFaults,
           committed' = committed \/ (owner = c /\ state[c] = "committing" /\ Stop(c)
                                      /\ committed' = position[c])
    PROVE  GroupInv'
<1>1. TypeOK'
  BY BoundsAssumption DEF GroupInv, TypeOK, Stop, Offsets
<1>2. Reading'
  BY <1>1 DEF GroupInv, TypeOK, Reading, Stop
<1>3. Owning'
  <2>1. CASE committed' = committed
    BY <2>1, ValuesAssumption DEF GroupInv, TypeOK, Owning, Stop
  <2>2. CASE owner = c /\ Stop(c)
    BY <2>2 DEF Stop, Owning
  <2>3. QED
    BY <2>1, <2>2
<1>4. CommittedIsStored'
  BY DEF GroupInv, TypeOK, Reading, CommittedIsStored
<1>5. CommittedWasHandled'
  <2>1. CASE committed' = committed
    BY <2>1 DEF GroupInv, CommittedWasHandled
  <2>2. CASE owner = c /\ state[c] = "committing" /\ committed' = position[c]
    <3>1. committed' = committed + 1 /\ handled[committed] > 0
      BY <2>2, ValuesAssumption DEF GroupInv, Owning, TypeOK
    <3>2. QED
      BY <3>1 DEF GroupInv, TypeOK, CommittedWasHandled, Offsets
  <2>3. QED
    BY <2>1, <2>2
<1>6. QED
  BY <1>1, <1>2, <1>3, <1>4, <1>5 DEF GroupInv

\* Every step of a member, of the coordinator and of the producers keeps the
\* invariant.
LEMMA GroupStep ==
    ASSUME GroupInv, [Next]_vars
    PROVE  GroupInv'
<1> USE DEF GroupInv
<1>1. CASE UNCHANGED vars
  BY <1>1 DEF vars, member, TypeOK, Reading, Owning, CommittedIsStored, CommittedWasHandled
<1>2. ASSUME NEW e \in Event, Produce(e) PROVE GroupInv'
  <2>1. Len(log') = Len(log) + 1 /\ log' \in Seq(Event)
    BY <1>2 DEF Produce, TypeOK
  <2>2. TypeOK'
    BY <1>2, <2>1, BoundsAssumption DEF Produce, member, TypeOK
  <2>3. Reading' /\ CommittedIsStored'
    BY <1>2, <2>1 DEF Produce, member, TypeOK, Reading, CommittedIsStored
  <2>4. Owning' /\ CommittedWasHandled'
    BY <1>2 DEF Produce, member, Owning, CommittedWasHandled
  <2>5. QED
    BY <2>2, <2>3, <2>4
<1>3. ASSUME NEW c \in Consumer, Poll(c) PROVE GroupInv'
  <2>1. TypeOK'
    BY <1>3, BoundsAssumption DEF Poll, TypeOK
  <2>2. Reading'
    BY <1>3, <2>1 DEF Poll, TypeOK, Reading
  <2>3. Owning'
    BY <1>3 DEF Poll, TypeOK, Owning
  <2>4. QED
    BY <1>3, <2>1, <2>2, <2>3 DEF Poll, CommittedIsStored, CommittedWasHandled
<1>4. ASSUME NEW c \in Consumer, Handle(c) PROVE GroupInv'
  <2>1. Current(c) \in Offsets
    BY <1>4, BoundsAssumption DEF Handle, Current, Offsets, TypeOK, Reading
  <2>2. handled' = [handled EXCEPT ![Current(c)] = handled[Current(c)] + 1]
    BY <1>4 DEF Handle
  <2>3. \A i \in Offsets : handled'[i] \in Nat /\ handled'[i] >= handled[i]
    BY <2>1, <2>2 DEF TypeOK
  <2>4. handled'[Current(c)] > 0
    BY <2>1, <2>2 DEF TypeOK
  <2>5. TypeOK'
    BY <1>4, <2>2, <2>3 DEF Handle, TypeOK
  <2>6. Reading'
    BY <1>4 DEF Handle, TypeOK, Reading
  <2>7. Owning'
    <3>1. CASE owner = c
      <4>1. Current(c) = committed
        BY <1>4, <3>1, ValuesAssumption DEF Handle, Current, TypeOK, Owning
      <4>2. QED
        BY <1>4, <3>1, <4>1, <2>4, ValuesAssumption DEF Handle, TypeOK, Owning
    <3>2. CASE owner # c
      <4>1. ASSUME owner # Nobody, state[owner] = "committing" PROVE committed \in Offsets
        BY <4>1, BoundsAssumption DEF TypeOK, Owning, Reading, Offsets
      <4>2. QED
        BY <1>4, <3>2, <4>1, <2>3, ValuesAssumption DEF Handle, TypeOK, Owning
    <3>3. QED
      BY <3>1, <3>2
  <2>8. CommittedWasHandled'
    BY <1>4, <2>3 DEF Handle, TypeOK, CommittedWasHandled
  <2>9. QED
    BY <1>4, <2>5, <2>6, <2>7, <2>8 DEF Handle, CommittedIsStored
<1>5. ASSUME NEW c \in Consumer, Commit(c) PROVE GroupInv'
  <2>1. owner = c /\ committed' = committed + 1 /\ handled[committed] > 0
    BY <1>5, ValuesAssumption DEF Commit, Fenced, TypeOK, Owning
  <2>2. TypeOK'
    BY <1>5 DEF Commit, TypeOK
  <2>3. Reading' /\ CommittedIsStored'
    BY <1>5 DEF Commit, TypeOK, Reading, CommittedIsStored
  <2>4. Owning'
    BY <1>5, <2>1 DEF Commit, TypeOK, Owning
  <2>5. CommittedWasHandled'
    BY <1>5, <2>1 DEF Commit, TypeOK, CommittedWasHandled, Offsets
  <2>6. QED
    BY <2>2, <2>3, <2>4, <2>5
<1>6. ASSUME NEW c \in Consumer,
             Choke(c) \/ CommitRefused(c) \/ CommitFails(c) \/ Interrupt(c)
               \/ NoTopic(c) \/ Crash(c)
      PROVE GroupInv'
  <2>1. faults' \in 0 .. MaxFaults
    BY <1>6, BoundsAssumption
    DEF Choke, CommitRefused, CommitFails, Interrupt, NoTopic, Crash, Fault, TypeOK
  <2>2. QED
    BY <1>6, <2>1, StopKeeps
    DEF Choke, CommitRefused, CommitFails, Interrupt, NoTopic, Crash, Fenced
<1>7. ASSUME NEW c \in Consumer, Start(c) \/ Evict(c) \/ Expel(c) PROVE GroupInv'
  <2>1. TypeOK' /\ Reading'
    BY <1>7, BoundsAssumption DEF Start, Evict, Expel, Fault, member, TypeOK, Reading
  <2>2. Owning'
    BY <1>7 DEF Start, Evict, Expel, member, TypeOK, Owning
  <2>3. QED
    BY <1>7, <2>1, <2>2
    DEF Start, Evict, Expel, member, CommittedIsStored, CommittedWasHandled
<1>8. ASSUME NEW c \in Consumer, Assign(c) PROVE GroupInv'
  <2>1. TypeOK' /\ Reading'
    BY <1>8 DEF Assign, TypeOK, Reading, CommittedIsStored
  <2>2. Owning'
    BY <1>8 DEF Assign, TypeOK, Owning
  <2>3. QED
    BY <1>8, <2>1, <2>2 DEF Assign, CommittedIsStored, CommittedWasHandled
<1>9. QED
  BY <1>1, <1>2, <1>3, <1>4, <1>5, <1>6, <1>7, <1>8 DEF Next, Member, Loop

\* The group of consumers, whatever is produced: the invariant holds.
THEOREM GroupCorrect == Spec => []GroupInv
<1>1. Init => GroupInv
  BY BoundsAssumption
  DEF Init, GroupInv, TypeOK, Reading, Owning, CommittedIsStored, CommittedWasHandled, Offsets
<1>2. QED
  BY <1>1, GroupStep, PTL DEF Spec

\* No commit of any member, late or fenced, takes the group back.
THEOREM Forward == Spec => CommitsMoveForward
<1>1. ASSUME GroupInv, [Next]_vars PROVE [committed' >= committed]_committed
  <2>1. ASSUME NEW c \in Consumer, Commit(c) \/ CommitFails(c)
        PROVE committed' >= committed
    <3>1. owner = c
      BY <2>1 DEF Commit, CommitFails, Fenced
    <3>2. position[c] = committed + 1
      BY <1>1, <2>1, <3>1, ValuesAssumption DEF GroupInv, Owning, Commit, CommitFails
    <3>3. QED
      BY <1>1, <2>1, <3>2 DEF Commit, CommitFails, GroupInv, TypeOK
  <2>2. CASE UNCHANGED committed
    BY <2>2
  <2>3. (\E c \in Consumer : Commit(c) \/ CommitFails(c)) \/ UNCHANGED committed
    BY <1>1
    DEF Next, Member, Loop, vars, Produce, Poll, Handle, Choke, CommitRefused, Interrupt,
        NoTopic, Crash, Start, Evict, Expel, Assign
  <2>4. QED
    BY <2>1, <2>2, <2>3
<1>2. QED
  BY <1>1, GroupCorrect, PTL DEF Spec, CommitsMoveForward

-----------------------------------------------------------------------------

\* The pipeline's consumers are those of PaymentConsumer: what the service does
\* is, to them, a producer or nothing.
THEOREM PipelineConsumes == PipelineSpec => Spec
<1>1. PipelineInit => Init
  BY DEF PipelineInit
<1>2. ASSUME [PipelineNext]_pipelineVars PROVE [Next]_vars
  <2>1. CASE UNCHANGED pipelineVars
    BY <2>1 DEF pipelineVars
  <2>2. ASSUME NEW o \in Order, Place(o) \/ Publish(o) \/ Report(o) PROVE UNCHANGED vars
    BY <2>2 DEF Place, Publish, Report
  <2>3. ASSUME NEW o \in Order, Arrive(o) PROVE [Next]_vars
    <3>1. o \in Event
      BY OrdersAssumption
    <3>2. QED
      BY <2>3, <3>1 DEF Arrive, Next
  <2>4. CASE Die
    BY <2>4 DEF Die
  <2>5. ASSUME NEW e \in Event, Foreign(e) PROVE Next
    BY <2>5 DEF Foreign, Next
  <2>6. ASSUME NEW c \in Consumer, Worker(c) PROVE Next
    BY <2>6 DEF Worker, Next
  <2>7. QED
    BY <1>2, <2>1, <2>2, <2>3, <2>4, <2>5, <2>6 DEF PipelineNext
<1>3. QED
  BY <1>1, <1>2, PTL DEF PipelineSpec, Spec

\* In the pipeline no payment is skipped: an offset is committed only when the
\* event before it has been handled, whoever dies, is expelled or takes over.
THEOREM NothingSkipped == PipelineSpec => []CommittedWasHandled
BY PipelineConsumes, GroupCorrect, PTL DEF GroupInv

\* The group's state has its types: a member's position is in the partition, and
\* the owner is a member.
THEOREM PipelineTyped == PipelineSpec => []TypeOK
BY PipelineConsumes, GroupCorrect, PTL DEF GroupInv

\* In the pipeline the group's offset only moves forward.
THEOREM PipelineForward == PipelineSpec => CommitsMoveForward
BY PipelineConsumes, Forward, PTL

\* Towards the service the pipeline is a behaviour of the channel, which the
\* producer implements (KafkaProducerProofs): whatever the workers, the topics
\* and the crashes of the service do, it assumes no other steps of it.
THEOREM PipelineUsesChannel == PipelineSpec => Channel!Spec
<1>1. PipelineInit => Channel!Init
  BY DEF PipelineInit
<1>2. ASSUME PipelineNext PROVE Channel!Next \/ UNCHANGED Channel!vars
  <2>1. CASE \E o \in Order : Place(o)
    BY <2>1 DEF Place, Channel!vars
  <2>2. CASE \E o \in Order : Publish(o) \/ Arrive(o) \/ Report(o)
    BY <2>2 DEF Publish, Arrive, Report, Channel!Next
  <2>3. CASE Die
    <3>1. Channel!Die(orders \cap Order)
      BY <2>3 DEF Die, Channel!Die
    <3>2. QED
      BY <3>1 DEF Channel!Next
  <2>4. CASE \/ \E e \in Event : Foreign(e)
             \/ \E c \in Consumer : Worker(c)
    BY <2>4 DEF Foreign, Worker, service, Channel!vars
  <2>5. QED
    BY <1>2, <2>1, <2>2, <2>3, <2>4 DEF PipelineNext
<1>3. UNCHANGED pipelineVars => UNCHANGED Channel!vars
  BY DEF pipelineVars, service, Channel!vars
<1>4. QED
  BY <1>1, <1>2, <1>3, PTL DEF PipelineSpec, Channel!Spec

\* The service of the pipeline, without the channel: each process of
\* OrderService is such a source (OrderSourceProofs).
Source == INSTANCE OrderSource

ServiceStep == Die \/ \E o \in Order : Place(o) \/ Publish(o) \/ Arrive(o) \/ Report(o)

\* A step of the source and one of the channel that agree on the fates; what
\* enters the stream enters the worker's partition, if the topics agree.
JointStep ==
    /\ [Source!Next]_(Source!vars)
    /\ [Channel!Next]_(Channel!vars)
    /\ UNCHANGED subscribed
    /\ \/ UNCHANGED <<stream, vars>>
       \/ /\ UNCHANGED orders
          /\ \E o \in Order :
               /\ Channel!Enter(o)
               /\ IF subscribed = OrderTopic THEN Produce(o) ELSE UNCHANGED vars

\* A joint step that settles no event is a commit, an arrival or nothing.
LEMMA JointQuiet ==
    ASSUME fate \in [Order -> Channel!Fates], JointStep, UNCHANGED fate
    PROVE  [ServiceStep]_pipelineVars
<1>1. (\E o \in Order : Source!Place(o)) \/ UNCHANGED orders
  BY DEF JointStep, Source!Next, Source!Publish, Source!Settle, Source!Die, Source!vars
<1>2. UNCHANGED accepted
  BY DEF JointStep, Channel!Next, Channel!Take, Channel!Refuse, Channel!Enter,
         Channel!Confirm, Channel!Lose, Channel!Die, Channel!vars, Channel!Fates
<1>3. CASE UNCHANGED <<stream, vars>>
  BY <1>1, <1>2, <1>3
  DEF JointStep, Source!Place, Place, ServiceStep, pipelineVars, service
<1>4. CASE ~UNCHANGED <<stream, vars>>
  BY <1>4 DEF JointStep, ServiceStep, Arrive
<1>5. QED
  BY <1>3, <1>4

\* The service half of the pipeline is the source and the channel and nothing
\* else: it excludes no step of theirs and adds none. With ServiceIsSource and
\* ProducerImplementsChannel, OrderService and KafkaProducer may stand in it.
THEOREM ServiceIsComposed ==
    ASSUME fate \in [Order -> Channel!Fates]
    PROVE  [ServiceStep]_pipelineVars <=> JointStep
<1>1. ASSUME [ServiceStep]_pipelineVars PROVE JointStep
  <2>1. CASE UNCHANGED pipelineVars
    BY <2>1 DEF JointStep, pipelineVars, service, Source!vars, Channel!vars
  <2>2. ASSUME NEW o \in Order, Place(o) PROVE JointStep
    BY <2>2 DEF Place, JointStep, Source!Next, Source!Place, Channel!vars
  <2>3. ASSUME NEW o \in Order, Publish(o) PROVE JointStep
    <3>1. Source!Publish(o)
      BY <2>3 DEF Publish, Channel!Take, Channel!Refuse, Source!Publish
    <3>2. QED
      BY <2>3, <3>1
      DEF Publish, JointStep, Source!Next, Channel!Next, Channel!Take, Channel!Refuse
  <2>4. ASSUME NEW o \in Order, Arrive(o) PROVE JointStep
    BY <2>4 DEF Arrive, JointStep, Source!vars, Channel!Next, Channel!Enter
  <2>5. ASSUME NEW o \in Order, Report(o) PROVE JointStep
    <3>1. Source!Settle(o)
      BY <2>5 DEF Report, Channel!Confirm, Channel!Lose, Source!Settle
    <3>2. QED
      BY <2>5, <3>1
      DEF Report, JointStep, Source!Next, Channel!Next, Channel!Confirm, Channel!Lose
  <2>6. CASE Die
    <3>1. Source!Die
      BY <2>6 DEF Die, Channel!Die, Source!Die
    <3>2. Channel!Die(orders \cap Order)
      BY <2>6 DEF Die, Channel!Die
    <3>3. QED
      BY <2>6, <3>1, <3>2 DEF Die, JointStep, Source!Next, Channel!Next, Channel!Die
  <2>7. QED
    BY <1>1, <2>1, <2>2, <2>3, <2>4, <2>5, <2>6 DEF ServiceStep
<1>2. ASSUME JointStep, ~UNCHANGED fate PROVE ServiceStep
  <2>0. UNCHANGED orders
    BY <1>2
    DEF JointStep, Source!Next, Source!Place, Source!Publish, Source!Settle, Source!Die,
        Source!vars
  <2>1. UNCHANGED <<orders, stream, vars, subscribed>>
    BY <1>2, <2>0 DEF JointStep, Channel!Enter
  <2>2. \/ UNCHANGED accepted /\ \A m \in Order : fate[m] = "new" => fate'[m] # "buffered"
        \/ \E m \in Order : Channel!Take(m)
    BY <1>2
    DEF JointStep, Channel!Next, Channel!Refuse, Channel!Enter, Channel!Confirm,
        Channel!Lose, Channel!Die, Channel!vars
  <2>3. \A m \in Order : fate'[m] = "delivered" /\ fate[m] # "delivered" => m \in Channel!Range(stream)
    BY <1>2
    DEF JointStep, Channel!Next, Channel!Take, Channel!Refuse, Channel!Enter,
        Channel!Confirm, Channel!Lose, Channel!Die, Channel!vars
  <2>4. ASSUME NEW o \in Order, Source!Publish(o) PROVE Publish(o)
    <3>1. PICK f \in {"buffered", "refused"} : fate' = [fate EXCEPT ![o] = f]
      BY <2>4 DEF Source!Publish
    <3>2. fate[o] = "new" /\ o \in orders
      BY <2>4 DEF Source!Publish
    <3>3. CASE f = "buffered"
      <4>1. PICK m \in Order : Channel!Take(m)
        BY <2>2, <3>1, <3>2, <3>3
      <4>2. m = o
        BY <3>1, <4>1 DEF Channel!Take
      <4>3. QED
        BY <2>1, <3>2, <4>1, <4>2 DEF Publish
    <3>4. CASE f = "refused"
      <4>1. UNCHANGED accepted
        BY <2>2, <3>1, <3>2, <3>4 DEF Channel!Take
      <4>2. QED
        BY <2>1, <3>1, <3>2, <3>4, <4>1 DEF Publish, Channel!Refuse
    <3>5. QED
      BY <3>3, <3>4
  <2>5. ASSUME NEW o \in Order, Source!Settle(o) PROVE Report(o)
    <3>1. PICK f \in {"delivered", "lost"} : fate' = [fate EXCEPT ![o] = f]
      BY <2>5 DEF Source!Settle
    <3>2. fate[o] = "buffered"
      BY <2>5 DEF Source!Settle
    <3>3. UNCHANGED accepted
      BY <2>2, <3>1, <3>2 DEF Channel!Take
    <3>4. f = "delivered" => o \in Channel!Range(stream)
      BY <2>3, <3>1, <3>2
    <3>5. QED
      BY <2>1, <3>1, <3>2, <3>3, <3>4 DEF Report, Channel!Confirm, Channel!Lose
  <2>6. CASE Source!Die
    <3>1. UNCHANGED accepted
      BY <2>2, <2>6 DEF Channel!Take, Source!Die
    <3>2. Channel!Die(orders)
      BY <2>1, <2>6, <3>1 DEF Source!Die, Channel!Die
    <3>3. \E o \in Order : fate'[o] # fate[o]
      BY <1>2, <2>6 DEF Source!Die
    <3>4. \E o \in orders : fate[o] \in {"new", "buffered"}
      BY <2>6, <3>3 DEF Source!Die
    <3>5. QED
      BY <2>1, <2>6, <3>2, <3>4 DEF Source!Die, Die, ServiceStep
  <2>7. QED
    BY <1>2, <2>4, <2>5, <2>6
    DEF JointStep, ServiceStep, Source!Next, Source!Place, Source!vars
<1>3. QED
  BY <1>1, <1>2, JointQuiet

-----------------------------------------------------------------------------

\* What is in the worker's partition of an order is in the stream, once, and the
\* order is committed; what the producer holds it has taken.
TraceInv ==
    /\ accepted \in Seq(Order) /\ stream \in Seq(Order) /\ log \in Seq(Event)
    /\ fate \in [Order -> Channel!Fates]
    /\ \A o \in Order : o \notin orders => fate[o] = "new"
    /\ \A o \in Order : fate[o] = "buffered" => o \in Range(accepted)
    /\ \A o \in Order : o \in Range(stream) => o \in orders
    /\ \A i \in DOMAIN log : log[i] \in Order => log[i] \in Range(stream)
    /\ \A i, j \in DOMAIN log : log[i] \in Order /\ log[i] = log[j] => i = j

\* A payment has an order behind it, and one event.
OneEventPerOrder ==
    /\ \A i \in DOMAIN log : log[i] \in Order => log[i] \in orders
    /\ \A i, j \in DOMAIN log : log[i] \in Order /\ log[i] = log[j] => i = j

LEMMA RangeAppend ==
    ASSUME NEW S, NEW s \in Seq(S), NEW e \in S
    PROVE  /\ Append(s, e) \in Seq(S)
           /\ DOMAIN Append(s, e) = DOMAIN s \cup {Len(s) + 1}
           /\ Len(s) + 1 \notin DOMAIN s
           /\ \A i \in DOMAIN s : Append(s, e)[i] = s[i]
           /\ Append(s, e)[Len(s) + 1] = e
           /\ Range(Append(s, e)) = Range(s) \cup {e}
<1>1. /\ Append(s, e) \in Seq(S)
      /\ DOMAIN Append(s, e) = DOMAIN s \cup {Len(s) + 1}
      /\ Len(s) + 1 \notin DOMAIN s
      /\ \A i \in DOMAIN s : Append(s, e)[i] = s[i]
      /\ Append(s, e)[Len(s) + 1] = e
  OBVIOUS
<1>2. Range(Append(s, e)) = Range(s) \cup {e}
  BY <1>1 DEF Range
<1>3. QED
  BY <1>1, <1>2

\* A message that is taken is not yet in the stream when it enters.
LEMMA EntersOnce ==
    ASSUME TraceInv, NEW o \in Order, Channel!Enter(o)
    PROVE  o \notin Range(stream)
<1>1. o \in Range(accepted)
  BY DEF TraceInv, Channel!Enter
<1>2. \E i \in DOMAIN accepted : accepted[i] = o
  BY <1>1 DEF Range
<1>3. Channel!Position(o) \in DOMAIN accepted
  BY <1>2 DEF Channel!Position
<1>4. Channel!Position(o) \in Nat
  BY <1>3 DEF TraceInv
<1>5. ~(Channel!Position(o) < Channel!Position(o))
  BY <1>4
<1>6. QED
  BY <1>5 DEF Channel!Enter, Channel!Range, Range

LEMMA TraceStep ==
    ASSUME TraceInv, [PipelineNext]_pipelineVars
    PROVE  TraceInv'
<1>1. CASE UNCHANGED pipelineVars
  BY <1>1 DEF pipelineVars, vars, service, TraceInv, Channel!Fates
<1>2. ASSUME NEW o \in Order, Place(o) PROVE TraceInv'
  BY <1>2 DEF Place, vars, TraceInv, Channel!Fates
<1>3. ASSUME NEW o \in Order, Publish(o) PROVE TraceInv'
  <2>1. CASE Channel!Take(o)
    BY <1>3, <2>1, RangeAppend DEF Publish, vars, TraceInv, Channel!Take, Channel!Fates
  <2>2. CASE Channel!Refuse(o)
    BY <1>3, <2>2 DEF Publish, vars, TraceInv, Channel!Refuse, Channel!Fates
  <2>3. QED
    BY <1>3, <2>1, <2>2 DEF Publish
<1>4. ASSUME NEW o \in Order, Arrive(o) PROVE TraceInv'
  <2>1. /\ Range(stream') = Range(stream) \cup {o} /\ stream' \in Seq(Order)
        /\ UNCHANGED <<fate, accepted, orders>>
        /\ o \in orders /\ o \notin Range(stream)
    BY <1>4, RangeAppend, EntersOnce DEF Arrive, Channel!Enter, TraceInv
  <2>2. CASE UNCHANGED vars
    BY <2>1, <2>2 DEF vars, TraceInv
  <2>3. CASE Produce(o)
    <3>1. log' = Append(log, o) /\ o \in Event
      BY <2>3, OrdersAssumption DEF Produce
    <3>2. /\ log' \in Seq(Event)
          /\ DOMAIN log' = DOMAIN log \cup {Len(log) + 1}
          /\ \A i \in DOMAIN log : log'[i] = log[i]
          /\ log'[Len(log) + 1] = o
      BY <3>1, RangeAppend DEF TraceInv
    <3>3. \A i \in DOMAIN log : log[i] # o
      BY <2>1 DEF TraceInv
    <3>4. QED
      BY <2>1, <3>2, <3>3 DEF TraceInv
  <2>4. QED
    BY <1>4, <2>2, <2>3 DEF Arrive
<1>5. ASSUME NEW o \in Order, Report(o) PROVE TraceInv'
  BY <1>5 DEF Report, vars, TraceInv, Channel!Confirm, Channel!Lose, Channel!Fates
<1>6. CASE Die
  <2>1. fate' \in [Order -> Channel!Fates]
    BY <1>6 DEF Die, TraceInv, Channel!Die, Channel!Fates
  <2>2. \A o \in Order : fate'[o] \in {"new", "buffered"} => fate'[o] = fate[o]
    BY <1>6 DEF Die, Channel!Die
  <2>3. \A o \in Order : o \notin orders => fate'[o] = "new"
    BY <1>6 DEF Die, Channel!Die, TraceInv
  <2>4. QED
    BY <1>6, <2>1, <2>2, <2>3 DEF Die, vars, TraceInv, Channel!Die
<1>7. ASSUME NEW e \in Event, Foreign(e) PROVE TraceInv'
  <2>1. /\ log' \in Seq(Event)
        /\ DOMAIN log' = DOMAIN log \cup {Len(log) + 1}
        /\ \A i \in DOMAIN log : log'[i] = log[i]
        /\ log'[Len(log) + 1] = e /\ e \notin Order
        /\ UNCHANGED service
    BY <1>7, RangeAppend DEF Foreign, Produce, TraceInv
  <2>2. QED
    BY <2>1 DEF TraceInv, service
<1>8. ASSUME NEW c \in Consumer, Worker(c) PROVE TraceInv'
  <2>1. UNCHANGED log /\ UNCHANGED service
    BY <1>8
    DEF Worker, Member, Loop, Poll, Handle, Choke, Commit, CommitRefused, CommitFails,
        Interrupt, NoTopic, Crash, Start, Evict, Expel, Assign
  <2>2. QED
    BY <2>1 DEF service, TraceInv
<1>9. QED
  BY <1>1, <1>2, <1>3, <1>4, <1>5, <1>6, <1>7, <1>8 DEF PipelineNext

\* However the producer resends, refuses and loses, and whoever writes to the
\* topic: an event of an order is that of a committed order, and there is one.
THEOREM EventsMatchOrders == PipelineSpec => []OneEventPerOrder
<1>1. PipelineInit => TraceInv
  BY DEF PipelineInit, Init, Channel!Init, TraceInv, Channel!Fates, Range
<1>2. TraceInv => OneEventPerOrder
  BY DEF TraceInv, OneEventPerOrder, Range
<1>3. QED
  BY <1>1, <1>2, TraceStep, PTL DEF PipelineSpec

-----------------------------------------------------------------------------
(* How often a message comes again: every failure leaves at most one debt,   *)
(* which the handling of a message a second time settles.                    *)

\* The handlings that are not the first of their message.
Again == {h \in Offsets \X Nat : h[2] > 1 /\ h[2] <= handled[h[1]]}

\* The message at the group's offset has been handled and will be once more:
\* no owner is about to commit it.
Uncommitted ==
    {h \in Offsets \X {1} :
        /\ h[1] = committed /\ handled[h[1]] > 0
        /\ ~(owner # Nobody /\ state[owner] = "committing")}

\* The members that handle a message although the partition is another's.
Late == {h \in Consumer \X {0} : state[h[1]] = "handling" /\ owner # h[1]}

Debt == Again \cup Uncommitted \cup Late

Owed == IsFiniteSet(Debt) /\ Cardinality(Debt) <= faults

\* Nothing beyond the group's offset is handled, and no member is beyond it.
InFront ==
    /\ \A i \in Offsets : handled[i] > 0 => i <= committed
    /\ \A c \in Consumer : state[c] = "handling" => position[c] <= committed + 1

\* The inductive invariant of the group, with what its failures have cost.
DebtInv == GroupInv /\ InFront /\ Owed

LEMMA NoMore ==
    ASSUME NEW D, NEW E, IsFiniteSet(D), E \subseteq D
    PROVE  IsFiniteSet(E) /\ Cardinality(E) <= Cardinality(D)
           /\ Cardinality(D) \in Nat /\ Cardinality(E) \in Nat
BY FS_Subset, FS_CardinalityType

LEMMA OneMore ==
    ASSUME NEW D, NEW E, NEW x, IsFiniteSet(D), E \subseteq D \cup {x}
    PROVE  IsFiniteSet(E) /\ Cardinality(E) <= Cardinality(D) + 1
           /\ Cardinality(D) \in Nat /\ Cardinality(E) \in Nat
<1>1. IsFiniteSet(D \cup {x}) /\ Cardinality(D) \in Nat
      /\ (Cardinality(D \cup {x}) = Cardinality(D) \/ Cardinality(D \cup {x}) = Cardinality(D) + 1)
  BY FS_AddElement, FS_CardinalityType
<1>2. IsFiniteSet(E) /\ Cardinality(E) <= Cardinality(D \cup {x}) /\ Cardinality(E) \in Nat
  BY <1>1, NoMore
<1>3. QED
  BY <1>1, <1>2

LEMMA OneForOne ==
    ASSUME NEW D, NEW E, NEW x \in D, NEW y, IsFiniteSet(D), E \subseteq (D \ {x}) \cup {y}
    PROVE  IsFiniteSet(E) /\ Cardinality(E) <= Cardinality(D)
           /\ Cardinality(D) \in Nat /\ Cardinality(E) \in Nat
<1>1. IsFiniteSet(D \ {x}) /\ Cardinality(D \ {x}) = Cardinality(D) - 1 /\ Cardinality(D) \in Nat
  BY FS_RemoveElement, FS_CardinalityType
<1>2. IsFiniteSet(E) /\ Cardinality(E) <= Cardinality(D \ {x}) + 1 /\ Cardinality(E) \in Nat
  BY <1>1, OneMore
<1>3. QED
  BY <1>1, <1>2

\* The group's offset moves past what the owner has handled, and the next
\* message has not been.
LEMMA InFrontStep ==
    ASSUME GroupInv, GroupInv', InFront, [Next]_vars
    PROVE  InFront'
<1> USE DEF InFront
<1>1. CASE UNCHANGED vars
  BY <1>1 DEF vars, member
<1>2. ASSUME NEW e \in Event, Produce(e) PROVE InFront'
  BY <1>2 DEF Produce, member
<1>3. ASSUME NEW c \in Consumer, Poll(c) PROVE InFront'
  <2>1. position[c] = committed
    BY <1>3, ValuesAssumption DEF GroupInv, Owning, Poll
  <2>2. position'[c] = committed + 1 /\ \A d \in Consumer : d # c => position'[d] = position[d] /\ state'[d] = state[d]
    BY <1>3, <2>1 DEF GroupInv, TypeOK, Poll
  <2>3. QED
    BY <1>3, <2>2 DEF GroupInv, TypeOK, Poll
<1>4. ASSUME NEW c \in Consumer, Handle(c) PROVE InFront'
  <2>1. \A i \in Offsets : i # Current(c) => handled'[i] = handled[i]
    BY <1>4 DEF Handle, GroupInv, TypeOK
  <2>2. Current(c) <= committed
    BY <1>4 DEF Handle, Current, GroupInv, TypeOK
  <2>3. \A d \in Consumer : state'[d] = "handling" => state[d] = "handling"
    BY <1>4 DEF Handle, GroupInv, TypeOK
  <2>4. QED
    BY <1>4, <2>1, <2>2, <2>3 DEF Handle
<1>5. ASSUME NEW c \in Consumer,
             \/ Choke(c) \/ Commit(c) \/ CommitRefused(c) \/ CommitFails(c) \/ Interrupt(c)
             \/ NoTopic(c) \/ Crash(c) \/ Start(c) \/ Evict(c) \/ Expel(c) \/ Assign(c)
      PROVE InFront'
  <2>1. UNCHANGED handled
    BY <1>5 DEF Choke, Commit, CommitRefused, CommitFails, Interrupt, NoTopic, Crash, Start,
      Evict, Expel, Assign
  <2>2. committed' >= committed /\ committed' \in Nat /\ committed \in Nat
    <3>1. CASE Commit(c) \/ CommitFails(c)
      BY <1>5, <3>1, ValuesAssumption
      DEF GroupInv, TypeOK, Owning, Commit, CommitFails, Fenced
    <3>2. CASE UNCHANGED committed
      BY <3>2 DEF GroupInv, TypeOK
    <3>3. QED
      BY <1>5, <3>1, <3>2 DEF Choke, CommitRefused, Interrupt, NoTopic, Crash, Start,
        Evict, Expel, Assign
  <2>3. \A d \in Consumer : state'[d] = "handling" => state[d] = "handling" /\ position'[d] = position[d]
    BY <1>5 DEF Choke, Commit, CommitRefused, CommitFails, Interrupt, NoTopic, Crash, Start,
      Evict, Expel, Assign, Stop, member, GroupInv, TypeOK
  <2>4. \A d \in Consumer : position[d] \in Nat
    BY DEF GroupInv, TypeOK
  <2>5. \A j \in Offsets : j <= committed => j <= committed'
    BY <2>2, BoundsAssumption DEF Offsets
  <2>6. \A d \in Consumer : position[d] <= committed + 1 => position[d] <= committed' + 1
    BY <2>2, <2>4
  <2>7. QED
    BY <2>1, <2>3, <2>5, <2>6
<1>6. QED
  BY <1>1, <1>2, <1>3, <1>4, <1>5 DEF Next, Member, Loop

\* A failure adds at most one debt, a handling settles one for the one it makes,
\* and no other step adds any.
LEMMA DebtStep ==
    ASSUME DebtInv, GroupInv', [Next]_vars
    PROVE  Owed'
<1> USE DEF DebtInv
<1>0. faults \in Nat /\ GroupInv
  BY BoundsAssumption DEF GroupInv, TypeOK
<1>a. ASSUME Debt' \subseteq Debt, UNCHANGED faults PROVE Owed'
  BY <1>0, <1>a, NoMore DEF Owed
<1>b. ASSUME NEW x, Debt' \subseteq Debt \cup {x}, faults' = faults + 1 PROVE Owed'
  <2>1. IsFiniteSet(Debt') /\ Cardinality(Debt') <= Cardinality(Debt) + 1
        /\ Cardinality(Debt) \in Nat /\ Cardinality(Debt') \in Nat
    BY <1>b, OneMore DEF Owed
  <2>2. QED
    BY <1>0, <1>b, <2>1 DEF Owed
<1>c. ASSUME NEW x \in Debt, NEW y, Debt' \subseteq (Debt \ {x}) \cup {y}, UNCHANGED faults
      PROVE Owed'
  <2>1. IsFiniteSet(Debt') /\ Cardinality(Debt') <= Cardinality(Debt)
        /\ Cardinality(Debt) \in Nat /\ Cardinality(Debt') \in Nat
    BY <1>c, OneForOne DEF Owed
  <2>2. QED
    BY <1>0, <1>c, <2>1 DEF Owed
<1>1. CASE UNCHANGED vars
  BY <1>1, <1>a DEF vars, member, Debt, Again, Uncommitted, Late
<1>2. ASSUME NEW e \in Event, Produce(e) PROVE Owed'
  BY <1>2, <1>a DEF Produce, member, Debt, Again, Uncommitted, Late
<1>3. ASSUME NEW c \in Consumer, Handle(c) PROVE Owed'
  <2> DEFINE i == Current(c)
  <2>1. /\ i \in Offsets /\ i <= committed /\ i \in Nat
        /\ handled' = [handled EXCEPT ![i] = handled[i] + 1]
    BY <1>3 DEF Handle, Current, GroupInv, TypeOK, Reading, Offsets, InFront
  <2>2. owner = c => i = committed
    BY <1>3, ValuesAssumption DEF Handle, Current, GroupInv, TypeOK, Owning
  <2>. HIDE DEF i
  <2>3. UNCHANGED <<committed, owner, faults>>
    BY <1>3 DEF Handle
  <2>4. CASE handled[i] = 0
    <3>1. i = committed
      BY <2>1, <2>4 DEF GroupInv, CommittedWasHandled, TypeOK
    <3>2. CASE owner = c
      <4>1. Again' \subseteq Again
        BY <2>1, <2>4 DEF Again, GroupInv, TypeOK
      <4>2. Uncommitted' = {}
        BY <1>3, <2>3, <3>2, ValuesAssumption DEF Uncommitted, Handle, GroupInv, TypeOK
      <4>3. Late' \subseteq Late
        BY <1>3, <2>3 DEF Late, Handle, GroupInv, TypeOK
      <4>4. QED
        BY <1>a, <2>3, <4>1, <4>2, <4>3 DEF Debt
    <3>3. CASE owner # c
      <4>1. Again' \subseteq Again
        BY <2>1, <2>4 DEF Again, GroupInv, TypeOK
      <4>2. Uncommitted' \subseteq {<<i, 1>>}
        BY <2>3, <3>1 DEF Uncommitted
      <4>3. <<c, 0>> \in Late /\ Late' \subseteq Late \ {<<c, 0>>}
        BY <1>3, <2>3, <3>3 DEF Late, Handle, GroupInv, TypeOK
      <4>4. <<c, 0>> \in Debt /\ Debt' \subseteq (Debt \ {<<c, 0>>}) \cup {<<i, 1>>}
        <5>1. <<c, 0>> \notin Again
          BY DEF Again
        <5>2. <<c, 0>> \notin Uncommitted
          BY DEF Uncommitted
        <5>3. QED
          BY <4>1, <4>2, <4>3, <5>1, <5>2 DEF Debt
      <4>5. QED
        BY <1>c, <2>3, <4>4
    <3>4. QED
      BY <3>2, <3>3
  <2>5. CASE handled[i] # 0
    <3>1. Again' \subseteq Again \cup {<<i, handled[i] + 1>>}
      BY <2>1, <2>5 DEF Again, GroupInv, TypeOK
    <3>2. Late' \subseteq Late
      BY <1>3, <2>3 DEF Late, Handle, GroupInv, TypeOK
    <3>3. CASE owner = c
      <4>1. Uncommitted' = {}
        BY <1>3, <2>3, <3>3, ValuesAssumption DEF Uncommitted, Handle, GroupInv, TypeOK
      <4>2. <<i, 1>> \in Uncommitted
        BY <1>3, <2>1, <2>2, <2>5, <3>3, ValuesAssumption DEF Uncommitted, Handle, GroupInv, TypeOK
      <4>3. <<i, 1>> \notin Again /\ <<i, 1>> \notin Late
        BY DEF Again, Late
      <4>4. <<i, 1>> \in Debt /\ Debt' \subseteq (Debt \ {<<i, 1>>}) \cup {<<i, handled[i] + 1>>}
        BY <3>1, <3>2, <4>1, <4>2, <4>3 DEF Debt
      <4>5. QED
        BY <1>c, <2>3, <4>4
    <3>4. CASE owner # c
      <4>1. <<c, 0>> \in Late /\ Late' \subseteq Late \ {<<c, 0>>}
        BY <1>3, <2>3, <3>4 DEF Late, Handle, GroupInv, TypeOK
      <4>2. Uncommitted' \subseteq Uncommitted
        BY <1>3, <2>1, <2>3, <2>5, <3>4 DEF Uncommitted, Handle, GroupInv, TypeOK
      <4>3. <<c, 0>> \notin Again /\ <<c, 0>> \notin Uncommitted
        BY DEF Again, Uncommitted
      <4>4. <<c, 0>> \in Debt /\ Debt' \subseteq (Debt \ {<<c, 0>>}) \cup {<<i, handled[i] + 1>>}
        BY <3>1, <4>1, <4>2, <4>3 DEF Debt
      <4>5. QED
        BY <1>c, <2>3, <4>4
    <3>5. QED
      BY <3>3, <3>4
  <2>6. QED
    BY <2>4, <2>5
<1>4. ASSUME NEW c \in Consumer,
             \/ Poll(c) \/ Choke(c) \/ Commit(c) \/ CommitRefused(c)
             \/ NoTopic(c) \/ Start(c) \/ Evict(c) \/ Assign(c)
      PROVE Owed'
  <2>1. UNCHANGED <<handled, faults>>
    BY <1>4 DEF Poll, Choke, Commit, CommitRefused, NoTopic, Start, Evict, Assign, member
  <2>2. Again' \subseteq Again
    BY <2>1 DEF Again
  <2>3. Uncommitted' \subseteq Uncommitted
    <3>1. CASE Commit(c)
      <4>1. committed' = committed + 1 /\ committed \in Nat
        BY <3>1, ValuesAssumption DEF Commit, Fenced, GroupInv, TypeOK, Owning
      <4>2. \A j \in Offsets : j = committed' => ~(handled[j] > 0)
        BY <4>1 DEF InFront
      <4>3. QED
        BY <2>1, <4>2 DEF Uncommitted
    <3>2. CASE ~Commit(c)
      <4>1. UNCHANGED committed
        BY <1>4, <3>2 DEF Poll, Choke, CommitRefused, NoTopic, Start, Evict, Assign, member
      <4>2. owner # Nobody /\ state[owner] = "committing" => owner' = owner /\ state'[owner] = "committing"
        BY <1>4, <3>2
        DEF Poll, Choke, CommitRefused, NoTopic, Start, Evict, Assign, member, Stop, Fenced,
            GroupInv, TypeOK
      <4>3. QED
        BY <2>1, <4>1, <4>2 DEF Uncommitted
    <3>3. QED
      BY <3>1, <3>2
  <2>4. Late' \subseteq Late
    BY <1>4, ValuesAssumption
    DEF Late, Poll, Choke, Commit, CommitRefused, NoTopic, Start, Evict, Assign, member, Stop,
        Fenced, GroupInv, TypeOK
  <2>5. QED
    BY <1>a, <2>1, <2>2, <2>3, <2>4 DEF Debt
<1>5. ASSUME NEW c \in Consumer, CommitFails(c) \/ Interrupt(c) \/ Crash(c) PROVE Owed'
  <2>1. UNCHANGED handled /\ faults' = faults + 1
    BY <1>5 DEF CommitFails, Interrupt, Crash, Fault
  <2>2. Again' \subseteq Again
    BY <2>1 DEF Again
  <2>3. Uncommitted' \subseteq Uncommitted \cup {<<committed', 1>>}
    BY DEF Uncommitted
  <2>4. Late' \subseteq Late
    BY <1>5 DEF Late, CommitFails, Interrupt, Crash, Stop, GroupInv, TypeOK
  <2>5. QED
    BY <1>b, <2>1, <2>2, <2>3, <2>4 DEF Debt
<1>6. ASSUME NEW c \in Consumer, Expel(c) PROVE Owed'
  <2>1. UNCHANGED <<handled, committed, state>> /\ faults' = faults + 1 /\ owner = c
    BY <1>6 DEF Expel, Fault, member
  <2>2. Again' \subseteq Again
    BY <2>1 DEF Again
  <2>3. CASE state[c] = "committing"
    <3>1. Late' \subseteq Late
      BY <1>6, <2>1, <2>3 DEF Late, Expel
    <3>2. Uncommitted' \subseteq {<<committed, 1>>}
      BY <2>1 DEF Uncommitted
    <3>3. QED
      BY <1>b, <2>1, <2>2, <3>1, <3>2 DEF Debt
  <2>4. CASE state[c] # "committing"
    <3>1. Late' \subseteq Late \cup {<<c, 0>>}
      BY <1>6, <2>1 DEF Late, Expel
    <3>2. Uncommitted' \subseteq Uncommitted
      BY <2>1, <2>4 DEF Uncommitted
    <3>3. QED
      BY <1>b, <2>1, <2>2, <3>1, <3>2 DEF Debt
  <2>5. QED
    BY <2>3, <2>4
<1>7. QED
  BY <1>1, <1>2, <1>3, <1>4, <1>5, <1>6 DEF Next, Member, Loop

\* Of the handlings, those that are not the first are part of the debt.
LEMMA AgainIs ==
    TypeOK => {h \in Handlings(Offsets) : h[2] > 1} \subseteq Again
<1> SUFFICES ASSUME TypeOK, NEW h \in Handlings(Offsets), h[2] > 1 PROVE h \in Again
  OBVIOUS
<1>1. PICK i \in Offsets : h \in {i} \X (1 .. handled[i])
  BY DEF Handlings
<1>2. h[1] = i /\ h[2] \in 1 .. handled[i] /\ h = <<h[1], h[2]>>
  BY <1>1
<1>3. QED
  BY <1>2 DEF Again, TypeOK

\* Whatever fails, and however often the partition changes hands: what the group
\* owes is no more than its failures.
THEOREM GroupDebt == Spec => []DebtInv
<1>1. Init => DebtInv
  <2> SUFFICES ASSUME Init PROVE DebtInv
    OBVIOUS
  <2>1. GroupInv
    BY BoundsAssumption
    DEF Init, GroupInv, TypeOK, Reading, Owning, CommittedIsStored, CommittedWasHandled, Offsets
  <2>2. Debt = {}
    BY DEF Init, Debt, Again, Uncommitted, Late
  <2>3. InFront
    BY DEF Init, InFront
  <2>4. QED
    BY <2>1, <2>2, <2>3, FS_EmptySet DEF DebtInv, Owed, Init
<1>2. DebtInv /\ [Next]_vars => DebtInv'
  BY GroupStep, InFrontStep, DebtStep DEF DebtInv
<1>3. QED
  BY <1>1, <1>2, PTL DEF Spec

\* A message that came again is a debt.
LEMMA DebtBounds == DebtInv => RedeliveryBounded
<1> SUFFICES ASSUME DebtInv PROVE RedeliveryBounded
  OBVIOUS
<1> DEFINE E == {h \in Handlings(Offsets) : h[2] > 1}
<1>1. E \subseteq Debt
  BY AgainIs DEF DebtInv, GroupInv, Debt
<1>2. IsFiniteSet(Debt) /\ Cardinality(Debt) <= faults /\ faults \in Nat
  BY BoundsAssumption DEF DebtInv, Owed, GroupInv, TypeOK
<1> HIDE DEF E
<1>3. Cardinality(E) <= faults
  BY <1>1, <1>2, NoMore
<1>4. QED
  BY <1>3 DEF E, RedeliveryBounded

\* A payment is triggered again at most once for each failure of a member, of the
\* broker or of the coordinator.
THEOREM Redelivery == PipelineSpec => []RedeliveryBounded
BY PipelineConsumes, GroupDebt, DebtBounds, PTL

\* With one event for each order, its payments are the first and those again.
LEMMA PaymentsBound ==
    DebtInv /\ OneEventPerOrder => PaymentsMatchOrders
<1> SUFFICES ASSUME DebtInv, OneEventPerOrder, NEW o \in Order
             PROVE  Payments(o) <= IF o \in orders THEN 1 + faults ELSE 0
  BY DEF PaymentsMatchOrders
<1> DEFINE S == {i \in DOMAIN log : log[i] = o}
           E == {h \in Handlings(Offsets) : h[2] > 1}
           P == Handlings(S)
<1>0. faults \in Nat /\ log \in Seq(Event) /\ Len(log) <= MaxEvents /\ Payments(o) = Cardinality(P)
  BY BoundsAssumption DEF DebtInv, GroupInv, TypeOK, Payments
<1>1. CASE S = {}
  <2>1. P = {}
    BY <1>1 DEF Handlings
  <2> HIDE DEF P
  <2>2. Cardinality(P) = 0
    BY <2>1, FS_EmptySet
  <2>3. QED
    BY <1>0, <2>2
<1>2. CASE S # {}
  <2>1. PICK i \in DOMAIN log : log[i] = o
    BY <1>2
  <2>2. S = {i} /\ o \in orders
    BY <2>1 DEF OneEventPerOrder
  <2>3. i \in Offsets /\ handled[i] \in Nat
    BY <1>0, <2>1, BoundsAssumption DEF Offsets, DebtInv, GroupInv, TypeOK
  <2>4. ASSUME NEW h \in P PROVE h \in E \cup {<<i, 1>>}
    <3>1. h \in {i} \X (1 .. handled[i])
      BY <2>2, <2>4 DEF Handlings
    <3>2. h = <<i, h[2]>> /\ h[2] \in 1 .. handled[i]
      BY <3>1
    <3>3. h \in Handlings(Offsets)
      BY <2>3, <3>1 DEF Handlings
    <3>4. QED
      BY <2>3, <3>2, <3>3
  <2>5. E \subseteq Debt
    BY AgainIs DEF DebtInv, GroupInv, Debt
  <2>6. P \subseteq Debt \cup {<<i, 1>>}
    BY <2>4, <2>5
  <2> HIDE DEF P
  <2>7. Cardinality(P) <= Cardinality(Debt) + 1 /\ Cardinality(P) \in Nat /\ Cardinality(Debt) \in Nat
    BY <2>6, OneMore DEF DebtInv, Owed
  <2>8. QED
    BY <1>0, <2>2, <2>7 DEF DebtInv, Owed
<1>3. QED
  BY <1>1, <1>2

\* No order is paid for that is not in the database, and none more than once but
\* for a failure of a consumer, whatever the producer does with its event.
THEOREM PaymentsCorrect == PipelineSpec => []PaymentsMatchOrders
BY PipelineConsumes, GroupDebt, EventsMatchOrders, PaymentsBound, PTL

=============================================================================
