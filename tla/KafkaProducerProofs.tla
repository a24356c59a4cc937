------------------------ MODULE KafkaProducerProofs ------------------------
(* Theorems about KafkaProducer, for any messages and any capacity.           *)
EXTENDS KafkaProducer, TLAPS

At(m) == Position(accepted, m)

\* A call has its message until it is over, which is new until produce has run.
Calling ==
    /\ step \in {"idle", "close"} => msg = None
    /\ step \notin {"idle", "close"} => msg \in Message
    /\ step \in {"produce", "poll", "retry"} => fate[msg] = "new"

\* The buffer holds what was taken, in the order in which it was.
Buffered ==
    /\ \A i, j \in DOMAIN accepted : accepted[i] = accepted[j] => i = j
    /\ \A m \in Range(accepted) : fate[m] \in {"buffered", "delivered", "lost"}
    /\ \A m \in Range(queue) : fate[m] = "buffered" /\ m \in Range(accepted)
    /\ \A m \in Message : fate[m] = "buffered" => m \in Range(queue)
    /\ \A i, j \in DOMAIN queue : i < j => At(queue[i]) < At(queue[j])

\* Of what is settled, what was confirmed is in the partition.
DeliveredIsStored ==
    \A m \in Message : fate[m] = "delivered" => m \in Range(log)

\* What is not in the partition yet goes behind everything that is.
Sent ==
    /\ Range(log) \subseteq Range(accepted)
    /\ InOrder
    /\ \A m \in Range(queue), n \in Range(log) : m \notin Range(log) => At(n) < At(m)
    /\ DeliveredIsStored

\* The inductive invariant.
ProducerInv == TypeOK /\ Calling /\ Buffered /\ Sent

-----------------------------------------------------------------------------
(* Sequences. *)

LEMMA RangeAppend ==
    ASSUME NEW S, NEW s \in Seq(S), NEW e \in S
    PROVE  /\ Append(s, e) \in Seq(S)
           /\ DOMAIN Append(s, e) = DOMAIN s \cup {Len(s) + 1}
           /\ \A i \in DOMAIN s : Append(s, e)[i] = s[i] /\ i < Len(s) + 1
           /\ Append(s, e)[Len(s) + 1] = e
           /\ Range(Append(s, e)) = Range(s) \cup {e}
<1>1. /\ Append(s, e) \in Seq(S)
      /\ DOMAIN Append(s, e) = DOMAIN s \cup {Len(s) + 1}
      /\ \A i \in DOMAIN s : Append(s, e)[i] = s[i] /\ i < Len(s) + 1
      /\ Append(s, e)[Len(s) + 1] = e
  OBVIOUS
<1>2. Range(Append(s, e)) = Range(s) \cup {e}
  BY <1>1 DEF Range
<1>3. QED
  BY <1>1, <1>2

LEMMA RangeIn ==
    ASSUME NEW S, NEW s \in Seq(S)
    PROVE  Range(s) \subseteq S
BY DEF Range

LEMMA RangeTail ==
    ASSUME NEW S, NEW s \in Seq(S), s # <<>>
    PROVE  /\ Head(s) = s[1] /\ 1 \in DOMAIN s /\ Head(s) \in Range(s)
           /\ Tail(s) \in Seq(S) /\ Len(Tail(s)) = Len(s) - 1
           /\ \A i \in DOMAIN Tail(s) : i + 1 \in DOMAIN s /\ Tail(s)[i] = s[i + 1]
           /\ Range(Tail(s)) \subseteq Range(s)
           /\ Range(s) = Range(Tail(s)) \cup {Head(s)}
<1>1. /\ Head(s) = s[1] /\ 1 \in DOMAIN s
      /\ Tail(s) \in Seq(S) /\ Len(Tail(s)) = Len(s) - 1
      /\ \A i \in DOMAIN Tail(s) : i + 1 \in DOMAIN s /\ Tail(s)[i] = s[i + 1]
  OBVIOUS
<1>2. Range(s) \subseteq Range(Tail(s)) \cup {Head(s)}
  <2>1. ASSUME NEW i \in DOMAIN s, i # 1 PROVE s[i] \in Range(Tail(s))
    <3>1. i - 1 \in DOMAIN Tail(s)
      BY <1>1, <2>1
    <3>2. Tail(s)[i - 1] = s[i]
      BY <1>1, <2>1, <3>1
    <3>3. QED
      BY <3>1, <3>2 DEF Range
  <2>2. QED
    BY <1>1, <2>1 DEF Range
<1>3. Range(Tail(s)) \subseteq Range(s) /\ Head(s) \in Range(s)
  BY <1>1 DEF Range
<1>4. QED
  BY <1>1, <1>2, <1>3

\* In a sequence without repetitions every member has one place, which stays its
\* own when a new member comes behind.
LEMMA PositionIs ==
    ASSUME NEW S, NEW s \in Seq(S), \A i, j \in DOMAIN s : s[i] = s[j] => i = j,
           NEW i \in DOMAIN s
    PROVE  Position(s, s[i]) = i
BY DEF Position

LEMMA PositionAppend ==
    ASSUME NEW S, NEW s \in Seq(S), \A i, j \in DOMAIN s : s[i] = s[j] => i = j,
           NEW e \in S, e \notin Range(s)
    PROVE  /\ \A i, j \in DOMAIN Append(s, e) : Append(s, e)[i] = Append(s, e)[j] => i = j
           /\ Position(Append(s, e), e) = Len(s) + 1
           /\ \A m \in Range(s) :
                /\ Position(Append(s, e), m) = Position(s, m)
                /\ Position(s, m) \in DOMAIN s
                /\ Position(s, m) < Len(s) + 1
<1> DEFINE t == Append(s, e)
<1>1. /\ t \in Seq(S) /\ DOMAIN t = DOMAIN s \cup {Len(s) + 1}
      /\ \A i \in DOMAIN s : t[i] = s[i] /\ i < Len(s) + 1
      /\ t[Len(s) + 1] = e
  BY RangeAppend
<1>2. \A i \in DOMAIN s : s[i] # e
  BY DEF Range
<1> HIDE DEF t
<1>3. \A i, j \in DOMAIN t : t[i] = t[j] => i = j
  BY <1>1, <1>2
<1>4. Position(t, e) = Len(s) + 1
  BY <1>1, <1>3, PositionIs
<1>5. ASSUME NEW m \in Range(s)
      PROVE  Position(t, m) = Position(s, m) /\ Position(s, m) \in DOMAIN s
  <2>1. PICK i \in DOMAIN s : s[i] = m
    BY DEF Range
  <2>2. Position(s, m) = i
    BY <2>1, PositionIs
  <2>3. Position(t, m) = i
    BY <1>1, <1>3, <2>1, PositionIs
  <2>4. QED
    BY <2>2, <2>3
<1>6. QED
  BY <1>1, <1>3, <1>4, <1>5 DEF t

\* What was taken has a place, a number.
LEMMA AtIsNat ==
    ASSUME ProducerInv, NEW m \in Range(accepted)
    PROVE  At(m) \in Nat
<1>1. PICK i \in DOMAIN accepted : accepted[i] = m
  BY DEF Range
<1>2. At(m) = i
  BY <1>1, PositionIs DEF At, ProducerInv, TypeOK, Buffered
<1>3. QED
  BY <1>2 DEF ProducerInv, TypeOK

-----------------------------------------------------------------------------
(* What the steps share. *)

\* produce takes the message of the call.
LEMMA AcceptKeeps ==
    ASSUME ProducerInv, Accept, fate[msg] = "new", msg \in Message, UNCHANGED log
    PROVE  Buffered' /\ Sent'
<1>1. msg \notin Range(accepted) /\ accepted \in Seq(Message) /\ queue \in Seq(Message)
  BY DEF ProducerInv, TypeOK, Buffered
<1>2. /\ accepted' = Append(accepted, msg) /\ queue' = Append(queue, msg)
      /\ \A m \in Message : fate'[m] = IF m = msg THEN "buffered" ELSE fate[m]
  BY DEF Accept, Settle, ProducerInv, TypeOK
<1>3. /\ Range(accepted') = Range(accepted) \cup {msg}
      /\ Range(queue') = Range(queue) \cup {msg}
  BY <1>1, <1>2, RangeAppend
<1>4. /\ Range(accepted) \subseteq Message /\ Range(queue) \subseteq Range(accepted)
      /\ Range(log) \subseteq Range(accepted)
  BY RangeIn DEF ProducerInv, TypeOK, Buffered, Sent
<1>5. /\ \A i, j \in DOMAIN accepted' : accepted'[i] = accepted'[j] => i = j
      /\ Position(accepted', msg) = Len(accepted) + 1
      /\ \A m \in Range(accepted) :
           Position(accepted', m) = At(m) /\ At(m) \in Nat /\ At(m) < Len(accepted) + 1
  BY <1>1, <1>2, PositionAppend, AtIsNat DEF ProducerInv, Buffered, At
<1>6. \A i, j \in DOMAIN queue' : i < j => Position(accepted', queue'[i]) < Position(accepted', queue'[j])
  <2>1. /\ DOMAIN queue' = DOMAIN queue \cup {Len(queue) + 1}
        /\ \A i \in DOMAIN queue : queue'[i] = queue[i] /\ i < Len(queue) + 1
        /\ queue'[Len(queue) + 1] = msg
    BY <1>1, <1>2, RangeAppend
  <2>2. \A i \in DOMAIN queue : queue[i] \in Range(accepted)
    BY <1>4 DEF Range
  <2>3. \A i, j \in DOMAIN queue : i < j => At(queue[i]) < At(queue[j])
    BY DEF ProducerInv, Buffered
  <2>4. ASSUME NEW i \in DOMAIN queue', NEW j \in DOMAIN queue', i < j
        PROVE  Position(accepted', queue'[i]) < Position(accepted', queue'[j])
    <3>1. i \in DOMAIN queue
      BY <1>1, <2>1, <2>4
    <3>2. CASE j \in DOMAIN queue
      BY <1>5, <2>1, <2>2, <2>3, <2>4, <3>1, <3>2
    <3>3. CASE j = Len(queue) + 1
      BY <1>5, <2>1, <2>2, <3>1, <3>3
    <3>4. QED
      BY <2>1, <3>2, <3>3
  <2>5. QED
    BY <2>4
<1>7. Buffered'
  BY <1>2, <1>3, <1>4, <1>5, <1>6 DEF ProducerInv, Buffered, At
<1>8. InOrder'
  <2>1. \A i \in DOMAIN log : log[i] \in Range(accepted)
    BY <1>4 DEF Range
  <2>2. QED
    BY <1>5, <2>1 DEF ProducerInv, Sent, InOrder, At
<1>9. DeliveredIsStored'
  BY <1>2 DEF ProducerInv, Sent, DeliveredIsStored
<1>10. \A m \in Range(queue'), n \in Range(log) :
        m \notin Range(log) => Position(accepted', n) < Position(accepted', m)
  BY <1>3, <1>4, <1>5 DEF ProducerInv, Sent, At
<1>11. QED
  BY <1>3, <1>4, <1>7, <1>8, <1>9, <1>10 DEF Sent, At

\* A message leaves the front of the buffer, stored or given up.
LEMMA SettleKeeps ==
    ASSUME ProducerInv, queue # <<>>, NEW f \in {"delivered", "lost"},
           f = "delivered" => Head(queue) \in Range(log),
           Settle(Head(queue), f), queue' = Tail(queue), UNCHANGED <<accepted, log>>
    PROVE  Buffered' /\ Sent'
<1>1. queue \in Seq(Message)
  BY DEF ProducerInv, TypeOK
<1>2. /\ Range(queue) = Range(queue') \cup {Head(queue)}
      /\ Head(queue) = queue[1] /\ 1 \in DOMAIN queue /\ Head(queue) \in Range(queue)
      /\ \A i \in DOMAIN queue' : i + 1 \in DOMAIN queue /\ queue'[i] = queue[i + 1]
      /\ Range(queue') \subseteq Range(queue) /\ queue' \in Seq(Message)
  BY <1>1, RangeTail
<1>3. \A m \in Message : fate'[m] = IF m = Head(queue) THEN f ELSE fate[m]
  BY <1>1, <1>2 DEF Settle, ProducerInv, TypeOK
<1>4. /\ Range(accepted) \subseteq Message /\ Range(queue) \subseteq Range(accepted)
  BY RangeIn DEF ProducerInv, TypeOK, Buffered
<1>5. \A m \in Range(accepted) : At(m) \in Nat
  BY AtIsNat
<1>6. Head(queue) \notin Range(queue')
  <2>1. ASSUME NEW i \in DOMAIN queue' PROVE queue'[i] # Head(queue)
    <3>1. i + 1 \in DOMAIN queue /\ 1 < i + 1
      BY <1>2
    <3>2. At(queue[1]) < At(queue[i + 1])
      BY <1>2, <3>1 DEF ProducerInv, Buffered
    <3>3. At(queue[1]) \in Nat
      BY <1>2, <1>4, <1>5
    <3>4. QED
      BY <1>2, <3>2, <3>3
  <2>2. QED
    BY <2>1 DEF Range
<1>7. \A m : At(m)' = At(m)
  BY DEF At
<1>8. \A i, j \in DOMAIN queue' : i < j => At(queue'[i]) < At(queue'[j])
  BY <1>2 DEF ProducerInv, Buffered
<1>9. Buffered'
  BY <1>2, <1>3, <1>4, <1>6, <1>7, <1>8 DEF ProducerInv, Buffered
<1>10. DeliveredIsStored'
  BY <1>3 DEF ProducerInv, Sent, DeliveredIsStored
<1>11. QED
  BY <1>2, <1>7, <1>9, <1>10 DEF ProducerInv, Sent, InOrder

\* The process goes, and its buffer.
LEMMA AbandonKeeps ==
    ASSUME ProducerInv, Abandon, UNCHANGED <<accepted, log>>
    PROVE  Buffered' /\ Sent'
<1>1. queue' = <<>> /\ Range(queue') = {}
  BY DEF Abandon, Range
<1>2. \A m \in Message : \/ fate'[m] = fate[m] /\ fate[m] # "buffered"
                         \/ fate[m] = "buffered" /\ fate'[m] = "lost"
                         \/ fate[m] = "new" /\ fate'[m] = "refused"
  BY DEF Abandon, ProducerInv, Buffered
<1>3. Range(accepted) \subseteq Message
  BY DEF ProducerInv, TypeOK, Range
<1>4. Buffered'
  BY <1>1, <1>2, <1>3 DEF ProducerInv, Buffered
<1>5. QED
  BY <1>1, <1>2, <1>4 DEF ProducerInv, Sent, InOrder, DeliveredIsStored

-----------------------------------------------------------------------------
(* The invariant. *)

LEMMA TypeStep ==
    ASSUME ProducerInv, Next
    PROVE  TypeOK'
<1> USE DEF ProducerInv, TypeOK, Calls, Fates, call, buffer
<1>1. ASSUME NEW m \in Message, Publish(m) PROVE TypeOK'
  BY <1>1 DEF Publish
<1>2. CASE Produce
  <2>1. msg \in Message
    BY <1>2 DEF Produce, Calling
  <2>2. Len(queue') = Len(queue) + 1 /\ queue' \in Seq(Message) /\ accepted' \in Seq(Message)
    BY <1>2, <2>1 DEF Produce, Accept
  <2>3. Len(queue') + Len(reports') <= Capacity
    BY <1>2, <2>2, CapacityAssumption DEF Produce, Room
  <2>4. QED
    BY <1>2, <2>1, <2>2, <2>3 DEF Produce, Accept, Settle
<1>3. CASE BufferFull \/ Refuse
  BY <1>3 DEF BufferFull, Refuse, Settle
<1>4. CASE Poll \/ Finally \/ Flush
  <2>1. reports' = <<>> /\ UNCHANGED queue
    BY <1>4 DEF Poll, Finally, Flush, Serve
  <2>2. Len(queue') + Len(reports') <= Capacity /\ reports' \in Seq(Message)
    BY <2>1, CapacityAssumption
  <2>3. QED
    BY <1>4, <2>2 DEF Poll, Finally, Flush
<1>5. CASE Close \/ Restart
  BY <1>5 DEF Close, Restart
<1>6. CASE Exit \/ Crash
  <2>1. queue' = <<>> /\ reports' = <<>>
    BY <1>6 DEF Exit, Crash, Abandon
  <2>2. Len(queue') + Len(reports') <= Capacity /\ {queue', reports'} \subseteq Seq(Message)
    BY <2>1, CapacityAssumption
  <2>3. QED
    BY <1>6, <2>2 DEF Exit, Crash, Abandon
<1>7. CASE Send
  BY <1>7 DEF Send, Stored
<1>8. CASE Deliver \/ GiveUp
  <2>1. queue # <<>> /\ queue' = Tail(queue) /\ reports' = Append(reports, Head(queue))
    BY <1>8 DEF Deliver, GiveUp
  <2>2. Head(queue) \in Message /\ queue' \in Seq(Message) /\ Len(queue') = Len(queue) - 1
    BY <2>1, RangeTail, RangeIn
  <2>3. reports' \in Seq(Message) /\ Len(reports') = Len(reports) + 1
    BY <2>1, <2>2
  <2>4. Len(queue') + Len(reports') <= Capacity
    BY <2>2, <2>3, CapacityAssumption
  <2>5. QED
    BY <1>8, <2>2, <2>3, <2>4 DEF Deliver, GiveUp, Settle
<1>9. QED
  BY <1>1, <1>2, <1>3, <1>4, <1>5, <1>6, <1>7, <1>8 DEF Next, Caller, Library

LEMMA CallStep ==
    ASSUME ProducerInv, Next
    PROVE  Calling'
<1> USE DEF ProducerInv, TypeOK, Calling, Calls, call, buffer
<1>1. ASSUME NEW m \in Message, Publish(m) PROVE Calling'
  BY <1>1 DEF Publish
<1>2. CASE Caller
  BY <1>2, NoneAssumption
  DEF Caller, Produce, BufferFull, Refuse, Poll, Finally, Flush, Exit
<1>3. CASE Close \/ Crash \/ Restart
  BY <1>3 DEF Close, Crash, Restart
<1>4. CASE Send
  BY <1>4 DEF Send
<1>5. CASE Library
  <2>1. queue # <<>> /\ UNCHANGED <<step, msg>>
    BY <1>5 DEF Library, Deliver, GiveUp
  <2>2. Head(queue) \in Range(queue)
    BY <2>1, RangeTail
  <2>3. fate[Head(queue)] = "buffered"
    BY <2>2 DEF Buffered
  <2>4. fate[msg] = "new" => msg # Head(queue)
    BY <2>3
  <2>5. \A m \in Message : m # Head(queue) => fate'[m] = fate[m]
    BY <1>5 DEF Library, Deliver, GiveUp, Settle
  <2>6. QED
    BY <2>1, <2>4, <2>5, NoneAssumption
<1>6. QED
  BY <1>1, <1>2, <1>3, <1>4, <1>5 DEF Next

\* A message that is sent is behind all that are stored: those in front of it
\* have been.
LEMMA SendKeeps ==
    ASSUME ProducerInv, Send
    PROVE  Buffered' /\ Sent'
<1>1. PICK i \in DOMAIN queue :
        /\ \A j \in 1 .. i - 1 : queue[j] \in Range(log)
        /\ log' = Stored(queue[i])
        /\ UNCHANGED <<queue, accepted, fate>>
  BY DEF Send, buffer
<1> DEFINE m == queue[i]
<1>2. /\ queue \in Seq(Message) /\ log \in Seq(Message) /\ m \in Range(queue)
      /\ m \in Range(accepted) /\ m \in Message
  BY RangeIn DEF ProducerInv, TypeOK, Buffered, Range
<1>3. Buffered'
  BY <1>1 DEF ProducerInv, Buffered, At
<1>4. CASE m \in Range(log)
  <2>1. log' = log
    BY <1>1, <1>4 DEF Stored
  <2>2. QED
    BY <1>1, <1>3, <2>1 DEF ProducerInv, Sent, InOrder, DeliveredIsStored, At
<1>5. CASE m \notin Range(log)
  <2>1. log' = Append(log, m)
    BY <1>1, <1>5 DEF Stored
  <2>2. /\ DOMAIN log' = DOMAIN log \cup {Len(log) + 1}
        /\ \A k \in DOMAIN log : log'[k] = log[k] /\ k < Len(log) + 1
        /\ log'[Len(log) + 1] = m
        /\ Range(log') = Range(log) \cup {m}
    BY <1>2, <2>1, RangeAppend
  <2>3. \A n \in Range(log) : At(n) < At(m)
    BY <1>2, <1>5 DEF ProducerInv, Sent
  <2>4. \A k, l \in DOMAIN log' : k < l => At(log'[k]) < At(log'[l])
    <3>1. ASSUME NEW k \in DOMAIN log', NEW l \in DOMAIN log', k < l
          PROVE  At(log'[k]) < At(log'[l])
      <4>1. k \in DOMAIN log
        BY <1>2, <2>2, <3>1
      <4>2. CASE l \in DOMAIN log
        BY <2>2, <3>1, <4>1, <4>2 DEF ProducerInv, Sent, InOrder, At
      <4>3. CASE l = Len(log) + 1
        <5>1. log'[k] \in Range(log)
          BY <2>2, <4>1 DEF Range
        <5>2. QED
          BY <2>2, <2>3, <4>3, <5>1
      <4>4. QED
        BY <2>2, <4>2, <4>3
    <3>2. QED
      BY <3>1
  <2>5. ASSUME NEW q \in Range(queue), q \notin Range(log')
        PROVE  At(m) < At(q)
    <3>1. PICK k \in DOMAIN queue : queue[k] = q
      BY DEF Range
    <3>2. k \notin 1 .. i - 1 /\ k # i
      BY <1>1, <2>2, <2>5, <3>1
    <3>3. i < k
      BY <1>2, <3>2
    <3>4. QED
      BY <3>1, <3>3 DEF ProducerInv, Buffered
  <2>6. \A q \in Range(queue), n \in Range(log') : q \notin Range(log') => At(n) < At(q)
    BY <2>2, <2>5 DEF ProducerInv, Sent
  <2>7. InOrder'
    BY <1>1, <2>4 DEF InOrder, At
  <2>8. DeliveredIsStored'
    BY <1>1, <2>2 DEF ProducerInv, Sent, DeliveredIsStored
  <2>9. QED
    BY <1>1, <1>2, <1>3, <2>2, <2>6, <2>7, <2>8 DEF ProducerInv, Sent, At
<1>6. QED
  BY <1>4, <1>5

LEMMA ProducerStep ==
    ASSUME ProducerInv, [Next]_vars
    PROVE  ProducerInv'
<1>1. CASE UNCHANGED vars
  BY <1>1 DEF vars, ProducerInv, TypeOK, Calling, Buffered, Sent, InOrder,
              DeliveredIsStored, At
<1>2. ASSUME Next PROVE Buffered' /\ Sent'
  <2>1. CASE UNCHANGED <<fate, queue, accepted, log>>
    BY <2>1 DEF ProducerInv, Buffered, Sent, InOrder, DeliveredIsStored, At
  <2>2. CASE Produce
    BY <2>2, AcceptKeeps DEF Produce, ProducerInv, Calling
  <2>3. CASE Refuse
    <3>1. /\ msg \in Message /\ fate[msg] = "new"
          /\ fate' = [fate EXCEPT ![msg] = "refused"] /\ UNCHANGED <<queue, accepted, log>>
      BY <2>3 DEF Refuse, Settle, ProducerInv, Calling
    <3>2. \A m \in Message : m # msg => fate'[m] = fate[m]
      BY <3>1 DEF ProducerInv, TypeOK
    <3>3. msg \notin Range(accepted) /\ fate'[msg] = "refused"
      BY <3>1 DEF ProducerInv, TypeOK, Buffered
    <3>4. Range(accepted) \subseteq Message
      BY RangeIn DEF ProducerInv, TypeOK
    <3>5. QED
      BY <3>1, <3>2, <3>3, <3>4
      DEF ProducerInv, Buffered, Sent, InOrder, DeliveredIsStored, At
  <2>4. CASE Exit \/ Crash
    BY <2>4, AbandonKeeps DEF Exit, Crash
  <2>5. CASE Send
    BY <2>5, SendKeeps
  <2>6. CASE Deliver
    BY <2>6, SettleKeeps DEF Deliver, Acknowledged
  <2>7. CASE GiveUp
    BY <2>7, SettleKeeps DEF GiveUp
  <2>8. QED
    BY <1>2, <2>1, <2>2, <2>3, <2>4, <2>5, <2>6, <2>7
    DEF Next, Caller, Library, Publish, BufferFull, Poll, Finally, Flush, Close, Restart,
        call, buffer
<1>3. QED
  BY <1>1, <1>2, TypeStep, CallStep DEF ProducerInv

LEMMA ProducerCorrect == Spec => []ProducerInv
<1>1. Init => ProducerInv
  BY CapacityAssumption
  DEF Init, ProducerInv, TypeOK, Calls, Fates, Calling, Buffered, Sent, InOrder,
      DeliveredIsStored, Range
<1>2. QED
  BY <1>1, ProducerStep, PTL DEF Spec

-----------------------------------------------------------------------------

\* The library never holds more than it has room for, whatever is taken, served
\* and settled in between.
THEOREM BufferBounded == Spec => []TypeOK
BY ProducerCorrect, PTL DEF ProducerInv

\* Orders are announced in the order in which they were published.
THEOREM PartitionInOrder == Spec => []InOrder
BY ProducerCorrect, PTL DEF ProducerInv, Sent

\* An order that is missing where a later one has been announced has been given
\* up: what is still in the buffer would have had to go first, and what was
\* confirmed is there.
THEOREM GapsAreLosses == Spec => []MissingIsLost
<1>1. ASSUME ProducerInv, NEW i \in DOMAIN accepted, NEW j \in DOMAIN accepted, i < j,
             accepted[j] \in Range(log), accepted[i] \notin Range(log)
      PROVE  fate[accepted[i]] = "lost"
  <2> DEFINE m == accepted[i]
  <2>1. m \in Range(accepted) /\ m \in Message /\ i \in Nat /\ j \in Nat
    BY <1>1 DEF ProducerInv, TypeOK, Range
  <2>2. At(m) = i /\ At(accepted[j]) = j
    BY <1>1, PositionIs DEF At, ProducerInv, TypeOK, Buffered
  <2>3. m \notin Range(queue)
    BY <1>1, <2>1, <2>2 DEF ProducerInv, Sent
  <2>4. fate[m] # "buffered"
    BY <1>1, <2>1, <2>3 DEF ProducerInv, Buffered
  <2>5. fate[m] # "delivered"
    BY <1>1, <2>1 DEF ProducerInv, Sent, DeliveredIsStored
  <2>6. QED
    BY <1>1, <2>1, <2>4, <2>5 DEF ProducerInv, Buffered
<1>2. ProducerInv => MissingIsLost
  BY <1>1 DEF MissingIsLost
<1>3. QED
  BY <1>2, ProducerCorrect, PTL

-----------------------------------------------------------------------------
(* The producer implements the channel. *)

LEMMA SendRefines ==
    ASSUME ProducerInv, Send
    PROVE  UNCHANGED <<fate, accepted, log>> \/ \E m \in Message : Channel!Enter(m)
<1>1. PICK i \in DOMAIN queue : log' = Stored(queue[i]) /\ UNCHANGED <<accepted, fate>>
  BY DEF Send, buffer
<1>2. queue[i] \in Range(queue) /\ queue[i] \in Message
  BY RangeIn DEF ProducerInv, TypeOK, Range
<1>3. CASE queue[i] \in Range(log)
  BY <1>1, <1>3 DEF Stored
<1>4. CASE queue[i] \notin Range(log)
  <2>1. fate[queue[i]] = "buffered"
    BY <1>2 DEF ProducerInv, Buffered
  <2>2. \A n \in Range(log) : Channel!Position(n) < Channel!Position(queue[i])
    BY <1>2, <1>4 DEF ProducerInv, Sent, At, Position, Channel!Position
  <2>3. QED
    BY <1>1, <1>2, <1>4, <2>1, <2>2 DEF Stored, Channel!Enter, Channel!Range, Range
<1>5. QED
  BY <1>3, <1>4

\* A process that ends takes what is in its buffer along, and the call it is in.
LEMMA AbandonRefines ==
    ASSUME ProducerInv, Abandon, UNCHANGED <<accepted, log>>
    PROVE  \E S \in SUBSET Message : Channel!Die(S)
<1> DEFINE S == Range(queue) \cup {m \in Message : m = msg /\ fate[m] = "new"}
<1>1. S \in SUBSET Message
  BY RangeIn DEF ProducerInv, TypeOK
<1>2. \A m \in Range(queue) : fate[m] = "buffered"
  BY DEF ProducerInv, Buffered
<1>3. ASSUME NEW m \in Message
      PROVE  fate'[m] = CASE m \in S /\ fate[m] = "buffered" -> "lost"
                          [] m \in S /\ fate[m] = "new" -> "refused"
                          [] OTHER -> fate[m]
  BY <1>2 DEF Abandon
<1>4. Channel!Die(S)
  BY <1>2, <1>3 DEF Abandon, Channel!Die
<1>5. QED
  BY <1>1, <1>4

LEMMA ChannelStep ==
    ASSUME ProducerInv, [Next]_vars
    PROVE  [Channel!Next]_(Channel!vars)
<1> USE DEF Channel!Next, Channel!vars
<1>1. CASE UNCHANGED <<fate, accepted, log>>
  BY <1>1
<1>2. CASE Produce
  <2>1. msg \in Message /\ fate[msg] = "new"
    BY <1>2 DEF Produce, ProducerInv, Calling
  <2>2. Channel!Take(msg)
    BY <1>2, <2>1 DEF Produce, Accept, Settle, Channel!Take
  <2>3. QED
    BY <2>1, <2>2
<1>3. CASE Refuse
  <2>1. msg \in Message /\ fate[msg] = "new"
    BY <1>3 DEF Refuse, ProducerInv, Calling
  <2>2. Channel!Refuse(msg)
    BY <1>3, <2>1 DEF Refuse, Settle, Channel!Refuse
  <2>3. QED
    BY <2>1, <2>2
<1>4. CASE Send
  BY <1>4, SendRefines
<1>5. CASE Deliver \/ GiveUp
  <2>1. Head(queue) \in Range(queue) /\ Head(queue) \in Message
    BY <1>5, RangeTail, RangeIn DEF Deliver, GiveUp, ProducerInv, TypeOK
  <2>2. fate[Head(queue)] = "buffered"
    BY <2>1 DEF ProducerInv, Buffered
  <2>3. Channel!Confirm(Head(queue)) \/ Channel!Lose(Head(queue))
    BY <1>5, <2>2
    DEF Deliver, GiveUp, Acknowledged, Settle, Channel!Confirm, Channel!Lose,
        Channel!Range, Range
  <2>4. QED
    BY <2>1, <2>3
<1>6. CASE Exit \/ Crash
  BY <1>6, AbandonRefines DEF Exit, Crash
<1>7. CASE UNCHANGED vars
  BY <1>7 DEF vars
<1>8. QED
  BY <1>1, <1>2, <1>3, <1>4, <1>5, <1>6, <1>7
  DEF Next, Caller, Library, Publish, BufferFull, Poll, Finally, Flush, Close, Restart,
      call, buffer

\* producer.py keeps the promise that the order service and the consumers count
\* on: an event whose publish raised never turns up, no event turns up twice or
\* out of order, and none after it was given up.
THEOREM ProducerImplementsChannel == Spec => ImplementsChannel
<1>1. Init => Channel!Init
  BY DEF Init, Channel!Init
<1>2. QED
  BY <1>1, ProducerCorrect, ChannelStep, PTL DEF Spec, ImplementsChannel, Channel!Spec

=============================================================================
