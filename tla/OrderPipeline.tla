--------------------------- MODULE OrderPipeline ---------------------------
(***************************************************************************)
(* From a placed order to its payment: the order service commits an order  *)
(* and then publishes its event to "order-created" through the promise     *)
(* EventChannel, which KafkaProducer implements; the payment consumers of  *)
(* PaymentConsumer read the topic KAFKA_ORDER_TOPIC names, in which other  *)
(* programs may write too. OrderService says how an order comes to be      *)
(* committed; here that is one step.                                       *)
(***************************************************************************)
EXTENDS PaymentConsumer

CONSTANTS
    Order,          \* the orders, each standing for its event
    CRASHES         \* the service's process dies

ASSUME OrdersAssumption == Order \subseteq Event \ Undecodable /\ CRASHES \in BOOLEAN

VARIABLES
    subscribed, \* the topic the worker subscribes to
    orders,     \* the committed orders
    fate,       \* those of EventChannel
    accepted,
    stream      \* the partition of "order-created"

service == <<orders, fate, accepted, stream>>
pipelineVars == <<vars, subscribed, service>>

Channel == INSTANCE EventChannel WITH Message <- Order

OrderTopic == "order-created"

PipelineInit ==
    /\ Init
    /\ subscribed \in {OrderTopic, "order-events"}
    /\ orders = {}
    /\ Channel!Init

-----------------------------------------------------------------------------
(* The service. *)

Place(o) ==
    /\ o \notin orders
    /\ fate[o] = "new"
    /\ orders' = orders \cup {o}
    /\ UNCHANGED <<vars, subscribed, fate, accepted, stream>>

\* Bug: the event is published before the commit.
BugPublish(o) ==
    /\ Channel!Take(o) \/ Channel!Refuse(o)
    /\ UNCHANGED <<vars, subscribed, orders>>

\* publish, after the commit; an exception is logged and the order stays.
Publish(o) ==
    /\ o \in orders
    /\ Channel!Take(o) \/ Channel!Refuse(o)
    /\ UNCHANGED <<vars, subscribed, orders>>

\* The message is in the partition, which is the worker's if the topics agree.
Arrive(o) ==
    /\ Channel!Enter(o)
    /\ IF subscribed = OrderTopic THEN Produce(o) ELSE UNCHANGED vars
    /\ UNCHANGED <<subscribed, orders>>

\* A delivery report, of success or not, is only logged.
Report(o) ==
    /\ Channel!Confirm(o) \/ Channel!Lose(o)
    /\ UNCHANGED <<vars, subscribed, orders>>

\* The process dies, with orders it has not published and events in its buffer.
Die ==
    /\ CRASHES
    /\ \E o \in orders : fate[o] \in {"new", "buffered"}
    /\ Channel!Die(orders)
    /\ UNCHANGED <<vars, subscribed, orders>>

-----------------------------------------------------------------------------
(* The others. *)

\* Another program writes to the worker's topic.
Foreign(e) ==
    /\ e \notin Order
    /\ Produce(e)
    /\ UNCHANGED <<subscribed, service>>

Worker(c) == Member(c) /\ UNCHANGED <<subscribed, service>>

PipelineNext ==
    \/ \E o \in Order : Place(o) \/ Publish(o) \/ Arrive(o) \/ Report(o)
    \/ Die
    \/ \E e \in Event : Foreign(e)
    \/ \E c \in Consumer : Worker(c)

PipelineSpec == PipelineInit /\ [][PipelineNext]_pipelineVars

\* A process that committed an order publishes it, and the library settles what
\* it took: in the partition, or given up when the message timeout is over.
FairPipeline ==
    /\ PipelineSpec
    /\ Fairness
    /\ \A o \in Order : WF_pipelineVars(Publish(o)) /\ WF_pipelineVars(Arrive(o) \/ Report(o))

-----------------------------------------------------------------------------
(* Properties. *)

Payments(o) == Cardinality(Handlings({i \in DOMAIN log : log[i] = o}))

\* A payment is triggered for an order that is in the database, and more than
\* once only when a consumer failed: whatever the producer resends, refuses or
\* loses adds no payment and invents no order.
PaymentsMatchOrders ==
    \A o \in Order : Payments(o) <= IF o \in orders THEN 1 + faults ELSE 0

\* The event of o never gets into the worker's partition.
NotDelivered(o) ==
    subscribed # OrderTopic \/ (fate[o] \in {"refused", "lost"} /\ o \notin Range(stream))

\* An event that no member can read is in front of that of o.
Blocked(o) ==
    \E i \in DOMAIN log : log[i] \in Undecodable /\ \A j \in 1 .. i : log[j] # o

WorkerStays == \E c \in Consumer : [](state[c] # "stopped")

\* order_service.py, consumer.py: an order that is placed is paid for, or one
\* of five things happened: the worker listens to another topic, publish or the
\* library gave up its event, the service died over it, an unreadable event is
\* in front of it, or no worker stays.
EveryOrderSettles ==
    (<>WorkerStays) =>
        \A o \in Order : o \in orders ~> Payments(o) > 0 \/ NotDelivered(o) \/ Blocked(o)

=============================================================================
