------------------------- MODULE IdempotentOrders -------------------------
(***************************************************************************)
(* What POST /api/v1/orders promises, with everything the service does to  *)
(* keep the promise left out: an idempotency key buys at most one order,   *)
(* each request is answered at most once, an answer never names an order   *)
(* that does not exist, and an order is announced at most once.            *)
(*                                                                         *)
(* An order is identified with the request that stored it: the code gives  *)
(* every INSERT a fresh id and a fresh order_number, and a request inserts *)
(* at most once.                                                           *)
(***************************************************************************)
CONSTANTS
    Request,    \* the POSTs that reach the service; a client's retry is another one
    Key,        \* the idempotency keys
    KeyOf,      \* KeyOf[r]: the key request r carries
    Absent,     \* JSON null in a reply
    Pending,    \* the "PENDING" of a reply
    NoReply     \* a request that has not been answered

VARIABLES
    orders,     \* the stored orders
    reply,      \* reply[r]: what r was answered
    published   \* the orders announced on the event stream

vars == <<orders, reply, published>>

Codes == {"CREATED", "DUPLICATE_ORDER", "ORDER_CREATION_FAILED", "INTERNAL_SERVER_ERROR"}

Replies == [code : Codes, order : Request \cup {Absent, Pending}]

SameKey(r, o) == KeyOf[r] = KeyOf[o]

Init ==
    /\ orders = {}
    /\ reply = [r \in Request |-> NoReply]
    /\ published = {}

\* The order of request r comes into being: its key has not been used up, and
\* r is still being served.
Place(r) ==
    /\ reply[r] = NoReply
    /\ \A o \in orders : ~SameKey(r, o)
    /\ orders' = orders \cup {r}
    /\ UNCHANGED <<reply, published>>

\* The replies that tell the truth about r in the current state. The two
\* server errors, and a duplicate whose order is not named, commit to nothing.
Truthful(r) ==
    { a \in Replies :
        /\ a.code = "CREATED" => a.order = r /\ r \in orders
        /\ a.code = "DUPLICATE_ORDER" /\ a.order \in Request
             => a.order \in orders /\ SameKey(r, a.order) }

Answer(r) ==
    /\ reply[r] = NoReply
    /\ \E a \in Truthful(r) : reply' = [reply EXCEPT ![r] = a]
    /\ UNCHANGED <<orders, published>>

Publish(r) ==
    /\ r \in orders \ published
    /\ published' = published \cup {r}
    /\ UNCHANGED <<orders, reply>>

Next == \E r \in Request : Place(r) \/ Answer(r) \/ Publish(r)

Spec == Init /\ [][Next]_vars

=============================================================================
