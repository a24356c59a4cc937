---------------------------- MODULE OrderSource ----------------------------
(***************************************************************************)
(* What one service process is to those behind it: orders come to be       *)
(* committed, each is then published or its event refused, what the client *)
(* library took is delivered or lost, and the process may die over all of  *)
(* it. Keys, locks, the janitor, retries and replies are left out. This is *)
(* the service that OrderPipeline sets before the channel.                 *)
(***************************************************************************)
CONSTANTS
    Order,      \* the orders this process may place, each standing for its event
    CRASHES     \* the process dies

VARIABLES
    orders,     \* the committed orders
    fate        \* fate[o]: what became of the event of o

vars == <<orders, fate>>

Init ==
    /\ orders = {}
    /\ fate = [o \in Order |-> "new"]

Place(o) ==
    /\ o \notin orders
    /\ fate[o] = "new"
    /\ orders' = orders \cup {o}
    /\ UNCHANGED fate

\* publish, after the commit and never again for the same order.
Publish(o) ==
    /\ o \in orders
    /\ fate[o] = "new"
    /\ \E f \in {"buffered", "refused"} : fate' = [fate EXCEPT ![o] = f]
    /\ UNCHANGED orders

\* What the library made of it.
Settle(o) ==
    /\ fate[o] = "buffered"
    /\ \E f \in {"delivered", "lost"} : fate' = [fate EXCEPT ![o] = f]
    /\ UNCHANGED orders

\* The buffer goes with the process, and so does the turn of what has been
\* committed and not published.
Die ==
    /\ CRASHES
    /\ fate' = [o \in Order |->
                  CASE o \in orders /\ fate[o] = "buffered" -> "lost"
                    [] o \in orders /\ fate[o] = "new" -> "refused"
                    [] OTHER -> fate[o]]
    /\ UNCHANGED orders

Next == Die \/ \E o \in Order : Place(o) \/ Publish(o) \/ Settle(o)

Spec == Init /\ [][Next]_vars

=============================================================================
