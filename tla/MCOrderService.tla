-------------------------- MODULE MCOrderService --------------------------
(* Instances of OrderService for TLC. *)
EXTENDS OrderService, TLC

CONSTANTS r1, r2, r3, r4, k1, k2, w1, w2

\* A client that retries twice behind a load balancer: three requests of one
\* key, on two workers.
OneKey == r1 :> k1 @@ r2 :> k1 @@ r3 :> k1
TwoWorkers == r1 :> w1 @@ r2 :> w2 @@ r3 :> w1

\* Beside it, another client with a key of its own.
TwoKeys == OneKey @@ r4 :> k2
FourHosts == TwoWorkers @@ r4 :> w2

\* A request and one retry.
Retried == r1 :> k1 @@ r2 :> k1
TwoHosts == r1 :> w1 @@ r2 :> w2
=============================================================================
