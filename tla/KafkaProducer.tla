--------------------------- MODULE KafkaProducer ---------------------------
(***************************************************************************)
(* KafkaProducerProvider in one service process: publish and flush, called *)
(* synchronously from the event loop and so one call at a time, over the   *)
(* client library's bounded buffer and the one broker partition behind it. *)
(*                                                                         *)
(* The library (external) sends in order from a thread of its own and      *)
(* leaves delivery reports in a queue, from which only poll and flush, run *)
(* by the service, serve them. A message occupies the buffer until its     *)
(* report is served.                                                       *)
(***************************************************************************)
EXTENDS Naturals, Sequences, Functions

CONSTANTS
    Message,        \* the order-created messages
    None,           \* no message
    Capacity,       \* queue.buffering.max.messages of the library
    \* The failures considered:
    BROKER_FAILS,   \* messages time out, produce raises
    CRASHES         \* the process dies

ASSUME CapacityAssumption == Capacity \in Nat \ {0}
ASSUME FlagsAssumption == {BROKER_FAILS, CRASHES} \subseteq BOOLEAN
ASSUME NoneAssumption == None \notin Message

VARIABLES
    up,         \* the process runs
    step,       \* what publish or flush is about to do
    msg,        \* the message of the call
    fate,       \* fate[m]: what became of m, as the library knows it
    queue,      \* the messages in the buffer that are not settled
    reports,    \* the settled ones whose report has not been served
    accepted,   \* the messages produce took, in that order
    log         \* the partition

call == <<step, msg>>
buffer == <<fate, queue, reports>>
vars == <<up, step, msg, fate, queue, reports, accepted, log>>

Calls == {"idle", "produce", "poll", "retry", "finally", "flush", "close"}
Fates == {"new", "refused", "buffered", "delivered", "lost"}

Init ==
    /\ up = TRUE
    /\ step = "idle"
    /\ msg = None
    /\ fate = [m \in Message |-> "new"]
    /\ queue = <<>>
    /\ reports = <<>>
    /\ accepted = <<>>
    /\ log = <<>>

Settle(m, f) == fate' = [fate EXCEPT ![m] = f]

\* Bug: the buffer is taken to be free as soon as messages are acknowledged.
BugRoom == Len(queue) < Capacity

\* Served or not, a message counts until its report is served.
Room == Len(queue) + Len(reports) < Capacity

-----------------------------------------------------------------------------
(* publish *)

Publish(m) ==
    /\ up /\ step = "idle" /\ fate[m] = "new"
    /\ step' = "produce"
    /\ msg' = m
    /\ UNCHANGED <<up, buffer, accepted, log>>

\* Bug: a refused message is put at the head, as if it had been accepted first.
BugAccept ==
    /\ queue' = <<msg>> \o queue
    /\ accepted' = Append(accepted, msg)
    /\ Settle(msg, "buffered")

Accept ==
    /\ queue' = Append(queue, msg)
    /\ accepted' = Append(accepted, msg)
    /\ Settle(msg, "buffered")

\* produce takes the message: at the first attempt, or after poll(1).
Produce ==
    /\ step \in {"produce", "retry"}
    /\ Room
    /\ Accept
    /\ step' = "finally"
    /\ UNCHANGED <<up, msg, reports, log>>

\* BufferError, the first time.
BufferFull ==
    /\ step = "produce"
    /\ ~Room
    /\ step' = "poll"
    /\ UNCHANGED <<up, msg, buffer, accepted, log>>

\* Bug: the exception handler covers poll(0) as well as produce.
BugRefuse ==
    /\ step = "finally"
    /\ Settle(msg, "refused")
    /\ UNCHANGED <<up, call, queue, reports, accepted, log>>

\* BufferError of the retry, which no handler of publish catches; or another
\* exception of produce, which is logged and raised again. Either reaches the
\* caller after the finally clause.
Refuse ==
    /\ \/ step = "retry" /\ ~Room
       \/ step \in {"produce", "retry"} /\ BROKER_FAILS
    /\ Settle(msg, "refused")
    /\ step' = "finally"
    /\ UNCHANGED <<up, msg, queue, reports, accepted, log>>

\* The callbacks of all reports there are. They only write to the log.
Serve == reports' = <<>>

\* poll(1) after a BufferError, with what was settled when it returned.
Poll ==
    /\ step = "poll"
    /\ Serve
    /\ step' = "retry"
    /\ UNCHANGED <<up, msg, fate, queue, accepted, log>>

\* poll(0); then the service flushes, unless publish raised.
Finally ==
    /\ step = "finally"
    /\ Serve
    /\ step' = IF fate[msg] = "refused" THEN "idle" ELSE "flush"
    /\ msg' = IF fate[msg] = "refused" THEN None ELSE msg
    /\ UNCHANGED <<up, fate, queue, accepted, log>>

-----------------------------------------------------------------------------
(* flush *)

\* Bug: flush waits until the buffer is empty, with no timeout.
BugFlush ==
    /\ step = "flush"
    /\ queue = <<>>
    /\ Serve
    /\ step' = "idle"
    /\ msg' = None
    /\ UNCHANGED <<up, fate, queue, accepted, log>>

\* flush(1.0) returns, with messages left when the second was over first. The
\* service ignores how many.
Flush ==
    /\ step = "flush"
    /\ Serve
    /\ step' = "idle"
    /\ msg' = None
    /\ UNCHANGED <<up, fate, queue, accepted, log>>

\* shutdown_kafka, between two requests: flush(10.0).
Close ==
    /\ up /\ step = "idle"
    /\ step' = "close"
    /\ UNCHANGED <<up, msg, buffer, accepted, log>>

\* What is in the buffer goes, and a message on its way there.
Abandon ==
    /\ fate' = [m \in Message |->
                  IF m \in Range(queue) THEN "lost"
                  ELSE IF m = msg /\ fate[m] = "new" THEN "refused"
                  ELSE fate[m]]
    /\ queue' = <<>>
    /\ reports' = <<>>

\* What flush(10.0) leaves is logged as kafka_flush_incomplete and goes with
\* the process.
Exit ==
    /\ step = "close"
    /\ Abandon
    /\ up' = FALSE
    /\ step' = "idle"
    /\ UNCHANGED <<msg, accepted, log>>

-----------------------------------------------------------------------------
(* The library's thread and the broker. *)

\* With enable.idempotence the broker recognises what it has.
Stored(m) == IF m \in Range(log) THEN log ELSE Append(log, m)

\* Bug: no enable.idempotence. What follows a message that has to be sent again
\* may be stored before it.
BugSend ==
    /\ \E i \in DOMAIN queue : log' = Stored(queue[i])
    /\ UNCHANGED <<up, call, buffer, accepted>>

\* A message is sent, or sent again when its acknowledgement did not come. No
\* message overtakes an earlier one.
Send ==
    /\ \E i \in DOMAIN queue :
         /\ \A j \in 1 .. i - 1 : queue[j] \in Range(log)
         /\ log' = Stored(queue[i])
    /\ UNCHANGED <<up, call, buffer, accepted>>

\* acks=all
Acknowledged(m) == m \in Range(log)

Deliver ==
    /\ queue # <<>>
    /\ Acknowledged(Head(queue))
    /\ Settle(Head(queue), "delivered")
    /\ queue' = Tail(queue)
    /\ reports' = Append(reports, Head(queue))
    /\ UNCHANGED <<up, call, accepted, log>>

\* The message timeout: the library gives up, on a message the broker may have.
GiveUp ==
    /\ BROKER_FAILS
    /\ queue # <<>>
    /\ Settle(Head(queue), "lost")
    /\ queue' = Tail(queue)
    /\ reports' = Append(reports, Head(queue))
    /\ UNCHANGED <<up, call, accepted, log>>

-----------------------------------------------------------------------------

\* The process dies: the buffer is memory.
Crash ==
    /\ CRASHES
    /\ up
    /\ Abandon
    /\ up' = FALSE
    /\ step' = "idle"
    /\ msg' = None
    /\ UNCHANGED <<accepted, log>>

\* A new process, a new producer; nothing republishes.
Restart ==
    /\ ~up
    /\ up' = TRUE
    /\ UNCHANGED <<call, buffer, accepted, log>>

Caller == Produce \/ BufferFull \/ Refuse \/ Poll \/ Finally \/ Flush \/ Exit

Library == Deliver \/ GiveUp

Next ==
    \/ \E m \in Message : Publish(m)
    \/ Caller \/ Close \/ Send \/ Library
    \/ Crash \/ Restart

Spec == Init /\ [][Next]_vars

\* publish and flush run to their end: neither waits for the broker without a
\* timeout. Of the library and the broker nothing is assumed.
FairSpec == Spec /\ WF_vars(Caller)

-----------------------------------------------------------------------------
(* Properties. *)

\* Types; and the library never holds more than it has room for.
TypeOK ==
    /\ up \in BOOLEAN
    /\ step \in Calls
    /\ msg \in Message \cup {None}
    /\ fate \in [Message -> Fates]
    /\ {queue, reports, accepted, log} \subseteq Seq(Message)
    /\ Len(queue) + Len(reports) <= Capacity

Position(s, m) == CHOOSE i \in DOMAIN s : s[i] = m

\* Orders are announced in the order in which produce took them, whatever is
\* retried, refused or lost in between.
InOrder ==
    \A i, j \in DOMAIN log :
        i < j => Position(accepted, log[i]) < Position(accepted, log[j])

\* An order that is missing where a later one has been announced has been given
\* up: the library is not going to send it, and no report calls it delivered. Who
\* reads an order has had all the earlier ones there are to be had.
MissingIsLost ==
    \A i, j \in DOMAIN accepted :
        i < j /\ accepted[j] \in Range(log) /\ accepted[i] \notin Range(log)
        => fate[accepted[i]] = "lost"

Channel == INSTANCE EventChannel WITH stream <- log

\* What the service may count on: when publish raises there is no event, now or
\* later; a resend is not a second event; an event given up does not turn up.
ImplementsChannel == Channel!Spec

\* A publish or flush that starts comes back, even if the broker never does:
\* all requests of the process share the thread it blocks.
CallReturns == step # "idle" ~> step = "idle"

=============================================================================
