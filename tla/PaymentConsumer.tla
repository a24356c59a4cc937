-------------------------- MODULE PaymentConsumer --------------------------
(***************************************************************************)
(* PaymentConsumer.start_listening, run by the members of one consumer     *)
(* group over one partition: poll, handle, commit synchronously, and stop  *)
(* at the first exception.                                                 *)
(*                                                                         *)
(* The group coordinator (external) lets one member at a time own the      *)
(* partition, takes it away from a member that leaves, dies or does not    *)
(* poll in time, and refuses the commit of a member that no longer owns    *)
(* it. Offsets count from 1; "handle" is the place the code marks BUSINESS *)
(* LOGIC, where the payment is to be triggered.                            *)
(***************************************************************************)
EXTENDS Naturals, Sequences, FiniteSets, Functions

CONSTANTS
    Consumer,       \* the members of payment-service-group
    Event,          \* the messages
    Undecodable,    \* those whose value is not a JSON object in UTF-8
    Nobody,         \* no member owns the partition
    MaxEvents,      \* bound: messages in the partition
    MaxFaults       \* bound: failures of a member, the broker or the coordinator

ASSUME BoundsAssumption == MaxEvents \in Nat /\ MaxFaults \in Nat
ASSUME ValuesAssumption == Undecodable \subseteq Event /\ Nobody \notin Consumer

VARIABLES
    log,        \* the partition
    committed,  \* the group's offset: the next message to read
    owner,      \* the member that owns the partition
    state,      \* state[c]: where the loop of c is
    position,   \* position[c]: the next offset c reads
    handled,    \* handled[i]: how often the message at i was handled
    faults      \* failures so far

member == <<state, position>>
vars == <<log, committed, owner, state, position, handled, faults>>

Offsets == 1 .. MaxEvents

Init ==
    /\ log = <<>>
    /\ committed = 1
    /\ owner = Nobody
    /\ state = [c \in Consumer |-> "polling"]
    /\ position = [c \in Consumer |-> 1]
    /\ handled = [i \in Offsets |-> 0]
    /\ faults = 0

\* The loop's finally clause: close() leaves the group and commits nothing.
Stop(c) ==
    /\ state' = [state EXCEPT ![c] = "stopped"]
    /\ owner' = IF owner = c THEN Nobody ELSE owner
    /\ UNCHANGED position

Fault == faults < MaxFaults /\ faults' = faults + 1

\* The producer's side.
Produce(e) ==
    /\ Len(log) < MaxEvents
    /\ log' = Append(log, e)
    /\ UNCHANGED <<committed, owner, member, handled, faults>>

-----------------------------------------------------------------------------
(* start_listening *)

\* poll returns the next message; its offset is stored, to be committed later.
Poll(c) ==
    /\ state[c] = "polling"
    /\ owner = c
    /\ position[c] <= Len(log)
    /\ state' = [state EXCEPT ![c] = "handling"]
    /\ position' = [position EXCEPT ![c] = @ + 1]
    /\ UNCHANGED <<log, committed, owner, handled, faults>>

Current(c) == position[c] - 1

\* Bug: the offset is committed before the message is handled.
BugHandle(c) ==
    /\ state[c] = "handling"
    /\ log[Current(c)] \notin Undecodable
    /\ committed' = IF owner = c THEN position[c] ELSE committed
    /\ state' = [state EXCEPT ![c] = "committing"]
    /\ UNCHANGED <<log, owner, position, handled, faults>>

Handle(c) ==
    /\ state[c] = "handling"
    /\ log[Current(c)] \notin Undecodable
    /\ handled' = [handled EXCEPT ![Current(c)] = @ + 1]
    /\ state' = [state EXCEPT ![c] = "committing"]
    /\ UNCHANGED <<log, committed, owner, position, faults>>

\* json.loads, decode or .get raises, and nothing in the loop catches it.
Choke(c) ==
    /\ state[c] = "handling"
    /\ log[Current(c)] \in Undecodable
    /\ Stop(c)
    /\ UNCHANGED <<log, committed, handled, faults>>

\* Bug: a coordinator without generations takes every commit.
BugFenced(c) == FALSE

\* A member that lost the partition after poll cannot commit.
Fenced(c) == owner # c

\* Bug: the offset of the message itself is committed, not the next one.
BugCommit(c) ==
    /\ state[c] = "committing"
    /\ ~Fenced(c)
    /\ committed' = Current(c)
    /\ state' = [state EXCEPT ![c] = "polling"]
    /\ UNCHANGED <<log, owner, position, handled, faults>>

\* Bug: one is added to an offset that is already the next one.
BugCommitNext(c) ==
    /\ state[c] = "committing"
    /\ ~Fenced(c)
    /\ committed' = position[c] + 1
    /\ state' = [state EXCEPT ![c] = "polling"]
    /\ UNCHANGED <<log, owner, position, handled, faults>>

Commit(c) ==
    /\ state[c] = "committing"
    /\ ~Fenced(c)
    /\ committed' = position[c]
    /\ state' = [state EXCEPT ![c] = "polling"]
    /\ UNCHANGED <<log, owner, position, handled, faults>>

\* KafkaException ends the loop.
CommitRefused(c) ==
    /\ state[c] = "committing"
    /\ Fenced(c)
    /\ Stop(c)
    /\ UNCHANGED <<log, committed, handled, faults>>

\* The commit's answer does not come: it raises, whether it happened or not.
CommitFails(c) ==
    /\ Fault
    /\ state[c] = "committing"
    /\ ~Fenced(c)
    /\ committed' \in {committed, position[c]}
    /\ Stop(c)
    /\ UNCHANGED <<log, handled>>

\* poll returns an error other than the end of the partition, or Control-C
\* arrives: the loop ends where it is.
Interrupt(c) ==
    /\ Fault
    /\ state[c] # "stopped"
    /\ Stop(c)
    /\ UNCHANGED <<log, committed, handled>>

\* poll reports that there is no such topic: the broker creates it with its
\* first message, and a worker that is there before ends.
NoTopic(c) ==
    /\ state[c] = "polling"
    /\ log = <<>>
    /\ Stop(c)
    /\ UNCHANGED <<log, committed, handled, faults>>

\* The process dies without close(); the coordinator has yet to notice.
Crash(c) ==
    /\ Fault
    /\ state[c] # "stopped"
    /\ state' = [state EXCEPT ![c] = "stopped"]
    /\ UNCHANGED <<log, committed, owner, position, handled>>

\* The worker script is started again.
Start(c) ==
    /\ state[c] = "stopped"
    /\ owner # c
    /\ state' = [state EXCEPT ![c] = "polling"]
    /\ UNCHANGED <<log, committed, owner, position, handled, faults>>

-----------------------------------------------------------------------------
(* The group coordinator. *)

\* A dead member's session ends.
Evict(c) ==
    /\ owner = c
    /\ state[c] = "stopped"
    /\ owner' = Nobody
    /\ UNCHANGED <<log, committed, member, handled, faults>>

\* A live member is taken for dead: it handles for longer than
\* max.poll.interval.ms, or its heartbeats are lost.
Expel(c) ==
    /\ Fault
    /\ owner = c
    /\ state[c] # "stopped"
    /\ owner' = Nobody
    /\ UNCHANGED <<log, committed, member, handled>>

\* Bug: auto.offset.reset is "latest".
BugAssign(c) ==
    /\ owner = Nobody /\ log # <<>>
    /\ state[c] = "polling"
    /\ owner' = c
    /\ position' = [position EXCEPT ![c] =
                      IF committed = 1 THEN Len(log) + 1 ELSE committed]
    /\ UNCHANGED <<log, committed, state, handled, faults>>

\* A member that polls joins and is assigned the partition, once there is one,
\* from the group's offset on.
Assign(c) ==
    /\ owner = Nobody /\ log # <<>>
    /\ state[c] = "polling"
    /\ owner' = c
    /\ position' = [position EXCEPT ![c] = committed]
    /\ UNCHANGED <<log, committed, state, handled, faults>>

-----------------------------------------------------------------------------

Loop(c) ==
    Poll(c) \/ Handle(c) \/ Choke(c) \/ Commit(c) \/ CommitRefused(c)

Member(c) ==
    \/ Loop(c) \/ CommitFails(c) \/ Interrupt(c) \/ NoTopic(c) \/ Crash(c) \/ Start(c)
    \/ Evict(c) \/ Expel(c) \/ Assign(c)

Next ==
    \/ \E e \in Event : Produce(e)
    \/ \E c \in Consumer : Member(c)

Spec == Init /\ [][Next]_vars

\* The loop runs, and the coordinator notices the dead and assigns what is free.
\* Nobody is assumed to start a consumer that stopped.
Fairness ==
    /\ \A c \in Consumer : WF_vars(Loop(c)) /\ WF_vars(Evict(c))
    /\ WF_vars(\E c \in Consumer : Assign(c))

-----------------------------------------------------------------------------
(* Properties. *)

TypeOK ==
    /\ log \in Seq(Event) /\ Len(log) <= MaxEvents
    /\ committed \in 1 .. MaxEvents + 1
    /\ owner \in Consumer \cup {Nobody}
    /\ state \in [Consumer -> {"polling", "handling", "committing", "stopped"}]
    /\ position \in [Consumer -> 1 .. MaxEvents + 1]
    /\ handled \in [Offsets -> Nat]
    /\ faults \in 0 .. MaxFaults

\* "'Commit' tells Kafka: I have successfully processed this message": no
\* payment is skipped, even one whose event cannot be read.
CommittedWasHandled == \A i \in Offsets : i < committed => handled[i] > 0

\* The handlings of the messages at the offsets S: the n-th of the one at i is <<i, n>>.
Handlings(S) == UNION {{i} \X (1 .. handled[i]) : i \in S}

\* A payment is triggered again only after a failure, and one failure makes at
\* most one message come again.
RedeliveryBounded == Cardinality({h \in Handlings(Offsets) : h[2] > 1}) <= faults

\* A member that was taken for dead cannot move the group back.
CommitsMoveForward == [][committed' >= committed]_committed

=============================================================================
