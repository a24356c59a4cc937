---------------------------- MODULE EventChannel ----------------------------
(***************************************************************************)
(* What one producer process and its broker promise the service about the  *)
(* order-created events, with buffers, delivery reports, resends and calls *)
(* that block left out: an event is taken or refused; a taken one enters   *)
(* the stream at most once, behind the earlier ones, until the producer    *)
(* loses it; a report of success is about an event in the stream.          *)
(***************************************************************************)
EXTENDS Naturals, Sequences, Functions

CONSTANT Message    \* the order-created messages

VARIABLES
    fate,       \* fate[m]: what became of m
    accepted,   \* the messages taken, in that order
    stream      \* what consumers can read

vars == <<fate, accepted, stream>>

Fates == {"new", "refused", "buffered", "delivered", "lost"}

Init ==
    /\ fate = [m \in Message |-> "new"]
    /\ accepted = <<>>
    /\ stream = <<>>

Take(m) ==
    /\ fate[m] = "new"
    /\ fate' = [fate EXCEPT ![m] = "buffered"]
    /\ accepted' = Append(accepted, m)
    /\ UNCHANGED stream

\* publish raises: the message never was, and never will be, in the stream.
Refuse(m) ==
    /\ fate[m] = "new"
    /\ fate' = [fate EXCEPT ![m] = "refused"]
    /\ UNCHANGED <<accepted, stream>>

Position(m) == CHOOSE i \in DOMAIN accepted : accepted[i] = m

\* No message enters the stream behind one that was taken after it.
Enter(m) ==
    /\ fate[m] = "buffered"
    /\ \A n \in Range(stream) : Position(n) < Position(m)
    /\ stream' = Append(stream, m)
    /\ UNCHANGED <<fate, accepted>>

Confirm(m) ==
    /\ fate[m] = "buffered"
    /\ m \in Range(stream)
    /\ fate' = [fate EXCEPT ![m] = "delivered"]
    /\ UNCHANGED <<accepted, stream>>

\* A message that was taken is given up, whether or not it is in the stream.
Lose(m) ==
    /\ fate[m] = "buffered"
    /\ fate' = [fate EXCEPT ![m] = "lost"]
    /\ UNCHANGED <<accepted, stream>>

\* The process ends over the messages S.
Die(S) ==
    /\ fate' = [m \in Message |->
                  CASE m \in S /\ fate[m] = "buffered" -> "lost"
                    [] m \in S /\ fate[m] = "new" -> "refused"
                    [] OTHER -> fate[m]]
    /\ UNCHANGED <<accepted, stream>>

Next ==
    \/ \E m \in Message : Take(m) \/ Refuse(m) \/ Enter(m) \/ Confirm(m) \/ Lose(m)
    \/ \E S \in SUBSET Message : Die(S)

Spec == Init /\ [][Next]_vars

=============================================================================
