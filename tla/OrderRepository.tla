-------------------------- MODULE OrderRepository --------------------------
(***************************************************************************)
(* The repository's operations on one order, called by units of work that  *)
(* run at the same time. A unit is a session with its transaction: what    *)
(* it adds or changes waits in the session until a flush (autoflush is     *)
(* off), what it has flushed waits in the transaction until the COMMIT,    *)
(* and an exception rolls all of it back.                                  *)
(*                                                                         *)
(* PostgreSQL (external) runs READ COMMITTED: a row that one transaction   *)
(* has written makes the writers of the others wait, and these then see    *)
(* what it committed. The order's data is told apart by its last writer.   *)
(***************************************************************************)
EXTENDS Naturals, FiniteSets

CONSTANTS
    Unit,           \* the units of work
    None,           \* nothing loaded, nothing written
    MaxVersion      \* bound: versions of the order

ASSUME VersionAssumption == MaxVersion \in Nat \ {0}

VARIABLES
    pc,         \* where the unit is
    row,        \* the order as committed
    children,   \* the units whose rows of items or history it has
    loaded,     \* loaded[u]: the order in the session's identity map
    dirty,      \* dirty[u]: it has changes that are not flushed
    added,      \* added[u]: children are waiting in the session
    draft,      \* draft[u]: the order as the transaction of u has written it
    deleted     \* deleted[u]: delete() returned True

session == <<loaded, dirty, added>>
vars == <<pc, row, children, session, draft, deleted>>

Rows ==
    [ state : {"unborn", "alive", "gone"}, version : 0 .. MaxVersion,
      writer : Unit \cup {None}, how : {"none", "insert", "flush", "update", "delete"} ]

ASSUME NoneAssumption == None \notin Unit \cup Rows

Init ==
    /\ pc = [u \in Unit |-> "open"]
    /\ row = [state |-> "unborn", version |-> 0, writer |-> None, how |-> "none"]
    /\ children = {}
    /\ loaded = [u \in Unit |-> None]
    /\ dirty = [u \in Unit |-> FALSE]
    /\ added = [u \in Unit |-> FALSE]
    /\ draft = [u \in Unit |-> None]
    /\ deleted = [u \in Unit |-> FALSE]

Open(u) == pc[u] = "open"

\* What a statement of u finds.
Current(u) == IF draft[u] = None THEN row ELSE draft[u]

Alive(u) == Current(u).state = "alive"

\* No other transaction has written the order.
Free(u) == \A q \in Unit \ {u} : draft[q] = None

Write(u, r) == draft' = [draft EXCEPT ![u] = r]

Written(u, how) == [Current(u) EXCEPT !.writer = u, !.how = how]

\* What a unit that cannot go on leaves: nothing.
Rollback(u) ==
    /\ pc' = [pc EXCEPT ![u] = "rolled back"]
    /\ draft' = [draft EXCEPT ![u] = None]
    /\ UNCHANGED <<row, children, session, deleted>>

-----------------------------------------------------------------------------
(* Creation: create_order, add_items and record_status_transition are one   *)
(* transaction of place_order. *)

Inserted(u) == [state |-> "alive", version |-> 1, writer |-> u, how |-> "insert"]

\* Bug: create_order commits, to have the id.
BugCreate(u) ==
    /\ Open(u) /\ Free(u)
    /\ row.state = "unborn" /\ draft[u] = None
    /\ row' = Inserted(u)
    /\ loaded' = [loaded EXCEPT ![u] = Inserted(u)]
    /\ pc' = [pc EXCEPT ![u] = "created"]
    /\ UNCHANGED <<children, dirty, added, draft, deleted>>

\* create_order, and create: the flush sends the INSERT.
Create(u) ==
    /\ Open(u) /\ Free(u)
    /\ row.state = "unborn" /\ draft[u] = None
    /\ Write(u, Inserted(u))
    /\ loaded' = [loaded EXCEPT ![u] = Inserted(u)]
    /\ pc' = [pc EXCEPT ![u] = "created"]
    /\ UNCHANGED <<row, children, dirty, added, deleted>>

\* The unique key is taken: the flush raises.
CreateConflict(u) ==
    /\ Open(u) /\ Free(u)
    /\ row.state = "alive" /\ draft[u] = None
    /\ Rollback(u)

\* add_items and record_status_transition send nothing.
AddFirst(u) ==
    /\ pc[u] = "created"
    /\ added' = [added EXCEPT ![u] = TRUE]
    /\ pc' = [pc EXCEPT ![u] = "open"]
    /\ UNCHANGED <<row, children, loaded, dirty, draft, deleted>>

-----------------------------------------------------------------------------
(* Later units. *)

\* get_by_idempotency_key. An object the session has already is not refreshed.
Load(u) ==
    /\ Open(u) /\ Alive(u)
    /\ loaded[u] = None
    /\ loaded' = [loaded EXCEPT ![u] = Current(u)]
    /\ UNCHANGED <<pc, row, children, dirty, added, draft, deleted>>

\* add_items, add_order_adjustments, record_status_transition, given the id of an
\* order that may have been deleted since.
Add(u) ==
    /\ Open(u) /\ Current(u).state # "unborn"
    /\ added' = [added EXCEPT ![u] = TRUE]
    /\ UNCHANGED <<pc, row, children, loaded, dirty, draft, deleted>>

\* The service assigns to an attribute of the order.
Modify(u) ==
    /\ Open(u) /\ loaded[u] # None
    /\ loaded[u].version < MaxVersion
    /\ dirty' = [dirty EXCEPT ![u] = TRUE]
    /\ UNCHANGED <<pc, row, children, loaded, added, draft, deleted>>

\* Bug: the mapper does not know the version column.
BugFresh(u) == Alive(u)

\* UPDATE ... WHERE id = ... AND version = ... finds the row.
Fresh(u) == Alive(u) /\ Current(u).version = loaded[u].version

\* The flush of a changed order: version_id_col counts.
Flush(u) ==
    /\ Open(u) /\ dirty[u] /\ Free(u)
    /\ Fresh(u)
    /\ LET new == [Written(u, "flush") EXCEPT !.version = loaded[u].version + 1]
       IN  Write(u, new) /\ loaded' = [loaded EXCEPT ![u] = new]
    /\ dirty' = [dirty EXCEPT ![u] = FALSE]
    /\ UNCHANGED <<pc, row, children, added, deleted>>

\* StaleDataError
FlushStale(u) ==
    /\ Open(u) /\ dirty[u] /\ Free(u)
    /\ ~Fresh(u)
    /\ Rollback(u)

\* Bug: the values of the statement raise the version.
BugUpdate(u) ==
    /\ Open(u) /\ Free(u) /\ Alive(u)
    /\ LET new == [Written(u, "update") EXCEPT !.version = @ + 1]
       IN  Write(u, new) /\ loaded' = [loaded EXCEPT ![u] = new]
    /\ UNCHANGED <<pc, row, children, dirty, added, deleted>>

\* update: one UPDATE ... RETURNING that leaves the version alone. The object it
\* returns is the one in the session, if there is one, whose attributes get the
\* new values unless they wait for a flush.
Update(u) ==
    /\ Open(u) /\ Free(u) /\ Alive(u)
    /\ Write(u, Written(u, "update"))
    /\ loaded' = [loaded EXCEPT ![u] =
                    CASE @ = None -> Written(u, "update")
                      [] dirty[u] -> @
                      [] OTHER    -> [@ EXCEPT !.writer = u, !.how = "update"]]
    /\ UNCHANGED <<pc, row, children, dirty, added, deleted>>

\* Bug: the row is looked up first, and deleted by its id afterwards.
BugDelete(u) ==
    /\ Open(u) /\ loaded[u] # None
    /\ Write(u, [Written(u, "delete") EXCEPT !.state = "gone"])
    /\ deleted' = [deleted EXCEPT ![u] = TRUE]
    /\ UNCHANGED <<pc, row, children, session>>

\* delete: one DELETE ... RETURNING, True when there was a row. The session
\* forgets the object and its changes.
Delete(u) ==
    /\ Open(u) /\ Free(u) /\ Alive(u)
    /\ Write(u, [Written(u, "delete") EXCEPT !.state = "gone"])
    /\ deleted' = [deleted EXCEPT ![u] = TRUE]
    /\ loaded' = [loaded EXCEPT ![u] = None]
    /\ dirty' = [dirty EXCEPT ![u] = FALSE]
    /\ UNCHANGED <<pc, row, children, added>>

-----------------------------------------------------------------------------
(* The end of a unit. *)

\* A child's INSERT waits for a DELETE of its order.
Deleting(u) == \E q \in Unit \ {u} : draft[q] # None /\ draft[q].state = "gone"

\* The foreign key of the children, checked by the flush of the COMMIT.
Accepted(u) == added[u] => Alive(u)

\* The order's children go with it (ON DELETE CASCADE).
Commit(u) ==
    /\ Open(u) /\ ~dirty[u]
    /\ added[u] => ~Deleting(u)
    /\ Accepted(u)
    /\ pc' = [pc EXCEPT ![u] = "committed"]
    /\ row' = Current(u)
    /\ children' = IF Alive(u)
                   THEN children \cup (IF added[u] THEN {u} ELSE {})
                   ELSE {}
    /\ draft' = [draft EXCEPT ![u] = None]
    /\ UNCHANGED <<session, deleted>>

CommitRefused(u) ==
    /\ Open(u) /\ ~dirty[u]
    /\ added[u] /\ ~Deleting(u)
    /\ ~Accepted(u)
    /\ Rollback(u)

\* Any exception, of the database or of the service: get_db rolls back.
Fail(u) ==
    /\ pc[u] \in {"open", "created"}
    /\ Rollback(u)

-----------------------------------------------------------------------------

Work(u) ==
    \/ Create(u) \/ CreateConflict(u) \/ AddFirst(u)
    \/ Load(u) \/ Add(u) \/ Modify(u) \/ Flush(u) \/ FlushStale(u)
    \/ Update(u) \/ Delete(u)
    \/ Commit(u) \/ CommitRefused(u) \/ Fail(u)

Next == \E u \in Unit : Work(u)

Spec == Init /\ [][Next]_vars

-----------------------------------------------------------------------------
(* Properties. *)

TypeOK ==
    /\ pc \in [Unit -> {"open", "created", "committed", "rolled back"}]
    /\ row \in Rows
    /\ children \subseteq Unit
    /\ {loaded, draft} \subseteq [Unit -> Rows \cup {None}]
    /\ {dirty, added, deleted} \subseteq [Unit -> BOOLEAN]

\* "Does NOT commit transactions": an order is never there without its items and
\* its first status, nor are these without it, whichever units delete, add or
\* fail around each other.
OrderIsWhole == row.state = "alive" <=> children # {}

\* "Uses the version column for Optimistic Locking": a flush writes over the data
\* its session had loaded, or over changes made by update(), which the version
\* does not show.
NoBlindOverwrite ==
    [][\A u \in Unit :
         draft'[u] # draft[u] /\ draft'[u] # None /\ draft'[u].how = "flush"
         => Current(u).writer = loaded[u].writer \/ Current(u).how = "update"]_vars

\* delete: "Uses RETURNING for reliability": of the units that were told they had
\* deleted the order only one commits, and the order is then gone for good.
DeletedOnce ==
    LET deleters == {u \in Unit : pc[u] = "committed" /\ deleted[u]}
    IN  Cardinality(deleters) <= 1 /\ (deleters # {} => row.state = "gone")

=============================================================================
