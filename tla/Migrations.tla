----------------------------- MODULE Migrations -----------------------------
(***************************************************************************)
(* "alembic upgrade" and "alembic downgrade" over the four revisions of    *)
(* the schema, and the rows that live through them. One command is one     *)
(* transaction, however many revisions it passes: env.py opens it around   *)
(* run_migrations, and PostgreSQL rolls DDL back. A writer waits for the   *)
(* tables a command has locked.                                            *)
(***************************************************************************)
EXTENDS Naturals

CONSTANTS
    Row,        \* the orders that may be stored
    KeyOf,      \* KeyOf[o]: the idempotency key o was sent with
    Foreign,    \* those of an earlier release whose product ids are no UUIDs
    NoCommand   \* no command is running

VARIABLES
    schema,     \* the revision, and the objects the commands made
    rows,       \* the stored orders
    keyed,      \* those whose idempotency_key is not NULL
    command     \* the command at work, with the schema and the rows as it has them

vars == <<schema, rows, keyed, command>>

\* By revision: the base tables, version, idempotency_key, the columns of items.
Made == <<"tables", "version", "key", "items">>
Head == 4
Objects == {"orderstatus", "tables", "version", "key", "items"}

Schemas == [revision : 0 .. Head, objects : SUBSET Objects]

Commands ==
    [target : 0 .. Head, schema : Schemas, rows : SUBSET Row, keyed : SUBSET Row]

Init ==
    /\ schema = [revision |-> 0, objects |-> {}]
    /\ rows = {}
    /\ keyed = {}
    /\ command = NoCommand

Idle == command = NoCommand

\* upgrade and downgrade, to any revision.
Begin(target) ==
    /\ Idle
    /\ target # schema.revision
    /\ command' = [target |-> target, schema |-> schema, rows |-> rows, keyed |-> keyed]
    /\ UNCHANGED <<schema, rows, keyed>>

Revision == command.schema.revision

\* Otherwise: the type would be created unless it exists.
OtherFits(n) == n = 4 => Foreign \cap command.rows = {}

\* CREATE TYPE orderstatus finds no such type; product_id::uuid holds for all.
Fits(n) ==
    /\ n = 1 => "orderstatus" \notin command.schema.objects
    /\ n = 4 => Foreign \cap command.rows = {}

\* The upgrade() of one revision.
Upgrade ==
    /\ ~Idle
    /\ Revision < command.target
    /\ Fits(Revision + 1)
    /\ command' = [command EXCEPT
         !.schema = [ revision |-> Revision + 1,
                      objects  |-> @.objects \cup {Made[Revision + 1]}
                                     \cup (IF Revision = 0 THEN {"orderstatus"} ELSE {}) ]]
    /\ UNCHANGED <<schema, rows, keyed>>

\* Bug: the column of the keys is dropped with those of the items.
BugDowngrade ==
    /\ ~Idle
    /\ Revision > command.target
    /\ command' = [command EXCEPT
         !.schema = [revision |-> Revision - 1, objects |-> @.objects \ {Made[Revision]}],
         !.rows   = IF Revision = 1 THEN {} ELSE @,
         !.keyed  = IF Revision = 4 THEN {} ELSE @]
    /\ UNCHANGED <<schema, rows, keyed>>

\* The downgrade() of one revision: the tables go with their rows, the column
\* with its keys, and the type stays.
Downgrade ==
    /\ ~Idle
    /\ Revision > command.target
    /\ command' = [command EXCEPT
         !.schema = [revision |-> Revision - 1, objects |-> @.objects \ {Made[Revision]}],
         !.rows   = IF Revision = 1 THEN {} ELSE @,
         !.keyed  = IF Revision = 3 THEN {} ELSE @]
    /\ UNCHANGED <<schema, rows, keyed>>

Commit ==
    /\ ~Idle
    /\ Revision = command.target
    /\ schema' = command.schema
    /\ rows' = command.rows
    /\ keyed' = command.keyed
    /\ command' = NoCommand

\* Bug: each revision is committed by itself, its number with the last.
BugFail ==
    /\ ~Idle
    /\ command' = NoCommand
    /\ schema' = [schema EXCEPT !.objects = command.schema.objects]
    /\ UNCHANGED <<rows, keyed>>

\* A statement fails, for one of these reasons or another, or the command is
\* stopped: the transaction is rolled back.
Fail ==
    /\ ~Idle
    /\ command' = NoCommand
    /\ UNCHANGED <<schema, rows, keyed>>

Migrate ==
    \/ \E target \in 0 .. Head : Begin(target)
    \/ Upgrade \/ Downgrade \/ Commit \/ Fail

-----------------------------------------------------------------------------
(* The writers. *)

\* ix_orders_idempotency_key
Taken(o) == o \in rows \/ \E q \in keyed : KeyOf[q] = KeyOf[o]

\* The service of this release names every column.
Store(o) ==
    /\ Idle /\ schema.revision = Head
    /\ ~Taken(o)
    /\ o \notin Foreign
    /\ rows' = rows \cup {o}
    /\ keyed' = keyed \cup {o}
    /\ UNCHANGED <<schema, command>>

\* An earlier release, on the schema it was made for.
StoreEarlier(o) ==
    /\ Idle /\ schema.revision \in 1 .. Head - 1
    /\ IF schema.revision < 3
       THEN o \notin rows /\ UNCHANGED keyed
       ELSE ~Taken(o) /\ keyed' = keyed \cup {o}
    /\ rows' = rows \cup {o}
    /\ UNCHANGED <<schema, command>>

=============================================================================
