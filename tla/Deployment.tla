----------------------------- MODULE Deployment -----------------------------
(***************************************************************************)
(* The service of Lifespan over the schema of Migrations. The two meet     *)
(* only when an order is stored: startup asks the database for SELECT 1    *)
(* and not for its revision, and no part of the deployment runs alembic    *)
(* by itself, so that the service serves on any schema and every order     *)
(* fails until the schema is the one it was made for.                      *)
(***************************************************************************)
EXTENDS Lifespan

CONSTANTS Row, KeyOf, Foreign, NoCommand

VARIABLES schema, rows, keyed, command

Database == INSTANCE Migrations

ASSUME CommandAssumption == NoCommand \notin Database!Commands
ASSUME RowAssumption == Foreign \subseteq Row /\ Row \subseteq DOMAIN KeyOf

database == <<schema, rows, keyed, command>>
deploymentVars == <<vars, database>>

DeploymentInit == Init /\ Database!Init

\* place_order, as far as the schema goes.
Post(o) ==
    /\ phase = "serving"
    /\ Database!Store(o)
    /\ UNCHANGED vars

DeploymentNext ==
    \/ Next /\ UNCHANGED database
    \/ Database!Migrate /\ UNCHANGED vars
    \/ \E o \in Row : Post(o) \/ (Database!StoreEarlier(o) /\ UNCHANGED vars)

DeploymentSpec == DeploymentInit /\ [][DeploymentNext]_deploymentVars

\* Every call of startup and shutdown returns, unless it fails first: ping after
\* its timeouts and retries, flush after ten seconds. SELECT 1 and dispose() have
\* no timeout: of the database it is assumed. No command is owed.
FairDeployment == DeploymentSpec /\ WF_vars(\E s \in Service : Call(s))

-----------------------------------------------------------------------------
(* Properties. *)

DeploymentTypeOK ==
    /\ TypeOK
    /\ schema \in Database!Schemas
    /\ keyed \subseteq rows /\ rows \subseteq Row
    /\ command \in Database!Commands \cup {NoCommand}

\* A command that fails, at whichever revision, changes nothing: the objects are
\* those of the revision alembic_version names, up to the type that stays.
SchemaMatchesRevision ==
    schema.objects \ {"orderstatus"} =
        {Database!Made[n] : n \in 1 .. schema.revision}

\* SETUP_GUIDE.md, "alembic upgrade head - this will create the table if not
\* present": only in a database that never had them. After a downgrade to base
\* no command creates the tables again.
Stranded ==
    [][schema.revision = 0 /\ "orderstatus" \in schema.objects
       => schema'.revision = 0]_deploymentVars

\* An order is lost by a downgrade to base only, and a key, with which a late
\* retry would buy the order again, by a downgrade below e25e08307c91 only:
\* never by an upgrade, and never by a command that failed on its way.
CommandsKeepData ==
    [][/\ ~(rows \subseteq rows') => schema'.revision = 0
       /\ ~(keyed \subseteq keyed') => schema'.revision < 3]_deploymentVars

=============================================================================
