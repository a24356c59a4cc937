-------------------------- MODULE DeploymentProofs --------------------------
(* Theorems about Deployment, for every set of orders, keys and releases: what *)
(* a sequence of alembic commands, finished, failed or stopped, leaves, and    *)
(* what every run of the lifespan, however it begins and ends, guarantees.     *)
EXTENDS Deployment, TLAPS

\* The objects of a schema are those its revision stands for.
Matches(s) == s.objects \ {"orderstatus"} = {Database!Made[n] : n \in 1 .. s.revision}

\* The command at work has a schema that matches too, at or above its target on
\* the way down; it has dropped what only a command to that target drops, and is
\* stranded where the schema is.
Working(c) ==
    /\ Matches(c.schema)
    /\ ~(rows \subseteq c.rows) => c.target = 0
    /\ ~(keyed \subseteq c.keyed) => c.target < 3
    /\ schema.revision = 0 /\ "orderstatus" \in schema.objects
         => c.schema.revision = 0 /\ "orderstatus" \in c.schema.objects

\* The inductive invariant of the migrations.
SchemaInv ==
    /\ schema \in Database!Schemas
    /\ rows \subseteq Row /\ keyed \subseteq Row
    /\ command \in Database!Commands \cup {NoCommand}
    /\ Matches(schema)
    /\ command # NoCommand => Working(command)

-----------------------------------------------------------------------------

\* Each revision makes something of its own, and never the enum type.
LEMMA MadeOnce ==
    /\ \A n \in 1 .. 4 : Database!Made[n] # "orderstatus"
    /\ \A n \in 1 .. 4 : Database!Made[n] \in Database!Objects
    /\ \A n, k \in 1 .. 4 : Database!Made[n] = Database!Made[k] => n = k
<1> DEFINE M == Database!Made
<1>1. M[1] = "tables" /\ M[2] = "version" /\ M[3] = "key" /\ M[4] = "items"
  BY DEF Database!Made
<1>2. \A n \in 1 .. 4 : n = 1 \/ n = 2 \/ n = 3 \/ n = 4
  OBVIOUS
<1> HIDE DEF M
<1>3. /\ \A n \in 1 .. 4 : M[n] # "orderstatus"
      /\ \A n \in 1 .. 4 : M[n] \in Database!Objects
      /\ \A n, k \in 1 .. 4 : M[n] = M[k] => n = k
  BY <1>1, <1>2 DEF Database!Objects
<1>4. QED
  BY <1>3 DEF M

\* An upgrade and a downgrade lead from a schema that matches to one that does.
LEMMA UpgradeMatches ==
    ASSUME NEW s \in Database!Schemas, Matches(s), s.revision < 4,
           NEW t \in Database!Schemas, t.revision = s.revision + 1,
           NEW more \in SUBSET {"orderstatus"},
           t.objects = s.objects \cup {Database!Made[s.revision + 1]} \cup more
    PROVE  Matches(t)
<1>1. s.revision \in 0 .. 3
  BY DEF Database!Schemas, Database!Head
<1>2. 1 .. s.revision + 1 = (1 .. s.revision) \cup {s.revision + 1}
  BY <1>1
<1>3. Database!Made[s.revision + 1] # "orderstatus"
  BY <1>1, MadeOnce
<1>4. {Database!Made[n] : n \in 1 .. s.revision + 1}
        = {Database!Made[n] : n \in 1 .. s.revision} \cup {Database!Made[s.revision + 1]}
  BY <1>2
<1>5. t.objects \ {"orderstatus"}
        = (s.objects \ {"orderstatus"}) \cup {Database!Made[s.revision + 1]}
  BY <1>3
<1>6. QED
  BY <1>4, <1>5 DEF Matches

LEMMA DowngradeMatches ==
    ASSUME NEW s \in Database!Schemas, Matches(s), s.revision > 0,
           NEW t \in Database!Schemas, t.revision = s.revision - 1,
           t.objects = s.objects \ {Database!Made[s.revision]}
    PROVE  Matches(t)
<1>1. s.revision \in 1 .. 4
  BY DEF Database!Schemas, Database!Head
<1>2. 1 .. s.revision = (1 .. s.revision - 1) \cup {s.revision}
  BY <1>1
<1>3. \A n \in 1 .. s.revision - 1 : Database!Made[n] # Database!Made[s.revision]
  <2>1. \A n \in 1 .. s.revision - 1 : n \in 1 .. 4 /\ n # s.revision
    BY <1>1
  <2>2. QED
    BY <1>1, <2>1, MadeOnce
<1>4. QED
  BY <1>2, <1>3 DEF Matches

\* Every step of a command, of a writer and of the service keeps the invariant.
LEMMA SchemaStep ==
    ASSUME SchemaInv, [DeploymentNext]_deploymentVars
    PROVE  SchemaInv'
<1>1. CASE UNCHANGED database
  BY <1>1 DEF database, SchemaInv, Working, Matches, Database!Schemas, Database!Commands
<1>2. ASSUME NEW target \in 0 .. Database!Head, Database!Begin(target)
      PROVE  SchemaInv'
  <2>1. command' = [target |-> target, schema |-> schema, rows |-> rows, keyed |-> keyed]
    BY <1>2 DEF Database!Begin
  <2>2. command' \in Database!Commands
    BY <2>1 DEF SchemaInv, Database!Commands
  <2>3. Working(command)'
    BY <1>2, <2>1 DEF Database!Begin, SchemaInv, Working, Matches
  <2>4. QED
    BY <1>2, <2>2, <2>3 DEF Database!Begin, SchemaInv, Matches
<1>3. CASE Database!Upgrade
  <2> DEFINE s == command.schema  t == command'.schema
             more == IF s.revision = 0 THEN {"orderstatus"} ELSE {}
  <2>1. command \in Database!Commands /\ Working(command)
    BY <1>3 DEF Database!Upgrade, Database!Idle, SchemaInv
  <2>2. s \in Database!Schemas /\ s.revision \in 0 .. 3 /\ command.target \in 0 .. 4
    BY <1>3, <2>1
    DEF Database!Upgrade, Database!Revision, Database!Commands, Database!Schemas, Database!Head
  <2>3. command' = [command EXCEPT !.schema =
          [revision |-> s.revision + 1,
           objects |-> s.objects \cup {Database!Made[s.revision + 1]} \cup more]]
    BY <1>3 DEF Database!Upgrade, Database!Revision
  <2>4. t = [revision |-> s.revision + 1,
             objects |-> s.objects \cup {Database!Made[s.revision + 1]} \cup more]
    BY <2>1, <2>3 DEF Database!Commands
  <2>5. t \in Database!Schemas
    BY <2>2, <2>4, MadeOnce DEF Database!Schemas, Database!Objects, Database!Head
  <2>6. command' \in Database!Commands
    BY <2>1, <2>3, <2>4, <2>5 DEF Database!Commands
  <2>7. command'.target = command.target /\ command'.rows = command.rows
        /\ command'.keyed = command.keyed
    BY <2>1, <2>3 DEF Database!Commands
  <2>8. Matches(t)
    <3>1. t.revision = s.revision + 1
          /\ t.objects = s.objects \cup {Database!Made[s.revision + 1]} \cup more
          /\ more \in SUBSET {"orderstatus"} /\ s.revision < 4 /\ Matches(s)
      BY <2>1, <2>2, <2>4 DEF Working
    <3> HIDE DEF s, t, more
    <3>2. QED
      BY <2>2, <2>5, <3>1, UpgradeMatches
  <2>9. ~(schema.revision = 0 /\ "orderstatus" \in schema.objects)
    BY <1>3, <2>1, <2>2 DEF Database!Upgrade, Database!Fits, Database!Revision, Working
  <2>10. Working(command)'
    BY <1>3, <2>1, <2>7, <2>8, <2>9 DEF Database!Upgrade, Working, Matches
  <2>11. QED
    BY <1>3, <2>6, <2>10 DEF Database!Upgrade, SchemaInv, Matches
<1>4. CASE Database!Downgrade
  <2> DEFINE s == command.schema  t == command'.schema
  <2>1. command \in Database!Commands /\ Working(command)
    BY <1>4 DEF Database!Downgrade, Database!Idle, SchemaInv
  <2>2. s \in Database!Schemas /\ s.revision \in 1 .. 4 /\ command.target \in 0 .. 4
        /\ command.target < s.revision
    BY <1>4, <2>1
    DEF Database!Downgrade, Database!Revision, Database!Commands, Database!Schemas, Database!Head
  <2>3. command' = [command EXCEPT
          !.schema = [revision |-> s.revision - 1,
                      objects |-> s.objects \ {Database!Made[s.revision]}],
          !.rows = IF s.revision = 1 THEN {} ELSE command.rows,
          !.keyed = IF s.revision = 3 THEN {} ELSE command.keyed]
    BY <1>4 DEF Database!Downgrade, Database!Revision
  <2>4. /\ t = [revision |-> s.revision - 1,
                objects |-> s.objects \ {Database!Made[s.revision]}]
        /\ command'.rows = IF s.revision = 1 THEN {} ELSE command.rows
        /\ command'.keyed = IF s.revision = 3 THEN {} ELSE command.keyed
        /\ command'.target = command.target
    BY <2>1, <2>3 DEF Database!Commands
  <2>5. t \in Database!Schemas
    BY <2>2, <2>4 DEF Database!Schemas, Database!Head
  <2>6. command' \in Database!Commands
    BY <2>1, <2>3, <2>4, <2>5 DEF Database!Commands
  <2>7. Matches(t)
    <3>1. t.revision = s.revision - 1
          /\ t.objects = s.objects \ {Database!Made[s.revision]}
      BY <2>4
    <3>2. QED
      BY <2>1, <2>2, <2>5, <3>1, DowngradeMatches DEF Working
  <2>8. ~(schema.revision = 0 /\ "orderstatus" \in schema.objects)
    BY <2>1, <2>2 DEF Working
  <2>9. Working(command)'
    <3>1. s.revision = 1 => command.target = 0
      BY <2>2
    <3>2. s.revision = 3 => command.target < 3
      BY <2>2
    <3>3. UNCHANGED <<schema, rows, keyed>>
      BY <1>4 DEF Database!Downgrade
    <3>4. QED
      BY <2>1, <2>4, <2>7, <2>8, <3>1, <3>2, <3>3 DEF Working, Matches
  <2>10. QED
    BY <1>4, <2>6, <2>9 DEF Database!Downgrade, SchemaInv, Matches
<1>5. CASE Database!Commit
  BY <1>5 DEF Database!Commit, Database!Idle, Database!Commands, SchemaInv, Working, Matches
<1>6. CASE Database!Fail
  BY <1>6 DEF Database!Fail, SchemaInv, Matches
<1>7. ASSUME NEW o \in Row, Database!Store(o) \/ Database!StoreEarlier(o)
      PROVE  SchemaInv'
  BY <1>7 DEF Database!Store, Database!StoreEarlier, Database!Idle, SchemaInv, Matches
<1>8. QED
  BY <1>1, <1>2, <1>3, <1>4, <1>5, <1>6, <1>7
  DEF DeploymentNext, Database!Migrate, Post, deploymentVars

LEMMA SchemaCorrect == DeploymentSpec => []SchemaInv
<1>1. DeploymentInit => SchemaInv
  <2>1. 1 .. 0 = {}
    OBVIOUS
  <2>2. QED
    BY <2>1 DEF DeploymentInit, Database!Init, SchemaInv, Matches, Database!Schemas, Database!Head
<1>2. QED
  BY <1>1, SchemaStep, PTL DEF DeploymentSpec

-----------------------------------------------------------------------------

\* Whatever commands run and wherever they fail, the objects in the database are
\* those of the revision that alembic_version names.
THEOREM SchemaMatches == DeploymentSpec => []SchemaMatchesRevision
<1>1. SchemaInv => SchemaMatchesRevision
  BY DEF SchemaInv, Matches, SchemaMatchesRevision
<1>2. QED
  BY <1>1, SchemaCorrect, PTL

\* A database that was taken down to base keeps the enum type and never gets
\* its tables again.
THEOREM StaysStranded == DeploymentSpec => Stranded
<1>1. ASSUME SchemaInv, [DeploymentNext]_deploymentVars
      PROVE  [schema.revision = 0 /\ "orderstatus" \in schema.objects
              => schema'.revision = 0]_deploymentVars
  <2>1. CASE Database!Commit
    BY <1>1, <2>1 DEF Database!Commit, Database!Idle, SchemaInv, Working
  <2>2. CASE UNCHANGED schema
    BY <2>2
  <2>3. Database!Commit \/ UNCHANGED schema
    BY <1>1
    DEF DeploymentNext, deploymentVars, database, Database!Migrate, Post, Database!Begin,
        Database!Upgrade, Database!Downgrade, Database!Fail, Database!Store,
        Database!StoreEarlier
  <2>4. QED
    BY <2>1, <2>2, <2>3
<1>2. QED
  BY <1>1, SchemaCorrect, PTL DEF DeploymentSpec, Stranded

\* Orders and keys are lost by the two downgrades that drop them and by nothing
\* else.
THEOREM DataKept == DeploymentSpec => CommandsKeepData
<1> DEFINE Kept == /\ ~(rows \subseteq rows') => schema'.revision = 0
                   /\ ~(keyed \subseteq keyed') => schema'.revision < 3
<1>1. ASSUME SchemaInv, [DeploymentNext]_deploymentVars PROVE [Kept]_deploymentVars
  <2>1. CASE Database!Commit
    BY <1>1, <2>1 DEF Database!Commit, Database!Idle, Database!Revision, SchemaInv, Working
  <2>2. CASE rows \subseteq rows' /\ keyed \subseteq keyed'
    BY <2>2
  <2>3. Database!Commit \/ (rows \subseteq rows' /\ keyed \subseteq keyed')
    BY <1>1
    DEF DeploymentNext, deploymentVars, database, Database!Migrate, Post, Database!Begin,
        Database!Upgrade, Database!Downgrade, Database!Fail, Database!Store,
        Database!StoreEarlier
  <2>4. QED
    BY <2>1, <2>2, <2>3
<1>2. QED
  BY <1>1, SchemaCorrect, PTL DEF DeploymentSpec, CommandsKeepData

-----------------------------------------------------------------------------

\* A stored key is that of a stored order, and there is none below the revision
\* that has the column: in the database and as the command at work has it.
KeyInv ==
    /\ keyed \subseteq rows
    /\ schema.revision < 3 => keyed = {}
    /\ command # NoCommand =>
         /\ command.keyed \subseteq command.rows
         /\ command.schema.revision < 3 => command.keyed = {}

LEMMA KeyStep ==
    ASSUME SchemaInv, KeyInv, [DeploymentNext]_deploymentVars
    PROVE  KeyInv'
<1>1. CASE UNCHANGED database
  BY <1>1 DEF database, KeyInv
<1>2. ASSUME NEW target \in 0 .. Database!Head, Database!Begin(target)
      PROVE  KeyInv'
  BY <1>2 DEF Database!Begin, KeyInv
<1>3. CASE Database!Upgrade
  <2>1. command \in Database!Commands /\ command # NoCommand
        /\ command.schema.revision \in 0 .. 4
    BY <1>3 DEF Database!Upgrade, Database!Idle, SchemaInv, Database!Commands, Database!Schemas,
      Database!Head
  <2>2. /\ command'.schema.revision = command.schema.revision + 1
        /\ command'.rows = command.rows /\ command'.keyed = command.keyed
    BY <1>3, <2>1 DEF Database!Upgrade, Database!Revision, Database!Commands
  <2>3. QED
    BY <1>3, <2>1, <2>2 DEF Database!Upgrade, KeyInv
<1>4. CASE Database!Downgrade
  <2>1. command \in Database!Commands /\ command # NoCommand
        /\ command.schema.revision \in 0 .. 4
    BY <1>4 DEF Database!Downgrade, Database!Idle, SchemaInv, Database!Commands, Database!Schemas,
      Database!Head
  <2>2. /\ command'.schema.revision = command.schema.revision - 1
        /\ command'.rows = IF command.schema.revision = 1 THEN {} ELSE command.rows
        /\ command'.keyed = IF command.schema.revision = 3 THEN {} ELSE command.keyed
    BY <1>4, <2>1 DEF Database!Downgrade, Database!Revision, Database!Commands
  <2>3. QED
    BY <1>4, <2>1, <2>2 DEF Database!Downgrade, KeyInv
<1>5. CASE Database!Commit
  BY <1>5 DEF Database!Commit, Database!Idle, KeyInv
<1>6. CASE Database!Fail
  BY <1>6 DEF Database!Fail, KeyInv
<1>7. ASSUME NEW o \in Row, Database!Store(o) \/ Database!StoreEarlier(o)
      PROVE  KeyInv'
  BY <1>7
  DEF Database!Store, Database!StoreEarlier, Database!Idle, Database!Head, KeyInv, SchemaInv,
      Database!Schemas
<1>8. QED
  BY <1>1, <1>2, <1>3, <1>4, <1>5, <1>6, <1>7
  DEF DeploymentNext, Database!Migrate, Post, deploymentVars

-----------------------------------------------------------------------------
(* The lifespan. *)

Places == 1 .. 3

LEMMA Services ==
    /\ Len(Order) = 3 /\ DOMAIN Order = Places
    /\ Order[1] = "redis" /\ Order[2] = "db" /\ Order[3] = "kafka"
    /\ \A n \in Places : n = 1 \/ n = 2 \/ n = 3
BY DEF Order, Places

\* What is held although this lifespan did not start it: the producer of an
\* earlier one, or what a start or stop that failed has left.
Leftover == {"kafka"} \cup left

\* The inductive invariant of the lifespan.
LifespanInv ==
    /\ TypeOK
    /\ phase = "down" => held = {} /\ left = {}
    /\ phase = "starting" =>
         /\ started = {Order[n] : n \in 1 .. at - 1}
         /\ started \subseteq held
         /\ at > 1 => "redis" \in answered \cup left
         /\ at > 2 => "db" \in answered
    /\ phase = "serving" =>
         /\ Service \subseteq started \cap held
         /\ "db" \in answered /\ "redis" \in answered \cup left
    /\ phase \in {"starting", "serving", "stopping"} => held \ started \subseteq Leftover
    /\ phase = "stopping" =>
         \A n \in Places : n > at => Order[n] \notin held \/ Order[n] \in Leftover
    /\ phase = "ended" => held \subseteq Leftover

LEMMA LifespanStep ==
    ASSUME LifespanInv, [Next]_vars
    PROVE  LifespanInv'
<1> USE Services
<1>0. at \in Places
  BY DEF LifespanInv, TypeOK
<1>1. CASE UNCHANGED vars
  BY <1>1 DEF vars, globals, LifespanInv, TypeOK, Leftover
<1>2. CASE Enter
  <2>1. 1 .. 1 - 1 = {}
    OBVIOUS
  <2>2. QED
    BY <1>2, <2>1 DEF Enter, globals, LifespanInv, TypeOK, Leftover, Places
<1>3. CASE Shutdown
  BY <1>3 DEF Shutdown, globals, LifespanInv, TypeOK, Leftover, Places
<1>4. CASE Exit
  BY <1>4 DEF Exit, LifespanInv, TypeOK, Leftover, Places
<1>5. ASSUME NEW s \in Service, Start(s) PROVE LifespanInv'
  <2>1. phase = "starting" /\ s = Order[at]
    BY <1>5 DEF Start
  <2>2. /\ started' = started \cup {s} /\ held' = held \cup {s} /\ left' = left
        /\ answered \subseteq answered'
    BY <1>5 DEF Start
  <2>3. TypeOK'
    BY <1>5, <1>0 DEF Start, LifespanInv, TypeOK, Places
  <2>4. CASE at = 1
    <3>1. 1 .. 1 - 1 = {} /\ 1 .. 2 - 1 = {1}
      OBVIOUS
    <3>2. s = "redis" /\ at' = 2 /\ phase' = "starting"
      BY <1>5, <2>1, <2>4 DEF Start
    <3>3. started = {}
      BY <2>1, <2>4, <3>1 DEF LifespanInv
    <3>4. "redis" \in answered' \cup left'
      BY <1>5, <2>1, <3>2, <3>3 DEF Start, Present, LifespanInv, Leftover
    <3>5. started' = {Order[n] : n \in 1 .. at' - 1}
      BY <2>2, <3>1, <3>2, <3>3
    <3>6. QED
      BY <2>1, <2>2, <2>3, <3>2, <3>3, <3>4, <3>5 DEF LifespanInv, Leftover
  <2>5. CASE at = 2
    <3>1. 1 .. 2 - 1 = {1} /\ 1 .. 3 - 1 = {1, 2}
      OBVIOUS
    <3>2. s = "db" /\ at' = 3 /\ phase' = "starting"
      BY <1>5, <2>1, <2>5 DEF Start
    <3>3. started = {"redis"}
      BY <2>1, <2>5, <3>1 DEF LifespanInv
    <3>4. "db" \in answered' /\ "redis" \in answered' \cup left'
      BY <1>5, <2>1, <2>2, <2>5, <3>2 DEF Start, Present, LifespanInv
    <3>5. started' = {Order[n] : n \in 1 .. at' - 1}
      BY <2>2, <3>1, <3>2, <3>3
    <3>6. QED
      BY <2>1, <2>2, <2>3, <3>2, <3>3, <3>4, <3>5 DEF LifespanInv, Leftover
  <2>6. CASE at = 3
    <3>1. 1 .. 3 - 1 = {1, 2}
      OBVIOUS
    <3>2. s = "kafka" /\ phase' = "serving"
      BY <1>5, <2>1, <2>6 DEF Start
    <3>3. started = {"redis", "db"}
      BY <2>1, <2>6, <3>1 DEF LifespanInv
    <3>4. "db" \in answered' /\ "redis" \in answered' \cup left'
      BY <2>1, <2>2, <2>6 DEF LifespanInv
    <3>5. Service \subseteq started' \cap held'
      BY <2>1, <2>2, <3>2, <3>3 DEF LifespanInv, Service
    <3>6. QED
      BY <2>1, <2>2, <2>3, <3>2, <3>4, <3>5 DEF LifespanInv, Leftover
  <2>7. QED
    BY <1>0, <2>4, <2>5, <2>6
<1>6. ASSUME NEW s \in Service, StartFails(s) PROVE LifespanInv'
  <2>1. PICK kept \in SUBSET ({s} \ {"kafka"}) :
          held' = held \cup kept /\ left' = left \cup kept
    BY <1>6 DEF StartFails
  <2>2. phase = "starting" /\ phase' = "stopping" /\ at' = 3 /\ started' = started
        /\ answered' = answered
    BY <1>6 DEF StartFails
  <2>3. TypeOK'
    <3>1. {s} \subseteq Service /\ held \in SUBSET Service /\ left \in SUBSET Service
          /\ started \in SUBSET Service /\ answered \in SUBSET Service
      BY DEF LifespanInv, TypeOK
    <3>2. held' \in SUBSET Service /\ left' \in SUBSET Service
      BY <2>1, <3>1
    <3>3. QED
      BY <2>2, <3>1, <3>2 DEF TypeOK, Places
  <2>4. held' \ started' \subseteq Leftover'
    BY <2>1, <2>2 DEF LifespanInv, Leftover
  <2>5. \A n \in Places : ~(n > at')
    BY <2>2 DEF Places
  <2>6. QED
    BY <2>2, <2>3, <2>4, <2>5 DEF LifespanInv
<1>7. ASSUME NEW s \in Service, Skip(s) \/ Stop(s) \/ StopFails(s) PROVE LifespanInv'
  <2>1. phase = "stopping" /\ s = Order[at] /\ Proceed /\ UNCHANGED <<started, answered>>
    BY <1>7 DEF Skip, Stop, StopFails
  <2>2. TypeOK'
    BY <1>0, <1>7, <2>1 DEF Skip, Stop, StopFails, Proceed, globals, LifespanInv, TypeOK, Places
  <2>3. held' \subseteq held /\ left \ {s} \subseteq left'
        /\ (s \in left => s \notin held' \/ s \in left' \/ s = "kafka")
    BY <1>7 DEF Skip, Stop, StopFails, globals
  <2>4. s \notin held' \/ s \in Leftover'
    BY <1>7, <2>1 DEF Skip, Stop, StopFails, globals, LifespanInv, Leftover
  <2>5. \A q \in Service : q \notin held \/ q \in Leftover => q \notin held' \/ q \in Leftover'
    BY <2>3, <2>4 DEF Leftover
  <2>6. held' \ started' \subseteq Leftover'
    BY <2>1, <2>3, <2>5 DEF LifespanInv, TypeOK
  <2>7. \A n \in Places : n >= at => Order[n] \notin held' \/ Order[n] \in Leftover'
    BY <1>0, <2>1, <2>4, <2>5 DEF LifespanInv, Places, Service
  <2>8. CASE at = 1
    <3>1. phase' = "ended"
      BY <2>1, <2>8 DEF Proceed
    <3>2. held' \subseteq Leftover'
      BY <2>2, <2>7, <2>8 DEF TypeOK, Service, Places
    <3>3. QED
      BY <2>2, <3>1, <3>2 DEF LifespanInv
  <2>9. CASE at # 1
    <3>1. phase' = "stopping" /\ at' = at - 1
      BY <2>1, <2>9 DEF Proceed
    <3>2. \A n \in Places : n > at' => n >= at
      BY <1>0, <3>1 DEF Places
    <3>3. QED
      BY <2>2, <2>6, <2>7, <3>1, <3>2 DEF LifespanInv
  <2>10. QED
    BY <2>8, <2>9
<1>8. ASSUME NEW s \in Service, Cancel(s) PROVE LifespanInv'
  <2>1. /\ phase = "stopping" /\ phase' = "ended" /\ left' = left \cup (started \ {"kafka"})
        /\ UNCHANGED <<at, started, answered, held>>
    BY <1>8 DEF Cancel
  <2>2. TypeOK'
    BY <2>1 DEF LifespanInv, TypeOK
  <2>3. held' \subseteq Leftover'
    BY <2>1 DEF LifespanInv, Leftover
  <2>4. QED
    BY <2>1, <2>2, <2>3 DEF LifespanInv
<1>9. QED
  BY <1>1, <1>2, <1>3, <1>4, <1>5, <1>6, <1>7, <1>8 DEF Next, Call, Failure

\* In every run of the lifespan, whatever fails in it and in those before.
LEMMA LifespanCorrect == DeploymentSpec => []LifespanInv
<1>1. DeploymentInit => LifespanInv
  BY Services DEF DeploymentInit, Init, LifespanInv, TypeOK, Leftover, Places
<1>2. ASSUME [DeploymentNext]_deploymentVars PROVE [Next]_vars
  BY <1>2 DEF DeploymentNext, deploymentVars, Post
<1>3. QED
  BY <1>1, <1>2, LifespanStep, PTL DEF DeploymentSpec

\* The state of the lifespan, of the schema and of the command at work has its
\* types, and every key stands in the row of its order.
THEOREM DeploymentTyped == DeploymentSpec => []DeploymentTypeOK
<1>1. DeploymentInit => KeyInv
  BY DEF DeploymentInit, Database!Init, KeyInv
<1>2. SchemaInv /\ KeyInv /\ LifespanInv => DeploymentTypeOK
  BY DEF SchemaInv, KeyInv, LifespanInv, DeploymentTypeOK
<1>3. QED
  BY <1>1, <1>2, KeyStep, SchemaCorrect, LifespanCorrect, PTL DEF DeploymentSpec

\* No request meets a manager without a client or a producer that is None.
THEOREM Ready == DeploymentSpec => []ServingIsReady
<1>1. LifespanInv => ServingIsReady
  BY DEF LifespanInv, ServingIsReady
<1>2. QED
  BY <1>1, LifespanCorrect, PTL

\* However far startup got and whichever stop raises, the lifespan leaves the
\* producer and what a failure or a cancelled shutdown has left, and nothing else.
THEOREM Stopped == DeploymentSpec => []StoppedAtEnd
<1>1. LifespanInv => StoppedAtEnd
  BY DEF LifespanInv, StoppedAtEnd, Leftover
<1>2. QED
  BY <1>1, LifespanCorrect, PTL

\* No request is served before Redis and the database have answered this
\* lifespan, but for a client that an earlier one, cancelled, has left.
THEOREM Checked == DeploymentSpec => []PulseChecked
<1>1. LifespanInv => PulseChecked
  BY DEF LifespanInv, PulseChecked
<1>2. QED
  BY <1>1, LifespanCorrect, PTL

=============================================================================
