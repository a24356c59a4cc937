# Formal model of sigma-backend-universe

TLA+ specifications of the two programs of this repository, checked with TLC; every
safety property of theirs that holds is proved with TLAPS as well:

- **food-delivery-stream**: a FastAPI order service over PostgreSQL, Redis and
  Kafka, with a sample payment consumer;
- **redis-practice**: a FastAPI endpoint that caches a third-party API in Redis.

`PROJECT.json` lists the components, the runs, the source lines each definition
stands for, the hazards and the theorems. Paths below are relative to
`src/food-delivery-stream/src/app/` unless they begin with `redis-practice/`.

## 1. Inventory

| Component | State it keeps | Operations | Talks to |
|---|---|---|---|
| Order placement (`services/orders/order_service.py`) | none of its own: a coroutine per POST, a key `idempotency:<key>` in Redis, rows in PostgreSQL | `place_order`: lock, persist, dispatch, janitor | Redis, session, producer |
| Repository and schema (`repositories/orders`, `models/orders`) | orders with a version, items, status history; unique `idempotency_key`, CHECKs, ON DELETE CASCADE | `create_order`, `add_items`, `add_order_adjustments`, `record_status_transition`, `get_by_idempotency_key` | PostgreSQL |
| Generic repository (`repositories/base.py`) | the session's identity map, an open transaction | create, update, delete (the last two have no caller yet) | PostgreSQL |
| Validation (`schemas/orders/order_create.py`) | - | discount and total checks on exact decimals, the answer to a rejection | exception handlers |
| Redis manager (`infrastructure/redis/redis.py`) | client, pool | connect, disconnect, check_health | Redis |
| Kafka producer (`infrastructure/kafka/producer.py`) | the library's bounded buffer, queue of delivery reports, module singleton | publish, flush, delivery callbacks | broker, through a thread of the library |
| Payment consumer (`infrastructure/kafka/consumer.py`) | position in the partition; the group's offset is the broker's | poll, handle, commit, close | broker and group coordinator |
| Lifespan (`core/lifespan.py`, `core/lifecycle/`) | three flags | start Redis, database, Kafka; stop them in reverse | the module-level managers |
| Exception handlers (`exceptions/`) | - | exception to JSON response | - |
| Engine and session (`infrastructure/database/`) | connection pool | one session and one transaction a request | PostgreSQL |
| Migrations | revision and objects of the schema, the rows that live through it | four linear upgrades and downgrades, one transaction per command | PostgreSQL, under a service of any release |
| Topic names (`settings/kafka.py`, order_service.py:121) | - | where the service publishes, where a worker listens | broker |
| redis-practice endpoint (`redis-practice/app/main.py`, `cache.py`) | one Redis key with a TTL | get, fetch, set | Redis, third-party API |
| Logger, tracing, middleware, settings, health | - | observability and wiring | - |

Where they meet: the requests of one process share an event loop, a Redis pool and
a Kafka producer; the requests of all processes share the Redis key, the unique
index and the partition. `publish` and `flush` are synchronous and block the loop.

What is hard here, and what the properties are for:

- the Redis lock is a key that anyone's janitor deletes and a TTL removes, while
  the client library silently repeats commands whose answer was lost;
- Redis, the database and Kafka fail one at a time between the steps of a request,
  some of them with the outcome unknown, and the janitor guesses;
- Redis restarts from a minute-old snapshot; a worker dies with a marker set, a
  transaction open or an event buffered;
- the producer's buffer fills up, a broker comes back late or never;
- consumers lose the partition between handling and committing;
- units of work load, change, delete and add to one order around each other, some
  through the ORM's version column and some past it;
- a migration command fails in the middle, under rows of an earlier release;
- exact decimals meet two-digit columns;
- startup and shutdown fail half way, over globals that outlive them.

What makes each component correct:

| Component | Correct when |
|---|---|
| Order placement | one order per key under any failure; no answer names an order that does not exist; every request is answered; the key becomes usable again |
| Redis lock | while Redis is reliable: mutual exclusion per key, no marker without a holder, a 201 is remembered |
| Repository | an order is there with its children or not at all; one deleter; no flush over data the session has not seen |
| Producer | no duplicate, no reordering, no gap but for what was given up, truthful exceptions, no call that blocks for ever |
| Consumer | no event skipped, redelivery only after a failure and at most one per failure, offsets only forward |
| Pipeline | a payment has one committed order behind it; an order is paid for, or for a reason that can be named |
| Validation | what it accepts is stored, but for less than half a cent; stored amounts add up within a stated drift; what it rejects is the client's fault |
| Migrations | the objects are those of the recorded revision; data goes with the downgrade that drops it and by nothing else |
| Lifespan | requests meet three started services; what was started is stopped whatever raises |
| Cache | only data fetched whole is served; Redis never fails a request; no request waits for another's call |

## 2. Modules

| Module | Models | Checked by |
|---|---|---|
| `IdempotentOrders` | the promise of `POST /api/v1/orders`, with everything the service does to keep it left out | refined by `OrderService` |
| `OrderService` | `place_order` of any number of requests, with Redis, the database and the producer's buffer | `MCOrderService` and five configurations |
| `OrderSource` | what one process of the service is to those behind it: it commits, publishes and dies | implemented by `OrderService` (`OrderSourceProofs`), a part of `OrderPipeline` |
| `OrderRepository` | the repository's operations on one order, by concurrent transactions | `OrderRepository.cfg` |
| `EventChannel` | the promise of the producer and its broker to whoever publishes and reads | refined by `KafkaProducer`, used by `OrderPipeline` |
| `KafkaProducer` | `publish` and `flush`, the library's buffer and thread, the partition | `KafkaProducer.cfg` |
| `PaymentConsumer` | `start_listening` in a consumer group | within `OrderPipeline` |
| `OrderPipeline` | the service that commits and publishes, over `EventChannel`, composed with `PaymentConsumer` | `OrderPipeline.cfg` |
| `OrderValidation` | the DTO's arithmetic, the answer to a rejection, Numeric(10, 2) and the CHECKs | `OrderValidation.cfg`, `OrderValidationAnswer.cfg` |
| `Lifespan` | startup and shutdown over module globals | within `Deployment` |
| `Migrations` | `alembic upgrade` and `downgrade`, and the rows that live through them | within `Deployment` |
| `Deployment` | a service of `Lifespan` over a schema of `Migrations` | `MCDeployment`, `Deployment.cfg` |
| `CacheAside` | redis-practice's endpoint | `CacheAside.cfg` |
| `...Proofs` | theorems about `OrderService`, `OrderRepository`, `KafkaProducer`, `OrderPipeline` (with `PaymentConsumer`), `OrderValidation`, `Deployment` (with `Lifespan` and `Migrations`) and `CacheAside` | tlapm |

How they compose: `OrderService` says how an order comes to be committed and its
event published, and each of its processes implements `OrderSource`; `KafkaProducer`
implements `EventChannel`; `OrderPipeline` joins the two abstractions, which is proved,
and adds the workers. To the orders of one process, the events of the others are those
of another program (`Foreign`). `Deployment` puts the lifespan of the service beside the commands that
change the schema under it.

Definitions named `Bug...`, and `OtherFits`, are not part of a model. Each is a
plausible change, mostly a mistake, of the definition that follows it, kept to show
that the properties would notice: `PROJECT.json` pairs each property of a passing run with one of them.

### OrderService

One request is one coroutine, cut where it awaits. `pc[r]` names the operation it
is about to perform; between two operations every other request, the expiry of a
key, a Redis restart or a crash may intervene.

| `pc` | Code | Next |
|---|---|---|
| `lock` | `SET key PROCESSING NX EX 300` (order_service.py:72) | `insert`, or `peek` when not new |
| `peek` | `GET key` and the 409 (:74) | answered |
| `insert` | the flush of `create_order`: waits for an open transaction of the same key, then conflicts or not | `commit`, or `jdel` |
| `commit` | items, history and COMMIT (:98-109) | `publish`, or `jdel` |
| `publish` | `publish` and `flush(1.0)`, which are synchronous and so one step (:120-133) | `finalize` |
| `finalize` | `SETEX key 86400 id` (:137) and the 201 | answered |
| `jdel` | the janitor's `DELETE key` (:143) | by exception: `jget`, or a 500 |
| `jget` | `get_by_idempotency_key` (:147) | `jset`, or a 500 |
| `jset` | `SETEX` of the order found and its 409 (:149-171) | answered |

`err[r]` is the class of exception the janitor was called with, `found[r]` its
`existing`, `tries[r]` the repetitions the Redis client has used up for the current
command (`Retry(backoff, 3)`, redis.py:29-42). An attempt that fails may or may not
have been run by Redis, and a repetition runs it again: this is how a request meets
its own marker. A command that needs a connection when the pool is empty raises
without repetition. `redis` and `snapshot` hold the value per key in memory and in
the RDB file. The value of a key is `Absent`, `Processing` or an order id. An order
is identified with the request that stored it, since every INSERT draws a fresh id
and number and a request inserts at most once.

The failures are switched by constants, so that a run, or a theorem, says which of
them it allows. `Unstorable` requests are those whose total passes the DTO and
fails a CHECK; `OrderValidation` says which these are. The guards `if not redis_key`
are dead code, since the DTO requires a key, and are not modelled.

`KeepsPromise` is `IdempotentOrders!Spec` under the mapping that calls an event
published once it has entered the producer's buffer; `orders` and `reply` map to
themselves.

### OrderRepository

A unit of work is one `AsyncSession` with its transaction, as `get_db` makes it
(`autoflush=False`, commit or roll back at the end). `loaded[u]` is the order in the
session's identity map, `dirty[u]` and `added[u]` what waits for a flush, `draft[u]`
the row as its transaction has written it, `row` the row as committed and `children`
the units whose items or history it has. PostgreSQL runs READ COMMITTED: `Free` is
the row lock, `Current` what a statement then finds. The data of a row is told apart
by `writer` and `how`.

| Action | Code |
|---|---|
| `Create`, `CreateConflict` | `create_order` and `BaseRepository.create`: add, flush, refresh; the unique key |
| `AddFirst`, `Add` | `add_items`, `add_order_adjustments`, `record_status_transition`: add without a flush |
| `Load` | `get_by_idempotency_key`, which does not refresh what the session has |
| `Modify`, `Flush`, `FlushStale` | an assignment to an attribute, and the UPDATE with `version_id_col` |
| `Update` | `BaseRepository.update`: UPDATE ... RETURNING, which leaves the version alone |
| `Delete` | `BaseRepository.delete`: DELETE ... RETURNING |
| `Commit`, `CommitRefused`, `Fail` | the end of `get_db`, with the foreign key of the children and ON DELETE CASCADE |

`update` and `delete` are reached by no endpoint yet. The module says what they do
when a service calls them beside the others: `NoBlindOverwrite` holds for
flushes, and has to except what `update` wrote.

### EventChannel and KafkaProducer

In `KafkaProducer`, `step` is where the synchronous call stands, `queue` and
`reports` the two halves of the library's buffer: a message counts against `Capacity`
until its delivery report is served, which happens only in `poll` and `flush`.
`Send`, `Deliver` and `GiveUp` are the library's thread; `log` is the partition.
`accepted` is a history variable: the order in which `produce` took messages. With
idempotence on, the broker recognises what it has, and no message is stored before
an earlier one that is still in the queue.

`EventChannel` is the promise without buffers, reports, resends and blocking calls:
an event is taken or refused; a taken one enters the stream at most once, behind the
earlier ones; one that was given up, or went with its process, enters no more.
`ImplementsChannel` maps `stream` to `log`.

### PaymentConsumer and OrderPipeline

The members of one group over one partition. `position[c]` is what `commit()`
without arguments would commit; it moves in `poll`, before the event is handled. The
coordinator gives the partition to one member at a time and refuses the commit of
any other. `handled[i]` counts how often the event at `i` reached the business logic.
An event that is not a JSON object (`Undecodable`) ends the loop, and so does a poll
of a topic that does not exist yet (`NoTopic`).

`OrderPipeline` puts the service in front: `Place` commits an order, `Publish` hands
its event to the channel or is refused, `Arrive` appends it to the partition. The
service publishes to `order-created`, a literal; the worker listens to
`KAFKA_ORDER_TOPIC`, which `subscribed` holds: that name, or the default
`order-events`. Other programs may write to the worker's topic.

### OrderValidation

Amounts are integers in mills, tenths of a cent; `Rounded` is what Numeric(10, 2)
does. `Init` ranges over all orders of the configured amounts; an order is
validated, then stored, refused by a CHECK or too large for its column. `Store`
evaluates the order's row before its items, as the flush does. `Errors` are the
entries of `exc.errors()`, of which the handler can encode the `Printable` ones.

### Lifespan, Migrations and Deployment

In `Lifespan`, `at` walks `Order` up during startup and down during the `finally`
clause. `held` is what the module globals hold and so survives the lifespan;
`left` are services of which a start or stop that failed has left something: a
connection on which `SELECT 1` failed, one that `dispose()` could not close, or, when the
task is cancelled, the client whose ping had no answer yet (redis.py:49 resets it after
a RedisError only) and what the `finally` clause did not reach (a CancelledError is no
Exception). `disconnect()` only forgets the client and its pool: `aclose()` neither
closes a pool that the client was handed nor raises, and those connections, like `_pool`
after a failed ping, which the next `connect()` replaces, are not part of `held`.
A process may run the lifespan again, as an application under test does
(redis-practice's end-to-end test enters its lifespan this way), or die and be
restarted (`restart: always`).

In `Migrations`, `schema` is the recorded revision and the objects there are,
`command` the transaction of the command at work with the schema and the rows as it
has made them so far. `Made[n]` is what revision n creates; the first also creates
the enum type `orderstatus`, which no downgrade drops. `keyed` are the rows with an
idempotency key. `Foreign` are orders of an early release whose product ids are no
UUIDs, on which the cast of the fourth revision fails.

`Deployment` composes the two. They touch in one place only, `Post`: startup asks
for `SELECT 1` and not for the revision, and nothing runs alembic by itself.

### CacheAside

`pc` is what the handler awaits: the GET, the API or the SETEX. A command without
a free connection raises at once, which `RedisCache` turns into a miss or a
log line. `hung` are the requests whose call never returns (`Hang`): the Redis client
has no socket timeout, and the five seconds of httpx are for each operation and not for
the call. A hung command keeps its connection. What a request fetches is identified with the request. `Garbage` stands
for what `RedisCache.get` turns into None and for `{}`, `Misshapen` for an object
that reaches `model_validate` and fails.

## 3. Runs and what they show

| Run | Instance | Shows |
|---|---|---|
| `order_service` | 3 requests of one key, 2 workers, every failure; about a million states | types, `OneOrderPerKey`, `MarkerTruthful`, and that the service implements the promise |
| `order_reliable` | 4 requests, 2 keys, one unstorable; database, Kafka and workers fail, Redis does not | `LockExclusion`, `MarkerHasHolder`, `CreatedIsRemembered` |
| `order_live` | 2 requests of one key, every failure, fairness | every request is answered or its worker died; a marker always goes away |
| `order_guard` | only Redis commands fail | violation of `LockExclusion`: the janitor deletes someone else's lock |
| `order_conflict` | only the database fails | violation of `ConflictMeansOrder`: a 409 for nothing |
| `order_repository` | 3 units of work, 4 versions; 140,000 states | an order is whole, one deleter, no flush over unseen data |
| `kafka_producer` | 4 messages, capacity 2, failing broker, crashes | order kept, only what was given up is missing, calls return, and the channel's promise |
| `order_pipeline` | 2 orders, one unreadable event, 2 members, 2 failures, service crashes, either topic; 240,000 states | no skipped event, bounded redelivery, offsets only forward, payments match orders, and every order settles |
| `order_validation` | orders of 1 or 2 items around the boundaries | which accepted order is refused, how far stored amounts drift |
| `order_rejected` | a few of these amounts | violation of `RejectedIs422`: a rule's error is answered with a 500 |
| `deployment` | 3 orders, two of one key, one `Foreign`; every command, every failure; 115,000 states, deadlock checked | ready when serving, everything stopped at the end, never stuck; schema and data survive failed commands; the stranded schema |
| `cache_aside` | 3 requests, 2 connections, every failure, calls that never return; 3,400 states | only fetched data, Redis optional, and who waits for ever waits on a call of its own |

`CHECK_DEADLOCK FALSE` is set where the system really ends: all requests answered,
all units committed or rolled back, all consumers stopped, an order stored or
refused.

### Bounds

- *Requests.* Two requests of a key make every pairwise race; the third is needed
  for the lock's weak point (one holds, one deletes, one enters) and for a retry that
  meets the leftovers of two others. A second key shows that keys do not interfere;
  nothing in the code relates more than one key. The theorems lift the bound.
- *Workers.* Two: requests of a process that dies, and one that survives it.
- *`Retries`* is 1 where the code says 3: a repetition changes nothing but Redis, and
  whether there are one or three of them only matters to how often the command runs.
- *Units of work.* Three: one that creates, and two that race after it. `MaxVersion` 4
  leaves room for a flush of each and one more; the theorems lift both.
- *Capacity* 2 with four messages: the buffer is full, drains in part and fills
  again. The theorems lift both.
- *Pipeline.* `MaxEvents` and `MaxFaults` cap the log and the failures of the group:
  two orders and a foreign event in every order, one failure while another is being
  recovered from; two members are one that lost the partition and one that has it.
  The theorems lift the bounds for every safety property.
- *Orders of `Deployment`.* Two of one key, which meet when the column of the keys has
  been dropped and made again, and one of an early release.
- *Amounts* lie around half a cent (2, 4, 5 mills), a cent, the tolerance (10 and 11
  mills, and 30 beyond it), below zero, and the column's limit, which is lowered to 38
  cents. The theorems lift all of it: any amounts, any number of items, any limit.

### Fairness

Liveness is checked with weak fairness of what the code or its timeouts drive: a
coroutine that can go on does, a Redis command returns or raises (socket timeout and
a finite number of repetitions), the database answers or fails, Redis expires the
marker of a lock, `poll` and `flush` return (both have timeouts), a call of startup or
shutdown returns unless it fails, a consumer loop runs, a coordinator evicts the dead
and assigns a free partition. In the pipeline a process that committed an order
publishes it unless it dies, and the library settles what it took, at the latest by
its message timeout. Nothing is assumed of clients, of operators, of who restarts a
stopped consumer, or that failures stop: `EveryOrderSettles` asks instead that one
worker stays from some time on.

Two of these are not bounded by a timeout of the code and are assumptions about the
database: `engine.py` sets none for a statement, and none for `SELECT 1` and `dispose()`
in the lifespan. In redis-practice nothing is assumed of Redis or the API. Fairness there
is the event loop's alone, calls that never return are a step of the model, and
`EveryRequestAnswered` promises an answer to the requests that make none of them: it
rests on the pool, which raises when hung commands have used it up and does not wait.

## 4. Disagreements with the documentation

Three are violations that a run finds:

1. `_acquire_idempotency_lock` "Guards against concurrent duplicate requests": the
   janitor deletes the key without owning it (`order_guard`). One failed Redis command
   is enough for two requests of a key to be at work together. The unique index keeps
   the order single; the lock is an optimisation and not the guard.
2. "Order already processed or in progress": between SET NX and GET the holder can
   fail, and the duplicate is refused with `order_id: null` although there is nothing
   (`order_conflict`).
3. "Validation: Handled by Pydantic & RequestValidationError handler": an error of a
   model's rule or of an amount's bound cannot be encoded as JSON, and the client gets
   a 500 for its own mistake (`order_rejected`).

Three are the reason why a property that holds reads as it does:

4. "this will create the table if not present" (SETUP_GUIDE.md:82): not after a
   downgrade to base, which leaves the enum type behind. `Stranded` states that no
   command then creates the tables again.
5. "Events: Kafka message published upon success" and "zero data loss": an event that
   Kafka refuses or loses after the commit is logged and forgotten; there is no outbox.
   `EveryOrderSettles` counts this among the ways an order may end, and fails
   without its `NotDelivered`.
6. "Listens for 'OrderCreated' events": with the default settings the worker's topic is
   not the one the service publishes to. `EveryOrderSettles` has to except that too.

Not disagreements, but worth knowing: stored totals and subtotals agree only within
a cent plus half a cent per rounding (`StoredAddsUp`); an order below half a cent
fails with a 500 on every retry (`RefusedIsTiny`); a Redis client whose ping was cancelled,
or whose shutdown was, is taken for connected by the next `connect()` of the process
(`PulseChecked`); an unreadable
event stops every worker that meets it, and all that is behind it (`Blocked`);
`BaseRepository.update` does not raise the version, so that a later flush may
overwrite what it wrote (`NoBlindOverwrite`).

## 5. Proofs

The theorems hold for every value of the constants that satisfies the named
assumptions of the modules. These only say that special values differ from data, and
that bounds are natural numbers, a capacity or a column's limit not being zero. Every
safety invariant and every action property of the passing runs is the statement of a
theorem.

### OrderServiceProofs

For every set of requests, keys and workers and every `Retries`:

- `TypeCorrect`, `OneOrder`, `MarkersTruthful` and `Implements`, with **every
  failure allowed**;
- `AnswersStayTrue`, from the refinement: what a client was told and what a consumer
  reads is true at any later time, and one request of a key at most was told 201;
- `BoundedWork`: the safety half of `EveryRequestAnswered`. `Work(r)`, a natural number
  of steps that r may still make, becomes less in each of its steps;
- `Exclusion`, `NoOrphanMarker` and `Remembered`, under `Reliable`: no Redis failure,
  no Redis restart, no expiry. The runs `order_guard` (and the failures allowed in
  `order_service`) show that these need the assumption;
- `ConflictsAreTrue`, under `Steady`: no failing Redis command, transaction, worker or
  CHECK. It is the other half of the violation `order_conflict`, and says when "already
  processed or in progress" is true: Redis may restart from any snapshot or expire keys
  early, and Kafka may fail. Dropping any of the four assumptions makes TLC find a
  counterexample in the instance of that run with three requests.

*First invariant.* `OneOrderPerKey` is not inductive by itself: a COMMIT adds an order
without looking. `IInv` adds `CommitAlone` (an open transaction holds its key, alone,
and no order of the key is stored), which `Insert` establishes and the wait for a
contended key preserves; `PostCommit` and `FoundTruthful` (whoever will write an id
into Redis, or name one, has seen it committed), which make `MarkerTruthful`
inductive across SETEX, expiry, save and restart; `Unanswered` and `EventTruthful`, which
the refinement needs: a reply is given once, an event follows its order and is sent once.

*Second invariant.* `LockInv` adds that holders exclude each other, the janitor of the
lock's owner included (`HolderExclusion`), that a holder's key is taken
(`HolderMarks`), and that a 201 leaves nobody at work on its key (`CreatedAlone`).
Here the janitor's DELETE is harmless: without Redis failures only a holder runs it.

*Third invariant.* `BackedInv` says of a marker, in memory or in the RDB file, and of a
duplicate on its way to the GET, that an order of the key is stored or a request at work
on one (`Backed`). `BackedStays`: while nothing fails, such a request commits or meets an
order that was faster. It needs nothing of the lock.

*Shape.* One lemma per preservation result (`TypeStep`, `SafetyStep`, `Refinement`,
`LockStep`), one step per action in it, and lemmas for what actions share
(`WrittenType`, `MarkerStep`, `PayloadTruthful`, `RespondRefines`, `QuietStep`,
`RefusalStep`).

### OrderSourceProofs

`ServiceIsSource`: each process of `OrderService`, with every failure allowed and for all
requests, keys and workers, is an `OrderSource`. With `ServiceIsComposed` and
`ProducerImplementsChannel` this is the chain from the POST to the payment. The mapping
(`Fate`) calls an event refused when its request is over and no earlier, because a
COMMIT whose answer was lost leaves an order that is never published, and the request
goes from there through the janitor.

### KafkaProducerProofs

For any messages and capacity: `BufferBounded`, `PartitionInOrder`,
`GapsAreLosses`, and `ProducerImplementsChannel`. `InOrder` needs to know what may
still be sent: `ProducerInv` says that the buffer holds what was taken and is not settled,
in that order (`Buffered`), and that what is not in the partition yet goes behind
everything that is (`Sent`). So an event that is missing in front of a later one is not in
the buffer any more, and as what was confirmed is in the partition (`DeliveredIsStored`,
which the acknowledgement itself gives) it has been given up. The refinement follows from the same invariant, one step of the channel per
action; a process that dies takes its buffer and the call it is in (`AbandonRefines`).

### OrderPipelineProofs

For any group, number of events and failures, and any orders. `GroupInv` says that
the owner reads from where the group is and commits what it has handled (`Owning`);
a fenced member may be anywhere. It yields `CommittedWasHandled` and, as an action
property, `CommitsMoveForward`. `PipelineConsumes` shows that the pipeline is a
behaviour of `PaymentConsumer`, so that these hold in it without another
induction. `PipelineUsesChannel` does the same for the other side, and
`ServiceIsComposed` says that the service half is `OrderSource` and `EventChannel`, hand
in hand, and nothing else: each of its steps is a joint step of theirs, and each joint
step one of its own. `EventsMatchOrders` says that each event of an
order in the worker's partition is of a committed order and that there is one of it.

`Redelivery` counts, without a sum over the log: the handlings of events form a set of
pairs (offset, how many times), `Again` those beyond the first. Each failure of a member
leaves one debt at most: the event at the group's offset, handled and not to be committed
by the owner, or a member at work on an event that is no longer its own (`Owed`). Each
repetition settles one. `DebtInv`: repetitions and debts together are no more than the
failures there have been. `InFront` supports it: nothing beyond the group's offset has
been handled, and no member handles anything there. `PaymentsCorrect` joins the two: one event per order, and
its payments are the first handling and those again.

### OrderValidationProofs

For orders of any length, any amounts and any limit of the columns: `Typed`,
`RefusedTiny`, `StoredSum`, `Exact`, and `ValidationCorrect` behind them. The module has
two sources of difficulty. Rounding: `Rounded...` bound what Numeric(10, 2) adds or
takes and say when it takes nothing. The sum over the items: `TotalOf` is a recursive
function, of which `SumsExist` shows that there is one and `TotalIs` its equations;
`TotalsClose` then compares two sums whose items are close, on their partial sums. An
induction theorem takes its predicate as an operator; `Induction` is here derived
for a set of numbers from the well-foundedness of Nat, whose least element outside
the set cannot be.

In this module parentheses after UNION are not for taste: `UNION a \cup b` is read
one way by SANY and TLC and another by tlapm.

### OrderRepositoryProofs

For any number of units and versions: `RowsTyped`, `RowsWhole`, `OneDeleter`,
`NoLostFlush`. `RowInv` adds that one unit at most has written the order
(`Writing`), that one which wrote a living order commits it with children (`Whole`),
and what a deleter has done (`Deleted`). `VersionInv` adds what optimistic locking
rests on: an INSERT or a flush raises the version over the committed one (`Raised`),
and what a session has loaded is not newer than what it would find, and the same when
the versions agree, unless `update` has been there (`Loaded`).

### DeploymentProofs and CacheAsideProofs

`SchemaInv` says of the command at work what is said of the schema, and what it has
dropped so far: `SchemaMatches`, `StaysStranded` and `DataKept` follow for any orders,
keys and releases. `KeyInv` adds that a key never outlives its row or its column, in the
database and in the command's transaction: `DeploymentTyped`. `LifespanInv` says of each
phase which services the run has started, which it has checked and which globals are
left of earlier runs; `Ready`, `Stopped` and `Checked` follow, next to any schema.

`CacheInv` adds to `OnlyFetchedData` that a request has no answer before it is done:
`OnlyFetched` and `RedisOptional`, for any number of requests and connections. For
`PoolBounded`, the requests that hold a connection, the hung ones included, are a finite
set even where the requests are not (`Pooled`).

### Model-checked only

Liveness: `EveryRequestAnswered` (of both programs), `MarkerClears`, `CallReturns`,
`EveryOrderSettles`, `NeverHalfway`. Fairness and ENABLED are out of the prover's reach;
of the first, `BoundedWork` is proved. And the violations, which are counterexamples.

## 6. Not modelled, and why

- Logging, tracing, settings other than the topic, CORS, health: no state the
  components read.
- `check_health` and redis-practice's `delete` and `exists`: no caller, or one whose
  answer is constant.
- The order assignment: only its exceptions exist.
- The connection pools of the database and of Redis, in the order service: an
  exhausted pool is one of the failures any command may meet.
- What happens to a hung request of redis-practice later: a connection that breaks in the
  end is a late failure, and the client that goes away is not watched for.
- Cancellation of a request: `except Exception` does not see a CancelledError, so that
  no janitor runs and the request leaves what a crash of its worker would leave.
- A Redis command that runs after the client has given it up: the model runs it at the
  latest in the step in which the client's last attempt fails.
- Migrations in offline mode, which print SQL.
- Formats and lengths of strings, the missing maximum length of the idempotency key
  included (a hazard without a property).

## 7. Plan

What is left:

1. The repository's and the service's view of an order joined: `OrderService` takes the
   transaction of `create_order` as two steps, `OrderRepository` says what they are made
   of.
2. Counting arguments like `BoundedWork` for the calls of the producer and for startup
   and shutdown, the safety halves of `CallReturns` and `NeverHalfway`.
