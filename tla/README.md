# Verification of the saga, its hub, the cells, their replication and routing

TLA+ models of this repository's `saga-hub`, `cell-pedidos`, `cell-estoque`,
`cell-notificacoes`, `data-sync` and `shard-router` (with Kafka, PostgreSQL, Redis,
Debezium and gobreaker as the code uses them), the TLC runs that check them and the TLAPS
proofs about them. File and line
numbers are those of the repository; `PROJECT.json` gives the lines each definition
models, the runs, and the list of hazards.

## 1. The system

A client posts an order to `saga-hub`. The hub inserts a row in `sagas`, publishes
`criar_pedido`, and from then on reacts to replies: order created → reserve stock →
notify → COMPLETED. A refused reservation starts the compensation: cancel the order →
release the stock → FAILED, and a notice to the client. Commands and replies travel by
Kafka. Cells are deployed per shard (three of them), an active and a passive one each;
the passive database is fed from the active one by Debezium and `data-sync`. The
`shard-router` sends the clients' HTTP requests to the active cell of their shard and
fails over to the passive one.

| Component | State it keeps | Operations | What makes it correct |
|---|---|---|---|
| saga-hub, orchestrator (`orchestrator/pedido.go`) | the row of each saga | `Start`, five reply handlers, each read row → save → event → command, most errors only logged | a saga ends for a reason; the compensation runs to its end, the order's cancellation included; what is announced agrees with the row |
| saga-hub, consumer, producer, store (`infra/`) | position and committed offset per partition | read, handle, commit; publish; find, save | no committed reply is unhandled; every saga settles; what is lost of one saga does not hold up another |
| cell-pedidos, orders (`infra/db/store.go`, `api/handlers.go`) | table `pedidos`, Redis entries, idempotency keys, a breaker | create, read, list, cancel, delete a client's data; each database call through the breaker, saves through `Retry` | what is answered is stored; deleted data is read no more; pages miss nothing |
| cell-estoque, store (`infra/db/store.go`, `cmd/main.go`) | table `produtos`, Redis entries | `ReservarItens`, `LiberarItens`, `BuscarPorID`, `Salvar`, `repor` | orders move the stock whole; it never goes below zero; transactions end |
| the cells' command loops (`infra/messaging/kafka.go` of each, `cmd/main.go`) | position, committed offset, failure counts | read, process, reply, dead-letter, commit; cell-notificacoes replies from inside `processCommand` and does not commit failures | every command is answered or dead-lettered, and none before its time |
| data-sync (`infra/applier.go`) | offsets; the passive tables; a breaker | apply an insert, update or delete, three attempts each | the passive copy converges to the active one |
| shard-router (`infra/registry.go`, `watcher.go`, `api/handlers.go`) | health per cell, probes in progress, a breaker per PBC | route, probe, fail over, proxy | the registry comes to know who is up; what fails in one PBC leaves the others alone; breakers close again |
| shared resilience (`breaker.go`, `retry.go`, `bulkhead.go`) | breaker counts, slots | execute | a failing dependency is given up and tried again |

How they interact: the hub and the cells by messages only (six reply topics, one command
topic per command type, three partitions each, keyed by the saga's correlation id);
replicas of a component share its database and its consumer group; HTTP handlers and
command consumers of a cell share its tables and its cache; data-sync reads what
PostgreSQL logged.

The hard behaviours:

- **Effects without a transaction.** A handler saves, publishes an event and publishes a
  command, and can stop, or fail silently, between any two.
- **Published is queued.** `Produce` puts a message into the producer's queue and returns.
  Nothing waits for its delivery, while the offset of the message that called for it is
  committed at once, by another client: a process that dies, or a delivery that fails,
  loses the queued message for good.
- **Applied but unheard.** A `tx.Commit` may return an error after PostgreSQL applied the
  transaction, and is answered as a refusal.
- **At-least-once in one place, at-most-once in another.** An offset is committed only
  after a handler succeeds; but a handler that *fails* is not retried: the consumer reads
  on, and the next commit of the partition covers the failed reply.
- **Repetition and reordering.** Replies of different steps come from different topics;
  every reply may be handled again; the handlers keep no record of what they published.
- **Stale reads.** The row is read at the start of a handler and written whole at its
  end; after a rebalance the old owner's handler runs beside the new one's.
- **Fan-out.** Every shard's active cell consumes the shared command topics in a group of
  its own, and no cell looks at `shard_id`.
- **Row locks taken in payload order**, by concurrent reservations and releases.
- **A cache beside the table** that is not invalidated by the transactions, and that a
  slow reader fills with what was overwritten meanwhile.
- **Calls whose result is late.** A breaker must ignore the result of a call it let
  through before it opened; a probe answered from before a crash must not stay; a save
  that failed may have written its row.
- **Check, then act.** The idempotency key is looked up before the order exists and
  stored after it was saved.
- **Replay.** After a restart data-sync applies changes again that the passive copy is
  long past, and has no version to compare.

## 2. Modules and how they correspond to the code

| Module | Models | State ↔ code |
|---|---|---|
| `SagaHandlers` | what a handler of `pedido.go` decides: for a row and a reply, the `Effect` (row to save, event, command, whether a publish error is returned), and what a cell can answer to a payload | no variables |
| `SagaProtocol` | **abstract**: replies and commands as sets of all ever published, so any message can be handled late, never, again, or out of order; each of a handler's effects may be skipped; any number of replicas | `sagas` the table, `handling` the reply and row a replica's handler works with |
| `SagaHub` | the hub's loop on Kafka: topics as logs, producers that only queue, position and committed offset, crash, rebalance, every error path; the cells' loops at the other end | `commandLog`, `replyLog`, `position`, `committed`, `owner` ↔ `consumer.go`; `pc`, `task` ↔ a running handler; `starting` ↔ `Start` between its save and its publish; `cellPosition`, `cellCommitted` ↔ the cells' `kafka.go`; `handled`, `disturbed`, `lost` history |
| `EstoqueOrders` | products, orders, and the `Demand` of an order | no variables |
| `StockLedger` | **abstract**: an order is reserved or released whole, at one moment, and reserved only if there is enough | `stock`, `held` |
| `EstoqueStore` | the store of cell-estoque: transactions statement by statement with their row locks, PostgreSQL's deadlock abort, the cache, `GET` and `repor` | `produtos` ↔ `quantidade_disponivel`; `tx` ↔ open transactions with uncommitted rows; `cache` ↔ Redis; `requests` ↔ a running `BuscarPorID`/`Salvar`; `held` (what each saga's committed reservations and releases come to) and `answers` history |
| `Breaker` | `resilience/breaker.go` (gobreaker with the code's settings) as a value | no variables; callers let through in the present period, so that older results are recognised |
| `PedidosListing` | `ListarPedidos` and `Listar`: the pages a client walks through | no variables |
| `PedidosStore` | the orders of a cell-pedidos: requests and saga commands as tasks whose calls to the database and to Redis are steps of their own | `rows` ↔ `pedidos`; `cache`, `idem` ↔ Redis; `breaker` ↔ the store's; `tasks` ↔ running requests and commands; `origin`, `fate`, `failed` history |
| `CommandConsumer` | the consumer loop of a cell, with failure counts and dead letter queue, by replicas of one group | `position`, `committed`, `owner` ↔ the group; `failCounts` ↔ `failCount` of each process; `task` ↔ the command at hand; `answered`, `dead`, `lost`, `failures` history |
| `ShardRouter` | registry, watcher and proxy | `healthy` ↔ `Cell.Healthy`; `probes` ↔ goroutines of `checkAll`; `breakers` ↔ `h.breakers`; `forwards` ↔ requests in `Proxy`; `up` the cells themselves |
| `DataSync` | the applier of one table | `cdc` ↔ the captured changes per row; `passive` ↔ the passive table by versions; `position`, `committed`, `current` ↔ the loop of `Run`; `stopping` ↔ its context; `routed` ↔ the pools and `isAllowedTable`; `identityFull` ↔ the table's REPLICA IDENTITY; `lost`, `failed` history |
| `*Proofs` | the theorems of the module they are named after | |
| `MC*` | values and bounds for TLC | |

`SagaHub` ⇒ `SagaProtocol` (`ImplementsProtocol`: sets of messages are the contents of
the logs, `handling` is `task`) and `EstoqueStore` ⇒ `StockLedger` (`ImplementsLedger`:
`stock` is the committed table, `held` the commits PostgreSQL applied, whatever the
consumer answered). Both are proved; with the first, what holds of `SagaProtocol` holds of
the hub (`HubFailsFounded`, `HubConfirmsFounded`, `HubCommandsFounded`).

`Breaker` is extended by `PedidosStore`, `DataSync` and `ShardRouter`, each with its own
callers; saga-hub's breakers and those of the two other cells show only as calls that
fail. `CommandConsumer` looks at one cell with everything its loop does, `SagaHub` at all
cells with what the hub can see of them.

Correspondence of the steps, for the reader with the code open:

- `Receive` is `ReadMessage` + `FindByCorrelationID`; `Save`, `PublishEvent`,
  `PublishCommand` are the calls of the handler in their order; `Commit` is
  `CommitMessage`, refused if the replica has lost the partition. Each has its failing
  twin: `ReceiveFails` (saga not found, bad database: the loop reads on without commit),
  `SaveFails` and `EventLost` (logged, the handler goes on), `PublishCommandFails`
  (returned to the loop by four handlers, logged by `onEstoqueLiberado`), `CommandLost`
  (`Produce` returned nil and the command never reached its topic), `CommitFails`.
- **The producers' queues.** Whether a message that `Produce` queued will ever reach its
  topic is decided when it is queued. One that will is appended to the log at once: a
  delay in the producer can only delay its readers, who may be late anyway. One that will
  not, since its delivery fails, or the process dies or closes without `Flush` while it
  waits, is not appended, and the handler goes on, to its commit and beyond, as if it
  were: `CommandLost` and `EventLost` of a handler, `StartPublishFails` of `Start`,
  `CellReplyDropped` of a cell. A later `HubCrash` or `CellCrash` then finds nothing in
  the queue; `FaultsAssumption` makes sure that where processes may crash, messages may be
  lost in this way. So "commit, then die with the command still queued" is `CommandLost`,
  `Commit`, `HubCrash`.
- `CellAnswers` is a cell's process → `PublishReply` → commit; `CellReplyLost`
  (`PublishReply` returns an error), `CellReplyDropped` (it does not, and the reply is lost
  after the commit) and `CellCommitFails` are its error paths, which differ in
  cell-notificacoes.
- `Begin`, `ReserveItem`/`Refuse`, `ReleaseItem`, `Commit`, `AbortError` are
  `ReservarItens` and `LiberarItens`: `SELECT … FOR UPDATE`, the check and the `UPDATE`
  of one item are one step because the lock is held between them. `CommitUnheard` is a
  `tx.Commit` that returns an error after PostgreSQL applied the transaction: the stock
  moves, and the answer is `refused` or `failed`. `ConsumerDies` ends a transaction with
  its replica, before there is an answer, committed or not; `SalvarUnheard` is the upsert
  of `Salvar` applied and reported as failed.
- In `PedidosStore`, `CriarPedido` ends with the lookup of its key and `Salvar` is one
  attempt of `Retry`: it may fail with the row written or not, which `AttemptFailed` hands
  to the breaker and to the next attempt. `Fill`, `Del` and `StoreIdempotency` are the
  calls to Redis, each of which may fail unnoticed, and so may the `Get` that
  `BuscarPedido`, `CriarPedido` and `CmdCancelarPedido` begin with (`Misses`); `Expire` and
  `ExpireKey` are Redis dropping an entry; `DeletarPorCliente` is one statement that leaves
  the cache as it is.
- In `CommandConsumer`, `Process` and `ProcessFails` are `processCommand`, the latter with
  `failCount`; `SendToDLQ` ignores the error of its `Produce`, so that the command goes to
  `dead` or to `lost` and is committed in either case. `PublishReply` may be refused (no
  commit) or lost after it was queued (commit); `CommitMessage` may fail, and is refused to
  a replica that lost the partitions.
- In `ShardRouter`, `Check` is one cell of `checkAll` that finds a slot, `SetHealthy` the
  end of its probe; `Proxy` is the choice of the cell and the breaker's admission,
  `ProxyReturns` and `ClientGone` what is reported to it.
- In `DataSync`, `Attempt` is one attempt of `Retry` through the breaker; it succeeds,
  fails with the row changed or not, or is refused. `Unrouted` is `apply` returning before
  any attempt, for want of a pool or an allowed table; an update without the row before
  (`Unidentified`) executes nothing and succeeds; `ContextDone`, and `NextAttempt` when
  `stopping`, are `Retry` seeing its context cancelled. `Stop` is the signal `main` waits
  for; `Run` works on until the process has ended, which is a `Restart`. `CommitMessage`
  follows whether the change was applied or given up; `lost` keeps why.

What data is abstracted: a payload is the set of its keys; a saga stands for its id and
its correlation id; ids, times, texts, the unread `shard_id` and the event bodies are
left out. Retry and circuit breaker around the database and Kafka show as success or
failure of the call.

## 3. Runs

| Run | Instance | Question | Outcome |
|---|---|---|---|
| `hub_faults` | 2 sagas, 1 replica, 1 shard, 1 fault of any kind but a rebalance's (which needs a second replica) | is a committed reply handled; is a saga dropped or left open that lost nothing itself; does the outside hear one story per saga, that agrees with the row? | `AtLeastOnce`, `NoSagaIsDropped`, `OneStory`, `AnnouncementMatchesRow`, `TerminalIsFinal`, `SagaSettles`, `CompensationReleases` hold |
| `hub_refines` | 1 saga, 2 replicas, up to 2 faults of every kind, rebalances included | is the detailed hub an implementation of the protocol; can stale reads, repetition, loss or reordering close a saga for no reason; what do commits of two owners cover? | `ImplementsProtocol`, `FailureIsFounded`, `ConfirmationIsFounded`, `CommandsAreFounded`, `AtLeastOnce`, `NoSagaIsDropped` hold |
| `estoque` | 2 products, 4 orders (opposite lock orders, a product named twice, a product not in the table), 2 consumers, 1 HTTP request at a time, 4 calls, 1 failure | do orders move the stock whole, heard or unheard; can it go below zero; do transactions end? | `ImplementsLedger`, `StockNeverNegative`, `TransactionsEnd` hold |
| `pedidos` | 2 orders of 2 clients, 1 idempotency key, 2 tasks, 4 calls, 1 fault, limits 1 and 2 | is what was answered stored; is the breaker right to refuse; do pages up to the maximal limit repeat or miss orders; is deleted data read no more in the end? | `AnsweredIsStored`, `RefusalsAreFounded`, `ListingIsSound`, `ErasureCompletes` hold |
| `cells` | pedidos or notificacoes: 2 replicas, 2 commands per topic, 2 faults | is every command answered or dead-lettered, dead-lettered only after three failures, and what does a commit cover? | `CommitsCoverAnswers`, `DeadLetterAtThree`, `CommittedNeverMovesBack`, `CommandsEnd` hold |
| `router` | 4 cells (2 shards, 2 PBCs, active and passive), 2 clients, 2 probe slots, 2 faults | do failures stay in their PBC; does a half-open breaker ever wait for nothing; does the registry converge? (deadlock checked) | `BulkheadHolds`, `HalfOpenDecides`, `HealthConverges` hold |
| `datasync` | 2 rows, 3 changes each, 3 faults, routed or not, with and without the row before an update | for what reasons are changes lost; is the passive copy ready once all is read, through replay; does it converge, but for what was lost? | `LossesAreFounded`, `ReadyWhenCaughtUp`, `PassiveConverges` hold |
| `fanout` | 2 shards, no fault | `OrderInOneShard` | **violated** |
| `save_lost` | 1 failed save | `CompensatedStaysFailed` | **violated** |
| `estoque_unguarded` | 1 consumer, no restock, no fault | `NoStockFromNothing` | **violated** |
| `order_kept` | 1 saga, no fault | `CompensationCancelsOrder` | **violated** |
| `pages` | 2 orders, limits up to one above the maximum, no fault | `CursorIfMore` | **violated** |

**Why the bounds are enough.** No handler looks at two sagas, so one saga shows what a
saga can do; `hub_faults` has two so that a commit for one covers a lost reply of the
other, and the other must still settle. Two replicas are needed, and suffice, for a stale
read. Two faults let one fault hit the recovery from another, such as a crash after a
commit that failed, or a message lost in a queue and its process dying; every kind occurs
in `hub_refines`. `MaxCalls = 4` is two reservations and two releases (or a restock) in
flight one after the other: with two consumers, a deadlock needs two orders, a refused
order and its release need two calls, and stale cache reads two more.

In `pedidos` two tasks suffice for every race of two calls, 4 calls for a creation, its
retry with the key, a read and a cancellation or deletion beside them. Three lookups that
find nothing open the breaker without a fault, and its refusals fail all three attempts
of a save in the fourth call; the one fault is a save that fails with or without its row
written, or a lost call to Redis. `ListingIsSound` is
evaluated in every state for every assignment of three creation times. In `cells` three
failures at one offset, each but the last followed by a redelivery, are needed for the dead
letter queue; a command that cannot be executed is no fault, so that the two faults are
those that bring it back, and with two topics the three failures need not be one command's.
Two offsets let a commit cover an earlier command. In `router` a breaker
needs three failures to open and is half-open for three successes: two clients report in
any order; two slots for four cells let a cell be skipped. In `datasync` three changes are
an insertion, an update and a deletion; three failures open the breaker, which then gives
up a change of the other row; calls that fail because the context is cancelled are no
faults of their own, and a process that was told to stop restarts without one more. In all
three, the theorems cover any bound.

Deadlock is not checked where a bound or the end of all sagas stops the model.

**Why some properties are stated only under some faults.** `OneStory`,
`AnnouncementMatchesRow` and `TerminalIsFinal` hang on a reply being handled at most
once: they hold whatever is lost, and not when a restart makes the hub handle a reply
again, since the handlers publish again (`HandledOnce`). Symmetrically `AtLeastOnce`,
`NoSagaIsDropped`, `SagaSettles` and `CompensationReleases` hold when messages are
repeated, and of a saga a message or save of which was lost they ask nothing (`lost`): a
reply whose handler failed is never retried, and what a producer has queued is lost with
it. The code has no mechanism that would give both, and no comment claims it; the
documents that claim the second are in section 6.

## 4. Fairness

`SagaHub!Fairness`: weak fairness of the steps of each hub and each cell, without their
faults. Both loops are `for { ReadMessage … }` with a poll timeout, running as long as
the process lives, and Kubernetes restarts it; a `Start` that saved runs on. Nothing is
assumed of clients, and faults, which are bounded, need not happen. One weak fairness
condition per hub, rather than per topic: the consumer takes messages from its
partitions in no promised order, and with finitely many messages that suffices.

`EstoqueStore!FairSpec`: weak fairness of `TxStep`: PostgreSQL goes on executing the
statements of an open transaction, and its deadlock detector ends a cycle of waits.
HTTP requests hold no lock between two steps, so that nothing is assumed of them.

`PedidosStore!FairSpec`: weak fairness of `TaskStep`, a request or command runs on, and of
`Expire` and `ExpireKey`: entries and keys are set with a time to live.
`CommandConsumer!FairSpec` and `DataSync!FairSpec`: weak fairness of `LoopStep`, the loop
of `Run` goes on; a process that dies is restarted. `DataSync` adds weak fairness of
`stopping /\ Restart`: a process that is told to stop does, and the Deployment of
`k8s/core/data-sync.yaml`, with one replica, starts it again.

`ShardRouter!FairSpec`: weak fairness of `SetHealthy`, since a probe has a timeout of two
seconds, and *strong* fairness of `Check`: a cell finds the semaphore full again and again
when others are probed first, but a tick starts with free slots every five seconds and
ranges over a Go map, whose order is random. With an order fixed for ever, weak fairness
would be all there is, and a registry of more cells than slots would never learn of some.
Nothing is assumed of clients, of cells or of breakers' timeouts.

## 5. Proofs

Checked by TLAPS, for every value of the constants that satisfies the assumptions named:

- `SagaProtocolProofs`: `TypeCorrect`, `FailureFounded`, `ConfirmationFounded`,
  `CommandsFounded`. These invariants are not inductive: they
  say nothing of the row a running handler read some time ago, nor of why a reply
  exists. `IInv` adds that every row *in a handler* is as founded as the table's
  (`RowFounded`), that every command has the replies that call for it
  (`CommandFounded`), every reply a command whose payload allows it (`ReplyFounded`),
  and every event its reason (`EventFounded`). Replies are never taken back, so all of
  it is stable when one is added (`FoundedIsStable`), and the heart of the proof is
  that whatever a handler does is founded on the reply and the row it holds
  (`EffectIsFounded`). Because the row it holds may be arbitrarily old, the argument
  covers every interleaving of replicas. Assumption: `PayloadsAssumption` (a client's
  payload is a set of keys the model knows).
- `SagaHubProofs`, all of it under every fault of the model: `TypeCorrect`;
  `HubImplementsProtocol`; `HubFailsFounded`, `HubConfirmsFounded` and
  `HubCommandsFounded`, which carry the protocol's three invariants over to the hub;
  `CommittedIsHandled`, that is `AtLeastOnce`; `HubDropsNoSaga`, that is
  `NoSagaIsDropped`; and `HubTellsOneStory`, `HubAnnouncesRows` and `HubKeepsTerminal`,
  that is `OneStory`, `AnnouncementMatchesRow` and `TerminalIsFinal`.
  - The refinement needs `Flow`: a saga that was inserted stays so, in the table and in
    the rows replicas hold, so that a late save does not undo the insertion; and a handler
    is at its save only if it has one. Each of the hub's steps then is one of the
    protocol's (`Refines…`), or a stutter where a fault only loses something.
  - Delivery needs that everything the owner read has come to its end (handled, or of a
    saga in `lost`) or is in its handler, and that its handler's offset belongs to its
    present assignment (`Delivery`): a replica gets partitions only between two handlers,
    and a commit of a former owner is refused.
  - `NoSagaIsDropped` is the safety half of `SagaSettles`: an open saga of which nothing
    is lost always has a command some cell has not read, a reply the owner has not read,
    or a handler that is still to save or to publish. `Traced` says that an interrupted
    handler's reply is at or after the committed offset and still where it was read from,
    `Reached` that cells are not ahead of their topics; whoever takes the last message of
    an open saga then has something to do for it (`OpenEffect`), or puts the saga among
    the lost. A former owner's stale row may reopen a finished saga, but with its own
    command still to be published. The property excludes crashes *together with*
    rebalances: a former owner that dies between its stale save and its command leaves the
    saga open for ever, which TLC finds with two replicas, one rebalance and one crash.
    The theorem assumes that there is a shard.
  - The three stories need to know that a saga is in one place at a time: in a running
    `Start`, in a handler, or in one message not yet read (`Token`). `Line` says so, and
    for each place which row, event and notices there can be (`Phase`); each action takes
    a token and leaves at most one (`Passes`). `OnePass` is what they assume: a single
    shard, and client payloads without a notice's type; and they speak of behaviours until
    a crash, a rebalance or a failing save (`HandledOnce`). Each of these breaks `OneStory`
    in an instance, and a second shard does so without any fault, since it executes every
    command again (`fanout`).

  Assumptions: `PayloadsAssumption`, `FaultsAssumption`.
- `EstoqueStoreProofs`: `TypeCorrect`, `NeverNegative`, `NoneWaitsInVain` and
  `RefinesLedger`, the refinement `ImplementsLedger`. What a commit writes comes
  from its transaction's uncommitted rows, what `Salvar` writes from a request, which
  may have it from the cache; `IInv` says of all of them that they hold naturals, and
  that a transaction's item counter stays within its order. For the refinement,
  `LedgerInv` adds that no row is held by two transactions (`RowsExclusive`) and that
  what a transaction sees is the table with exactly the items it has come to moved
  (`Follows`), and that `held` says how often each order was moved, although the others commit and `Salvar` writes in the meantime: a
  transaction's rows are written by nobody else, and of the other rows it has moved
  nothing. When PostgreSQL applies its commit, be it heard (`Commit`) or not
  (`CommitUnheard`, `ConsumerDies`), it has come to all items, which is the `Demand` of the
  order (`CommitLedger`).
  `Demand` is a fold; that it exists and grows item by item, whatever the order and
  however often it names a product, is proved by induction (`FoldExists`,
  `DemandByItem`). `NoneWaitsInVain` is the safety `TransactionsEnd` rests on: of any
  transactions that wait for none but themselves, the guard of a statement, of the commit
  or of the deadlock detector holds for one. The open transactions are finitely many
  (`RunningFinite`), and in a smallest closed set of them, each is waited for by another.
  Assumptions: `OrdersAssumption` (`NewPedido` refuses orders without items and quantities
  that are not positive) and `StoreAssumption` (`repor` binds `min=1`).
- `BreakerProofs`: what each operator of `Breaker` returns; `FailureType` is the one the
  proofs below rest on.
- `PedidosStoreProofs`: `Inductive`, `TypeCorrect`, `AnsweredAreStored`,
  `RefusalsFounded`, and of the pages `WalkSound` and `ListingSound`. `IInv` is `Flow`
  (types; `Stored`: an order past its save is in the table unless deleted) and `Rest`
  (`Founded`: the breaker counts no failure that was none, and a task's attempt number
  counts its failures). A page holds the orders of the first ranks (`PageByRank`), which
  number the orders after a cursor without gaps (`RankBijection`); so a page that leaves an
  order out is full (`PageSize`), and its cursor is earlier than the one it was asked with.
  From this the recursive function `Walk` is well defined (`WalkExists`). `WalkIsGood` says
  of the walk from any cursor that its pages go strictly back in time, from the cursor on,
  so that no order is answered twice, and hold every order `Alone` at its creation time:
  each page holds those from its cursor to the next (`PageBefore`). `ListingSound`
  needs the table to be finite, which it is without assuming so of the ids, as each step
  adds one row at most (`TableFinite`). Limits go up to `MaxLimit`: beyond it the walk
  stops early (`pages`). Assumptions: `PedidosAssumption`, `ListingAssumption`.
- `CommandConsumerProofs`: `Inductive`, `TypeCorrect`, `CommitsAreSafe`,
  `DeadLettersFailed`, `OffsetsGoForward`. Whatever the owner has read of a topic is
  answered, dead-lettered, or had its reply or dead letter refused or lost, but for the
  command at hand (`Passed`), which is the last it read (`OwnersTask`); the commands of
  former owners may be anywhere. No process counts a failure that did not happen, for any
  topic (`Counts`), and a count stands at three only on the way to the dead letter queue
  (`LastCounts`). Assumption: `ConsumerAssumption`.
- `ShardRouterProofs`: `TypeCorrect`, `BulkheadIsSafe`, `HalfOpenIsAwaited`. A half-open
  breaker has admitted as many calls as have succeeded and are out (`Awaits`), and the
  calls it awaits are with a cell of its PBC (`AreOut`); in a PBC that was not hurt, cells
  are up and so are the answers of probes that began long before (`Unhurt`). Assumption:
  `RouterAssumption` (there are finitely many cells).
- `DataSyncProofs`: `Inductive`, `TypeCorrect`, `LossIsFounded`, `PassiveIsReady`. After a
  restart the passive table is ahead of the changes read, and what it holds depends on how
  far it had come. `Follows` says, of a row none of whose changes was lost, just enough to
  survive that: a row that some change made is there unless a deletion is still to come
  (`Stays`), a deletion leaves nothing older than itself, and at the log's end the row is
  the last version. If only updates that name no row were lost, the same of its existence.
  `Counted` relates the attempt at hand and the breaker's count to the failures that
  happened, which with `GivenUp` is why a loss has its reason. Assumption:
  `SyncAssumption`.

The two inductions over data, along the items of an order and along the cursors of a walk,
take the induction hypothesis as a *set* of numbers, for which the library's `WFMin` (a
non-empty set has a minimal element) is enough and needs no operator as a parameter. What
`CHOOSE` or a recursive function definition picks is shown to exist first.

Only model-checked: liveness (`SagaSettles`, `CompensationReleases`, `TransactionsEnd`,
`ErasureCompletes`, `CommandsEnd`, `HealthConverges`, `PassiveConverges`),
which hangs on fairness and ENABLED and is out of the prover's reach. Every invariant and
action property of a passing run, and both refinements, have a theorem. That no behaviour
of `SagaProtocol` fails, completes or commands without reason is proved directly; TLC
checks it of the hub.

## 6. Where the code and its documents disagree

1. **A compensated saga can end COMPLETED** (`save_lost`). `pedido.go:129` says the
   cancellation notice's reply must not override FAILED. If the save of FAILED fails,
   `onEstoqueLiberado` only logs it and sends the notice; the reply finds the row
   COMPENSATING, makes it COMPLETED and publishes `PedidoConfirmado`.
2. **Every shard executes every command** (`fanout`). `PROD.md:494` counts on a client's
   data being in one shard. The cells of all shards consume the same topics in groups of
   their own, so each creates the order.
3. **A refused order adds to the stock** (`estoque_unguarded`). `REFINE.md:143` asks for a
   guard clause in `LiberarItens`. There is none, and the hub sends `liberar_estoque`
   exactly when the reservation was refused and rolled back.

4. **The compensation does not cancel the order** (`order_kept`). `README.md:87` and `:210`
   have a refused reservation end with the order CANCELADO. `pedido.go:113` sends
   `cancelar_pedido` with the key `motivo` alone; `cmdCancelarPedido` finds no `pedido_id`
   and answers a failure, which `onPedidoCancelado` does not look at. PedidoCancelado is
   announced with the order PENDENTE.
5. **A limit above 100 gives one page of 20 and no cursor** (`pages`). `PROD.md:394`
   promises `next_cursor` whenever there is more, `store.go:154` that limits are "capped at
   100". The store cuts the limit to the default, and the handler compares the page with
   what was asked (`handlers.go:266`).

Seen while modelling, without a run of their own:

- **A saga can stay COMPENSATING, and a committed reply can be without effect.** The
  repository's `README.md:504` says a saga no longer ends in COMPENSATING, and `:511` that
  manual commits guarantee at-least-once. A failed publish of `cancelar_pedido` or
  `liberar_estoque` is returned to the loop (`consumer.go:86`), which reads on, and the
  next commit covers the reply; and one that was queued and not delivered when the process
  dies is lost with its reply committed (`producer.go:50`, `consumer.go:88`).
  `CompensationReleases` and `AtLeastOnce` therefore ask nothing of sagas in `lost`.
- **A retry with its key can create a second order.** `PROD.md:372`–`377` introduces the
  key against duplicates by a client's retry. It is stored after the order
  (`handlers.go:219`), so a retry that overlaps with the first request, or follows one
  that was answered 500 after its row was written, or whose key Redis failed to store or
  to find, creates another; and the key lasts as long as a cache entry, 60 s unless
  configured, where `PROD.md:377` asks for a day (`EX 86400`).
- **Orders that share a creation time are skipped** at a page's end, the cursor being a
  timestamp; `PROD.md:390` has pages by id. `ListingIsSound` promises orders with a time of
  their own.
- **A commit that was applied can be answered as refused** (`CommitUnheard`). The saga is
  then compensated, and releases what was really reserved; of a release, the failure is
  answered on the topic of success and closes the saga all the same.
- **A dead letter can be lost**: `dlq.go:26` ignores the error of `Produce`, and the
  command is committed. `README.md:93` counts on the queue for messages that fail.
- **An order deleted with its client's data can come back** by a `cancelar_pedido` that
  finds it in the cache; the hub's never name an order, so that it takes another client.
- **Lookups of orders that do not exist open the breaker** of the store, for everyone
  else's calls too: `sql.ErrNoRows` is returned through it (`RefusalsAreFounded`).
- **The router's breaker belongs to a PBC, not to a shard**, so a dead cell of one shard
  refuses requests to the others; a refused request is answered with an empty 200
  (`handlers.go:118`–`135`: nothing is written when the breaker is open). A client that
  goes away counts as a failure of the cell (`ClientGone`).
- **Failures are counted by partition and offset** without the topic, so commands at the
  same offset of two topics share a count; `REFINE.md:751` asks for a count per message.
  `DeadLetterAtThree` says what is left of it.
- **The passive node is not always ready**, as `README.md:90` promises. Changes are
  committed unapplied for four reasons, which `LossesAreFounded` names: no pool or no
  allowed table (`applier.go:166`–`184`); updates of tables without REPLICA IDENTITY FULL,
  which nothing in the repository sets; three failures; a signal to stop during a retry.
  `ReadyWhenCaughtUp` and `PassiveConverges` promise agreement of the rows that were
  spared.
- The topic names Debezium is configured with (`cdc.s1…`) and those data-sync subscribes
  to (`cdc.shard-1…`) differ; `DataSync` takes changes to arrive, with a pool or without.

## 7. Plan

The order is that of importance; what is done is marked.

1. ✔ `SagaHandlers`, `SagaProtocol`, `SagaProtocolProofs`: the protocol and its proof.
2. ✔ `SagaHub`: the hub on Kafka, refining the protocol.
3. ✔ `EstoqueOrders`, `StockLedger`, `EstoqueStore`, `EstoqueStoreProofs`: the stock.
4. ✔ `CommandConsumer`, `CommandConsumerProofs`: the loop of the cells.
5. ✔ `Breaker`, `PedidosListing`, `PedidosStore`, `PedidosStoreProofs`: the orders.
6. ✔ `DataSync`, `DataSyncProofs`: the passive copy.
7. ✔ `ShardRouter`, `ShardRouterProofs`: registry, watcher, failover, proxy.
8. ✔ `SagaHubProofs`: the hub implements the protocol; delivery; one story per saga.
9. Left: `SagaSystem`, `SagaProtocol` composed with the stock and the orders. Since every
   shard executes every command (`fanout`), any command may be executed again
   (at-least-once), and a refused order is released (`estoque_unguarded`), the
   conservation laws one would state of it are already refuted on its parts; it becomes
   worth writing with a code that mends those.
10. ✔ `EstoqueStore` ⇒ `StockLedger` and the pages of `GET /v1/pedidos`, proved with the
   inductions they need.
11. ✔ The safety that the liveness properties rest on, proved: no saga is dropped by the
   hub (`HubDropsNoSaga`), no transaction waits in vain (`NoneWaitsInVain`).
12. ✔ What is lost after it was queued, commits that are applied and not heard, and the
   changes data-sync commits unapplied, as faults of the models.

## 8. Not modelled

- Rate limiting, JWT, audit and metrics: request filtering and telemetry, no state the
  protocols depend on. The deployment
  files were read for the facts the models rest on (replicas, groups, shared topics, one
  Redis and one database per shard).
- `agent-mcp` is an LLM agent: one more client, of `POST /saga/pedido`, `POST /pedidos/`
  and read endpoints, that may also restart containers. The models take any client, and
  restarts wherever they have a crash. Its anomaly detector and load predictor are
  numerical; `fitness-functions` scans source files.
- The bulkheads around the consumers: each has one caller, so that none of their 10 or 20
  slots is ever missing. The semaphore of the router's watcher, which has many, is modelled.
- The list of notifications cell-notificacoes keeps for its HTTP endpoint, and statistics
  endpoints: read by people only. Its loop and replies are modelled.
- Messages are taken to be valid JSON; partitions other than the one a saga hashes to
  share nothing with it. In the cells' loops of `SagaHub` a failing command is always
  answered: the dead letter queue takes over at the third failure of an offset in one
  process, which needs rebalances of the cell's group, and is the subject of
  `CommandConsumer`.
- What librdkafka's own retries do to the order of a producer's messages, or repeat
  (`retries: 3` without `enable.idempotence`): `SagaHub` appends messages in the order they
  were produced, once each. `SagaProtocol`, where any message can be handled late, again or
  out of order, covers it, and with it the three theorems of `SagaProtocolProofs`.
- What Debezium itself loses or repeats, apart from what the consumer sees after a restart;
  writes that reach a passive cell after a failover, which the cell refuses.
