# TraderOS in TLA+

This directory holds specifications of the parts of TraderOS that keep state between calls, threads,
processes or restarts, the TLC configurations that check them on small instances, and theorems about them
whose proofs TLAPS checks for every value of the constants. Paths below are relative to
`src/traderos/` of the repository unless they say otherwise.

    tlc -config submission.cfg OrderSubmission      # one run: a .cfg and its module
    tlapm OrderSubmissionProofs.tla                 # one proof module

`PROJECT.json` lists the components, the runs with their properties, the mutants that show that each
property can fail, the source lines of every definition, the hazards and the theorems.

## 1. The system

TraderOS is a trading program in Python. In production it is two processes on one data directory
(`Procfile`, `docker-compose.yml`): the **daemon** (`interfaces/cli/main.py` -> `DaemonController.run_forever`),
one thread that runs trading cycles; and the **API** (`interfaces/api/server.py`), whose endpoints are plain
functions that run on a pool of threads. The command line is a third process now and then. They share the database (trades, positions, order journal), the
lease file, the heartbeat file and the run manifest. Each has its own kill switch, order gate, circuit breaker and rate limiter, because
these are objects in memory. The API's orchestrator is always built in paper mode and so has a simulated broker of
its own.

### Inventory

| component | state it keeps | operations | hard behaviour | what makes it correct |
| --- | --- | --- | --- | --- |
| **Order submission** `infrastructure/journaled_broker.py`, `resilience.py`, `order_guardrail.py`, `broker_rate_limiter.py`, `alpaca_broker.py`, `retry.py`, `journal.py` | a journal row per idempotency key (intent, confirmed, result), worker threads, what is on the wire | place market / limit / stop / trailing / flatten orders, cancel, modify | two callers with one key, the 5 s timeout that abandons a running worker, retries after lost answers, crashes between intent, request and confirmation | one broker order per key; intent before request; one outcome per key, told to everybody; a told fill is true; no caller hangs; an emergency close is never throttled |
| **Circuit breaker** `infrastructure/resilience.py` | state, failure and success counts, time of the last failure | call, reset, read of the state (with a side effect) | the lock is not held during the call: answers arrive in another state than the one they were admitted in | opens at the threshold, closes on consecutive successes, does not stay open |
| **HA fail-over** `infrastructure/ha_failover.py` | the append-only lease file, `_leading` per daemon | acquire, renew, release, watch | read-then-append; a leader that never re-reads the lease; signals at any bytecode | one leader; a standby takes over; a stopped daemon stops |
| **Trading daemon** `application/daemon_controller.py` | `_running`, shutdown latches, the order gate, consecutive errors | start-up reconciliation, loop, cycles, periodic reconciliation, signal handling | the gate against the loop, exceptions that escape, restarts with half-written books | no order while books and broker are known to differ; drift is noticed; a signal ends the process |
| **Broker reconciliation** `domain/services/broker_state_reconciliation_service.py` | the gate, time of the last clean result | reconcile, handle result | four reads one after the other of stores that other writers change | the verdict closes and opens the gate |
| **Cycle executor, portfolio, trades** `application/cycle_executor.py`, `domain/services/portfolio_service.py`, `domain/entities/trade.py` | trade rows, position rows, summary | run a cycle, retail order, open / fill / close a trade | four separate writes per fill, no transaction around read-and-write of a position, two processes | the books are the broker's fills |
| **Risk rails and kill switch** `application/risk_config.py`, `domain/services/risk_service.py`, `preflight_service.py` | the rails resolved at boot, user profiles, failures, circuit, the day's result | boot, authorize, size, record success or failure or result, engage, disengage | four sources of a setting, two switches, counters shared by threads, caps checked against sums read earlier, a restart in the day | what is sent keeps to the rails that were set; a halt halts |
| **Flatten, fatal handler** `domain/services/flatten_service.py`, `infrastructure/fatal_handler.py` | a latch with the first result, `sys.excepthook` | flatten, handle | called from cycles on several threads, from the API and from a dying interpreter | each position is closed once, and what is left is told |
| **Order event engine** `application/order_event_engine.py` | seen events, per-trade locks, journal rows, outbox | apply, replay | repeated and reordered broker events, exceptions between effects, replay without a lock | each event applied once, outbox honest, status moves forward |
| **Asynchronous daemon** `application/async_daemon.py`, `infrastructure/async_streaming.py` | last-seen stamps, bounded queue, tasks | on tick, run, start, stop, drain | cycles in threads that cancellation does not reach, a flatten in one of them | nothing bought stays behind a flatten but what is reported, was past the gate, or slipped in a named way; a stop ends the loop, nothing trades after it but what the drain gave up |
| **Live feed and history** `infrastructure/market_stream.py`, `infrastructure/collectors/`, `domain/services/historical_data.py` | open buckets, closed candles, connection attempts, the table of candles | ingest, reconnect, back-fill, mop up, serve, load history | late and repeated frames around a reconnect, bars that are still forming when they are fetched | candles in order, once, complete; bars whole and recent |
| **Supervision** `infrastructure/supervision.py`, `run_manifest.py` | one heartbeat file for all processes | beat, stop marker, check at start | several writers, a signal between two steps, torn lines | an alarm is for a process that died, and a death is told |
| **Event feed of the dashboard** `interfaces/api/events.py`, `operator.py` | a bounded queue per open page | publish, subscribe, snapshot, send | two publishers on a full queue, a page that opens between change and publication | a page that has read all knows whether trading is halted |
| **Message queue, event bus** `infrastructure/message_queue.py`, `events.py` | buffer, subscribers, loop thread | publish, subscribe, start, stop | a stop that gives up waiting for the loop; direct calls beside buffered messages; nothing in the program publishes to the one or subscribes to the other | each handler once per message, in order |
| **Monitoring and paging** `infrastructure/probe_scheduler.py`, `notifiers/oncall_router.py`, `backup_scheduler.py` | last results, two timer threads and their stop events | probe, page, back up, start, stop | a page that is not delivered or is broken off, restarts, stop and start races | one page per outage, the pager knows what the scheduler knows, the timers go on |
| **Operator workflow, strategies, readiness** `domain/services/operator_workflow.py`, `strategy_management.py`, `live_readiness.py` | step statuses, strategy stages | advance, promote, demote, archive | request threads that check and then act, a save of several statements on a shared connection | steps in order, one promoted strategy |
| **Database** `infrastructure/database/` (`connection.py`, `migrations/`, `sqlite/`, `postgres/`), `infrastructure/repositories/` | schema version, tables, one connection with one transaction per process | migrate, roll back, every query and statement of 16 repositories in memory, SQLite and PostgreSQL | rebuilds of tables that stop half way or race, threads in one another's transactions, three implementations of one interface | rows survive, nobody serves on a partial schema, what was acknowledged is stored, the stores answer alike |
| **Backup** `infrastructure/database/backup.py` | files of a directory, by name and time | back up, rotate, restore the latest | a copy of a live file in WAL mode, two jobs at once, a crash in the copy | the latest copy brings back what was there |
| **Accounts, sessions, API keys** `domain/services/account_service.py`, `operator_session.py`, `interfaces/api/sse_tokens.py` | users, sessions and keys with their expiry | create, validate, revoke | a validation that writes beside a revocation, on one transaction | a revoked credential stays out |
| **Audit and observability** `infrastructure/audit.py`, `observability*.py`, `domain/services/replay_service.py` | a hash chain, samples | append, verify, purge, query, replay a day | concurrent appenders, a purge of the head, orders whose rows interleave, rows that a crash leaves out | an unbroken chain; the replay tells what happened |
| **Paper trading** `PaperBrokerAdapter` in `domain/services/paper_trading_service.py` | simulated cash, position, resting orders | place, modify, cancel | shorts, slippage, orders that rest, sells of more than is held | cash, position and the booked trades agree |
| **Analysis, brain, backtest** `domain/services/analysis_service.py`, `market_brain_service.py`, `backtesting_service.py` | bars and a durable copy of them | indicators, warm, update by ticks, gate, run a backtest | failing saves, restarts, bars that are still forming | a restart changes no bar and no last price that advice is computed from; a backtest looks at no bar before it is over |
| **Crash recovery** `domain/services/reconciliation_service.py` | none | compare orders and positions | `recover_from_crash` passes it empty lists | nothing in production |
| **Leader election** `infrastructure/leader_election.py` | advisory lock of a session, or lock on a file | acquire, release, start, stop | late heartbeat threads, lost sessions, a lock file that is removed under its holder; used by nothing | one leader |
| **Research and knowledge** `domain/services/` (experiments, lessons, knowledge graph) | rows of repositories | pass calls on | - | see Database |
| **CLI, dashboard, configuration, wiring** | none | dispatch, formatting, construction | - | the nesting of the broker decorators |

How they interact. A cycle asks preflight, kill switch and risk gate, then submits through
`JournaledBroker > CircuitBreakeredBroker > GuardrailedBroker > RateLimitedBroker > AlpacaBrokerAdapter`
(`application/factory.py`; the journal in live mode only), and books the answer through `PortfolioService`. Reconciliation reads the
books and the broker and moves the gate the cycles ask; its mismatches count as failures on the kill switch the cycles ask as well. The
daemon asks `HAFailover` before every iteration and beats into the heartbeat file. The API writes the same trades and positions and tells the pages of the
dashboard. All repositories of a process share one connection, and with it one transaction. Every step leaves an audit row, from which a day is replayed.

## 2. Modules

| module | models | uses |
| --- | --- | --- |
| `CircuitBreaker` | the state and the locked steps of the breaker | - |
| `BreakerClients` | threads that call through one breaker, without the lock | extends `CircuitBreaker` |
| `OnceOnlyOrders` | abstract: an order is registered, opened at most once, settled at most once | - |
| `OrderSubmission` | the decorator stack: callers, journal, breaker, worker, guardrail, limiter, retries, wire, broker, crash | extends `CircuitBreaker`, instances `OnceOnlyOrders` |
| `Failover` | daemons, their loop as far as leadership goes, the lease file, signals, time | - |
| `TradingDaemon` | reconciliation, gate, cycles, booking, broker, another writer, restart, fatal handler | - |
| `AsyncTrading` | the asynchronous daemon: ingestor, queue, concurrent cycles in worker threads, kill switch, flatten, drain | - |
| `OrderEntry` | retail requests and a daemon cycle through the risk gate to the position rows, two kill switches | - |
| `RiskRails` | settings, profiles and gates: from boot to an order that is sent | - |
| `LiveEvents` | requests that publish, the broker of events, the pages | - |
| `OrderEvents` | `apply()` on several threads, `replay()`, journal, store, bus, portfolio, crash | - |
| `Paging` | probe and backup scheduler threads, notification service, on-call router, restart | - |
| `OperatorConsole` | strategy catalogue and operator workflow on request threads, the shared SQLite connection, `pilot dry-run` as a second process, restart | - |
| `Supervision` | the heartbeat file and the processes that beat into it | - |
| `Migrations` | the chain of migrations as data: what each version creates, rebuilds, drops | - |
| `Database` | processes that boot, migrate, serve, crash and roll back | extends `Migrations` |
| `SharedDatabase` | threads on one connection, a second process, SQLite and PostgreSQL; repositories, audit, metrics, accounts by their statements | - |
| `Repositories` | 16 repositories in memory, on SQLite and on PostgreSQL: queries, columns, rows | - |
| `Backups` | WAL file, checkpoints, copies, rotation, restore, dumps | - |
| `CandleFeed` | exchange, trade stream, aggregator, collector | - |
| `History` | the candles of a provider, cached for backtests | - |
| `MarketAnalysis` | indicators and advice as operators on a tape | - |
| `MarketBrain` | the bars of one brain, their store, ticks, gate, restart | extends `MarketAnalysis` |
| `Backtest` | a backtest bar by bar, three strategies, costs | extends `MarketAnalysis` |
| `Replay` | the audit rows of overlapping orders, and what the replay computes from them | - |
| `PaperTrading` | the paper broker and the portfolio that books its fills | - |
| `MessageQueue` | publishers, handlers and loop threads of the queue in memory | - |
| `ConnectionPool` | pools of PostgreSQL connections, and threads inside `pooled_connection` | - |
| `AdvisoryElection` | nodes that ask for an advisory lock of PostgreSQL | - |
| `LockFileElection` | processes that lock one file | - |
| `MCFailover`, `MCPaging` | `Failover` and `Paging` with names for the thread and its hand that another module's proofs leave free; `HaSpec`, `PagerSpec` | instance them |
| `MCMarketParts` | `PaperTrading`, `Backtest`, `CandleFeed`, `History`, `MarketBrain` and `Replay` with their constants left free; `PaperSpec`, `TestedSpec`, `FeedSpec`, `HistorySpec`, `BrainSpec`, `ReplaySpec` | instances them; `MCMarket`, `OrderSubmissionProofs` and `DatabaseProofs` extend it |
| `MCOrderEntry` | faces: `OrderEntry`, `RiskRails`, `LiveEvents` | extends / instances them |
| `MCOperatorConsole` | faces: `OperatorConsole` (twice), `Supervision` | extends / instances them |
| `MCStores` | faces: `SharedDatabase`, `Repositories`, `Backups` | extends / instances them |
| `MCMarket` | faces: the six of `MCMarketParts`, `Replay` twice | extends it |
| `MCOrderEvents` | faces: `OrderEvents`, `MessageQueue`, `ConnectionPool`, `AdvisoryElection`, `LockFileElection` | extends / instances them |
| `OrderSubmissionProofs`, `TradingDaemonProofs`, `AsyncTradingProofs`, `OrderEntryProofs`, `OrderEventsProofs`, `OperatorConsoleProofs`, `StoreProofs`, `DatabaseProofs` | the theorems | extend the component's module, or its MC module for those about the other faces; `StoreProofs` instances `Backups`, `OrderSubmissionProofs` instances `BreakerClients` and extends `MCMarketParts`, as `DatabaseProofs` does, `TradingDaemonProofs` extends `MCFailover`, and `OperatorConsoleProofs` extends `MCPaging` |

`OrderSubmission` composes the breaker with the rest of the stack. `TradingDaemon` takes a submission as what
`OrderSubmission` shows one to be (an intent, at most one order, a told fill that is true, or silence) and adds what the
books make of it. `OrderEntry` has the concurrency that `TradingDaemon`'s single thread does not have. `Failover` has
the loop's leadership step, signals and drain; `TradingDaemon` has the rest of the loop. `MarketBrain` and `Backtest` compute with the one `MarketAnalysis`; `Database` walks the chain that `Migrations` lists.

A *face* is a component that shares no state with the others of its MC module. A behaviour there belongs to one face, chosen in `MCInit`, and
the variables of the others keep still; so one run answers the questions of several small components, each with its full state space.

### CircuitBreaker, BreakerClients

`cbState`, `cbFailures`, `cbSuccesses` are the fields of the class; `cbRecovered` is the one thing the clock is asked.
`EffectiveState` / `ReadState` are the `state` property and its side effect; `OnSuccess`, `OnFailure`, `ResetBreaker` the methods. `BreakerClients`
splits `call()` where the lock is released: `AdmitCall` or `FailFast`, then `Succeed`, `Fail` or `Shed`.

### OrderSubmission

A caller's `pc` walks through `JournaledBroker._submit`: `Present` / `Replay` / `NeedsReconcile` (what
`journal.get` found), `Record` or `RecordConflict` (the primary key decides), `EnterBreaker` or `RefusedByBreaker`,
`Finish` / `RaiseThrottled` / `TimeOut` (the 5 s `join`), `Confirm`, `Publish`. The worker thread of a key goes on by
itself: `GuardrailRejects`, `Throttle`, `PassChecks`, `Send`, `Answered`, `Refused`, `Retry`, `GiveUp`. `BrokerAccepts`
is the broker, at any time after a request was sent, a timeout and a crash included. `ClientOrderId` is what makes retries the
same order for the broker. `Crash` keeps journal, wire and broker.

### Failover

`Boot`, `Started`, `LoopTop`, `Renew`, `Standby`, `SeeFree`, `Acquire`, `BeginCycle`, `EndCycle`, `NextIteration`, `Exit` are the
main thread; `Signal` and `Deadline` interrupt it anywhere, and between the record of a release and `Released`, and between `Acquire` and `Acquired`, the others go on; `Crash` and `Start` are the process; `Tick` ages the lease.
`SeeFree` and `Acquire` are the read and the append of `try_acquire_leadership`.

### TradingDaemon

Reconciliation is four steps (`ReadLocalPositions`, `ReadLocalOrders`, `ReadBrokerPositions`, `Judge`) with their failures
(`LocalUnreadable`, `BrokerUnreadable`). `BeginCycles`, `PlaceOrder`, `Refuse`, `Throttled`, `Send`, `HearFill`, `HearNoFill`,
`TimeOut` are the order; `OpenTrade`, `SubmitTrade`, `FillTrade`, `ReadPosition`, `WritePosition` the four writes and the read of
booking; `Abandon`, `Escape`, `Terminate`, `Crash` their interruptions. The broker fills in part, later, or cancels; `ForeignFill`
is the API process.

### AsyncTrading

`Connect`, `Receive`, `SocketEnds`, `BackoffEnds` are the ingestor with its bounded queue, which drops the newest tick; `RunForever`, `Poll`, `LeaveLoop`,
`BeginDrain`, `Drained`, `DrainTimesOut`, `Stop`, `Cancel` the loop; `IgnoreTick` and `HandleTick` are `on_tick`. `cycle[t]` is the worker thread of a tick:
`Preflight`, `BeginFlatten` / `CloseMarket` / `CloseFails` / `EndFlatten` / `FlattenUnheard`, `Authorize`, `OrderFilled` / `OrderNotFilled` / `OrderRaises`, and the booking `ReadRow` / `WriteRow` / `BookFails`, which
overlaps with that of other cycles. Threads go on when their task was cancelled. `bought` are the lots whose orders the broker has filled or will fill, `rows` the position table (a market may have two rows),
`toClose` and `closed` what each flatten does, `inFlight` the orders that were past the gate when a flatten began. `slipped` names every lot that was lost on its way: an order that was pending or whose answer
was lost, a booking that raised or was written over, what a partial fill left of an order or a close, a second row of a market.

### OrderEntry

`ReadBooks` (and `ReadEquity` in a cycle), `Authorize` / `Refuse`, `Reject` / `Throttle` / `Fill`, `WriteTrade`, `ReadRow` /
`RaiseOnRow`, `WriteRow` are `submit_retail_order` and the order part of a cycle. `rows` is the sequence of position rows of the market, since nothing stops a
second one. `Engage` and `Disengage` are the operator's endpoints. `switch` has one kill switch for each process.

### RiskRails

`Boot` resolves each rail from the settings file, the environment and the mode as `risk_config.py` does (`Merged`, `Sane`, `Default`, `Resolved`, `ArmsLive`), or refuses
to start. `CycleOrder` is a cycle's way to an order (`Preflight`, `CanTrade`, `Sized`, `NoGap`, `Authorized`), `RetailOrder` a user's. `ClosePosition` adds to the day, `NextDay`, `Engage`,
`Disengage` and `Restart` are what changes between two orders.

### LiveEvents

A request is `Begin`, `Command` (the switch) and `Announce`, or `Fails` between them; `Publish` takes the list of subscribers, `Offer`, `DropOldest` and `OfferAgain` are the `put_nowait` with its
fallback, one page after the other. A page is `Subscribe`, `Snapshot`, `Send` in their order, and `Close`.

### OrderEvents

`Arrive` takes the trade's lock; `Duplicate`, `Refuse`, `Accept` are the checks; `Following` is the order of the effects
(`Move`, `Record`, `Persist`, `Publish`, `MarkPublished`, `UpdatePortfolio`); `Raise` ends a call after any of them.
`FetchPending`, `Republish`, `MarkRepublished`, `AbandonReplay` are `replay()`. What every event says is chosen in `Init`.

### Paging

`at` says where each scheduler's thread is and `stopEvent` is its event; `Start` and `Stop` are the orchestrator's. `Tick`, `RunProbe`, `EndTick` are `_loop` and
`run_once`, `Edge` the results that page; `BeginPage`, `Acknowledged`, `NotAcknowledged`, `Paged` the audit record and `route()` over all transports; `TickFails` is an exception that `_loop` logs.
`BackUp`, `BackupFails`, `BackupAlerted`, `BackupThreadDies` are the backup thread on its way through `on_failure` into the same router. `last` is `_last`; `told`, `unheard` and `attempts` record
what the pager was told, what it missed and how often an outage was paged. `Restart` empties `_last`.

### OperatorConsole

`status` is the strategies table. `BeginChange` is the read with which each operation begins, `Write` (for a promotion after `ListPromoted` and `Demote`) what it writes on the strength of it; `ChangeFails` is
a statement that raises: the unique name, or a locked database. `Perform` is `OperatorSessionService.perform`: the check of the step, which for the promotion step is the catalogue's own `promote`, then `Advance` or `OutOfOrder`, `SetStep`, and the save
in its statements `ReadRow`, `Upsert`, `DeleteTransitions`, `InsertTransitions`, `Commit`. The statements go to `table`, what the one connection of the process sees; `stored` is what is committed, and
`OtherCommit` is any other repository of the process that commits on that connection; `SaveFails` is a statement of the save that raises, after memory has moved on. `Launch`, `PilotStep`, `PilotSave`, `PilotEnds` are the command line's process; `Restart` comes back
with what is stored. `overlapped`, `raced`, `collided`, `torn`, `piloted` record which overlaps there were, `unsaved` that the last save failed.

### Supervision

`last` is the last line of the heartbeat file, which is all that is ever read. `Launch`, `BeginStartup`, `Check` (the alarm), `FirstBeat`, `Beat`, `Work`, `GoOn`, `Leave` are a daemon; `Signal` writes the
stop marker at any point of it; `Stop`, `ApiStop` are the other markers; `Die` may leave a torn line. `Serve`, `ApiStop`, `ApiEnds` are the API process, which beats when an operator starts its orchestrator (`Check`, `FirstBeat`) and ends without a
marker. `killed` are the instances that died while they were counted on (`CountedOn`): daemons that were not told to stop, API processes with their orchestrator started.

### Migrations, Database

`Migration[v]` is what version `v` creates, adds and rebuilds. A process plans its jobs (`PlanFor`: repair of drifted versions, then up or down, done in the order of `Turn`) and does each statement by statement:
`CreateTables`, `CheckTable`, `SetAside` (the RENAME), `CreateAnew`, `CopyStrategies` / `CopyRows`, `DropOld`, `Mark`, and `Unmark`, `DropTables` downwards; `Serve` or `Refuse` is the check at
the end of the boot. `Store` is a service that writes a row. `RunTool` is the command line, which migrates a live database to version 7 for a backtest. `exist` are the tables, `legacy` the tables of the older shape, `aside` those renamed away with their rows.

### SharedDatabase

A call of a repository is `Call`, its `Look` (a SELECT), its `Write` and its `Commit`, or what leaves early (`Leave`). `conn[p]` is the transaction of the process: its writes, and on PostgreSQL its snapshot and whether it was aborted.
`WriteSQLite` waits for the lock of the other process and fails when it lasts; `WritePostgres` aborts the transaction for every thread. `Age`, `Crash` are time and the process. `Known` is the table of all calls
with their statements. `acked` is what callers were told. A row that a PostgreSQL transaction
does not see is not updated or deleted by it (`Misses`), also when it is there at the commit. `cut`, `lockedOut` and `behind` record what the code does not prevent: a call whose transaction another
thread's refused statement took along, a process that was locked out, an audit record that looked for the last entry in a snapshot from before.

### Repositories

Per entity, an operator for each of the three classes that gives the set a query answers (`InMemoryTradeRepository`, `SQLiteTradeRepository`, `PostgresTradeRepository`, ...), and a table for each of the two SQL ones:
columns as the INSERT writes them, columns as the reader names them, which are single precision, what empty values become. `ToRow` and `FromRow` are the way into the table and back, `Dumped` and `Json` what `json.dumps` makes of a tag and of a dictionary, `Like`, `Folded` and `Lower` how a text is looked for. `Add`, `Update`, `Delete` are sent to memory and to one of the databases.

### Backups

The database is a set of pages with the number of the commit that last wrote each: `main` the file, `wal` the newest frame of each page in the log, `filled` the pages that a checkpoint has copied. `Commit`, `Checkpoint` (page by page), `Rewind`, `Close`, `Crash` are SQLite; `BeginBackup`, `CopyPage` or `Dump`,
`Compress`, `FinishBackup` with the rotation, `BackupFails` the job; `Restore` takes the file that `--latest` takes. `exact` and `expected` keep what the file should bring back. A restore moves another file over the one in place: whoever has the old one open, the program or a copy that its timer has begun, goes on with that (`reads`, `Replaced`).

### CandleFeed

`TimePasses` lets each symbol trade or not; `Frame`, `Lose`, `Garble`, `Reorder` are the wire. `Connect`, `Loop`, `Break`, `Wake`, `Exhausted`, `StartFeed`, `StopFeed` are `run()` with its reconnects; `Ingest`, `LateTick`, `SameBucket`, `CloseBucket` the
aggregator; `Reconcile`, `Reconciled` a pass of the collector over the exchange's own candles, after an outage or as a mop-up.

### History

`Answer` is `get_candles`: `FromCache` when the window holds enough, else `Fetched`, `Unreachable` when the provider does not answer. `Provided` is what each provider gives, its last bar still forming. `Start` is the window that the
spacing of the timeframe gives, which need not be the length of the provider's bars.

### MarketAnalysis, MarketBrain, Backtest

`Sma`, `Ema`, `Atr`, `Rsi`, `Regime`, `Direction`, `Confidence`, `Advise` are functions of a tape, in exact fractions. `MarketBrain` has `WarmFromStore`, `Seed`, `NothingToSeed` (the warm-up), `UpdateTick` (which saves row by row), `Gate`, `Crash`.
`Backtest` evaluates a strategy at the close of a bar (`Evaluate`) and fills at the open of the next one (`Filled`, `FillPrice`, `Fee`); a run is the state `books`.

### Replay

`Begin`, `Decide`, `Drop`, `Place`, `Raise`, `Open`, `FillTrade`, `RecordFill` append the rows of an order, each committed by itself; `Crash` ends the process between two. `Entries` is the window `ReplayService` reads, `Complete`, `Blocked`, `FillsPnl`,
`TotalPnl`, `FifoRealized` what it says of it.

### PaperTrading

`PlaceMarket`, `PlaceLimit`, `PlaceStop`, `PlaceTrailing`, `Modify`, `Cancel` are the adapter with `ApplyFill`; `Booked` is what `PortfolioService` makes of the answered fill, at the price the broker told.

### MessageQueue, ConnectionPool, AdvisoryElection, LockFileElection

No process of the program uses these four yet. `Publish`, `Start`, `Stop`, `LookAtRunning`, `Pop` are the queue and its loop, `CopyHandlers`, `CallHandler`, `Done` are `_dispatch`, in a loop or in `publish`. `Enter` is the
way into `pooled_connection`, `SeeClosed`, `Reuse`, `Make` are `acquire` with its look at `_closed` before the lock, `Release` and `CloseAll` the rest. `Ask` and `Apply` are the two sides of an answer to `try_acquire`,
`BeginStop`, `Unlock`, `LetGo` are `stop`. In the election by file `Open`, `Lock` and `Depose` are `try_acquire`, `Release` and `Remove` are `stop`.

## 3. Runs

Each instance is the smallest in which the hazard of its run can occur and in which the loss of the code's protection is
noticed: `PROJECT.json` has for every property a mutant of the code that breaks it. All runs end without an error.

| run | instance | shows |
| --- | --- | --- |
| `breaker` | 3 threads, threshold 3, 2 successes to close; 1,028 states | as liveness `HealthyBrokerRecloses`, with three threads that report in any order and in another state than they were admitted in |
| `submission` | callers cycle and api, one ordinary and one flatten key, 2 attempts, 1 crash, threshold 1; 154,880 states | `IntentBeforeBroker`, the refinement `ImplementsOnceOnly`, and as liveness `CallerReturns` and `FlattenReachesBroker` |
| `failover` | 2 daemons, lease stale after 1 tick; 120,607 states | `SplitBrainOnlyByLapseOrRace`, `StandbyTakesOver`, `SignalledStops` |
| `daemon` | one order of the daemon's, one of the API's, 2 failures trip the switch, 2 starts; 30,802 states | `DriftClosesGate`, `DriftOnlyByKnownCauses`, `DriftIsCaught` |
| `async_trading` | 1 market, 3 ticks, a queue of 1, 3 worker threads, up to two lots held before, 1 failure trips the switch; 1,655,386 states | `ClosedOnce`, `NothingLeftBehind`, `StopEnds` |
| `order_events` | *events*: 2 threads, 2 trades, 2 events with every content, 1 crash. *queue*: 2 messages, 2 handlers, 2 loops. *pool*: 3 users, 1 to 2 connections, 2 pools, 4 connections in all. *advisory*: 2 nodes with 2 heartbeat threads. *file*: 3 processes, 3 files; 1,035,724 states | `AppliedOnce`, `OutboxIsHonest`; `SharedOneAtATime`, which is `OncePerHandlerInOrder`, `PoolKeepsCount`, `OneLeaderOrExcused` and `OneLeaderPerFile` of the other faces |
| `order_entry` | *entry*: 3 retail orders, 1 cycle order, quantities 1 and 2, cash 8, caps of 25 %, guardrail 1. *rails*: 4 settings files, 4 environments, live and paper, 3 profiles, 1 user, 2 markets, 1 restart, 1 new day. *live*: 3 requests, 1 page, a queue of 2, 4 publications; 1,201,198 states | `BooksAreTheFills`, `CapOnlyOverrunByOverlap`; `RailsHold`; `PagesKnowTheSwitch` |
| `paging` | 2 probes, 2 transports; 158,155 states | `PagesOncePerOutage`, and as liveness `TimersGoOn` |
| `console` | *catalogue*: 3 requests, 3 strategies, every operation. *workflow*: 2 requests, a workflow of 3 steps of which the second promotes, the pilot. *supervision*: 2 daemons and the API process, 3 moments, stale after one of them, 2 launches each | `OnePromoted`; `NoStepSkipped`, `StoredWhenQuiet`; `AlarmIsForTheDead` |
| `database` | 2 processes on a database of version 5 with a head of 12, 4 tables with rows, the command that migrates to 7, 1 crash; 588,328 states | `RowsSurvive`, `NeverServesPartly`, and as liveness `ServesInTheEnd` |
| `stores` | *connection*: 2 threads of the application and 1 of the command line, 4 calls of 6 mixes, both backends, 1 crash. *tables*: 16 kinds of entities, 2 ids, 3 writes. *copies*: 2 pages, 1 backup kept, 2 commits, 2 backups, 2 restores; 2,849,443 states | `AcknowledgedIsStored`, `ChainBrokenOnlyByOverlap`, `RevokedStaysOut`; `StoresAndCopiesAgree`, which is `StoresAnswerAlike` of the tables and `LatestBringsBack` of the copies |
| `market` | *feed*: 2 symbols, 2 trades to a minute, 8 units of time, 2 faults. *fetched*: limits 2 and 5, 12 units. *brain*: averages of 2 and 3 bars, 4 minutes, 1 crash. *tested*: 8 bars of 3 shapes, 3 strategies. *overlap* and *turns*: 2 orders at once with a restart, 3 one after the other. *paper*: 4 orders; 1,276,350 states | `ServedIsWhatCame` (of feed and history), `ResyncHeals`; `RestartIsInvisible`; `NoLookAhead`; `ReplayTellsTheTruth`; `PaperBooksAgree` |

What holds more simply is proved and not run: `TypeOK` of the proved modules, `ClosedBelowThreshold`, `ClosesOnConsecutiveSuccesses`, `AtMostOneBrokerOrder`, `SameOutcomeForAll`, `OverlapOnlyInDrain`, `LateOrdersWereGivenUp`, `BooksNeverAhead`,
`StoredMovesForward`, `PagerKnows`, `LifecycleKept`.

Several properties say "unless", followed by history variables (`lapsed`, `raced`, `overlapped`, `torn`, `interrupted`, ...). Each names one thing the code does not prevent, and section 6 tells of it; the
property then says that nothing else can break the promise. The mutants show that it is not true by its exceptions.

### Bounds and why they are enough

* `submission`: two callers make every race on a key, and a caller beside another key's. With `MaxAttempts = 2` there is a
  first attempt, and a retry that is the last; the third attempt that the adapter makes (`max_retries=2`) repeats the first of the two, failing with another to come. One crash separates
  everything before from everything after it. `FailureThreshold = 1` makes the breaker open within the run; what it does with higher
  thresholds is the `breaker` run, and the theorems hold for all of them.
* `failover`: one tick of validity gives a fresh, a last-moment and a stale lease. Two daemons are the deployment; the theorems hold for any number.
* `daemon`: one order of one's own and one foreign order on the same row give the lost update and the second row; a fill has two lots, so it can be partial.
  Two starts give one restart with every half-written book.
* `async_trading`: three ticks are one that trips the switch, one that flattens, and one in flight; two lots that are held before the run may be two rows of one market; a queue of one overflows at the second. The theorems hold for any numbers.
* `order_events`: two events of one trade, or of two, with one repetition in flight. Counters saturate at 2, which is one more than the code may reach.
  In the other faces: two messages have an order to break, and two loops break it; three users exhaust a pool of two and one more pool follows a closed one; a lock held twice is one
  that a release does not give back; three processes are a holder, one that removes its file and one that locks the next.
* `order_entry`: the smallest in which a short row is bought back exactly (`DividesByZero`), a cap admits one order and not two, two orders add two rows, and a third finds them. The settings have each rail present, absent, out of
  range, and in conflict between file and environment. A queue of two with four publications overflows with two publishers at once.
* `console`: three requests let a third one come between two that overlap, and three strategies let a promotion take back one while another is promoted. Three steps give a first, a repeatable and a last one, and two
  requests every race on the step and every pair of overlapping saves. The theorems hold for the two faces together, and for the ten steps of the code. In `supervision` a beat is stale as soon as the clock has moved, so that of three moments a beat can be fresh, stale, or fresh again after one that was stale.
  The `workflow` face stops where a save is torn *and* saves overlapped or the pilot saved: `NoStepSkipped` is excused there for good, and torn tables without either are followed further.
* `paging`: two probes, so that a page broken off in one leaves another not run; two transports, so that one takes a page the other does not. `attempts` saturates at 2, one more than the code reaches.
* `database`: version 5 is before both rebuilds (v006 and v012). The four tables with rows are a parent, its child, the table that v006 rebuilds, and one that the rollback drops. A crash between any two statements, and a race of the two.
* `stores`: four calls are two that overlap, one that looks and one of the other process. Three writes are enough to add, change and delete, or to have two rows that tie; each field of an entity takes every value that
  its queries tell apart. Two pages tear; two backups with one kept make the rotation choose; a crash in the copy leaves a partial file.
  The second restore brings back what the timer copied while the first one replaced the file.
* `market`: two trades to a minute are a complete and an incomplete candle; two faults an outage within the recovery from another. The bars of `tested` are a quiet, a rising and a falling one, and eight of them fill the longest window.
  Three signals give the replay a position that is opened, added to and closed.

`CHECK_DEADLOCK FALSE` is set where the instance ends by itself: a daemon that may not be started again (`MaxStarts`),
orders, ticks, calls, commits, commands or bars of which there are finitely many.

## 4. Fairness

| module | assumed | because |
| --- | --- | --- |
| `BreakerClients` | time passes (`Elapse`); a running call ends; a caller that is often admitted calls; not every call is shed by the rate limiter | `_run_bounded` ends each call after 5 s; the daemon's loop and the API go on calling; the limiter's buckets refill |
| `OrderSubmission` | a caller's thread and a worker's local steps run | they are threads of a live process on local SQLite; `join(5.0)` returns. Nothing is assumed of the broker |
| `Failover` | clock, main thread, the end of a market loop (strong: a cycle may end in either of two ways), the shutdown deadline | the loop is over a finite list of markets |
| `TradingDaemon` | the thread, `Terminate`, the end of the cycles, and that the local books can sometimes be read (strong) | a local database that never can be read again is a dead daemon. Nothing is assumed of the broker |
| `AsyncTrading` | the event loop runs its ready tasks and timers; a socket that was closed ends its `recv` | that is what an event loop does. Nothing is assumed of worker threads, of the feed or of the broker |
| `Paging` | each scheduler's thread runs | they wait on a timer and on calls with time-outs. Nothing is assumed of `start()`, of the transports or of the backups |
| `Database` | each process takes its next step | a service that ended is started again by its supervisor (`Procfile`, `restart:` in `docker-compose.yml`). Crashes and commands are bounded, not excluded |

The other modules have no liveness property. Where one would matter (a half-done event is completed, a fill is booked, a candle that was missed is fetched, a feed that gave up starts again) the
code has nothing that does it, see section 6.

## 5. Proofs

The theorems hold for all values of the constants under the named `ASSUME`s of the modules, which only say that sets are sets of the
right kind (finite where they are summed over), that amounts and thresholds are numbers, and that a setting has one value; TLC evaluates them in the runs. The constants of an MC
module that are for its other faces get their values in the configuration, so that a theorem about a face is for all of them. Each module proves `Spec => []Inv` from an inductive `Inv` by one lemma per action.

| theorem | statement | inductive invariant and why it is needed |
| --- | --- | --- |
| `OrderSubmissionProofs`, of `BreakerClients`: `OpensAtThreshold`, `ClosingIsEarned` | `Spec => []ClosedBelowThreshold`, `Spec => ClosesOnConsecutiveSuccesses` | `CountBacked`: the breaker's success count is at most the streak seen. The count alone does not say that no failure came between |
| `OrderSubmissionProofs`: `TypeCorrect`, `OneOrderPerKey`, `WriteAhead`, `OutcomeAgreement`, `OutcomeIsFinal`, `Refinement` | `TypeOK`, `AtMostOneBrokerOrder`, `IntentBeforeBroker` with `OneSubmitterPerKey`, the agreement on outcomes, and `Spec => ImplementsOnceOnly` | `RowFollowsSubmitter`: a caller between insert and return has an intent row without outcome until it confirms; with `OneSubmitterPerKey` no second caller can overwrite an outcome. `WorkerResultTrue`: what a finished worker holds is true of the broker, which is what makes a told outcome true. `OnlyFirstIds`: only ids of first attempts are accepted |
| `TradingDaemonProofs`, of `Failover`: `SplitBrainCauses`, `OverlapCauses` | `Ha!Spec => []SplitBrainOnlyByLapseOrRace`, `Ha!Spec => []OverlapOnlyInDrain` | `OneLeaderOnLiveLease` (who has acquired and not begun to release has a live lease unless it lapsed), `FreshIsFree` (who is about to append on an unchanged lease has seen it free), `PastCheck` (a running daemon behind the leadership step leads), `Taking`, `Releasing` (who is inside `release()` is stopped, and the lease says so until somebody changes it) |
| `TradingDaemonProofs`: `NeverAhead`, `DriftStopsOrders`, `DriftCauses` | `Spec => []BooksNeverAhead`, `[]DriftClosesGate`, `[]DriftOnlyByKnownCauses` | `BooksInv`: the row in hand is behind the broker's lots, and what is in hand was filled. `GateInv`: a recorded drift is in the snapshot or in what is still to be read. `CleanInv`: without an excuse, the books differ from the broker by exactly the order in hand, by the step it is in |
| `AsyncTradingProofs`: `FlattenClosesOnce`, `FlattenLeavesNothing`, `LateOrders` | `Spec => []ClosedOnce`, `[]NothingLeftBehind`, `Spec => LateOrdersWereGivenUp` | `BoughtIsBooked`: a bought lot is in a row of the portfolio, about to be put there, or has slipped, so a flatten that goes by the portfolio misses only orders in flight and what slipped. `Surrounded`: from the start of a flatten on the switch is tripped, and whoever is past the gate is in `inFlight`. `LeftInv`: each bought lot is closed, reported, in flight, slipped, or still in the hands of a flatten. `OneFlatten`: two flattens of the same lots overlapped, or the first was not latched. `EndInv`: when `run_forever` is over, what is still in a thread was given up |
| `OrderEventsProofs`: `AtMostOnce`, `HonestOutbox`, `ForwardOnly` | `Spec => []AppliedOnce`, `[]OutboxIsHonest`, `Spec => StoredMovesForward` | `HandInv`: one thread per event, and what its step says has been done; `JournalInv`: replay holds only journaled rows; `StoredBehind`: the store is a status the one in memory comes after |
| `OrderEventsProofs`, of the other faces: `OneLeaderOfAFile`, `OneAdvisoryLeader`, `ConnectionsInOneHand`, `MessagesOnceInOrder`, and of all `SharedParts` | `Spec => []P` for `OneLeaderPerFile`, `OneLeaderOrExcused`, `PoolKeepsCount`, `OncePerHandlerInOrder`, and `MCSpec => []SharedOneAtATime` | `LeaderHoldsLock`: who leads and is not opening again holds the lock of the file it has open. `AdvisoryInv`: a leader holds the lock, or one of the excuses applies. `Apart`, `Counted`, `Limited`: no connection is twice in the lists and hands, an open one in a hand is in the set that `acquire` counts, what is open is in a hand or in a list, and the list of a closed pool is empty. `Hands`, `Line`, `CallsFollow`: a message is in one place (buffer, hand, or called), places are in the order of the numbers, and what was called is behind what waits |
| `OrderEntryProofs`: `RowsAddUpToFills`, `CapHoldsWithoutOverlap` | `Spec => []BooksAreTheFills`, `Spec => []CapOnlyOverrunByOverlap` | `BooksInv`: until two orders hold one row, the one that does holds the first row, and the rows add up to the fills. `CapInv`: until orders overlap, one is under way, and the exposure it has read is the exposure there is; then what it passed as a test is what it adds to. Both need that a sum changes by the summand that changes, which is proved of the fold that computes it (below) |
| `OrderEntryProofs`, of `LiveEvents`: `FeedTellsTheSwitch` | `Spec => []PagesKnowTheSwitch` | `AllKnow`: for every page, a command has still to offer it the event, or the last it will be told, by its queue or its snapshot, is the state of the switch. `OneCommand`: without doubt there is one command, and its event is the state |
| `OrderEntryProofs`, of `RiskRails`: `RailsAlwaysHold` | `Spec => RailsHold` | `Armed`: what a process has armed is what file and environment say, and has passed the checks of its mode. `DayIsKnown`: until a restart forgets it, the switch has the day's result, or there is none; the code keeps a result under yesterday's date until the next close |
| `OperatorConsoleProofs`, of `Paging`: `OnePagePerOutage`, `PagerAgrees` | `Pager!Spec => []PagesOncePerOutage`, `[]PagerKnows` | `TakenIsTold`: once a transport took the page in hand, the pager was told the latest result, so a tick broken off afterwards loses nothing. `ForgottenIsUnheard`: a failure a restarted process does not know of is among the unheard, so that a first good result need not page |
| `OperatorConsoleProofs`: `AtMostOnePromoted`, `LifecycleHolds`, `StepsInOrder`, `ToldIsStored` | `Spec => []OnePromoted`, `Spec => LifecycleKept`, `Spec => []NoStepSkipped`, `Spec => []StoredWhenQuiet` | `PromotionInv`: who has listed the promoted strategies still has them all to take back. `ReadIsTrue`: what an undisturbed request has read is still so when it writes. `DueIsNext` and `RowsBehind`: a step that is about to be set, and a row that was read for a save, are behind transitions that are only added, also when a save breaks off; between the row and the transitions of a save the table is not to be trusted, which is what `torn` is about. `QuietInv`: what a save has yet to bring into the tables is what memory has and they have not |
| `OperatorConsoleProofs`, of `Supervision`: `AlarmIsTrue` | `Spec => AlarmIsForTheDead` | `LastWriter`: who wrote the last heartbeat is alive and was not told to stop, was killed, had been told to stop before it wrote, or is an API process. `Marked`: after a marker no beat counts. It needs `OnlyToldLeave` (a daemon that was not told to stop does not leave its loop) and `KilledOnce` (a launch is not taken for the dead one before it) |
| `StoreProofs`, of `SharedDatabase`: `RevokedCredentialStaysOut` | `Spec => []RevokedStaysOut` | `GoneIsDead`: a credential that somebody was told is revoked has a dead row, and no call that would issue it anew is under way. `RevokingKills` with `Owned`: the row of a revocation that is about to be told is dead, or dies with a write that a thread of the process has yet to commit. `FlaggedSeesDead`: a validation that began afterwards sees the dead row, except in an old snapshot; `Modes` says that only a process that was locked out has one |
| `StoreProofs`, of `SharedDatabase`: `AuditChainHolds` | `Spec => []ChainBrokenOnlyByOverlap` | `LogInOrder`, as long as recorders keep apart: the log is one chain in the order of its numbers, what is pending comes right behind it (`NextInLine`), who is about to append has seen its last entry (`SeenLast`) and no later call has written (`BusyFirst`). `RemainsHold`: a purge takes the start of a chain and leaves a chain. `SnapsFresh`: a snapshot that no other process's commit has passed by is what is stored |
| `StoreProofs`, of `SharedDatabase`: `AcknowledgedWritesStay` | `Spec => []AcknowledgedIsStored` | `OnTheWay`: of who is about to commit, the part it wrote stands already (another thread's commit of the connection took it along) or is pending behind which nothing undoes it, unless a refused statement has cut the call off. `HalfWay`: a created user stands while its creation is recorded. `Later`: a call that began while another was under way overlaps with it, so that what is stored after an acknowledged write only takes it away as a later write or one of the same time. `PurgeOld`: the purge takes aged entries only |
| `StoreProofs`, of `Backups`: `LatestComesBack` | `Copies!Spec => []Copies!LatestBringsBack`, for any number of pages or tables and of copies kept, none included | `TrueSoFar`: of a copy that is exact, what has been read is as the database was, and so is the file it has yet to read, the one in place or the one that a restore has replaced. `IsThere`: rotation takes the file of an unfinished backup only for one begun later. So the file written last is that of the backup finished last (`LastIsNewest`), if that got all of the database, and `list_backups` takes it. `Promised`: until the next commit the main file is what a restore put there, with no frame in the log that could change it |
| `OrderSubmissionProofs`, of `PaperTrading`: `PaperBooksStayInAgreement` | `PaperSpec => []PaperBooksAgree`, for a slippage below the whole price (the code has 5 basis points; from 100 % on a sale would be at a price of zero or less) | `PaperInv`: the averages have positive denominators, and the broker's is of the fills at positive prices; until more was sold than held the portfolio's is the same fraction. A partly sold position keeps its average on both sides, and a bought one is averaged over the same two amounts (`Products` has the arithmetic) |
| `OrderSubmissionProofs`, of `Backtest`: `TradesAreOfTheBarBefore` | `TestedSpec => NoLookAhead` | `TestedInv`: signals are fills, and one more while an order waits. `OneBar`: the step over a bar fills the waiting order at the open before it lets the strategy see the bar, for whatever strategy and bar |
| `OrderSubmissionProofs`, of `Replay`: `ChainsTellTheTruth` | `ReplaySpec => []Replayed!ChainsAreTrue`, the first half of `ReplayTellsTheTruth`, for any number of rows read, none included | `TrailInv`. `AtSignal`: each caller is at a signal of its own and as far as its rows say. `EndedAlike`: of an order that nobody is at and no restart cut short, the rows and the trades say the same. `FillsAreTrades`: a recorded fill is of a filled trade, whoever was cut short. `RowsSay`: only an order's row says it was filled, so that where all the rows of an order are read, its chain is complete when the rows of the order and of the fill are there |
| `DatabaseProofs`: `MigratedRowsSurvive`, `NoPartialService` | `Spec => []RowsSurvive`, `Spec => []NeverServesPartly` | `Sound`: where a process is fits the first job of its plan, and a rebuild does not come back to a table (`Past`). `Suffix`: the research tables that still are of the older shape are the last ones; so a row whose parent is not of that shape any more has been given a reference that counts (`Orphan`), or its parent was interrupted, unless two migrated at once. `UpsFollow`: versions are marked in order, and a service that migrates has in its plan whatever is not marked and whatever misses a table, but for the one table it has set aside and not created anew; with `MarkedIsNew` nothing of the older shape is left when the plan is done. What the proofs use of the chain of migrations is in `ChainIs` and `RenewedOnce` |
| `DatabaseProofs`, of `CandleFeed` and `History`: `CandlesAreWhatCame` | `FeedSpec /\ HistorySpec => []ServedIsWhatCame`, for a window of any size, zero included, and any lengths of a bar | For the feed, `Buckets`: an accepted trade is in the open bucket or its minute was closed. `Served`: a candle is the exchange's of a minute that is over, or of a closed minute with all that was accepted of it. `ClosedAreServed`: a closed minute is in the cache or before all of it; that it leaves the window before later ones needs `LastOnesInOrder`, since the cache itself need not be in order (behind the last candle of a closed minute there are only later ones). For the table, `FormingIsLast`: a candle fetched while it was forming is the newest, or out of the window of every limit; and the bars of a window are as many as `Expected` counts (`WantedIs`), of which a fetch brings all but perhaps one |
| `DatabaseProofs`, of `MarketBrain`: `RestartsAreInvisible` | `BrainSpec => []RestartIsInvisible`, for any averages, limits of bars and of ticks, failed writes and crashes | `BrainAgrees`: the bars in memory are those of the table and those whose write failed, and the last bar of a timeframe and time has the price of its row. It holds of a brain that was warmed with every row, and of one whose seeding failed between two rows: a warmed brain is one or the other, unless it is `truncated`; a brain that was not warmed is as the process began, or the latter. `MergeIs`: `_merge_candles` keeps the bars of both tapes, and the last bar of a timeframe and time is the last of the older tape or one of the newer. It rests on `LineIs`: in a strict total order on a finite set every member has one rank, by which `InOrder` places it |

The books of `OrderEntry` and the exposure of `RiskRails` are sums by `SumFunction`, which the library defines by a fold that picks the elements in an unknown order. That such a function exists, is unique, and does
not depend on the order (`SumExists`, `SumAgrees`, `AnyOrder`) is proved by the least size of a set for which it would fail, in place of an induction; the lemmas used elsewhere (`SumSame`, `SumGrows`, `SumMoves`, `RowAdded`, `RowUpdated`) follow from
it. `CapArithmetic` is the one place with products of variables. In the same way `WithWrites` of `SharedDatabase`, the writes of a transaction one after the other, is a recursive function: that there is one (`RunExists`), and what each write leaves in
a set of states (`WritesKeep`) or turns to good (`WritesReach`), follows from the least number of writes for which it would fail.

Only model-checked: all liveness (`HealthyBrokerRecloses`, `CallerReturns`, `FlattenReachesBroker`, `StandbyTakesOver`, `SignalledStops`,
`DriftIsCaught`, `TimersGoOn`, `StopEnds`, `ServesInTheEnd`), because fairness and `ENABLED` are outside the prover's reach; and of the safety properties one and two halves. `ResyncHeals` (`CandleFeed`) counts the time
between the end of an outage and of the mop-ups; for arbitrary constants it needs a window that holds every minute an outage can have missed, and its proof is not written. The second half of `ReplayTellsTheTruth`, `RealizedIsConserved`, is about sums
and first-in-first-out matching computed by folds over data; its first half is proved. In `StoresAndCopiesAgree`, `Repositories` is a finite table of cases (entities and their columns) that TLC goes through entirely; its other half, `LatestBringsBack`, is proved.

## 6. Divergences between the code and what it says

Met while modelling, and part of the models unless it says otherwise. Where a property has an exception, this is where the exception comes from.

### Trading, submission, fail-over

* **A closed gate stays closed.** `daemon_controller.py:430` goes back to the loop's top before the periodic reconciliation, the only thing that could open the gate
  (`broker_state_reconciliation_service.py:289`: "let a genuinely clean reconciliation re-open it"). In addition, after 300 s without a clean result staleness is a severe mismatch of its own (`:270`).
* **Intents are invisible to the reconciliation**: `daemon_controller.py:143` looks for an attribute `_broker` that nothing sets, so an unconfirmed intent is never surfaced.
* **The operator's halt stops one process**: `interfaces/api/operator.py:394` and `:404` act on the API process's own switch.
* `ha_failover.py:154`: the lease is read and appended to in two steps, and a leader renews without reading (`:148`); the docstring promises "Exactly one leader". Two standbys that saw the
  lease free both lead (`raced` in `Failover`), as do a leader that was too slow and who took over from it (`lapsed`).
  `release()` appends its record (`:185`) before it clears `_leading` (`:188`): for that moment who acquires in between leads
  too, which `SplitBrainOnlyByLapseOrRace` does not count, since the other is in its signal handler. A second stop signal in that moment finds `_leading` still set and
  appends another release, over the lease of whoever acquired it (counted as `raced`).
* `daemon_controller.py:403`: the `finally` of `run_forever` uninstalls the fatal handler before the exception reaches `sys.excepthook`, so nothing is flattened (`Escape`, and `ended = "exposed"`).
* `daemon_controller.py:398`: a SIGTERM that comes during start-up clears `_running`, and `start()` sets it again; the daemon runs
  cycles until the shutdown timeout. `SignalledStops` says that it does stop then.
* `daemon_controller.py:235`: books that cannot be read are compared as empty ones; with a flat account that is a clean result (`LocalUnreadable`, and `blind` in `DriftClosesGate`).
* `resilience.py:111`: "exactly one trial call" in the half-open state; the branch is a `pass`, and `AdmitCall` lets any number in.
* `alpaca_broker.py:162`: after the last lost answer the caller is told "rejected", also when the broker has the order (`GiveUp`, then `BrokerAccepts`). This is why `excused` in `TradingDaemon` includes an answer without a fill.
* `factory.py:417`: the journal is "best-effort": a live process whose journal cannot be opened trades without one (not modelled).
* `order_event_engine.py:166`: `replay()` takes no lock and publishes rows that `apply()` has journaled and not yet stored; the docstring (`:9`) has "persistence then happens before publishing".
* `order_event_engine.py:117` and `:136`: an exception or a crash between the journal row and the store makes the retried event a duplicate; the store stays behind for good. A raise at `:145` loses the portfolio update.
* `portfolio_service.py:127`: buying back exactly what a short position is short of divides by zero after the trade was stored as filled (`RaiseOnRow`).
* `portfolio_service.py:113`: nothing makes the position row of a market unique; two first fills add two rows, of which every later update finds the older.

### Asynchronous daemon

* `AsyncDaemonController.stop()` does not stop the ingestor, and a `stop()` before `run()` begins is lost. "cancelled rather than abandoned mid-submit" is not so for threads: cancellation reaches the task, not its
  worker, and an order may come after the drain (`async_daemon.py:300`, `gaveUp`).
* Cycles of one market overlap when ticks come faster than cycles end (`:235`). Exceptions outside `_CYCLE_EXCEPTIONS` vanish with their task.
* An exception between fill and booking is taken for an error of the signal (`cycle_executor.py:481`), and overlapping cycles of a market write over each other's position (`portfolio_service.py:113`): the lot is at
  the broker and in no row, and no flatten finds it. A close that is filled in part counts as closed (`flatten_service.py:90`), and two rows of a market go out under one key, so that the second is told the first
  one's fill (`flatten_service.py:84`). All of this is `slipped`.
* A page that is not delivered, an audit record or a price that raises ends the flatten before it is latched, so that everything is closed twice (`unheard`); concurrent flattens are possible (`overlapped`); a flatten does not touch the portfolio, and its failed
  closes are never tried again (`flatten_service.py:63`). Ticks that wait in the queue at a stop are dropped. This daemon never reconciles, so its preflight depends on somebody else who does.

### Risk rails and halts

* `abs()` in `risk_service.py:110` and `:247` lets a day's profit block trading as a loss does. The day begins anew only with the next recorded result, and `close_position`, which records it, is called by nothing: in the
  built program the rail never accrues. A restart forgets the day and an engaged halt; `PersistentKillSwitch` is never engaged, limited or saved.
* A user's profile replaces the process's rails instead of tightening them: an empty own allowlist opens every market, also in live mode, and its numbers are not range-checked. Retail orders skip `can_trade`, so
  `max_positions_total` does not bind them though `retail/me` shows it. A sell that reduces exposure counts as added exposure.
* No win-rate provider is wired by the orchestrator, so in production `assess_trade` refuses every signal of a cycle. The models let a cycle place orders, which is what the code does as soon as one is wired. The 25 % cap of
  `size_position` is above what it can reach.

### Live feed, supervision, paging

* The dashboard's `source.onmessage` (`app.js:568`) never sees named events (`operator.py:151`), so a connected page is not refreshed by the feed; it polls only after an error (not modelled).
* A page's bounded queue can lose the newest event (two publishers on a full queue, or a page that drains between `Full` and the drop), and a slow page the last switch event to 50 later ones. A circuit opened by rejected
  retail orders is published by nothing. A failing audit row or notification leaves the switch changed and untold (`operator.py:391-426`).
* The heartbeat file is one for all processes and only its last line is read: another process's beats, or its stop marker, mask a death. A restart within 300 s is never told. A signal between the loop's test and its heartbeat, or
  during startup, leaves a heartbeat after the stop marker, which is a false alarm later, as are the beat of an API process that was ended in good order (`api/main.py` never stops the orchestrator that `server.py:450` started) and a daemon slower than 300 s. Who is killed in the drain was stopped, for the file. A torn line swallows the next record.
* `DurableRunManifest.detect_unclean_shutdown` is never wired by the factory: `_detect_crash` is always false and the recovery of OT-002 never runs (not modelled).
* `backup_scheduler.py:108`: "_run_once never raises ... One bad tick must not kill the loop"; but `on_failure` (`:146`) is the notification service, whose router raises when nobody takes a CRITICAL page,
  and that ends the thread (`BackupThreadDies`). `TimersGoOn` is about backup threads that are alive.
* `probe_scheduler.py:266`: a page nobody took is not repeated, and after a restart a recovery is never paged (`unheard`). `:230`: a `start()` while the old thread is stopping starts nothing.

### Operator console

* `database/connection.py:109`: "one connection can be shared safely by all repos/services"; the lock is held for a statement, and the transaction is everybody's. Another thread's commit in the middle of
  `sqlite/workflows.py:69` stores a workflow whose transitions are deleted (`torn`), and two saves at once can store the older step for good (`collided`).
* `strategy_management.py:144`: "Exactly one strategy is PROMOTED at a time"; two promotions that overlap leave two (`raced` in `OperatorConsole`).
* `operator_workflow.py:14`: "impossible to execute out of order"; the check of a step, with the promotion it writes, runs before `advance()` refuses the step (`operator_session.py:105`), and of two requests that both passed
  the check of `advance()` the slower one takes the workflow back, also a completed one, of which nothing is left to do.
* `perform` (`operator_session.py:107`) advances the workflow in memory before it is saved; a save that raises ('database is locked') answers with an error, leaves memory ahead until another save goes through (`unsaved`),
  and its statements in the shared transaction to whoever commits next. After the last step none follows, and the stored workflow stays incomplete.
* After a crash between the promotion and the save, or on a repetition, the promotion step refuses the strategy that is already promoted; and no production code resets a completed workflow.

### Database, stores, backups

* A crash between RENAME and the first INSERT of v006 or v012 leaves the rows in `strategies_legacy` or `*__v012_old`, which no later run looks at; two processes that boot together race in v012, and references between research rows may be lost.
* `traderos backtest` (`cli/main.py:287`) migrates the live database down to 7, which drops users, sessions, keys, experiments and knowledge, against the comment of v009 (`:25-28`).
* "Every up() is CREATE TABLE IF NOT EXISTS" (`migration_manager`) is false for v006 and v012.
* PostgreSQL migrations (not modelled): the guard refuses DROP on remote hosts after the marker was removed, v012 keeps integer ids as text, the DROP of v006 would fail a boot.
* The archiver's purge commits only if it counted something.
* SQLite: a lock held by the other process past the timeout fails a call; a refused INSERT, or a DELETE of no rows, keeps the write lock until the next commit of the process. PostgreSQL: a refused statement of one thread aborts the transaction of all, and the
  commit of an aborted transaction silently rolls back what another thread was told is stored. A revocation that sees an uncommitted session may answer "ok" with nothing written. Audit records that overlap take one predecessor, and so does
  one that looked for the last entry in a SQLite snapshot which ended before it wrote (`behind`; without this exception `ChainBrokenOnlyByOverlap` is false, which the attempt to prove it showed). A PostgreSQL update or delete of a row that another process is about to add changes nothing (`Misses`). `validate_session` never looks at the user's status.
* Between the stores (all in `StoresAnswerAlike`, as its exceptions): PostgreSQL's `list_active` of strategies includes PROMOTED; `get_by_tags` in SQL finds substrings, and a lesson once per tag, on SQLite in any case
  (LIKE ignores that of ASCII letters: 'FX' finds 'fx'), and does not find a tag with a quote, a backslash or a letter beyond ASCII, which `to_json` (`base.py:21`) stores as an escape; what JSON has no form for in `params`, `results` or `metrics` is read back as text (`default=str`); `get_neighbors` in memory is always empty, and in PostgreSQL raises when a
  frontier is empty at depth 2; PostgreSQL's LIKE is case-sensitive, SQLite's only beyond ASCII, `%` is not escaped in either; REAL is single precision there; empty embeddings and results are read back as `None`; PostgreSQL reads trades that v004 altered by position; any of tied rows may be the newest; adding an id that exists, or
  updating one that does not, differs; the unique name of strategies is only in SQL. The order of answers is left out.
* On PostgreSQL `SQLiteHistoricalCandleRepository` gets a connection without `.execute`. `load(limit)` and `DatabaseManager.get_ohlc` return the oldest bars. `_sync_strategy_registry` inserts without an id.
* A backup copies only the main file of a WAL database (`backup.py:54`): commits still in the log are missing, and a checkpoint in the copy tears it. A crash in the compression leaves a partial `.gz`, which `--latest`
  takes and the rotation counts. Rotation goes by name and `--latest` by time, which disagree when backups overlap. A restore moves over the file while the log stays and is replayed over it, and live processes keep the old file. PostgreSQL's `.dump` files are never
  rotated, and `pg_restore` without `--clean` leaves tables that are there as they are.

### Feed, brain, backtest, replay, paper

* With two symbols a mop-up begun by one symbol's candle fetches the minute that the other is about to close, which is served twice. `on_reconnect` fires before the drain, against the comment of `market_stream.py:513-517`.
  A clean close, or stop and start, loses minutes without a resync; after 4 attempts the feed gives up and nothing restarts it; `stop()` before `run()`'s `start()` is lost. An observer that raises loses a closed candle and counts as an outage. A resync in the first moments of
  a minute may leave it unhealed; it asks for at most 120 candles while the window is 512. The collector serves minutes under HOUR_1.
* History: the cache answers at 80 % of what is expected, so the newest bars may be missing and a bar that was forming stays partial; `_SPACING["4h"]` is 6 hours (Binance's bars are 4 hours, so the window is half as wide again; Alpaca
  is asked for 6-hour bars under the label 4h); the Binance collector ignores start and end; a `URLError` is an empty list.
* A restarted brain warms from the *oldest* bars of its store; the synchronous daemon's is warmed once and never updated; one whose source was empty never wakes. A bar is made of the interval's first tick. A "volatile" regime never
  has a direction. Bars are saved row by row, and the save can stop partway.
* Backtest: the ATR mixes highs and lows of one window with closes of another (`backtesting_service.py:187-207`); a volatility breakout goes long when the close is below the average; no cash is checked. `synthetic_candles` give every candle one
  timestamp, so that `walk_forward` would score its warm-up, against its docstring.
* Replay: `get_entries(limit=5000)` takes the newest rows of all actions (in memory the oldest), so long days lose chains; closes whose open lies before the window have no result and open a short lot; a crash between fill and its row leaves a
  filled trade unreported; the rows of `PortfolioService` are not JSON and are ignored.
* Paper: selling more than is held pays cash without a short; resting orders never fill, trailing stops never trigger; a market order without a price fills at 1.0. Sessions of `PaperTradingService` always refuse to start.

### Message queue, elections

* A stopped queue keeps its buffer, and what is published then overtakes it (`direct`); a loop that a stop did not wait for goes on after the next start, beside the new one (`doubled`).
* `leader_election.py:35`: each heartbeat of the leader takes the advisory lock once more and `release` (`:58`) gives it back once, so that after a stop nobody else can lead until the connection is closed. A late heartbeat
  may make the node leader again after its stop (`late`). The connection is never renewed. `release` does not call `on_deposed`.
* `leader_election.py:104`: to acquire again drops the lock for a moment. `:143`: `stop()` removes the path also when another process leads, and the next one to open it leads too (`removed`), also where
  `tests/test_leader_election.py:136` has "only one leader".

## 7. What is not modelled

* Within modelled components: cancel and modify calls of the live broker stack; hooks of a cycle; closing and rebalancing of positions, which no service calls. Prices are constant in `OrderEntry` and `TradingDaemon`, and there is one market in each: the reconciliation compares
  quantities per market, and its price check never applies because the positions Alpaca reports carry no price.
* `OrderEventEngine` and the asynchronous daemon are not started by the production entry points (the daemon is built by `factory.py` for scripts); they are modelled because their guarantees are the documented ones (OT-001 to OT-006).
* In `OperatorConsole`: what the checks of the steps look at, comparing and reviewing strategies, live readiness, and a second orchestrator that a request for another mode would build.
* The API's stream tokens, security headers and rate limits: pure functions of one request, or a counter under one lock.
* The event bus, to which nothing subscribes, and the message queue over Redis.
* Crash-recovery reconciliation (called with empty lists), the safety guard of the database, paper sessions (never started).
* The PostgreSQL branches of the migrations, whose statements are DDL in transactions of their own that SQLite does not have.
* Research detectors, walk-forward and the scripts (8,400 of the 36,500 lines of the implementation): numerical code and evidence collection that keeps no state the program reads.
* Formatting, dashboard, Prometheus text, tracing, secrets, and the wiring but for what depends on its order.

## 8. Where it could go on

The order of work was: breaker and submission with its abstraction, fail-over, daemon with reconciliation and booking, order entry, event engine, paging, console; the asynchronous daemon; migrations, repositories, the shared
connection, backups; feed, history, brain, backtest, replay, paper broker; risk rails, event feed, supervision; and the theorems along the way. What could follow, most important first:

1. A theorem for `ResyncHeals` of `CandleFeed`.
2. The PostgreSQL branches of the migrations beside the SQLite ones.
3. Cancel and modify through the broker stack, once a caller uses them.
4. Crash-recovery reconciliation, once it is called with the orders of the broker.
