# Verification of skeino

skeino serves a LangGraph graph over HTTP: clients create *runs* on *threads*,
stream their events, join, cancel and delete them. These TLA+ modules model the
part of it where things happen in an order nobody chose: the asyncio tasks that
execute runs, the locks and registries between them, the store calls that may
fail or be cancelled half-way, the event streams that fan a run out to its
readers, and the databases and replicas behind them. TLC checks small
instances; TLAPS proves the core safety properties for every number of runs,
requests, subscribers, cancellations and faults.

Paths below are relative to the repository; `runs.py` is
`src/skeino/ops/runs.py`, `concurrency.py` is `src/skeino/concurrency.py`,
`run_streams.py` is `src/skeino/streaming/run_streams.py`, `threads.py` is
`src/skeino/ops/threads.py`, and the stores are under `src/skeino/persistence/`.

## 1. The system

| Component | State | Operations | Talks to |
| --- | --- | --- | --- |
| Run operations (`RunOps`, runs.py) | `_unsettled_threads`, `_unreleased_threads`, `_admitting` | create (background, streaming, stateless), wait, join, cancel, delete, liveness pass, shutdown | everything below |
| Background task (`_run_to_completion`) | its await | lock, claim, busy, graph, success, settle; cancellation and failure handlers | execution lock, store, graph |
| Admission task (`admit`) and producer (`_publish_run`) | their awaits, one after the other under one run id | lock, insert, hand-off; claim ... settle, publish | as above, and the event stream |
| Run registry (`BackgroundRunRegistry`) | `_tasks`, `_active_by_thread`, `_completion`, admission locks | spawn, register_external, active_runs, wait, cancel, shutdown; done callbacks, finalizers | tasks |
| Execution locks (`ThreadLockManager`) | one `asyncio.Lock` per thread | acquire, release | tasks |
| Event stream (`RunEventStream`) | next id, history deque, subscriber queues | publish, close, subscribe, detach, drain | producer, relays |
| Stream registry (`RunStreamRegistry`) | streams by run id, expiry deque | open, get, close, sweep | run operations |
| Metadata stores (memory, SQLite, Postgres, Mongo) | thread rows, run rows; a connection, a pool or a client | create, read, patch and delete threads; insert, conditional status update, delete, heartbeat, claim of stale runs | database, other processes |
| Postgres pool and indexes (`PostgresMetadataStore`) | `_pool`, `_pool_lock`; the advisory lock and the indexes in the database | open on first use, setup, aclose | lifespan, other replicas |
| Thread operations (`ThreadOps`, threads.py) | none of their own | create, ensure, delete; reads and checkpoint updates | store, checkpointer |
| Lifespan (`app.py`) | exit stack, liveness task | set up, serve, shut down, close | all of the above |
| Orphan sweep and heartbeats | `updated_at` of rows | `heartbeat_runs`, `fail_orphaned_runs`, thread releases | store, other processes |
| Streamer, serialization, assistants, HTTP layer, configuration, tracing | little or none over time | request/response | the graph |

What makes it hard:

* **Concurrency without threads.** Every `await` is a point where other tasks
  run. A check and the action it guards are atomic only without an `await`
  between them, or under a lock.
* **Cancellation.** `interrupt`, `rollback`, `cancel`, a departing client and
  shutdown all cancel tasks. The cancellation is delivered at whatever await
  the task is at: before its first step (no handler of its body runs), in the
  lock queue, in a store call whose effect may or may not have been committed,
  inside a failure handler.
* **Hand-offs.** A streaming run changes its task (admission, producer,
  finalizer) under one run id and holds one lock across all three.
* **Partial failure.** A store call may raise with or without its effect.
* **Several writers of a row.** The run itself, a cancel call's backstop,
  another worker's sweep, a delete.
* **Bounded queues and history** between a producer that never waits and
  readers that may be slow, gone, or never have started.
* **Several processes.** Locks and registries belong to one process, the rows
  to all: liveness is a heartbeat, and clocks decide who is dead. Replicas set
  up one database at the same time.
* **Transactions and cancellation.** A cancelled statement still executes in
  SQLite's thread, on a connection the whole process shares.

The properties each component owes are stated at the end of the modules, each
with the behaviour it is about.
`PROJECT.json` lists the hazards with the line where each one bites.

## 2. The modules

| Module | Models | Kind |
| --- | --- | --- |
| `RunStore` | the run rows of a store: insert, conditional update, delete | operators |
| `RunExecution` | tasks, execution lock, stream life cycle of the runs of one thread | state, one action per await |
| `Runs` | request handlers, admission, multitask strategies, cancel, delete, settle retry, another worker's sweep, around `RunExecution` | specification, properties |
| `MCRuns` | instances of `Runs` for safety | TLC |
| `MCRunsLive` | the instance of `Runs` for liveness | TLC |
| `RunsProofs` | proofs about `Runs` | TLAPS |
| `LifecycleProofs` | proofs about how the runs of `Runs` are admitted and how they end | TLAPS |
| `StreamModes` | `stream_mode_matches` | operators |
| `StreamContract` | what an event stream promises a subscriber | abstract specification |
| `EventStream` | `RunEventStream` in detail; implements `StreamContract` | specification, properties |
| `MCEventStream` | instances of `EventStream` | TLC |
| `EventStreamProofs` | proofs about `EventStream`, the refinement among them | TLAPS |
| `OrphanSweep` | processes over one store: heartbeats, clocks, crashes, the sweep pass | specification, properties |
| `MCOrphanSweep` | instances of `OrphanSweep` | TLC |
| `OrphanSweepProofs` | proofs about `OrphanSweep` | TLAPS |
| `RunStreams` | the registry of streams: retention, expiry, cap | state, operators, property |
| `JoinedRuns` | joins and stream joins of runs that start, are handed off, end, are cancelled or deleted, and the shutdown; over `RunStreams` | specification, properties |
| `MCJoinedRuns` | instances of `JoinedRuns` | TLC |
| `JoinedRunsProofs` | proofs about `JoinedRuns` | TLAPS |
| `StatelessRuns` | the stateless routes and the owners of `after_run` | specification, properties |
| `MCStatelessRuns` | instances of `StatelessRuns` | TLC |
| `StatelessRunsProofs` | proofs about `StatelessRuns` | TLAPS |
| `StoreScripts` | the statements of each call of the SQL and Mongo stores | operators |
| `MetadataStores` | concurrent calls of the four stores, several processes on one database | specification, properties |
| `MCMetadataStores` | instances of `MetadataStores` | TLC |
| `MetadataStoresProofs` | proofs about `MetadataStores` | TLAPS |
| `PostgresSetup` | the Postgres pool and the index maintenance of replicas that start and stop | specification, properties |
| `MCPostgresSetup` | instances of `PostgresSetup` | TLC |
| `PostgresSetupProofs` | proofs about `PostgresSetup` | TLAPS |

`Runs` is `RunExecution` composed with the request handlers; its `SweptElsewhere`
and `RetryRead` are what one process sees of `OrphanSweep`, where in turn a run's
task is reduced to `step[r]`. `JoinedRuns` follows the same runs by what a joiner
can see of them (`work[r]`), and adds who is told what; `StatelessRuns` by who
has to clean up after one. `MetadataStores` opens up the store calls that the
other modules take as one step each.

### Runs

One thread is modelled: locks and strategies are per thread and the code keeps
no state across threads that a run of another could disturb. A task is a
program counter, `task[r]`, that names the await it is suspended at; one action
is what the task runs from that await to the next.

| `task[r]` | await in the code |
| --- | --- |
| `ready`, `lockWait` | spawned; `lock.acquire()` |
| `insert` | `create_run` in `admit` |
| `start` | producer spawned, not yet run |
| `claim`, `lost` | `update_run_status(running)`; `fetch_run_row` after a write that lost |
| `busy`, `graph`, `finish`, `settle`, `tokens` | `update_thread(busy)`; the graph; `update_run_status(success)`; the settle; the token count |
| `failMark`, `failLost`, `failThread` | `_mark_run_failed` |
| `intMark`, `intLost`, `intThread`, `resettle` | `_mark_run_interrupted` and the second settle: the background task's `CancelledError` handler, or `finalize_run` |
| `ended` | a producer that returned; its finalizer is due |
| `dropRow` | `_interrupt_row_only` |
| `done`, `gone` | task over; done callback run |

An await ends in one of three ways. `Resumes`: the call took effect and
returned. `Raises`: it raised, with or without its effect (`row' \in {row,
...}`). `Unwinds`: a requested cancellation is delivered, again with or without
the effect. `cancel[r]` is `none`, `requested` or `delivered`; `RequestCancel`
is the guarded `if not task.cancelling(): task.cancel()`, `PassCancelOn` the
unguarded cancel that reaches an awaited task.

A create request is `creator[r]`: in the admission lock's queue, cancelling
victims one by one, deleting them, inserting its row (background), awaiting its
admission task (streaming), or answered. `tracked[r]` is what `_tasks` holds:
`active_runs` reads it and prunes finished tasks, which can run a done callback
early. `callback[r]` is the admission task's done callback, which runs after
the producer was registered.

Choices that abstract:

* The effect of a store call and the resumption of its caller are one step.
  Between the two other tasks could only see the effect earlier than the caller
  moves on; for the cancelled and the failed call, where it matters, both
  outcomes are taken.
* Ready tasks run in any order. asyncio runs them first in, first out; the
  model allows more, and every counterexample recorded was checked to be an
  order the loop can produce.
* A finalizer's start is merged with its first write.
* A background run and a streaming run share the actions of their bodies; where
  they differ (who releases the lock, who writes `interrupted`) the action asks
  `Streaming(r)`.
* A client with `on_disconnect="continue"` that leaves changes nothing modelled.
* The graph is one await that returns, raises or is cancelled. The attempt loop
  around it is not modelled.

### EventStream

Event ids are positions in `log`; the history deque loses its oldest events
only, so it is `log` after `evicted`. A subscriber has a queue of ids, the
marker behind it (`mark`: the end, or the overflow), the ids of the history it
has yet to replay, in their order, and `delivered`. An iterator that was read
from (`started`) takes its queue out of the stream when it ends, fails or is
closed (`Leave`); one that was not has no `finally` to run, so it is detached
explicitly (`Detach`), or it is dropped and its queue stays where it is
(`Vanish`). Who owes the detach is `StatelessRuns`' subject. `joined` is a history variable, the last id
when it subscribed: without a history a subscriber's cursor is where it joined,
even if its client sent an older `Last-Event-ID`. `Last-Event-ID: -1` is the
cursor 0. What a subscriber's generator runs from one yield to the next is
several steps here, between which the producer may publish; the code has fewer
interleavings. `KeepsContract` is the refinement: under `cursor <- Cursor`
every behaviour of `EventStream` is one of `StreamContract`, where a subscriber
receives each event after its cursor that its modes accept, in order, its
stream ends only after the last, and it is dropped only for lagging more than a
queue behind and, on a resumable stream, only when events after its cursor are
gone.

### OrphanSweep

`row`, `age`, `thread` and `threadAge` are the store; a run has an `owner` and a
`step`; a process has its clock (`beat`, `missed`) and its sweep pass: the job it
is at (`job`: the settle retry, the scan, the claims, the release of the threads
of failed runs, the release of stuck threads), the await in that job (`at`), and
its memory (`candidates`, `unsettled`, `unreleased`, `verdict`). The three
releases have one shape, `ReadThread`, `CheckRows` (pending rows, then running
ones), `WriteVerdict`, with an await between any two, and they differ in what a
thread that is not busy, a run in flight, or an exception does to the retry set.

Time advances by `Tick`, which waits for every heartbeat that is due: an
attempt is made every `Beat` ticks, and it may fail (`HeartbeatFails`), twice in
a row only for a process in `Unreliable`. Ages beyond `Timeout` are all the
same. A crash (`Crash`) takes the process's tasks and memory; `Restart` gives it
an empty registry. The stores differ in how `fail_stale_runs` claims: memory
and Postgres in one step, SQLite in a transaction, Mongo row by row. The model
claims row by row; the others do the same with nothing in between.

One thread is modelled, so the search for stuck threads and the registry check
of the one found are one step.

### JoinedRuns and RunStreams

`RunStreams` is `RunStreamRegistry`: `streams` is the map's keys, `expiry` the
deque, `closedAt` each stream's time; every open, get and close sweeps. Runs have
one stream each, under their own id. `KeepsWhatItPromised` compares the map with
what the settings promise, computed from the history of closings (`closes`).

`JoinedRuns` gives each run a row, the task tracked under its id (`job`,
`admission`, `producer`), how far that task is (`work`), and its completion
future. A joiner looks its run up, waits for the admission to be over
(`_await_admission`), then either attaches to a stream or waits for the task and
its finalizer and reads the row. `ProducerFinished` is the test of
`join_run_stream` that looks at the task and not only at the stream: between a
producer's return and its finalizer the stream is open and silent. Shutdown
(`ShutDown`, `AllUnwound`, `SweepRow`) lists the active runs, cancels and awaits
every task and completion, then interrupts rows still in flight; the server has
answered its requests before the lifespan gets there (`Quiet`).

A joiner learns a background run's id from the answer to its create, so it knows
rows that exist; a streaming run's id may be used before its row is inserted. A
background task that is cancelled before its first step, or inside its failure
handler, and an admission whose cleanup after a cancelled insert is cancelled as
well, end with their row in flight (`Strand`). Before a shutdown that makes the
run `stranded`, the finding of `MCRuns_never_run`: nothing tracks it, and its row
waits for the backstop of a cancel call, a rollback or an orphan sweep
(`EndStranded`); after it the shutdown's own sweep is there for the row. The
properties say what holds of stranded runs and of all others. The store does not
fail here.

### StatelessRuns

The thread of a stateless run is known to one request, so one request is the
whole system. `request` and `task` are the awaits of the request and of the
run's task, which is in turn admission, producer and finalizer (`produced`), or
a background job. `after_run` is the labels `read`, `checkpoints`, `rows`:
whoever goes to `read` begins the discard, and `discards` counts it. `Interrupt`
says what a cancellation does at each await of the task, `Leave` what a
departing client does to the request and, with `on_disconnect="cancel"`, to the
task; `cut` records that a cancellation or a failure hit the discard or the way
to it, where the code gives no promise.

`queue` is the subscription that `start_producer` takes for the response before
the response exists. While the client waits for admission (`awaiting`) it may
leave before admission is done, and then a done callback (`callback`,
`AbandonAdmission`) detaches the queue, or after, and then the request does
(`GiveUp`); between the answer and the first read (`replying`) nobody does
(`unread`); after that the relay's `finally` does. The hand-over is the same for
every streaming run; it is modelled here because a stateless run is the smallest
one that has it. The batch route calls the create route
once per item and adds nothing.

### MetadataStores and StoreScripts

`StoreScripts` has one definition per method and store: the statements it
executes, in order, down to the commit. `MetadataStores` runs them: a call waits
for a connection (the one of SQLite, one of the pool's `PoolSize`, none for
Mongo), executes its script statement by statement, and gives the connection
back. `written[conn]` is what a connection's transaction has written and not
committed, `open` the SQLite connections inside a transaction. A statement waits
(`Blocked`) for another process's write transaction in SQLite, which gives up
after its busy timeout (`TimesOut`), or for a row lock in Postgres. `Trouble`
is one await that goes wrong: the statement fails, its answer is lost, or the
awaiting task is cancelled. A cancelled statement of aiosqlite is executed by
its thread all the same; psycopg's may or may not have been. What happens to the
transaction then is each store's: `pool.connection()` rolls back, SQLite's sweep
rolls back, SQLite's other calls leave the transaction to the next call on the
connection. The memory store executes a call without an await.

Rows carry what the callers depend on: a status, and whether the heartbeat is
late. The databases (unique and foreign keys, visibility, locks) are external
and modelled from what the code relies on.

### PostgresSetup

A replica's lifespan runs `setup` while other tasks may already call the store;
the first to need the pool opens it under `_pool_lock`. Pools are numbered, and
`live[w]` are those with connections. The index loop is `Connect`, `TryLock`,
then `Probe`, `Drop`, `Create` per index, on a session of its own; the server
publishes an index as invalid, builds it, and a crashed client's session, with
its advisory lock and its build, lives on until the server notices
(`SessionEnds`). Unlocking and closing the session are one step: either releases
the lock. Requests and run tasks have ended when the exit stack closes the pool.

## 3. The runs

Every constant of a configuration is a bound:

| Constant | Meaning |
| --- | --- |
| `Runs` | the runs clients create on the thread: 2, in `MCRuns_live` 3 |
| `MaxFaults` | store calls that raise: 0 or 1; each property is about what one failure does |
| `MaxForeign` | rows swept by another process or deleted by a client |
| `MaxCancels` | runs a cancel call is made for |
| `Requests`, `CancelModes` | which requests and cancels clients make |
| `SettleRetry` | whether the liveness pass runs |
| `Complications` | `MCRuns_live`: a third request, a store call that raises and a cancel call that waits, at most one of them in a behaviour |
| `QueueSize`, `MaxHistory`, `MaxBytes`, `MaxEvents` | 256, 10 000, 16 MiB and unbounded in the code; here a queue of 1, a history of 2 events and 2 bytes, 3 events of one or two bytes, so that overflow, both kinds of eviction, catch-up and an overflow during it all happen |
| `Workers`, `MaxRuns`, `Outcomes` | `OrphanSweep`: the processes (2), the runs (1) and how it ends |
| `Beat`, `Timeout` | 1 and 3 ticks: the shortest timeout the settings accept, where the margins are smallest |
| `Unreliable`, `MaxCrashes` | the process that may miss heartbeat after heartbeat; 1 crash |
| `Joiners`, `Asks` | `JoinedRuns`: one joiner, of any mode, that asks for the first of two runs, which are alike |
| `Retention`, `MaxRetained`, `MaxTime` | one tick, one stream and a clock of one tick: a stream expires, or is pushed out by the other run's, and a run outlives both |
| `MaxCancels`, `MaxFailures` (`StatelessRuns`) | two departures or shutdowns and two failing store calls, so that a discard already begun after a failure is hit as well |
| `Callers`, `Home`, `Calls`, `FirstRows` | `MetadataStores`: any call against two of the racing ones, creates of the same thread among them on both sides, two calls in one process and one in another, over three tables |
| `PoolSize`, `MaxTroubles` | a pool of 1, the smallest, where a call that needs two connections waits for itself; one await that goes wrong |
| `Users`, `IndexCount`, `MaxStarts`, `MaxFailures` | `PostgresSetup`: one caller besides setup on one replica, two indexes in any state, two starts of each replica, two failures or crashes |

Two runs on a thread are enough for the safety properties about pairs (a victim
and its superseder, an executing run and a queued one). `MCRuns_live` has three:
a background and a streaming run that enqueue, so that one waits for the execution
lock which the other holds, and a run that rolls back what it finds;
the proofs below lift the main ones to any number. A subscriber does not affect
another: two are there to see that detaching one leaves the other alone.

| Run | Shows |
| --- | --- |
| `MCRuns_strategies` | every kind, strategy and `on_disconnect`, clients leaving, a failing store call: one run in the graph, reject runs never overlap, only enqueue joins a live run, only the settle retry's own write takes busy from the thread of an executing run, one terminal event |
| `MCRuns_cancels` | cancels, sweeps and deletes: streamed runs settle their row, terminal events match rows, success does not strand the thread, a waited-for cancel is true, terminal statuses are final |
| `MCRuns_live` | runs that wait for the execution lock and one that rolls them back, with the liveness pass, a failing store call or a cancel call that waits: every run ends, every create and cancel is answered, settles happen |
| `MCEventStream` | nothing lost or repeated, the contract (refinement), every reader gets to the end |
| `MCOrphanSweep` | late heartbeats, a crash and a failing store call: a run is reported failed once, no process fails its own run, punctual processes lose none, orphaned runs end, threads are released |
| `MCMetadataStores` | one end per run and it stands, claims are reported, no run row without its thread, creates agree, every call ends |
| `MCPostgresSetup` | no pool leaks, no index is dropped under a build, finished maintenance means valid indexes, every start ends |
| `MCJoinedRuns` | joiners are told how the run ended, of the local runs only a stranded one is refused as another worker's, retention, every join ends, the shutdown settles the rows of what was tracked |
| `MCStatelessRuns` | one discard at most, never under the executing run, nothing left, the subscription of a client that left is given back |

`CHECK_DEADLOCK` stays on for `Runs`, whose `Resting` step exists only when all
requests are answered and all runs over: every run, the one with cancel calls
included, would find handlers and tasks that wait for each other. A stream that
is closed with no subscriber left really stops, and so do a database whose calls
are over, a replica that was stopped and a process that shut down: the other
runs switch the check off.

**Events.** The instance of `EventStream` publishes `values` and `updates`
events. `StreamModes` also matches `messages` events and names of subgraphs; the
streamer of this commit publishes none under those names (the tests for it are
marked as expected failures), so they are not among the events published.

**Fairness.** The event loop runs every ready task, and a store call ends, so a
run's task (with its callbacks), a create request, a cancel request and the
liveness pass are each weakly fair. The same holds of the tasks and joiners of
`JoinedRuns`, of the request and the task of `StatelessRuns`, and of the store's
tasks in `PostgresSetup`, where the server ends its builds and notices dead
clients; no replica has to start, stop or fail. The databases of `MetadataStores`
answer, and connections are lent in turn. The graph is taken to end: a graph that
never returns holds its thread's lock for ever and no property could hold.
Clients, cancels and other processes owe nothing. Of an event stream only the
iterator of a client that keeps reading is fair; publishing and closing are
not, so `EveryReaderEnds` starts from a closed stream. In `OrphanSweep` time,
the two loops of `maintain_runs` and the restart of a dead process are weakly
fair; runs are not, so no property there relies on one that ends.

### What the code does not do

Three runs are expected to end in a violation. Each checks one statement of the
documentation that the code does not keep, and each is recorded under `findings`
with the quotation.

| Run | Statement | What happens |
| --- | --- | --- |
| `MCRuns_never_run` | threads-and-runs.md:221, an interrupted run is left `interrupted` | a background run superseded before its task's first step (or inside its failure handler) runs no handler and stays in flight in the store until a sweep fails it |
| `MCRuns_lost_end` | streaming.md:58, the terminal event matches the persisted status | a failed write of `interrupted` is reported as a success and `end` is published over a row still in flight |
| `MCEventStream_dropped` | streaming.md:69, a resumable subscriber is caught up if the events it missed are retained | expiry is judged by its cursor without its mode filter, so evicting events it never wanted drops it |

The models contain more behaviours of this kind, which the properties name as
exemptions:

* The settle retry (runs.py:1685-1706) checks that nothing runs on the thread,
  awaits, and writes its status: a run started in between executes on a thread
  marked idle. `OnlyARetryUnmarksThreads`, checked and proved with the retry on,
  exempts this write and no other.
* `_release_orphaned_thread` (runs.py:1148-1153) has the same shape: a status that
  another process's run settled the thread to meanwhile is replaced by `error`,
  although its docstring says the thread keeps it (runs.py:1040-1041);
  `_release_stuck_threads` (1127) too.
* A second cancellation of a superseded admission (its client leaves, runs.py:472)
  aborts the write that interrupts its row, which stays pending until a sweep:
  `StreamedRunSettlesRow` excludes clients that left.
* A success write that commits but raises ends in the failure handler
  (runs.py:1351), which loses to the run's own success and leaves the thread busy
  until the release of stuck threads finds it: `SuccessNeverStrandsThread` and
  `TerminalEventMatchesRow` are checked without store faults, and
  `CancelKeepsItsWord` holds for cancel calls, which have the backstop that
  superseding creates lack.
* A SQLite call cancelled between its write and its commit leaves the process's
  one connection in a transaction. Reads of the process see the write, the next
  call commits it (a thread's delete, for example, half done: the runs gone, the
  thread not), a failing sweep rolls it back, other processes cannot write
  meanwhile and may time out. A concurrent `do_nothing` create conflicts with an
  uncommitted thread row, rolls it back and answers 409, so
  `CreatesAgree` is not claimed of SQLite after trouble. A sweep cancelled during
  its commit keeps its claims although it reports none (sqlite_store.py:436-437
  says that a failure rolls back every claim): `ClaimsAreReported` exempts calls
  in doubt.
* The request of a stateless create that is cancelled while it waits discards the
  thread under its still running job (runs.py:883-898), whose later checkpoints are
  never deleted: `NoRunOnDiscardedThread` and `NothingIsLeft` exempt it.
* A run stranded by a superseding create (`MCRuns_never_run`) is in flight with no
  task. A join that waited for its task answers from the row in flight, although
  the docstring says that it waits for a terminal state (runs.py:222); a later join
  is refused with 409 although no other worker has the run; and the shutdown does
  not list it, although its docstring says that no run row is stranded across a
  restart (runs.py:1220-1223). `JoinsTellTheOutcome`, `OnlyStrandedRunsRefused` and
  `ShutdownSettlesRows` allow this for stranded runs only.
* A response whose client leaves after the run was admitted and before the first
  read of the relay never starts the relay, whose `finally` would detach the
  subscription and, with `on_disconnect="cancel"`, cancel the run: the queue stays
  attached until the stream closes, filled up to its bound, and the run goes on
  (run_streams.py:212-221 says that such a subscription must be detached).
  `AbandonedQueuesAreDetached` excludes it (`unread`).
* `after_run` is skipped when a cancellation hits the write after a failed insert,
  or an admission that never started and whose client has already gone
  (`NothingIsLeft` exempts what is `cut`), although runs.py:326 says it is awaited
  exactly once; a cancelled or failed discard leaves litter.
* A replica that finds the advisory lock held by the lingering session of a dead
  one skips the index maintenance and serves: nobody builds the index until the
  next start. `IndexedMeansValid` speaks of starts that ran the sequence.

## 4. The proofs

Proved for any constants that satisfy the modules' assumptions:

| Theorem (`RunsProofs`) | Property |
| --- | --- |
| `TypeCorrect` | `TypeOK` |
| `LockIsOwned` | `LockOwnership`: the lock's owner is the run between acquire and release |
| `RunsExecuteOneAtATime` | `OneExecutor`, from it |
| `TerminalRowsAreFinal` | `TerminalIsFinal` |
| `ExecutingThreadsAreBusy` | `OnlyARetryUnmarksThreads`, with the retry on or off |
| `StreamsEndOnce` | `OneTerminalEvent` |

| Theorem (`LifecycleProofs`) | Property |
| --- | --- |
| `RejectsNeverOverlap` | `RejectedRunsNeverOverlap` |
| `OnlyEnqueueJoins` | `OnlyEnqueueJoinsLiveRuns` |
| `CancelsKeepTheirWord` | `CancelKeepsItsWord`, whatever the store does |
| `TerminalEventsMatchRows` | `TerminalEventMatchesRow`, for `MaxFaults = 0` |
| `StreamedRunsSettleRows` | `StreamedRunSettlesRow`, for `MaxFaults = 0` |
| `SuccessesAreRemembered` | `SuccessNeverStrandsThread`, for `MaxFaults = 0` |

| Theorem (`OrphanSweepProofs`) | Property |
| --- | --- |
| `SweepTypeCorrect` | `TypeOK` |
| `LiveRunsAreSafe` | `LiveRunsSurvive`: for every timeout of at least three heartbeats |
| `OwnRunsAreSafe` | `OwnRunsNeverSwept` |
| `RunsAreReportedOnce` | `ReportedOnce` |

| Theorem (`EventStreamProofs`) | Property |
| --- | --- |
| `StreamTypes` | `TypeOK` |
| `NoEventIsLost` | `NothingIsLost` |
| `StreamKeepsContract` | `KeepsContract`: `EventStream` implements `StreamContract` |

| Theorem (`JoinedRunsProofs`) | Property |
| --- | --- |
| `JoinTypes` | types |
| `JoinersAreToldTheOutcome` | `JoinsTellTheOutcome` |
| `LocalRunsAreJoined` | `OnlyStrandedRunsRefused` |
| `ShutdownsSettleRows` | `ShutdownSettlesRows` |
| `RetentionIsAsPromised` | `KeepsWhatItPromised`: for every retention, cap and clock |

| Theorem (`StatelessRunsProofs`) | Property |
| --- | --- |
| `StatelessTypes` | `TypeOK` |
| `DiscardsOnce` | `DiscardedAtMostOnce` |
| `DiscardsIdleThreads` | `NoRunOnDiscardedThread` |
| `StopsCleanAlways` | `StopsClean`: the safety half of `NothingIsLeft`, whoever stops last has cleaned up |
| `QueuesAreWatched` | `NoQueueIsForgotten`: the safety half of `AbandonedQueuesAreDetached`, a subscription left attached has a callback that will release it |

| Theorem (`PostgresSetupProofs`) | Property |
| --- | --- |
| `SetupTypes` | `TypeOK` |
| `PoolsAreClosed` | `NoPoolLeaks` |
| `BuildsAreLeftAlone` | `NoBuildIsDropped` |
| `IndexesStayValid` | `IndexedMeansValid` |

| Theorem (`MetadataStoresProofs`) | Property |
| --- | --- |
| `TypesAreRight` | `TypeOK` |
| `RunsEndOnce` | `EndedOnce` |
| `NoRunIsOrphaned` | `RunsKeepTheirThread` |
| `WhatCallersKnowStands` | `EndsStand` |
| `SweepsReport` | `ClaimsAreReported`, where only sweeps write `error` (`OnlySweepsFail`) |
| `CreatesAgreeAlways` | `CreatesAgree` |

The argument. `LockOwnership` is inductive with the types and `Fresh`: a run
whose create has not spawned a task has none, is untracked and not in the lock
queue. It is an equivalence, so each action must move the lock and the program
counter together; a run's own actions are the only ones that do, and the lock
is free when it is taken. Mutual exclusion follows since the graph is one of
the places where the lock is held. `OnlyARetryUnmarksThreads` needs the lock
invariant: a step of a task that writes the thread's status is taken by the
lock's owner, so not while another run is in the graph; of the handlers' steps
only the write of a settle retry, which holds no lock, touches the status. `OneTerminalEvent` needs to know that
nothing has been published at the places from which a run publishes
(`Unwritten`), and that a producer that ended has published (`Published`).

The proofs go through the actions once. Lemmas on each task action give its
footprint: how the lock and the program counter move, what becomes of the rows,
of the thread's status, of the stream. The invariants are proved from the
footprints, with the handlers' actions, which touch tasks only by spawning and
pruning, as one more case each.

The first part of `LifecycleProofs` is about what a request finds out under the admission lock and
must still be true when its run is spawned. It asks the registry, so a live run
must be tracked through its admission, its hand-off and its finalizer, which the
late callback of an admission must not undo (`Registered`). It keeps the lock
until the spawn (`InCharge`). Meanwhile the live runs are the ones it has yet to
cancel and the one it is waiting for (`Covered`): none is spawned, and one it
crosses off is over or was never tracked. So each handler either stands by, or
presides over the admission without starting a task, or starts one with nothing
else alive unless it enqueues (`HandlerKinds`); a lemma for each kind and one for
the tasks' steps give the invariant and the action property together.

The second part follows a run and its row to the end. `Inserted`: from where a run
begins, its row exists, and so it does for a run that a cancel request found. With
it, what such a request has read or written stays as it is (`Word`): an update
changes rows in flight only, and no row is inserted twice (`Unwritten`). The other
three need a store whose calls do not fail, as in the run that checks them: after
a failed call the code closes the stream with what it could not save, which
`MCRuns_lost_end` shows. `Tale` says what the place of a run tells of its row, from
`claim` to the finalizer; a cancellation at any await is one more step of it. A row
swept by another worker, interrupted by a backstop or deleted meanwhile keeps the
tale true because only a row in flight changes. `Remembered`: a thread that is
busy and not queued for a settle has a run that answers for it, which has not
ended in success, or whose cancellation handler has yet to find out.

`OrphanSweepProofs` has one inductive invariant, `IInv`. `Punctual` bounds the
age of a run in flight by the time since the last heartbeat that was not missed:
`beat[w]`, plus one `Beat` if the last attempt failed. So a run of a process
that never missed two in a row is at most two beats old, and with
`Timeout >= 3 * Beat` (the validator of `SkeinoSettings`) it is not stale, which
is what a claim requires (`LiveRunsAreNotStale`). `Fresh` says that a sweep's
candidates are not its own active runs, which needs that a run created after
the scan is no candidate; `Settles`, that a reported run is over, so that no
second claim succeeds; `Alive`, that only live processes execute. Most actions
are `Quiet`: they leave reports and clocks alone and only end runs, and are
treated together; creating, claiming, ticking, heartbeats and crashes have a
lemma each.

`EventStreamProofs` is about what a subscriber is due, the contract's
`Due(s)`. What it has yet to replay is due and comes before everything else that
is (`Ordered`). While its queue has not overflowed, replay and queue together
are exactly what is due, the queue ascending and behind the replay (`Held`),
which is `NothingIsLost`. An overflow empties the queue, and `Held` with it; from
then on more than a queue of what is due is in neither (`Behind`): the ids of a
full queue are distinct, so they are as many as it has room for, plus the event
that found it full. `Behind` is what lets the contract drop a subscriber, and it
is needed as an invariant because the replay may still be going on and events
may still be published before the overflow is found. `Fanned` says why every
other event arrives: a reader is attached, or the stream is closed, or it has
the overflow ahead of it. Each step then maps to the contract's step of its
name, with catching up a stutter. Which events the history limits evict does not
matter, only that eviction never goes back or past the last event.

`JoinedRunsProofs` ties registry, row, stream and completion to one another run
by run, since a joiner reads them at different moments. `Hand` says which task
has the run and what the others say meanwhile: the stream is open exactly while
the producer is tracked, and so is the completion future pending. `Heard`: a
terminal event is on a stream that is closed or about to be finalized, over a
row that is settled. `Left`: a row in flight that nobody tracks is one the
shutdown has still to sweep, or that of a stranded run. `Joined` is what a joiner
relies on at each of its awaits; that a joiner past its wait is on a run that is
over, and settled unless it was stranded, is what makes its answer true.

`RetentionIsAsPromised` needs a second invariant, `Kept`, and from the first one
only that a run's stream is closed once. The closings are in the order of their
times (`Closes`), so the deque, from whose front the registry removes, is always
the end of that history (`Deque`), and what has left it is what the clock of the
last sweep or the cap had overtaken (`Lapsed`); the map holds the live streams and
the deque (`Mapped`). A sweep (`_sweep`) pops while the head is due: it stops at the
first entry that is not, whose existence is the well-foundedness of the numbers
(`FirstOf`), and since the closings are in order it has dropped exactly those
whose time was up (`SweptIs`).

`StatelessRunsProofs` is about who owns `after_run`: the request until the run is
handed off, then the run's task, or the request again when the task never took
a step. `Owner` says that the owners exclude one another, `Owed` that none has
discarded before its turn, `Kept` that what exists is still owed by somebody.
The exception of a create whose client left (`Abandoned`) goes through all of
them. `Watched` is about the subscription: it exists only once the producer was
started, and a request that is over while it is attached, or may still come to
be, has left a callback on the admission. So the order in which the client
leaves and admission ends does not matter.

`PostgresSetupProofs` has two owners. `_pool_lock` belongs to the one task of a
replica that is opening or closing a pool (`Holder`), so a live pool is the
store's or that task's (`Pooled`). The advisory lock belongs to one session, and
so does every build (`Locker`): the session that waits for the lock cannot meet
a build of a session that is gone. While it is held nobody else touches an index,
so the loop finds each as its last step left it (`Loop`). `Stages` says which
tasks exist in which phase of the lifespan.

`MetadataStoresProofs` is about any number of calls, in any number of processes,
of all four stores. It starts with what one statement does to the database and
with the scripts read from the middle: the kind of a statement tells what may
still follow it. Every action of a call then begins it, executes one statement
or ends it early, and the invariants are proved of these three. They build on
one another. `Base`: types and scripts. `Locked`: no two open transactions have
written the same row (`Exclusive`), since SQLite has one writer at a time
and one call at a time on a connection, and a Postgres transaction that has
written a row is about to commit, and blocks whoever wants to write that row.
`History`: a run id is created once, and a run that ended stays ended in the
rows and in whatever a transaction has yet to commit. `Credits` is then the
reason for `EndedOnce` and the larger half of `EndsStand`: whoever was told
that it ended a run either has the end in its own open transaction, which
keeps every other writer off, or the end is committed, which no conditional
update overwrites. `Kept` (with foreign keys: what a transaction sees includes the
thread of every run it writes) and `Loose` (without: a delete removes the runs
first) give `RunsKeepTheirThread`. `Tidy` says that what a SQLite connection has
written belongs to the call that holds it, as long as nothing went wrong on the
connection; reads need it, since they see uncommitted writes of their own
connection. `Reported` traces every `error` to a sweep that will report it, and
`Agreed` what each create knows of the thread to the row it made or met.

The proofs of the stores use these assumptions on the constants: runs, callers
and workers are distinct kinds of ids, runs and callers finite sets, calls and
first rows well formed, and in the first rows every run has its thread.
`SweepsReport` has the hypothesis `OnlySweepsFail`, that no other call writes
`error` and no first row has it, because a row does not say who wrote its status;
the instance of the run satisfies it, and `ClaimsAreReported` would be false of a
run whose own task wrote `error`.

Proving showed one mistake of the model. The arms of the `CASE` in `Effect` and
`Change` overlapped: an insert that was refused also matched the arm of a write
that takes effect. TLC takes the first arm that is true, but the meaning of `CASE`
leaves the choice open, so nothing could be proved of a refused insert. The arms
are disjoint now, and the checks show what they showed before.

Left to TLC:

* Liveness, in every module, and the halves of `NothingIsLeft` and
  `AbandonedQueuesAreDetached` that say that request, task and callback do get
  there: `EveryRunEnds`, `EveryRequestAnswered`, `EverySettleHappens`,
  `EveryReaderEnds`, `OrphansEnd`, `ThreadsReleased`, `EveryCallEnds`,
  `EveryStartEnds`, `EveryJoinEnds`, `NothingIsLeft`,
  `AbandonedQueuesAreDetached`. They rest on fairness and
  `ENABLED`, which the provers do not reach. Every invariant and every action
  property that a run checks is a theorem.
* `EventStream`'s choice of what to evict, a fold over byte sizes: its value for
  every history would be an induction over data. No theorem depends on it.

Four of those theorems have a hypothesis on the constants beside the modules'
assumptions, which the runs that check the properties satisfy too: no store fault for three properties of
`LifecycleProofs` (without these they are false, see "What the code does not do"),
and `OnlySweepsFail` for `ClaimsAreReported`.

## 5. What is not modelled, and why

* The attempt loop of `_publish_run` (runs.py) and the streamer's classification
  of what may be retried. The graph is one await in these models. The rule "retry
  only if nothing was published" is a condition read and used without an await.
* Copying threads, their state and history, and searches. What the first three
  change are checkpoints, which belong to LangGraph; searches are reads. A thread
  deleted while `update_state` or a run of another process writes its
  checkpoints may leave those behind; the code makes no promise about it.
* The schema set-up of SQLite and MongoDB: statements that are idempotent,
  executed once by a lifespan.
* The checkpointer's own pool. It is opened by one lifespan before anything
  uses it; a cancellation in the middle of opening it is not handled by the code.
* In `PostgresSetup`: a second cancellation while a pool that failed to open is
  being closed, and a call that reopens the pool after `aclose`.
* In `OrphanSweep`: rows and threads deleted during a pass. The claims and the
  releases are conditional updates that find nothing then.
* In `Runs`: the value a run returns, with the fallback to the thread's latest
  state when a run wrote no checkpoint of its own; the inline wait routes, which
  create a run and wait for it in one request, except for stateless runs.
* Request parsing and response shapes, serialization, assistants, usage counting
  and tracing, configuration. They are pure functions or wiring, without state
  that several actors share.
