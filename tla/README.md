# TLA+ models of democr.ai

democr.ai routes AI requests to engines that run on one or several nodes, and
indexes documents for them. This directory holds TLA+ models of the code that
decides who runs a request, what happens when a node, a transaction, a worker
process or a stream fails in the middle of it, what its caller gets to see, how
a document gets into the indexes and out of them, and what a user is told of the
background work done for them; TLC instances that check the models; and TLAPS
proofs of the safety properties they rest on.

Paths below are relative to the repository. `engine/` stands for
`src/democrai/core/infrastructure/ai/engine/`, `orchestrator/` for
`src/democrai/core/application/ai/engine/orchestrator/`, `runtime/` for
`src/democrai/core/application/ai/engine/runtime/` and `knowledge/` for
`src/democrai/core/application/knowledge/`.

## 1. Inventory

### 1.1 How a request travels

A caller hands a request to the **queue transport**. The transport subscribes to
the response stream of the request, inserts a row into the **durable queue** (a
table of the application database), publishes `queued` and reads the stream
through the **response stream reader**. On every node a **claim worker** polls
the table, decides which rows this node may run (placement, capacity, installed
engines), claims them and runs each in a task of its own: it publishes
`accepted`, calls the **orchestrator service** of its node, publishes what the
service returns or streams, publishes `end`, and settles the row. A lease loop
beside the run renews the lease and watches the cancel flag. The service creates
a job in its **job registry** (or joins the one already there), submits it to the
bounded **scheduler**, and the scheduler's task resolves an engine, batches the
request and executes it, putting events into the job's output queue. The
**engine runtime** keeps one worker process per engine row and model, creates
the one a call needs under the row's lock, and talks to it over a pipe; what
runs is published as the **node state** that placement reads.

The parts meet in five places: the row (database transactions of several nodes),
the response stream (memory or redis), the registry (calls, runs and cancels of
one node), the job (its future and its output queue) and the table of handles
(threads of one node). Nobody holds a lock over two of them, which is where the
difficult behaviour comes from.

### 1.2 How a document travels

An upload creates a background task and an **extraction request**. An extraction
process claims it and writes the extracted items and an **ingestion request** in
one transaction. The **knowledge runtime** of the core process claims ingestion
requests in batches, upserts source and item, and enqueues **projection jobs** in
an outbox; it then works off the outbox, job by job: vectors, graph,
classification. Deletions mark source and item and enqueue delete jobs after
their transaction; a forced one also purges the item with its last job.

### 1.3 How background work is told

The **task manager** of a node keeps a task with its key in memory and in the
database, runs its coroutine on the network loop, asks its user for confirmation
and tells them the outcome: over the connections the **registry** of the node
lists, else through the redis **bridge** to all nodes, else through the
**notification queue** in the database, which the user's next message flushes.
Extractions of uploads are tasks without a coroutine: whichever node ingests the
document reports for them.

### 1.4 Components

| component | state | operations | what is hard | what makes it correct |
|---|---|---|---|---|
| Durable queue (`engine/invocation/queue/store.py`) | one row per request: status, owner, lease, attempts, backoff, cancel flag, first chunk | enqueue, peek, claim, renew, complete, fail, mark_cancelled, request_cancel, mark_first_chunk, release, purge | transactions of several nodes on a row; an ownership check that is not repeated by the UPDATE | only the holder settles; a settled row stays settled; attempts are bounded |
| Claim worker (`queue/claim_worker.py`) | a task, a lease loop and a writer per row; in-flight counters | tick, decide, claim, run, handle failure, stop | crash or stop at any await, lost leases, cancels between chunks, two runs of one request; decisions that are out of date when they are carried out | every request settles; an announced outcome agrees with the row |
| Queue maintenance (`queue/maintenance.py`) | – | purge, fail rows of dead origin nodes | races with late writers | a purged row is never written |
| Queue transport (`engine/invocation/transports/queue.py`) | an open reader | enqueue, invoke, invoke_stream, cancel, control fan-out | enqueue succeeds and the publish fails | every caller returns |
| Response stream (`engine/response/`) | entries, subscribers, sequence numbers | publish, subscribe, read | entries of two attempts, dropped entries, publish to nobody, truncated streams | an `ok` has a result; no token twice |
| Orchestrator service and job registry (`orchestrator/server.py`, `jobs.py`) | jobs, terminal timestamps | create, join, refuse, evict, prune, cancel, await, stream | several callers of one job, stale timestamps, closed generators | a running job is registered; an outcome is final; callers return |
| Scheduler (`orchestrator/scheduler.py`) | queue, slots, tasks | submit, dispatch, run, stop | cancellation between any two awaits; stop with work in flight | slots and the join count balance; stop leaves no job |
| Placement, node state (`orchestrator/placement.py`, `node_state*.py`, `node_views.py`) | published node views, instance records | should_claim, publish, reconcile | every node waits for a better one; views and records out of date | some node claims; records settle on what runs |
| Engine runtime (`runtime/`, `engine/worker.py` beside it) | handles, row locks, worker processes and their locks | ensure_running, invoke, invoke_stream, unload, stop, shutdown | a lock that is dropped while it is held; a worker closed under a call; cancelled threads | one worker per model and configuration; every worker can be closed; every call returns |
| Resolver, executor (`resolver.py`, `executor.py`) | – | resolve, run | retriable against terminal failures | an error is classified once |
| Batching (`orchestrator/batching.py`) | open batches | join, flush, leave | a join during a flush | every member is answered exactly once |
| Quotas (`src/democrai/core/application/access_policy/`) | counters | check, consume | two requests pass one check | the limit holds |
| Knowledge indexing (`knowledge/`) | three queues, sources, items, projection states, indexes | upload, extract, ingest, project, delete, rebuild, purge | jobs that overtake each other by failing, a delete between read and write, actors that stop with rows in hand | indexes agree with the item; nothing extracted is forgotten; what is purged is in no index |
| Task manager (`src/democrai/core/application/tasks/`) | tasks and keys of each node, their rows | submit, progress, confirm, cancel, finish, recover | cancels, crashes and failed writes between memory, row and message; nodes that recover each other's rows | a key is held while its work lives; an outcome stays; every task ends |
| Notifications (`notification_queue.py`, connection registry, redis bridge) | connections, undelivered notifications | register, send, publish, enqueue, flush | connections that are closed, broken or registered again; users who are away | who is away is told on return |

### 1.5 Hazards

`PROJECT.json` lists the hazards of this code line by line, each with the
properties that would catch it. They fall into these groups:

* *a decision on a row that has changed since it was read* – every settling
  method of the store, the tick that claims or fails a row later, `mark_cancelled`,
  a projection between its read of the item and its write to the index;
* *a process that dies between two writes that belong together* – the first
  chunk and its flag, `end` and `complete()`, enqueue and `queued`, a deletion and
  its jobs;
* *two runs of one request* – leases that expire under a live run, a node that
  takes a request over from itself, zombies that still hold a writer;
* *cancellation at any await* – of calls, jobs, tasks, the dispatcher, a stop, a
  stream that waits for a lock;
* *a lock that does not cover what is done* – the row lock that is dropped while
  it is held, the handle that is used without it;
* *memory, row and message that are not written together* – the status of a task,
  its row and its notification; a connection that is gone and still listed;
* *bounded queues and batches* – the scheduler queue, the output of a job, the
  stream, the page of a tick, the batch of a runtime.

Noted while reading and covered by no property: an output queue smaller than the
events a job publishes before anyone reads (`jobs.py:92`) blocks a unary job for
ever, which `JobsAssumption` excludes; a crashed worker stays in `_handles` and is
reused until somebody unloads it (`_ensure_handle` does not poll it); `close()`
and `cancel_request` wait for a worker without a timeout; two knowledge runtimes
may claim the same outbox job (`outbox.py:18-30` takes no lock, unlike the
ingestion queue); a request that joins a batch being flushed, or leaves one that
was flushed (`batching.py:155`); `submit` runs before the try of
`_invoke_stream_job` (`server.py:585`), so a full queue leaves a failed job
registered; a caller may wait in `put()` while `stop()` drains the queue
(`scheduler.py:103`).

Noted of background tasks, and allowed for by the properties: with a bridge
`_send_to_user` reports success for a user who is connected nowhere, so nothing is
queued, although `notification_queue.py` is there for users who are away
(`task_manager.py:838`); a message handled after its connection was closed
registers it again for good (`flows/streams.py:147`); a node that restarts marks
the running tasks of other nodes as interrupted (`task_manager.py:758`); an
extraction that ends on a node that does not know its task leaves the row running
(`task_manager.py:566`), and so does one that is given up, since the process that
extracts has no task manager, and one whose ingestion request was claimed by a
process that ended, since a claim passes over `processing` rows
(`ingestion_queue.py:88`); a publish or an enqueue that fails is logged and its
message is gone (`redis_task_bridge.py:126`, `notification_queue.py:59`), the
question of a confirmation included; keys are compared within one node only
(`task_manager.py:689`); a submission right after a cancel joins the cancelled
task; a repeated answer to a confirmation may answer the next one.

## 2. Plan

The order is by what a failure would cost a user: first the life of one request,
then the node it runs on, then what chooses the node, then the processes behind
it, then the other queues.

| step | module | what it is for | state |
|---|---|---|---|
| 1 | `InvocationStore` | what each store method reads and writes | done |
| 2 | `DurableRequest` | abstract specification: the promise of the queue | done |
| 3 | `EngineInvocation` (extends 1, implements 2) | workers, stream, client, crashes | done, checked at read committed, every safety property and the refinement proved |
| 4 | `EngineJobs` | registry, scheduler and calls of one node | done, checked, every safety property proved |
| 5 | `EngineClaimTick` (extends 1) | several rows: pages, capacity, placement, engines installed nowhere | done, checked, every safety property proved |
| 6 | `EngineRuntime` | worker processes, locks, node state | done, checked, every safety property proved |
| 7 | `KnowledgePipeline` | the three knowledge queues and the indexes | done, checked, every safety property proved |
| 8 | `TaskManager` | background tasks, connections and what a user is told | done, checked, every safety property proved |
| 9 | batching | members of a batch that join, leave and are answered | open |

Every safety property of a passing run is a theorem (section 6). What would be
worth stating and proving next is how `EngineClaimTick` and `EngineInvocation`,
which both build on `InvocationStore`, imply each other's assumptions about the
row.

## 3. The modules

### 3.1 `InvocationStore` – the row

A module of operators only; `engine/invocation/queue/store.py` method by method.
A method opens a session, loads the row with `session.get`, decides, and flushes
an UPDATE of the changed columns whose WHERE clause is the primary key. The
module keeps the two halves apart: `Complete(r, n)`, `Fail(r, n, retriable)`,
`MarkCancelled`, `RequestCancel`, `MarkFirstChunk` and `AdminFail` are the
`Update` a method decides on from the row `r` it read (`NoUpdate` when it returns
"stale" or "missing"), and `Apply(r, u)` is the UPDATE meeting whatever row is
there at the commit. `claim` alone locks its row (FOR UPDATE SKIP LOCKED) and is
one value, `Claimed`. Times are reduced to what the queries compare: `ready` is
`available_at <= now`, `expired` is `lease_expires_at < now`.

### 3.2 `EngineInvocation` – one request

| variable | in the code |
|---|---|
| `row` | the request's row in `engine_invocation_queue` |
| `run[w]` | an `_execute_row` task: where it waits, its `_QueueJobContext` (`lost`, `cancelled`), its writer's sequence, the update it is about to write |
| `job[n]` | the `EngineJob` registered for the request on node `n` |
| `up[n]` | whether the claim loop of the node runs |
| `stream` | entries published and not read |
| `client` | transport and `EngineResponseStreamReader` |
| `user`, `admin` | a `cancel()` call and a failing tick between read and write |
| `hazards` | the scenario of a behaviour: what its environment may do |
| `faults`, `expiries` | bound and history |
| `overtaken` | history: a method wrote what it would no longer have decided on the row its write met |

An action is what a coroutine does between two awaits.

| actions | code |
|---|---|
| `Claim` | `_decide`, `_claim_rows`, first step of `_execute_row` |
| `Accept`, `YieldChunk`, `PublishChunk`, `Return`, `JobRaises`, `PublishClosing` | `_run_job`, `_run_stream_job`, `_run_control_row` |
| `PublishFails` | the redis provider raises: no subscriber, or it is down |
| `ReadCancelFlag`, `TxnRead`, `TxnCommit` | the handlers of `_execute_row`, `_handle_failure`, `_fail_row`, and the store method they call |
| `Renew` | one round of `_lease_and_cancel_loop` |
| `EngineFinishes` | the scheduler settles the job |
| `LeaseExpires`, `BackoffElapses` | time |
| `Crash`, `Stop`, `Restart` | a process dies; `run_until_stopped` ends; the node comes back |
| `Submit`, `QueuedPublished` | `_enqueue` of the transport |
| `Receive`, `CheckRow`, `GraceEnds`, `LeaveRead`, `LeaveCommit`, `GiveUp` | `entries()` of the reader, its row check, its two seconds of grace, its cancel on the way out |
| `CancelRead`, `CancelCommit` | a user's `cancel()` |
| `Peek`, `FailUnclaimable*` | a tick that fails a row whose engine is installed nowhere |
| `Purge` | `purge_terminal` |

**Isolation.** The database runs at its default isolation level (read committed for
PostgreSQL, `infrastructure/database/providers/postgres.py`; SQLite's transactions are
deferred, `sqlite_tuning.py`), and `session.get` takes no lock. So a store method is two
steps, `…Read` and `…Commit`, with anything in between: a claim, an expiry, another
method. Everything is checked and proved like that. What a method wrote on a row it would
have decided differently on is remembered in `overtaken`, because three promises hold only
until that happens: that the holder alone settles a processing row (`SettledByHolder`),
that the row behaves like the abstract request (`ImplementsDurableRequest`), and that an
announced error stays settled (`ErrorIsSettledOrCancelled`). The `zombie` run shows the
first one fail. The other safety properties need no such condition: attempts, answers,
duplicates and answered requests are as promised whatever write overtakes another.

**What is abstracted.** Peek, decision and claim are one step, because `claim`
re-evaluates its filter under the lock (`EngineClaimTick` takes them apart). The
renewal reads and writes one column that only delays others, and is one step.
`queued`, `keepalive` and `message` entries only count as activity for the reader
and are left out of the stream. A run carries the state of the job it waits for,
so that a later job of its node is not mistaken for it; pruning of the registry
is the subject of `EngineJobs`. `Stop` falls between transactions of its node (a
transaction runs in a thread and is completed). `Purge` waits until no run or
transaction is under way: the retention is days. `release` and the reservation of
a row for its origin node are left out: they need a resolver error that
`orchestrator/server.py:633` rules out by passing `allow_swap_prompt=True` for
every job. Database errors are not modelled: a failing transaction looks like a
stall, the lease expires. Timeouts are nondeterministic. A lease that nobody is
left to renew expires freely; one of a live run expires only as the fault `stall`
(a blocked loop, a slow database).

`Hazards` is a set of scenarios; a behaviour explores one of them, and `MaxFaults`
bounds crashes, stops, stalls and failed publishes together. Cancels, a client
that gives up and an uninstalled engine are not counted.

### 3.3 `DurableRequest` – the promise of the queue

What the queue promises about one request, without attempts, leases or messages:
it waits, a node holds it (another may take it over), it goes back to waiting or
is settled, and in the end it is forgotten. Only a held request is completed; a
settled outcome changes only by the administrative failure. `EngineInvocation`
implements it with `phase`, `holder` and `outcome` read off the row
(`ImplementsDurableRequest`).

### 3.4 `EngineJobs` – one node

| variable | in the code |
|---|---|
| `job[c]` | the `EngineJob` a call created: status, its task, whether `task.cancel()` was called, its output queue |
| `registry`, `since` | `EngineJobRegistry._jobs`, `_terminal_since` |
| `queue`, `unfinished` | `asyncio.Queue` of the scheduler and its join count |
| `slots`, `dispatcher`, `scheduler` | the slot semaphore, the dispatcher loop, how far `stop()` has come |
| `call[c]` | a caller of `invoke_request` or `invoke_stream_request` |
| `outlived` | history: jobs that ran when the timestamp of an earlier job of their request ran out |

| actions | code |
|---|---|
| `Enter`, `Join`, `Create` | `evict_terminal_job`, `get_or_create_job` with its pruning, `submit` without waiting |
| `Put`, `PutTimesOut` | `submit` waiting for room |
| `Answer`, `Read`, `Finish` | `_await_job_result`, `_invoke_stream_job` |
| `Leave`, `Drop` | the context is cancelled or late; the coroutine or generator is dropped |
| `CancelRequest`, `Expires` | `registry.cancel`, the terminal TTL |
| `TakeSlot`, `Dispatch` | `_dispatcher_loop` |
| `TaskStarts` … `TaskUnwinds` | `_run_queued_job`, `publish_async` |
| `TaskDropped` | asyncio: a task cancelled before its first step runs nothing |
| `Stop`, `StopJoined`, `StopTimesOut`, `StopEnds` | `stop()`, `_cancel_queued_jobs` |

**What is abstracted.** Progress events of a job are `note`s; of its statuses
those that a reader, a canceller or the scheduler can tell apart are kept
(queued, resolving, invoking and the three outcomes). Callbacks scheduled on the
loop (`call_soon`) are merged with their cause: no coroutine observes the state
between. The reader's pop and its next look at the future are one step. A call
enters only while the scheduler is up: the claim worker is stopped before the
service (`orchestrator/process.py:163-169`); a gRPC call that starts the scheduler
again during the shutdown is left out. The terminal TTL runs out at any time, also
under a later job of the same request, which is then pruned while it runs
(`jobs.py:348` leaves the timestamp of an evicted job): `outlived` remembers it. A
stream dropped with more chunks than its output holds keeps its slot for ever
(`claim_worker.py:815` cancels no job); the model has that as the hazard
`"dropStream"` of an instance, and the runs do not explore it.

`JobsAssumption` asks for `OutputSize >= 3`: a job publishes up to three notes
before anybody reads and nothing in the code rejects a smaller output queue; the
default is 256.

### 3.5 `EngineClaimTick` – several rows, several nodes

`EngineInvocation` lets any node claim. Here the claim workers decide: a tick
reads the published views and the installs once, then pages through the claimable
rows in their order, decides row by row with an await between any two, and at the
end of a page fails what must fail, or else claims, or else reads the next page.

| variable | in the code |
|---|---|
| `row[r]` | the row of request `r` (a record of `InvocationStore`) |
| `aged` | rows past `placement_force_claim_age_seconds` |
| `tasks[n]` | `_execute_row` tasks of node `n`, by request and attempt; `_engine_in_flight` counts them |
| `up`, `fresh`, `view` | the process, its heartbeat and the score its published state earns |
| `tick[n]` | locals of `_tick`: installs and better placed peers as read at its start, offset, page, `to_claim`, `to_fail` |

| actions | code |
|---|---|
| `StartTick`, `Peek`, `Decide` | `_tick`, `_load_installed_engines`, `peek_claimable`, `_decide`, `should_claim` |
| `FailRow`, `ClaimRows` | `_fail_unclaimable_row`; `_claim_rows` with `store.claim` |
| `TaskEnds` | `_execute_row` completes or fails its row, if its node still owns it |
| `Enqueue`, `BackoffElapses`, `Age`, `LeaseExpires`, `Stall` | transports and the clock |
| `Crash`, `HeartbeatExpires`, `Restart`, `Publish` | nodes and what they publish |

**What is abstracted.** A store method is one transaction (`EngineInvocation` looks
inside). The order of the queue is a constant (`Place`), and a page is the set of its
rows, handled smallest place first. Installs do not change during an instance. A node
earns the same score for every request: which of several comparisons is out of date does
not matter to the properties, only that one may be. The eligible nodes of `should_claim`
are read with the views, at the start of the tick. `has_running_job` may or may not see
a task of the node's own (its job is registered a little later and ends a little earlier
than the task), so both answers are allowed while there is one. Control rows, rows
reserved for an origin node and selectors that resolve to nothing are left out, and so
is the error entry that a failed row publishes.

### 3.6 `EngineRuntime` – worker processes of one engine

Threads warm, call or stream a model, unload one or stop the engine; a worker and
a row lock are named by the caller that created them.

| variable | in the code |
|---|---|
| `handles`, `rowlock`, `held` | `_handles`, `_row_locks`, and who holds each lock – also one no longer in `_row_locks` |
| `process[h]`, `lock[h]` | the worker process and `EngineHandle.lock` |
| `call[c]` | where caller `c` is, the row lock and handle it holds a reference to, what it must close |
| `record`, `publisher` | instance records of the node and a reconcile between its read and its write |
| `dropped` | history: a row lock was dropped while somebody used it |

| actions | code |
|---|---|
| `Start`, `AcquireRow`, `Reuse`, `Replace`, `Spawn`, `Initialised`, `InitFails`, `InitDies`, `Register`, `Record` | `_ensure_handle`, `EngineWorkerSubject._start`, `record_instance_running` |
| `Enter`, `Answered`, `CallFails`, `CancelWaiting`, `CancelStream`, `GhostTakes` | `invoke`, `invoke_stream`, `_request`, `_wait_stream_response` |
| `Unload`, `Stop`, `Close`, `Remove` | `unload_model`, `stop_engine`, `EngineHandle.close`, `record_instance_removed` |
| `Read`, `Write`, `Crash` | `publish_once`, `reconcile_instances`, a worker dies |

**What is abstracted.** One engine row, one operation per caller. `shutdown` and
`sync_active_engines` act like a `stop` on the row and are not actions of their
own; `cancel_request` is left out, an error is an answer. `handle.lock` and the
lock inside the worker subject are always taken together and are one. A worker
that runs answers, and answers a close: a worker that hangs is not modelled. A
publisher cycle that finds the inventory unchanged and skips is a stutter. A
blocked event loop is not modelled. `GhostTakes` is the thread of
`to_thread(handle.lock.acquire)` that goes on after its stream was cancelled.

### 3.7 `KnowledgePipeline` – documents

| variable | in the code |
|---|---|
| `task` | background task of the upload |
| `extraction`, `extracted`, `ingestion`, `jobs` | the three queues and the extracted items |
| `source`, `item`, `synced` | knowledge records and projection states (per backend) |
| `index` | vector store and graph: vectors, the item's node, its evidence by version |
| `deletion` | a deletion whose jobs are not enqueued yet |
| `worker`, `runtime` | what an extraction process and the knowledge runtime have in hand |
| `asked`, `faults` | bounds |

| actions | code |
|---|---|
| `Upload`, `DeleteSource`, `DeleteByMetadata`, `EnqueueDeletes`, `Rebuild` | `store_uploaded_media`, `soft_delete_source`, `delete_by_metadata`, `_enqueue_delete_jobs`, `rebuild_source` |
| `ClaimExtraction`, `Extract`, `ExtractFails`, `Release` | the extraction queue processor |
| `ClaimRows`, `Payload`, `UpsertSource`, `UpsertItem`, `EnqueueUpserts`, `CompleteRow`, `Report`, `IngestFails`, `Tell`, `AnnounceFails` | `process_batch` of the ingestion processor, `ingest` |
| `ClaimJobs`, `ReadItem`, `Embed`, `Write`, `Mark`, `CompleteJob`, `Purge`, `ProjectFails` | `process_outbox_once`, the `process_*_job` functions, `purge_deleted_item_if_ready` |
| `ExtractionDue`, `IngestionDue`, `JobDue` | `available_at` is reached |
| `Reload`, `CrashCore`, `CrashWorker` | `reload_knowledge_runtime`, processes that die |

**What is abstracted.** A document is one request with one extracted item. The
batches (16 rows) are never full. Backoff keeps a row `failed` until it is due. Of
the indexes only what belongs to the item is kept; scopes, entities, embeddings
and time nodes are left out. `replace_item_graph` is merged with the upsert before
it, the enqueues of the jobs of one version are one step, and so are
`mark_item_status` and `upsert_projection_state` (the runtime is their only writer).
There is one knowledge runtime; what it has in hand are sets of positions, taken
oldest first. Reports of an extraction process about the task go
nowhere, because it has no task manager. A purged outbox row stays in the sequence
as `purged`, so that the runtime's positions keep their meaning.

### 3.8 `TaskManager` – background tasks and their user

The processes that share the database, the tasks submitted to them, and one user
who connects, answers, cancels, leaves and comes back.

| variable | in the code |
|---|---|
| `tasks[n]` | `TaskManager._tasks` of node `n`: the status of its task objects |
| `rec` | `background_tasks`: the status in the database |
| `run`, `at`, `round` | where the coroutine of a task is (or the upload, the request and the worker of an external one), on which node, at which confirmation |
| `node`, `snap` | the processes, and what `recover_from_db` has read and not written back |
| `listed[n]`, `late` | the user's connections in the `ConnectionRegistry` of a node – alive, broken unnoticed, or closed and registered again –, messages of closed connections still to be handled |
| `notes` | `pending_notifications` that are not marked delivered |
| `wire`, `bridge` | messages published on redis; whether a bridge is configured |
| `told`, `lost` | history: messages that reached the user, and those that reached nobody, because they were sent into the void or failed to go out |
| `torn`, `faults` | history (tasks whose row was not written as it should) and bound |

| actions | code |
|---|---|
| `Submit`, `Begin` | `submit`, `submit_external_sync`, the first step of `_runner` |
| `Progress`, `Ask`, `Question`, `Resume` | `update_progress_sync`; `request_confirmation` that writes the row, asks the user, and goes on after its await |
| `Enqueue`, `GiveUp`, `Take`, `Retry` | `store_uploaded_media`, and what becomes of an upload until it is reported on: an extraction given up, the claim of its ingestion request, a try that fails |
| `Finish`, `FinishExternal`, `Tell`, `Unwind` | the ends of `_runner`, `complete_external_sync`, `_notify_user` |
| `Message`, `Answer`, `Cancel` | `build_context` with `NotificationQueue.flush`, `handle_task_response`, `handle_task_cancel` |
| `Leave`, `LateMessage`, `Drop`, `Notice` | `on_bus_disconnect`, a message handled after it, a connection that breaks and is noticed |
| `Listen` | `RedisTaskBridge._listener` |
| `Crash`, `Restart`, `Recover` | a process ends, and `recover_from_db` with its read and its writes apart |

**What is abstracted.** What runs between two awaits on the network loop is one
step, and a node whose loop is at a task's last await, or about to ask, or in an upload
does nothing else (`LoopFree`). The ingestion of an external task runs on the loop
of the knowledge thread (`knowledge/runtime.py`) and is not bound by that; `_notify_user`
finds a running loop there too, so with a bridge it publishes from either. A publish
that fails, and an enqueue whose commit fails, are only logged: the message is in
`lost`. A redis message reaches the listeners of all nodes in one step. A request that
a node holds when its process ends is never claimed again and its task is `stranded`,
like one whose extraction was given up or whose failure could not be written. A
`fail_external_sync` for a task that `complete_external_sync` has just completed, when the
completion itself raised (`ingestion_queue_processor.py:78-93`), is left out. The progress
messages themselves are left out, because nothing waits for them; so are lists and
queries of tasks, several users and organizations, and the initial notifications of
super users. A failed write is logged by the code and leaves the row as it was, and
what a flush could not mark as delivered is queued still.

### 3.9 Model-checking and proof modules

The `MC*` modules only define values for constants (which worker slot is on which
node, which caller asks what, the symmetry set). The `*_proofs` modules hold the
theorems, one per component but for `EngineInvocation`, which has three:
`EngineInvocationTypes_proofs`, `EngineInvocation_proofs` (the row) and
`EngineInvocationAnswers_proofs` (the caller), each extending the one before.
Definitions commented `Deviation:` are plausible bugs of the operator
that follows them; `PROJECT.json` names, for each property of a passing run, the
deviation that violates it.

## 4. The runs

| run | instance | asks | result |
|---|---|---|---|
| `request` | 2 nodes with one run each, unary and stream, all hazards in three scenarios, one fault; nodes symmetric | the safety of ownership, attempts, answers, and the refinement of `DurableRequest` | holds; 3,992,581 states |
| `live` | 2 nodes with two runs on one of them, unary, stream and control rows, a crash or a stall, fairness | every request settles and every client returns, also when a node takes a request over from itself: the unary run joins the registered job, the stream is refused and retried | holds; 617,911 states |
| `calls` | 2 calls for one request, both modes, with and without waiting for room, cancels, leaves and drops, fairness | outcomes are final, streams complete, every job ends, every call returns | holds; 455,622 states |
| `slots` | 3 calls for 2 requests, one slot, queue of one, cancels, drops, a stop that joins or times out | slots and join count balance; running jobs are registered; a stop leaves no job | holds; 1,922,988 states |
| `tick` | 3 requests (the first for an engine installed nowhere), 2 nodes, engines of capacity one, pages of two, a crash, stall, failed run or changed view, fairness | capacity, one run per row, every row settles | holds; 171,390 states |
| `index` | 1 document, 1 extraction process, 2 attempts, one deletion or rebuild, any two faults, fairness | indexes agree with the item; nothing is forgotten; only a stop strands a row; tasks end; nobody waits for ever | holds; 129,527 states |
| `runtime` | 3 callers, 2 models, 2 configurations, any one fault, fairness | workers stay reachable and shared, calls return, node state settles | holds; 337,044 states |
| `tasks` | 2 nodes, two submissions of one key and an extraction, two of the three calls made, with and without a bridge, any one fault, fairness | keys are held by work that lives; outcomes stay; the user is told; every task ends | holds; 247,588 states |
| `zombie` | 2 nodes, unary, a stall | does only the holder settle a row? | violated (finding 1) |
| `blocked` | 2 requests, 2 nodes, the front request's engine only on one, which crashes | does every row somebody can serve settle? | violated (finding 2) |
| `purge` | 1 document, forced deletion, failing projections | does a forced deletion remove the item? | violated (finding 3) |
| `converge` | 3 callers, no fault | does a model have one worker per configuration? | violated (finding 4) |

### 4.1 What the properties say

Of one request: attempts exceed `MaxAttempts` only by the leases that expired
(`AttemptsBounded`; `claim` itself consults no bound); a completed row whose caller
still reads has its `end` in the stream, and an `ok` has a result (`AnswersAgree`); an
error a client can read means a settled row or one somebody asked to cancel, until a
write overtakes another (`ErrorIsSettledOrCancelled`); two runs work at once, and tokens
repeat, only after an expired lease (`DuplicatesOnlyAfterExpiry`); without a fault an
answered request is not queued again (`AnsweredIsNotRequeued`); only a run on the
holding node moves a row out of `processing` until a write overtakes another
(`SettledByHolder`; `HolderSettles`, without that condition, is what the `zombie` run
refutes), and until then the row takes the steps of the abstract request
(`ImplementsDurableRequest`); whatever fails, a submitted request is settled and its
client returns (`RequestSettles`).

Of one node: no path through cancellation, failure and shutdown loses or doubles
a slot or a `task_done` (`SlotsAccounted`); an unfinished job is the one its request
is registered with, unless the timestamp of an earlier job ran out under it
(`RunningIsRegistered`); a stream that ends well has delivered
every chunk (`StreamComplete`); a stopped scheduler leaves no job that could still
run (`StopEndsJobs`); the outcome of a job is final (`OutcomeIsFinal`); `JobsEnd` and
`CallsReturn`.

Of several rows: no node runs more on an engine than its limit, although rows are
decided one by one before any is claimed (`CapacityRespected`); every task is the
attempt its row is leased to, unless the lease ran out under it
(`TasksHoldLeases`); while a node with its engine is up a row is claimed in the end,
and one nobody can serve is failed (`RowsSettle`).

Of workers: a process that runs can be reached by unload and stop, or somebody is
about to register or close it (`ResidentIsReachable`; excepted are failed inits and
dropped row locks); calls of one model and configuration share its worker unless a
row lock was dropped (`ConvergesUnderLock`); calls that nobody disturbs succeed
(`UndisturbedCallsSucceed`); every call returns unless a cancelled stream leaked the
lock of its worker (`CallsReturn`); the instance records settle on the workers that
are registered and alive (`NodeStateConverges`).

Of documents: when all that was asked is done, an item that lives is in both
indexes and says so (`LiveIsIndexed`), a deleted one is in neither
(`DeletedIsUnindexed`); a purged one never is (`PurgedIsUnindexed`); extracted content
has an open or dead-lettered ingestion request (`ExtractedIsQueued`); a row stays
`processing` with nobody at it only if an actor was stopped (`OnlyStopsStrand`); the
background task ends with the processing (`TaskEnds`); the queues drain
(`PipelineDrains`).

Of background tasks: an active key belongs to a task whose coroutine lives on that
node, and to one only (`KeysAreHeldByLiveTasks`); a recorded outcome is changed by
nothing but the recovery of a node that read the row before it was written
(`OutcomesStand`); again and again every recorded outcome has reached its user,
unless its message reached nobody, which without a bridge takes a fault and with one
only that the user is connected nowhere when redis delivers (`OutcomesAreTold`); no
row stays active for ever, unless its write failed, its question reached nobody, or
its work is out of reach: done by a node that does not know the task, given up by the
extraction, or held by a process that ended (`TasksEnd`).

### 4.2 Bounds

Two nodes are enough for every interaction over a row: the parties are its holder
and one other, and a third would only repeat the second. Two attempts give a
failure with and one without a retry. A run publishes at most one chunk (two in
`calls`): what matters is before or after the first. The stream holds two entries,
so that publishers wait and entries of two attempts meet. One fault at a time
(`MaxFaults = 1`), combined in `request` with a cancel or an uninstalled engine; the
third scenario combines cancels, a client that leaves and an uninstalled engine
without a fault; all together, or a second fault, multiply the states beyond a short
run. In `EngineJobs` one slot and a queue of one make every limit reachable with two or
three calls; three calls over two requests let one be refused while another runs.

In `tick` three requests with pages of two fill a page, leave a rest, and let two
requests compete for one slot. The first view is the worst one: a node that deems
itself unfit next to one that has published nothing. In `runtime` three callers
are one that creates, one that shares or competes, and one that takes away; two
models tell the last unload of an engine from others. In `index` one document is
enough because rows of different documents meet only in the order of a batch; two
faults let a step fail and its retry meet another disturbance. In `tasks` two
submissions of one key join each other, and an extraction meets a task of another
kind; one confirmation is enough for an answer to arrive at every moment of it,
and a second node is needed for what nodes do to each other's rows and messages.

The theorems of section 6 hold without these bounds.

Deadlock is checked in `EngineInvocation`, where the only state without another step is
a returned client with a purged row (`Over`), in `EngineClaimTick`, `EngineRuntime` and
`TaskManager` (claim loops, publishers and users never stop). In `EngineJobs` the calls
are finitely many and the system stops when they are over, so it is not checked there;
`JobsEnd` and `CallsReturn` say instead that nobody is left waiting. The same holds for
`KnowledgePipeline`, whose uploads and requests are bounded; `PipelineDrains` stands in.

## 5. Fairness

`EngineInvocation`: the coroutines of runs, lease loops and the client run (weak
fairness of `RunStep(w)`, `Renew(w)`, `ClientStep`, `AdminStep`); some idle worker of a
live node claims a claimable row (the loops poll, and a poll that fails is
retried); engines finish (`EngineFinishes(n)`); started transactions commit; backoff
and unattended leases run out with the clock; a stopped node is started again,
which is an assumption about the supervisor of the process. Nobody is obliged to
cancel, to give up, to fail, or to lose a lease that is being renewed. The fairness
of `EngineFinishes` assumes that an output fits its queue.

`EngineJobs`: calls and tasks that can run do run, the dispatcher takes slots and
jobs, `stop()` proceeds. Weak fairness is enough: a step of a coroutine stays
enabled until it is taken or something else moves that coroutine. Calls, cancels,
departures and stops are never obliged.

`EngineClaimTick`: the claim loop of every node that is up ticks, tasks end, and
backoff, age, unattended leases and heartbeats of dead nodes run out. A dead node
need not come back, and nobody need publish a better view.

`EngineRuntime`: threads run, a worker that runs answers, and the publisher
reconciles at least every `_FORCE_RECONCILE_SECONDS`. Locks need no fairness of their
own: every caller takes each lock once, so it cannot be overtaken for ever.

`KnowledgePipeline`: the runtime and the extraction processes poll, deletions
enqueue their jobs, what waits becomes due. A step need not fail; that a hazard
happens is never obliged. A crash or a reload restarts the same loops.

`TaskManager`: coroutines run on and end, a knowledge thread goes on with what it has
claimed while its process is there and claims what waits, a node that went down is
started again and recovers, redis delivers, and the user comes back and answers what
they are asked. Weak fairness is enough: a coroutine that can go on does so whatever
else happens on its loop. Nothing is assumed of work that no process goes on with: an
extraction that was given up, and a request whose holder ended. Nobody need cancel,
leave, or drop a connection, and no extraction need be given up.

## 6. Proofs

The theorems hold for any values of the constants that satisfy the assumption of
the module: any bounds, nodes, workers, tasks and models, and any finite set of
calls (`EngineJobs`), of callers (`EngineRuntime`), of nodes and requests
(`EngineClaimTick`), of documents (`KnowledgePipeline`).

The three modules about `EngineInvocation` assume nothing of the isolation of
transactions: a method reads and writes in two steps, and a write may meet any row.

`EngineInvocationTypes_proofs`: `TypeCorrect`, `Spec => []TypeOK`; one lemma per family
of actions.

`EngineInvocation_proofs`:

* `Invariant`: `Spec => []Inv` with `Inv == TypeOK /\ Decided /\ Flags /\ Submitted /\
  Unowned /\ RunsCounted /\ AttemptsCounted`. That an update fits the row it meets is
  not invariant, so the invariant says what remains true of an update whatever became of
  the row. `Decided`: which updates the method a run is in may write at all, and that one
  that requeues is in the hands of a run whose failure is retriable. `Flags`: a run is
  retriable only inside a handler. `RunsCounted`: the runs that have not let go of the
  row, an idle row and an expired lease are together at most one more than the leases
  that ran out, because each run comes from the submit, from a run that ended by
  requeuing, or from an expiry. `AttemptsCounted`: from the bound on, each attempt beyond
  it, the runs about to requeue and a row that was requeued are covered by expired
  leases; a decision to requeue is made below the bound, but attempts may be added before
  it is written, which is why the runs about to requeue are counted.
* `AttemptsAreBounded` is a consequence of `AttemptsCounted`.
* `HoldersSettle` and `ImplementsRequest` hold until a write overtakes another. `RowSteps`
  says what a step does to the row then: a commit writes what the method would decide on
  the row as it is, so it is one of the steps of `DurableRequest` or a stutter.
* The proofs do not look at every action for every conjunct. Lemmas say once what a step
  does to the runs (`RunSteps`), to what methods are about to write (`UpdateSteps`), and
  to the row (`RowChanges`, and the finer `RowSteps`); the conjuncts are kept by that.

`EngineInvocationAnswers_proofs` is about what the caller is told; its properties relate
the row, the runs, the response stream and the caller, and almost every action changes
one of the four only. To the layers above it adds what a step does to the stream and the
caller (`TalkSteps`); each part of the invariant is then kept by whatever these lemmas
say.

* `AnswersAlwaysAgree` needs `Announced` (who is about to complete the row, or completed
  it, has published the end) and `Resulted` (a result stands before every end), because
  the end reaches the stream before the row is completed. Both are about what was
  published before the write, so no write of another spoils them.
* `ErrorsAreSettledOrCancelled` needs `Errors`: a run and an administrator close the row,
  or find it closed, before they publish an error; a closed row stays closed until a write
  overtakes another, which may requeue it.
* `DuplicatesAreExpiries` needs two facts that hold while no lease has run out.
  `Undivided`: one run holds the row, on the node that owns it, until the row is settled.
  `Once`: what was read or can be read has no chunk twice and nothing beyond the counter
  of the run that holds the row; a run that has spoken fails for good, so neither a row
  that can be claimed nor a run that decided to requeue has published anything, whatever
  a cancel does to the row between the decision and the write.
* `AnsweredStays` needs `Faultless`: a processing row has a run that holds it, once the
  end is out that run can only complete it, and no run is about to requeue it.

`EngineJobs_proofs`:

* `Invariant`: `Inv == TypeOK /\ Placed /\ Attending /\ SlotsAccounted /\ Stopping`.
  `SlotsAccounted` counts tasks, so a step that moves a job must know that it was
  in one place before (`Placed`: with its call, once in the queue, or in a task),
  and that what the queue, the registry and the callers refer to exists
  (`Attending`). Most actions change no place (*quiet* steps, one lemma); the ends
  of a task share another; `Create`, `Put`, `Dispatch`, `TakeSlot`, `TaskDropped` and
  the stop are treated one by one.
* `SlotsAreAccounted`, `StopLeavesNoJob`, `TypeCorrect` are its conjuncts or follow
  from them; `OutcomesAreFinal` is an action property.
* `RunningJobsAreRegistered` adds `Expiry`: a timestamp that ran out belongs to a request
  without an unfinished job, or ran out under it (`outlived`). A creation prunes first, so
  a new job never finds such a timestamp, and those `outlived` names are the only ones
  the registry loses.
* `StreamsAreComplete` needs `Delivering`. Its `Ledger` balances, for each stream, what its
  consumer has read and what waits for it with what its job has put; and a job that is
  ended under its running task has that task cancelled (`Interrupted`), so that no chunk
  is put after the balance was closed.

`EngineClaimTick_proofs`: `OneRunPerRow` and `CapacityIsRespected`, from types and
two facts that neither says alone. `Leased`: a task whose lease never ran out is the
attempt its row is leased to, so nobody can claim that row beside it; for the
others the property already excepts. `Within`: per engine, the tasks of a node and
the rows its tick has decided to claim together stay within the limit; that rows
are claimed after the reading of the counters is what makes the second summand
necessary.

`EngineRuntime_proofs`: `RowHeld` (a row lock is held by the caller that is between
its acquire and its release, and is the engine's while none was dropped), `Spawned`
(a process exists from its caller's spawn on), `HandlesRegistered` (what the table
holds was registered by the caller that spawned it), `LeftRemoved` (what a caller
must close is out of the table for good), `PlaceKept` (who creates a worker finds its
place empty until it registers, unless a lock was dropped), `Handled`.
`ResidentsAreReachable` and `CallsConverge` follow because `Register` then overwrites
nobody, and whatever leaves the table is left to the caller that took it out.
`UndisturbedSucceed` needs `Quiet`: with no fault, no unload and one configuration, no
caller ever replaces a handle.

`KnowledgePipeline_proofs`: `Inv == TypeOK /\ InHand /\ Holders /\ Tries /\ Claims /\
Gone /\ ExtractedIsQueued`.

* `InHand` and `Holders`: what the runtime or a worker has in hand exists, and an
  extraction request is in one worker's hands and not claimable. `Tries`: what is
  open, or in hand, has an attempt left, which is what bounds the attempts in
  `TypeCorrect`: the code compares only when it fails a row.
* `OnlyStopsStrandRows` follows from `Claims`: a row that is processing is in
  somebody's hands unless an actor was stopped, and what they are done with is no
  longer processing, so that dropping it strands nothing.
* `PurgedAreUnindexed` needs `Gone`. That a deleted mark means absence from the index
  is not inductive: an upsert may write the index of an item that was deleted
  under it. `Gone` says that then the item is not *marked* deleted yet (the deletion
  reset its marks, and only the runtime, which is busy with the upsert, sets them),
  so a purge, which asks for both marks, cannot come first.
* `ExtractedAreQueued` is inductive by itself.
* `TasksOfDocumentsEnd`, `DeletedAreUnindexed` and `LiveAreIndexed` say what holds once
  everything is done, so their invariant, `Following`, says what is still to come before.
  `Tracked`: a running task has an extraction or a request that will report. `DeletesCome`
  and `UpsertsCome`: a projection that is not yet what it should be has a job that will
  do it (`ToCome`), or a deletion or an `enqueue` step that will add one. That a job is
  *added* depends on the dedupe key: a known key adds nothing. So `Versioned` and
  `Enqueuing` say that no job has the version of an open deletion, and that no upsert
  outside a rebuild has the version about to be enqueued. That in turn needs that an
  item which is gone does not come back with versions counted anew: `Sourced` (a document
  is extracted once, and its rows all come from then), `Forced` and `Spent` (only a forced
  deletion purges, and it left no request that could bring the item back). `Written` says
  that what is marked as synced was written, and `InBatch` that claimed jobs are
  processing until they are done. The actions are looked at once per variable
  (`NextMovesRows`, `NextMovesJobs`, `NextMovesItems`, `NextMovesHands`); the parts of
  `Following` are kept by what those four lemmas say.

`TaskManager_proofs`: `KeysAreHeld` and `OutcomesStay`, from an invariant with the
home of every coroutine (`Homes`), empty memories of nodes that are down
(`DownIsEmpty`), and `RecordedIsOver`: who has a recorded outcome is past its work, so
none of the writes of a running task can follow, and what is left that writes is
the recovery of a snapshot.

Only model-checked: liveness (`RequestSettles`, `JobsEnd`, `CallsReturn`,
`RowsSettle`, `PipelineDrains`, `NodeStateConverges`, `OutcomesAreTold`, `TasksEnd`),
which the prover does not reach. Every invariant and action property of a passing
run is proved.

## 7. Findings

Places where the code does not do what its own comments, docs or tests say; each
is the counterexample of one run.

1. **A zombie settles the row of the new owner** (`zombie`, `store.py:238-250`). The
   owner is checked on the row that was read; the UPDATE repeats neither owner nor
   status, and nothing locks the row. A reclaim that commits in between is
   overwritten. A conditional UPDATE or `with_for_update` would close it.
2. **A row nobody can serve blocks its page** (`blocked`, `claim_worker.py:420-423`). A
   claimed row whose node died with the only installation of its engine is
   claimable again, so every tick lists it; the tick decides to fail it, drops the
   claims of the same page, and `fail()` without an owner refuses a `processing` row
   (`store.py:282-285`). Neither it nor the rows beside it ever settle.
3. **A forced deletion that removes nothing** (`purge`, `metadata_delete.py:290`).
   `ingest` enqueues its upsert jobs after the item is committed. A forced deletion
   in between has its jobs first in the outbox; the purge is refused because the
   upserts are unfinished, and they do not try it when they are.
4. **Two workers of one model** (`converge`, `manager.py:338-342`). `unload_model` and
   `stop_engine` drop the row lock of the engine although a warmup holds it; the next
   call makes a new lock and spawns a second worker. The one that registers first
   is then replaced without being closed.

## 8. What is not modelled

Batching, quotas, agents and workflows have a state of their own and could be modelled
in the same way; they are not. Request cycle and routing, auth, session and environment
services are sequential code over the database. Channels, events, MCP and UI are
adapters and rendering; the database, storage and sandbox layers, bootstrap, CLI and
process supervision are infrastructure, of which only the isolation level of the
database enters a model; the SDK, modules, engines, extractors, clients and docs
surround the core. Most of the repository is of these kinds, so the modules here cover a
small share of its lines: they model the protocols between threads, processes and nodes,
not the code that formats, renders, installs or translates.

Within the modelled components, the paragraphs "What is abstracted" above say what
is left out.

## 9. Running

    tlc -config EngineInvocation_request.cfg MCEngineInvocation.tla
    tlc -config EngineRuntime_runtime.cfg MCEngineRuntime.tla
    tlapm EngineInvocation_proofs.tla

Run names, modules and configurations are listed in `PROJECT.json`. The longest
run takes about three minutes on two workers.
