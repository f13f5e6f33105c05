# LeanLLM in TLA+

LeanLLM is a Python SDK around an LLM provider: `chat()` forwards a call, measures it, and hands an
*event* to a background worker that persists it in batches (SQLite, Postgres or a remote service).
The caller must never wait for persistence and never see it fail, and yet no event may be lost
without a count of it. What was stored is read back, linked into execution graphs and replayed.
These modules say what all that means and check that the code does it: TLC on small instances, TLAPS
for every value of the constants.

Paths below are relative to `src/leanllm/`.

## 1. The system

### Components, their state and how they interact

| component | state | operations | talks to |
|---|---|---|---|
| Event queue (`events/queue.py`) | `_q` (bounded `queue.Queue`), `_dropped` | `enqueue`, `drain`, `drain_all` | callers put, the worker's thread takes |
| Event worker (`events/worker.py`) | thread, `_loop`, `_loop_ready`, `_stop_event`, `_inflight_count`, `_dropped_events`, drop-log window | `start`, `stop`, `_worker_loop`, `_flush_with_retry`, `_record_drop` | drains the queue, calls the store; `on_dropped` callback |
| Client (`client.py`) | queue, worker, hooks, ring buffer | `chat`, `completion`, streams, `events_in_flight`, reads, `shutdown` | queue, context, worker's loop (reads), atexit |
| Context (`context.py`) | two context variables per task or thread | `trace`, `use_context`, auto-chain get/set | read and advanced by every call |
| Stores (`storage/*.py`) | a connection, a pool or an HTTP client | `initialize`, `save`, `save_batch`, `get_event`, `list_events`, `count_events`, `close` | called on the worker's loop only |
| Migrations (`storage/migrations`) | schema revision, `LEANLLM_ALEMBIC_URL` in the environment | `upgrade` at start | Postgres, several workers and processes |
| Process-wide client (`__init__.py`) | `_default_client` | `init`, `shutdown`, `chat`, `completion` | constructs and stops a client |
| Lineage (`lineage.py`) | a `Chain`'s `_last_request_id` | `Chain.kwargs`, `Chain.record` (a post-call hook), `build_execution_graphs` | client's hooks, read API |
| Replay (`replay.py`, `cli/replay.py`) | a thread pool per batch | `replay`, `replay_batch`, `replay_by_id` | read API, client |
| Event contents (`normalizer.py`, `redaction.py`, `events/cost.py`, `events/models.py`) | none over time | pure functions | the client's builders of events |
| Config, CLI | none over time | parsing, printing | |

The threads: any number of application threads and asyncio tasks call `chat()` and put events in
the queue; one daemon thread per client runs an asyncio loop that drains it; the owner of the client
starts and stops that thread, and `atexit` stops it again. Reads are posted to the worker's loop with
`run_coroutine_threadsafe`, the stop signal with `call_soon_threadsafe`.

### What is hard, and what makes each component correct

* **Queue and worker.** Callers put while the worker drains, retries with backoff, drops, and is
  being stopped, possibly twice, possibly before its loop has a stop event. Correct: nothing
  accepted is lost, settled twice or overtaken; every event is in exactly one of *refused*,
  *dropped*, *saved*, *held*; memory is bounded; a graceful stop flushes what came before it; a
  posted stop ends the worker; what is accepted is settled.
* **Timed retries.** Attempts, jitter and a budget decide when a batch is given up; three reports of
  a drop (counter, log, callback) must agree though the log is rate-limited.
* **Client.** Streams end in five ways and may be read in another task; sampling, a failing
  build of the event and hooks that raise must not produce a wrong number of events or hooks. A
  streamed response must leave the event its whole would leave.
* **Context.** The chain pointer is read when a call begins and written when its event is emitted,
  by interleaved tasks and scopes: no chain may cross tasks, or leave its `trace()`.
* **SQLite.** Half-failed batches, retries, repeated ids, ends of the process: what was reported
  saved is stored and found, no row changes.
* **Postgres and the service.** The answer to a statement or a POST may be lost, or come after the
  worker gave it up and sent it again; two workers share a server. What counts as saved must have
  been executed, and nothing may be executed more often than it was sent.
* **Process-wide client.** One module variable, read several times per call, and no lock: what races
  can forget a client, and what must hold in spite of them at the end of the process.
* **Lineage.** One `Chain` is read by calls that begin and written by hooks of calls that end; a
  reader pages with OFFSET through a table that grows; the graph is built of what it saw.
* **Replay.** A pool of threads replays while the caller collects; the events of the replays must be
  as many as the calls, and a repeated call must compare as equal whether it was streamed or not.

`PROJECT.json` lists the hazards at their lines, with the properties that cover them.

## 2. The modules

| module | models | state and actions |
|---|---|---|
| `Delivery` | what the pipeline promises (abstract) | a backlog settled oldest first, three counters, `open`; `Accept`, `Refuse`, `Settle`, `Close` |
| `EventPipeline` | `events/queue.py`, thread and flush logic of `events/worker.py`, `_enqueue` of the client | queue, counters, batch, stop event, posted callback, one program counter for the worker (`wpc`) and one for the client's owner (`mpc`); one action per step between two points of interference |
| `InFlightPoll` | `events_in_flight` composed with `EventPipeline` | the two reads of the property as two actions |
| `FlushRetry` | `_flush_with_retry`, `_record_drop` with their clock | integer clock, attempt, elapsed wait, the drop counters and the log's window |
| `ClientCall` | `chat`, `completion`, `_wrap_stream`, `_emit*`, `_fire_*` of `client.py`; `trace` and auto-chain of `context.py` | one record per call, the context variables of each task, the open scopes; one action per provider result, per way a stream can end, per scope step |
| `EventStore` | the contract of `save_batch` (abstract) | rows by id, the fate of each event; `HandOver`, `Settle` |
| `SqliteStore` | `storage/sqlite.py` under the worker's retries, `get_event` posted by the client | file, connection and its transaction, batch, attempt, reader and its cursor; a commit and its return, a statement and its row are two steps each; `Restart` is the end of the process |
| `NetworkStore` | `storage/postgres.py`, `storage/remote.py` under the retries of several workers; `storage/migrations/runner.py` at start | rows of the servers, requests under way, each worker's batch and attempt, which workers were answered; `PostgresExecutes` and `ServiceExecutes` run a request whether or not its worker still waits |
| `ProcessClient` | `__init__.py`, the life of each worker's thread and loop, reads posted to it, `atexit` | `_default_client`, one program counter per thread, one state per worker; every read of the variable is a step |
| `EventQuery` | `list_events`, `count_events`, `_build_where` of both SQL stores, `parse_when` of the CLI | operators: `Matches`, `Listings`, `Page`, `CountEvents`, `ParseWhen` |
| `ExecutionGraph` | `build_execution_graphs` | operators, recursive functions where the code recurs or loops: roots, children, subtree sums, `Flatten` |
| `Lineage` | `Chain` under concurrent calls, with the queue and a reader that pages | the chain's last id, each call's parent, queue, table, reader |
| `LineageGraph` | the graph of what that reader read | no state of its own: `GraphHoldsAll` |
| `CallContent` | the builders of events in `client.py`, with `redaction.py`, `events/cost.py`, `normalizer.py` | operators: `FromResponse`, `FromStream`, `FromError` and what they use |
| `Replay` | `replay.py`, the batch command of `cli/replay.py` | executor queue, threads, futures, emitted events, collected results |
| `EventPipelineProofs` (with `InFlightPoll`), `FlushRetryProofs`, `ClientCallProofs`, `SqliteStoreProofs`, `NetworkStoreProofs`, `ProcessClientProofs`, `LineageProofs`, `ReplayProofs` | – | the theorems and the lemmas they rest on |
| `MC*` | – | instances for TLC; their `.cfg` files hold the values |

How they compose: `EventPipeline` implements `Delivery` (backlog = batch, then queue; open until the
worker leaves its store); `InFlightPoll` extends `EventPipeline`; `SqliteStore` implements
`EventStore` (rows = the committed file), and so does `NetworkStore` with Postgres (rows = the tables
of all servers, under server and id). `Lineage` and `ExecutionGraph` extend `EventQuery`; `LineageGraph` extends both;
`Replay` extends `CallContent`. `EventPipeline` leaves durations out (a timer may always fire, a retry may
always be out of budget); `FlushRetry` has the clock and one worker. `ClientCall` ends at `_enqueue`,
where `EventPipeline!Emit` begins. In `EventPipeline` a save returns or raises; `SqliteStore` and
`NetworkStore` say what either leaves in the store. `ProcessClient` has several pipelines, each reduced
to the life of its loop and the number of events in its queue.

Conventions. Variables keep the names of the code's fields where they have one. Variables marked
*history* exist for the properties only. A *mutant* is a definition beside the one it could replace,
with a plausible bug; each property is violated by one of them, so that none is empty.

Modelling decisions worth knowing:

* In the modules about delivery an event is the number of the `enqueue` call that carries it, a call
  the number of its `chat()`. Contents appear in `CallContent` only.
* A step of the worker is what runs between two awaits or between two accesses to something
  another thread changes; `drain` is one step per `get_nowait`. The posted stop callback can run at
  every await and nowhere else.
* `queue.Queue` operations and `_dropped += 1` are atomic. For the counter this is CPython's lock
  at work, not the language's promise.
* sqlite3's implicit transaction is modelled from how `storage/sqlite.py` uses it: opened by the
  first INSERT, left open by a raised exception unless SQLite rolled it back, rolled back on close.
* In `SqliteStore` and `NetworkStore` the retry budget is a free choice (the batch may be dropped on
  any failure), and the first event of a batch with a repeated id is the row that stays.
* In `NetworkStore` Postgres executes an `executemany` as a whole or not at all; the service accepts
  any part of a POST and says which. A request that was sent stays under way until it is executed, or
  for ever: a lost request and a lost answer are both a worker that raises without having been answered.
* In `CallContent` a text is a sequence of pieces of which redaction masks some, a token is a piece,
  and a model's name the sequence of its parts, slashes among them, which keeps what a prefix and a provider's
  name are. A tool call is a sequence of pieces, too, of which a stream may bring any fragment. Messages are values, while the code's
  snapshot of a call holds the caller's list by reference; a stream's event therefore may show later
  turns of a conversation, which the model does not have. The provider's total is a
  number of its own. Text, JSON and code are one kind of output.
* In `EventQuery` an instant is an hour and the text of a datetime is compared as `isoformat()` is
  compared, by wall clock and then by zone. Equal timestamps come in insertion order from SQLite and in
  any order, new for each query, from Postgres.

## 3. What the runs check

Properties that hold:

| run | what it shows | bounds |
|---|---|---|
| `pipeline` | `TypeOK`, `FIFODelivery`, `EveryEventAccounted`, `GracefulStopFlushes`, `BoundedBacklog`, every step is a `Delivery` step, and `PollOffByOneBatch`: a poll of `events_in_flight` is off by at most one batch; over all interleavings of callers, worker, polls, store failures, two stops and the end of the process | queue 2, batch 2, 2 attempts, 4 events, 2 stops |
| `pipeline_live` | if store calls return (see *Fairness*): accepted events settle; a posted stop ends the worker, also during `initialize` and retries; the pipeline implements `Delivery` with its fairness | queue 1, batch 2, 3 events, 2 stops |
| `flush_retry` | the backoff stays in its jitter band and its budget; counter, log and callback agree; two log lines are a window apart; no batch is dropped without cause | 3 attempts, waits 4..6 and 8..12 against a budget of 17, window 20, flushes begin until 48 |
| `client_call` | one event and one hook per call as owed, whatever ends a stream and whoever reads it; chains never cross tasks that did not inherit them; outside streams a chain stays within its correlation id | 2 calls; 2 tasks with 1 scope, or 1 task with 2 scopes (nested or one after the other) |
| `sqlite_store` | what was saved is in the file through retries, open transactions, repeated ids and ends of the process, also between a commit and its return, is found by later reads if its row can be read, no row ever changes; the store implements `EventStore` | 4 events, one repeated id, one unreadable row, batch 2, 2 attempts, 2 processes |
| `network_stores` | what counts as saved was executed and is stored, or the service said it dropped it; no event is executed more often than there are attempts; with Postgres the store implements `EventStore`; a batch settles, or with Postgres its worker waits for one answer for ever | 2 workers on one server, 3 events of 2 ids, batch 2, 2 attempts |
| `process_client` | without overlapping `init`/`shutdown` no client is forgotten and no call meets a vanished one; whatever raced, the end of the process asks every worker to stop whose `start` returned; sequential use leaves no event in a queue; a posted read is answered unless its loop ended first | 2 threads, 2 clients, 4 calls |
| `lineage` | a parent's event is emitted before its child's call begins, however calls of a chain overlap; calls in sequence form the documented chain; paging skips no row and shows no row outside of a UTC window; the graph holds all that was read, once if it was read once | 3 calls, 2 hours, 1 row of an earlier process that cannot be read, pages of 2 |
| `replay` | the i-th result is of the i-th event, with the error and exit code it owes; one event per call, whatever sampling; the same call compares as equal, streamed or not; a stream leaves the event its whole leaves, but for fragments of tool calls that are listed one by one and an empty text that is `None`; the batch ends | 2 ids of 11 kinds of originals or missing, 2 threads, with and without overrides, originals of 3 redaction modes and clients of 2 |

Why the bounds are enough. *Pipeline*: with four events, a queue of two and batches of two the
queue is full while a batch is retried, events are refused, a tick leaves events behind, the last
drain finds events put before and after the stop was posted, and a poll's two reads are apart by a
whole drain and flush; two stops meet every pair of owner and worker positions. Its safety
properties are in addition proved for all values. `MaxEvents` also makes the last drain end:
`drain_all` has no limit of its own, so with callers that never pause it need not. *Flush*: budget 17
separates the second wait that fits (4+8..5+12) from the one that does not (6+12), and 48 units hold
several drops within and across log windows. *Client*: a chain that crosses tasks needs two
tasks and two calls; one that leaves its scope needs a call inside and one after, or one on
either side of its start. *SQLite*: two batches, a retry of a half-inserted one, an id repeated across
batches and inside a batch, and a second process are what the code distinguishes. *Network*: two
attempts put a late request behind its retry, the second worker repeats the first one's id; proved for
all values besides. *Process*: two threads and two clients make every pair of overlapping calls; four calls
are an `init`, a `shutdown`, an `init` and a use. *Lineage*: three calls are a parent and two
siblings, or a chain of three; the reader begins when the calls have ended, which loses nothing since
calls do not depend on the table and the worker may lag behind them; pages of two over up to four rows
shift while rows appear; the worker writes one row at a time, so that a read meets every prefix of a batch.
*Replay*: two events are what an order and a mix-up need; the kinds of originals are the code's cases
(response, stream or error; counted or uncounted tokens, a total of its own; two tool calls in three fragments; an empty
text; masked JSON; no prompt; a provider's name before the model's; a list among contents).

The type invariants of `FlushRetry`, `ClientCall`, `ProcessClient`, `Lineage`, `SqliteStore` and
`NetworkStore` (proved) and of `Replay`, and `ProcessClient`'s `HeldClientHasLoop` (proved: a client that
`init` returned has its loop, so no read fails on `None`), hold on the same instances; they are kept
in their modules to be added to a `.cfg` as INVARIANT when a module changes.

Runs whose violation is the result. Each is a sentence of the repository that the code does not keep:

| run | the sentence | what the code does |
|---|---|---|
| `lost_stop` | `stop()`: "Signal the worker to stop and wait for it to finish flushing" (`events/worker.py:103`) | `start()` returns before the stop event exists; a stop in that window posts nothing and the worker runs on |
| `stream_sampling` | "0.0 = log nothing" (`config.py:42`) | a stream that was sampled out emits its event when it ends |
| `logs_window` | `parse_when`: "Returns a timezone-aware UTC datetime." (`cli/_store.py:61`) | a time with a zone of its own is returned in that zone, and SQLite compares texts: events of the window are not shown |

### Disagreements no run is spent on

Some are stated by a definition that fails on the instance of its module when it is added as an INVARIANT:

| definition | the sentence | what the code does |
|---|---|---|
| `InFlightPoll!PollCoversUnsettled` | `events_in_flight`: "Events the SDK is responsible for but hasn't persisted yet" (`client.py:219`) | events being drained are neither in the queue nor in `_inflight_count` until the flush begins; `PollOffByOneBatch` says how far off a poll can be |
| `ClientCall!FirstInTraceHasNoParent` | "the first call inside has no parent" (`context.py:130`) | a stream opened before `trace()` and finished inside advances the inner chain |
| `SqliteStore!NoneMeansAbsent` | "or None if it isn't present" (`storage/base.py:32`) | a read during `initialize()` finds no connection and answers None |
| `SqliteStore!DroppedIsNotStored` | "Drops the batch if exhausted" (`events/worker.py:189`) | the failed batch's open transaction is committed by the next batch |
| `Replay!ListsWholeCalls` | "Typed representation of one tool call" (`lineage.py:13`) | each fragment of a streamed tool call is listed as a tool call of the event (`client.py:850`); `StreamAsWhole` says that nothing else happens to them |

Others show in the form of an action or a property:

* The budget counts the sleeps and not the failing saves, although `config.py:57` says "cap on total
  retry time per batch"; hence `BackoffBudget` speaks of `elapsed + wait`. A Postgres that does not answer keeps the batch and its worker
  for ever: neither the pool nor its statements have a timeout (`storage/postgres.py:94`, `104`). Hence the form of `HandedSettles`.
* `events/worker.py:246` says the first drop is always logged, but compares it with time 0 of
  a monotonic clock: it stays silent when the clock is younger than the window. Hence the form of `LogRate`.
* `upgrade_postgres` passes the URL through `os.environ` (`storage/migrations/runner.py:34`): of two
  stores of different databases that start together both may migrate the second, and the first goes on
  without its table. `NetworkStore` has the variable `env`; nothing in the repository promises two databases.
* The price of a model is that of the first key that is a prefix of its name (`events/cost.py:64`), not
  of the longest: `PriceRow`.
* "whichever triggers first" (`config.py:25`) promises a flush when a batch is full; only the timer flushes.
* `capture_content` (`config.py:32`) is read from the environment and used nowhere; the redaction mode alone decides.

### Fairness

`EventPipeline!FairSpec`. Weak fairness of the worker's steps: a started thread is
scheduled, timers fire, and a store call returns or raises. The last is an assumption about the store. SQLite's calls
return, and so do those of the service (`httpx.Timeout` in `storage/remote.py:50`). Postgres promises
nothing: no timeout is given to asyncpg, and `_flush_with_retry` awaits `save_batch` without one
(`events/worker.py:196`). With a Postgres server that hangs, the accepted events do not settle and a posted stop does not
end the worker: `AcceptedSettles`, `PostedStopEnds` and `ReadAnsweredUnlessEnded` say nothing of that case. Strong
fairness of the posted callback: it is in the loop's ready list, which every iteration
of the loop empties, so the worker cannot pass through infinitely many awaits without running it;
it is enabled only at awaits, hence strong. Nothing is assumed of callers, of the owner, or of
the process, which may end at any time: the liveness properties say "or the process is gone".

`NetworkStore!Spec`: weak fairness of a worker's steps where the code makes them return (`MustReturn`): all of them
with the service; with Postgres only those that await nothing. None of the servers, which may never execute
anything. `HandedSettles` therefore says that a batch is saved or dropped, or its worker ends, *or* it belongs to
Postgres and its worker waits for one answer for ever. `ProcessClient!Spec`: weak fairness
of each worker and of the return of a read whose loop runs; none of the callers. `Replay!Spec`: weak fairness of
`Next`: the provider answers or raises (litellm has a timeout) and the caller waits in `result()`. The other modules
have no liveness property and no fairness.

Deadlock is not checked anywhere: callers and owners may stop, the worker ends when stopped, and the
bounds end the rest.

## 4. What is proved

TLAPS checks every proof; the theorems hold for all values of the constants, with these assumptions
only:

| assumption | what it says |
|---|---|
| `PipelineAssumption`, `FlushAssumption` | sizes and retries are integers, zero and negative included, as the code accepts them; bounds and times are naturals |
| `StoreAssumption`, `NetworkAssumption` | events are numbered, unreadable ones are events; at least one attempt, batches of at least one, one process; each event has its worker; a worker's URL is not the unset variable |
| `ClientAssumption`, `ProcessAssumption` | tasks are numbers, task 1 is the one that runs; bounds are naturals; 0 is not a thread |
| `LineageAssumption` | calls are positive numbers, times are numbers, the rows there before are rows, a page holds at least one |
| `ForeignAssumption` | the rows of earlier processes, too, name a parent with a smaller number than their own |
| `ReplayAssumption` | a provider's response is neither `None` nor an exception and counts its tokens in naturals; an original is of one of the three kinds the client stores; the chunks of a stream are its response cut up (`Streams`: text cut anywhere, tool calls cut into fragments anywhere, counts and reason in any chunk, the last one standing) |

One theorem has a hypothesis more, in its ASSUME: `LogsShowTheirWindow`, that the bounds of
the filters are in UTC (the run `logs_window` shows that it fails without).

**`EventPipelineProofs`**: `TypeCorrect`, `DeliveryIsFIFO`, `EventsAccounted`, `BacklogBounded`,
`StopFlushes`, `RefinesDelivery`, `PollIsOffByOneBatch`. The inductive invariant `IInv` is the conjunction of the checked
invariants and four facts without which the steps cannot be closed:

* `BackoffHasRetry` – a backoff is entered only with an attempt left, so `attempt + 1` is still legal;
* `FlushHasBatch` – a flush holds a batch, so a settling step of the refinement settles at least one
  event;
* `FinalAfterStop` – the worker is in its last drain only because a posted stop ran, and only
  there can it close the store;
* `FinalBatchCovers` – the batch of the last flush reaches to the mark of the stop. It is what carries
  `GracefulStopFlushes` from the empty queue at the end of the drain (by `FIFODelivery`, settled
  plus batch is then all that was accepted) to the end of the flush.

The FIFO argument needs only four kinds of step (`FourKindsOfStep`): nothing moves, an event is
appended to the queue, the queue's head moves to the end of the batch, the batch moves to the
end of what is settled. The first lemmas of the module are the corresponding facts about sequences. `RefinesDelivery`
proves `delivery!Init` and `[][delivery!Next]` (`DeliverySafety`): an accepted put is `Accept`,
a refused one `Refuse` (the full queue makes the backlog at least the capacity), the end of a flush
`Settle` with the length of the batch, the worker's end or the process's `Close`, anything else a stutter.

`PollIsOffByOneBatch` is about the composition with `InFlightPoll`. Polls leave the pipeline alone, so its `IInv` holds
(`PipelineUnderPolls`). What a poll that has read the queue has not counted is at most the batch that was
in the worker's hands at that moment; from then on events only settle (`PipelineMoves`), and the worker never counts
more in flight than it holds.

**`FlushRetryProofs`**: `TypeCorrect`, `BackoffKeepsItsBudget`, `DropsAreReported`, `LogKeepsItsRate`,
`DropsJustified`, from `RetryInv` (a backoff has a retry left; what was waited plus what is being
waited is within the budget; no wait outside a backoff). The jitter band needs that waits double:
`PowersOfTwo` gets `2^(a+1) = 2 * 2^a` by counting the subsets of `1..a`, for which the library has a theorem,
and `BandGrows` adds the band of one more wait to the sum of those before.

**`ClientCallProofs`**: `TypeCorrect`, `EveryCallEmitsOnce`, `HooksFollowEvents`, `ParentsAreAncestors`,
`ParentsShareTheTrace`. Seven of the actions are steps of one call; `CallEffect` shows once that each of them moves an
open call to what it becomes (`Becomes`) and emits what that owes, and the rest of the argument does not look at the
actions again. `EventsAreOwed` says that the events are those of the calls that owe one, each once, and `CallsInOrder`
what a call's state owes to its hooks. The chain is the harder half: a pointer held by a task may end up as the parent of any
later call of that task, so `ChainsPointBack` must hold of every task's chain *and* of what each of its open scopes
restores, `PointsBack` says what it means (the call emitted, by a task whose context this one inherited, and outside of streams
under the same correlation id), and `ParentsPointBack` keeps it for the parents recorded. A provider call cannot be left
by its task's scope (`calls[i].corr = corr[task]` in `CallInOrder`); a stream can, which is why `ChainStaysInTrace`
excludes streams.

**`SqliteStoreProofs`**: `TypeCorrect`, `SavedStays`, `CommittedRowsStay`, `SavedIsFound`, `RefinesEventStore`. The
inductive invariant says that what the connection sees extends the file (`ViewExtendsDisk`), that each
row is stored under its own id and its event was handed over, and that what is about to be committed
is in the transaction (`BatchInHand`). Without the first a commit after a failed attempt could lose
rows; without the last "saved" would not follow from a commit. What is committed is in the file before the worker
knows of it, and stays there if the process ends in between (`committed` is a state of its own). `InsertOnlyAdds` is the lemma about INSERT OR
IGNORE. `RefinesEventStore` maps a commit to a `Settle` in which rows appear,
its return, a drop and an end of the process to a `Settle` of events, a new batch to `HandOver`, and the rest to stutters.

**`NetworkStoreProofs`**: `TypeCorrect`, `SavedIsAnswered`, `ArrivalsBounded`, `PostgresRefinesEventStore`. The invariant
`IInv` says that rows and requests are of events that were handed over, that a worker holds exactly
what it has not settled (`BatchInHand`), and that the answer a worker waits for is about the batch it
holds (`AnswerIsOfBatch`): an answer to an earlier attempt must not count, and `Arrive` compares the attempt for
that reason. `ArrivalsBounded` counts: what was executed plus what is under way (`Carrying`) is at
most what was sent (`SendsOf`, which a send raises by one and the end of a flush lifts to the number of attempts).
`PostgresRefinesEventStore` maps the execution of a statement, at whatever time, to the appearance
of rows, and the end of a flush to `Settle`. For the types alone it is needed besides (`ServerTypes`) that no worker
migrates while the variable of the environment is unset, and that a batch that is sent is not empty.

**`ProcessClientProofs`**: `TypeCorrect`, `HeldClientsHaveLoops`, `ExitStopsEveryWorker`, `ClientsAreRemembered`,
`NoSurprises`, `SequentialUseIsFlushed`. Two invariants hold whatever races: `Basics` (a client that is the default or was returned
has its loop) and `ExitReaches` (a worker whose `start` returned is registered with `atexit` until it is asked to
stop), which carries `ExitAsksEveryWorker` to the end of the process. The third, `InSequence`, holds as long as no `init` or
`shutdown` overlapped another call: such a call is alone with the variable (`Alone`), so that what it found at its
first look is what it finds at every later one (`VariableKept`), no client is lost (`NoneForgotten`), and
nothing puts events in a queue after its last drain (`DrainedStaysEmpty`). `StopsForAReason` excludes that a worker ends unasked.

**`LineageProofs`**: `TypeCorrect`, `ParentsComeFirst`, `SequentialCallsAreAChain`, `LogsShowTheirWindow`,
`GraphLosesNothing`. `OneAfterTheOther` says that
while no calls overlapped, the chain is at the latest call it recorded, and was so when each call began.
`PagesCover` is the invariant of paging with OFFSET: of the rows that were there at the start, the reader has caught all whose
*rank* (the number of matching rows ahead of it in the listing) is below its offset. A row that the worker adds can only
raise a rank, so the reader may see rows twice but skips none; a page catches the ranks up to offset plus page size; and
the end of paging, an offset that is not below what `count_events` tells, leaves none. In Postgres this holds if no two rows have the same
time (`Determined`), which is what `LogsShowWindow` says too. `TextIsTime` is the lemma that texts in
UTC are ordered as their times.

`GraphLosesNothing` says that `build_execution_graphs` loses no event and counts no cost too low, whatever the chain, the
worker, the store and the paging reader did before. Two things make it true, and the proof has a part for each:

* *No cycle.* A group without a root, a cycle of parents, would vanish from the graph. `EventsPointBack`, a
  conjunct of the inductive invariant, says that a parent has a smaller number than what names it: of the calls,
  and of the events in the queue, in the table and in what was read. It follows for the calls from `ChainPointsBack`
  and holds for rows of earlier processes by `ForeignAssumption`. The numbers stand for the order in which
  the client hands out ids. A caller who passes its own `request_id` and `parent_request_id` to `chat()`
  (`client.py:679`) can close a cycle by hand; such callers are outside of the model.
* *What the operators compute on such events.* `Linked(g)` is the only hypothesis there, for groups of any length
  with repeated events. `LoopExists` is the existence of a loop's recursive function; `PickRows`, `SumStep`, `SumEnds`
  and `SumOfSums` describe the loops of the model. `SubtreeSums` shows that the recursion of `_compute_subtree_metrics` is
  well founded, since children have greater ids. `TotalHolds` compares the total with the sum of the costs by moving
  a frontier through the ids: `Frontier(t)` sums the subtrees from `t` on that hang on nothing from `t` on, and
  passing a node replaces its subtree by its value and those of its children (`FrontierStep`). At the start the frontier
  is the total, at the end it is nothing, and what was replaced on the way is the sum of the costs, or more
  if an event is there twice. The walk of `flatten` has an invariant of its own: out plus the subtrees on the stack is
  constant (`TurnBalances`), and a node that is written has its children on the stack or written (`TurnCloses`). So
  the stack is empty after as many turns as the trees have nodes (`FlattenHolds`).

**`ReplayProofs`**: `ResultsKeepTheirOrder`, `ReplaysEmitOnce`, `StreamsLeaveTheirWhole`, `SameCallComparesAsSame`. `FoundIds`
says that the list of found ids has each of them once (a place for every id and an id for every place, by counting).
`PoolInv` keeps the threads apart: what a thread calls has been taken from the queue, is pending and is no other
thread's. `EventsInv` ties each emitted event to the outcome of its replay and `ResultsInv` each result to its future;
`ThreeKindsOfStep` reduces the pool to an event taken, an outcome set and a result collected. The comparison rests on
what the builders of events compute. For a stream that is a loop over any number of chunks: `JoinedIsWhole` shows that the parts of
a text that was cut up are joined to it again, `LatestIsLast` that a loop which keeps the latest value
ends with the last one told, both by comparing the loop with what it should have after each round (`LoopsAgree`).
The tool calls of the response and the fragments of the stream are two ways to cut the same pieces up, so the first
lemma, twice, gives that the event has those pieces in their order; that it has the same tool calls follows where
fragments and calls are the same. A text of empty pieces is the other exception: the code makes it `None` (`client.py:856`).

Induction over data is done by a least counterexample: `LeastExists` (a set of naturals that is not empty has a least member)
follows from the library's `WFMin` and the well-foundedness of `<`, because the library's induction rules take a
predicate as a parameter. It serves the loops of `LineageProofs` and `ReplayProofs`, and the first of several events with one id in the two stores.

Only model-checked:

* the liveness properties and the fairness part of the refinement of `Delivery`: out of the prover's reach;
* the type invariant of `Replay`: that a token estimate is a natural needs the fold of the community modules, a recursion
  over an operator that no installed prover takes. Its proofs need only the types in `PoolTypes`.

Every invariant that a passing run checks is also proved for all values of the constants.

## 5. What is not modelled, and why

* Client: the ring buffer of recent events and `log=False`, which by-pass the pipeline.
* Context: `use_context`, the merge of contexts and labels: copies of fields, no behaviour over time.
* Lineage: `Chain.reset`, the parsing of tool calls. Replay: latencies, the text of the diff, `replay_by_id` (a read,
  then a replay).
* Redaction's patterns, the normalizer's languages, hashes and buckets, the pricing table: strings whose
  details no property here tells apart.
* Migrations: `downgrade`, `current` and `history` are commands; the migrations are SQL that Alembic runs.
* Row conversion but for rows it refuses, event printing, configuration parsing, the CLI's `show` and `migrate`: no state.
* `_dropped += 1` by several threads on an interpreter without a lock around it; the shielded waiter task that
  every tick leaves on the stop event (`events/worker.py:166`): both are outside of the atomicity assumed above.
* The documented count trigger of a flush does not exist in the code, so there is nothing to model.

## 6. Plan

Built, in this order: `EventPipeline` with `Delivery`, its proofs; `InFlightPoll`; `FlushRetry` and its
proofs; `ClientCall`; `EventStore`, `SqliteStore` and its proofs; `NetworkStore`; `ProcessClient`;
`EventQuery`, `ExecutionGraph`, `Lineage`; `CallContent`, `Replay`; the proofs of `NetworkStore` and `InFlightPoll`; the
proofs of `ProcessClient`, `ClientCall`, `Lineage` and `Replay`; that of `LineageGraph`, for which
`ExecutionGraph` was written with recursive functions in place of recursive operators.

No invariant of a run is left without a theorem. A next theorem would be about a next module, or the liveness properties
with a prover that takes `ENABLED`.

Next modules:

1. `FlushTimer` – refusals while the worker waits for its interval, the waiter tasks that ticks leave behind.
2. `RecentEvents` – the ring buffer with concurrent writers; context merge as an operator against a reference.
