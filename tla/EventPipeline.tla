--------------------------- MODULE EventPipeline ---------------------------
(* The delivery pipeline of one LeanLLM client: the bounded EventQueue that     *)
(* the calling threads put events into (events/queue.py), the EventWorker       *)
(* thread that drains it in batches into the store, and the start and stop      *)
(* of that thread (events/worker.py).                                           *)
(*                                                                              *)
(* Threads.  The callers emit events (Emit).  The owner of the client           *)
(* constructs it and stops it: mpc is its program counter.  The worker thread   *)
(* runs an asyncio loop: wpc is its program counter; at an `await` the loop     *)
(* may run the callback that stop() posted.  A step is what the code does       *)
(* between two points where another thread, or the loop, can intervene.         *)
(*                                                                              *)
(* Abstractions.  An event is the number of the put_nowait call that carries    *)
(* it.  Durations are left out: a timer may always fire, a store call may       *)
(* always fail, and whether the retry budget is exhausted is a free choice      *)
(* (FlushRetry.tla has the clock).                                              *)
EXTENDS Integers, Sequences

CONSTANTS
    MaxSize,      \* EventQueue(max_size); 0 or less is unbounded
    BatchSize,    \* EventWorker(batch_size)
    MaxRetries,   \* EventWorker(max_retries)
    MaxEvents,    \* bound: events the callers emit
    MaxStops      \* bound: calls of stop()

ASSUME PipelineAssumption ==
    /\ MaxSize \in Int /\ BatchSize \in Int /\ MaxRetries \in Int
    /\ MaxEvents \in Nat /\ MaxStops \in Nat

VARIABLES
    queue,           \* EventQueue._q
    refused,         \* EventQueue._dropped
    batch,           \* the worker's local `events`
    inflight,        \* EventWorker._inflight_count
    attempt,         \* the local of _flush_with_retry
    droppedEvents,   \* EventWorker._dropped_events
    stopEvent,       \* EventWorker._stop_event: "none" until the loop runs
    posted,          \* the _stop_event.set stop() posts: "no", "queued", "ran"
    final,           \* the worker has left its while loop: the last drain
    wpc,             \* where the worker thread is
    mpc,             \* where the owner of the client is
    stops,           \* calls of stop() so far
    emitted,         \* history: calls of enqueue so far
    accepted,        \* history: what enqueue accepted, in order
    settled,         \* history: what was saved or dropped, in order
    savedEvents,     \* history: events whose save_batch returned
    stopMark         \* history: how many events were accepted when stop() posted

queueVars == <<queue, refused, emitted, accepted>>
flushVars == <<batch, inflight, attempt, droppedEvents, settled, savedEvents>>
stopVars  == <<stopEvent, posted, stops, stopMark>>
vars == <<queueVars, flushVars, stopVars, final, wpc, mpc>>

----------------------------------------------------------------------------
(* Where the threads can be. *)

OwnerPCs ==
    { "new",        \* before the constructor
      "starting",   \* in start(), waiting for _loop_ready
      "failed",     \* start() raised after its 5 s
      "up",         \* the client is constructed
      "posting",    \* in stop(), past its check, before call_soon_threadsafe
      "joining",    \* in stop(), joining the thread
      "stopped",    \* stop() returned or raised
      "exited" }    \* the process is gone

WorkerPCs ==
    { "none", "born",                \* before start(); before new_event_loop()
      "looped",                      \* _loop_ready is set, no _stop_event yet
      "initializing",                \* awaiting store.initialize()
      "check",                       \* at `while not _stop_event.is_set()`
      "drain", "finalDrain",         \* in EventQueue.drain / drain_all
      "flush",                       \* entering _flush_with_retry
      "saving", "backoff",           \* awaiting save_batch / asyncio.sleep
      "sleep",                       \* awaiting the stop event or the interval
      "closing",                     \* awaiting store.close()
      "ending",                      \* before loop.close()
      "dead" }                       \* the thread has ended

\* The `await`s: the loop may run a posted callback there.
Awaiting == {"initializing", "saving", "backoff", "sleep", "closing"}

LoopReady == wpc \notin {"none", "born"}

\* The client exists, so the application's threads can call chat().
Usable == mpc \in {"up", "posting", "joining", "stopped"}

\* max(1, max_retries)
Attempts == IF MaxRetries >= 1 THEN MaxRetries ELSE 1

Full == MaxSize > 0 /\ Len(queue) >= MaxSize

----------------------------------------------------------------------------
Init ==
    /\ queue = <<>> /\ refused = 0 /\ emitted = 0 /\ accepted = <<>>
    /\ batch = <<>> /\ inflight = 0 /\ attempt = 0
    /\ droppedEvents = 0 /\ settled = <<>> /\ savedEvents = 0
    /\ stopEvent = "none" /\ posted = "no" /\ stops = 0 /\ stopMark = 0
    /\ final = FALSE /\ wpc = "none" /\ mpc = "new"

----------------------------------------------------------------------------
(* The calling threads: EventQueue.enqueue, from LeanLLM._enqueue. *)

EmitAccepted ==
    /\ ~Full
    /\ queue' = Append(queue, emitted + 1)
    /\ accepted' = Append(accepted, emitted + 1)
    /\ UNCHANGED refused

\* Mutant: a full queue drops its oldest event for the new one.
EmitDropsOldest ==
    /\ Full
    /\ queue' = Append(Tail(queue), emitted + 1)
    /\ accepted' = Append(accepted, emitted + 1)
    /\ refused' = refused + 1

EmitRefused ==
    /\ Full
    /\ refused' = refused + 1
    /\ UNCHANGED <<queue, accepted>>

Emit ==
    /\ Usable /\ emitted < MaxEvents
    /\ emitted' = emitted + 1
    /\ EmitAccepted \/ EmitRefused
    /\ UNCHANGED <<flushVars, stopVars, final, wpc, mpc>>

----------------------------------------------------------------------------
(* The owner of the client: EventWorker.start, stop, and the process's end. *)

Start ==
    /\ mpc = "new"
    /\ mpc' = "starting" /\ wpc' = "born"
    /\ UNCHANGED <<queueVars, flushVars, stopVars, final>>

StartReturns ==
    /\ mpc = "starting" /\ LoopReady
    /\ mpc' = "up"
    /\ UNCHANGED <<queueVars, flushVars, stopVars, final, wpc>>

\* _loop_ready.wait(timeout=5.0) gives up: start() raises, nobody ever stops
\* the thread.
StartTimesOut ==
    /\ mpc = "starting" /\ ~LoopReady
    /\ mpc' = "failed"
    /\ UNCHANGED <<queueVars, flushVars, stopVars, final, wpc>>

\* stop(), up to its check: the loop is not closed and the stop event exists.
\* An application may call it again, and atexit always does.
CallStop ==
    /\ mpc \in {"up", "stopped"} /\ stops < MaxStops
    /\ stops' = stops + 1
    /\ mpc' = IF stopEvent # "none" /\ wpc # "dead" THEN "posting" ELSE "joining"
    /\ UNCHANGED <<queueVars, flushVars, stopEvent, posted, stopMark, final, wpc>>

\* call_soon_threadsafe(_stop_event.set)
PostStop ==
    /\ mpc = "posting" /\ wpc # "dead"
    /\ posted' = "queued"
    /\ stopMark' = IF posted = "no" THEN Len(accepted) ELSE stopMark
    /\ mpc' = "joining"
    /\ UNCHANGED <<queueVars, flushVars, stopEvent, stops, final, wpc>>

\* The loop was closed since the check: call_soon_threadsafe raises.
PostStopRaises ==
    /\ mpc = "posting" /\ wpc = "dead"
    /\ mpc' = "stopped"
    /\ UNCHANGED <<queueVars, flushVars, stopVars, final, wpc>>

\* join() returns because the thread ended or because its timeout expired.
JoinReturns ==
    /\ mpc = "joining"
    /\ mpc' = "stopped"
    /\ UNCHANGED <<queueVars, flushVars, stopVars, final, wpc>>

\* The process ends, at any point: the daemon thread dies where it stands.
ProcessExits ==
    /\ mpc # "exited"
    /\ mpc' = "exited"
    /\ UNCHANGED <<queueVars, flushVars, stopVars, final, wpc>>

Owner ==
    \/ Start \/ StartReturns \/ StartTimesOut
    \/ CallStop \/ PostStop \/ PostStopRaises \/ JoinReturns

----------------------------------------------------------------------------
(* The worker thread. *)

WorkerGoes(from, to) == wpc = from /\ wpc' = to

\* new_event_loop(), then _loop_ready.set(): start() may return from here on.
CreateLoop ==
    /\ WorkerGoes("born", "looped")
    /\ UNCHANGED <<queueVars, flushVars, stopVars, final, mpc>>

\* The coroutine's first statement creates the stop event.
CreateStopEvent ==
    /\ WorkerGoes("looped", "initializing")
    /\ stopEvent' = "clear"
    /\ UNCHANGED <<queueVars, flushVars, posted, stops, stopMark, final, mpc>>

\* Mutant: the stop event is reset once the store is open.
InitializeReturnsReset ==
    /\ WorkerGoes("initializing", "check")
    /\ stopEvent' = "clear"
    /\ UNCHANGED <<queueVars, flushVars, posted, stops, stopMark, final, mpc>>

InitializeReturns ==
    /\ WorkerGoes("initializing", "check")
    /\ UNCHANGED <<queueVars, flushVars, stopVars, final, mpc>>

\* "persistence disabled": the worker leaves, the queue stays.
InitializeRaises ==
    /\ WorkerGoes("initializing", "ending")
    /\ UNCHANGED <<queueVars, flushVars, stopVars, final, mpc>>

\* Mutant: the loop ends without a last drain.
CheckStopNoDrain ==
    /\ wpc = "check"
    /\ IF stopEvent = "set"
         THEN wpc' = "closing" /\ final' = TRUE
         ELSE wpc' = "drain" /\ UNCHANGED final
    /\ UNCHANGED <<queueVars, flushVars, stopVars, mpc>>

CheckStop ==
    /\ wpc = "check"
    /\ IF stopEvent = "set"
         THEN wpc' = "finalDrain" /\ final' = TRUE
         ELSE wpc' = "drain" /\ UNCHANGED final
    /\ UNCHANGED <<queueVars, flushVars, stopVars, mpc>>

\* Mutant: the newest event first.
TakeOneNewest ==
    /\ queue # <<>>
    /\ batch' = Append(batch, queue[Len(queue)])
    /\ queue' = SubSeq(queue, 1, Len(queue) - 1)
    /\ UNCHANGED <<refused, emitted, accepted, inflight, attempt, droppedEvents,
                   settled, savedEvents, stopVars, final, wpc, mpc>>

\* One get_nowait.
TakeOne ==
    /\ queue # <<>>
    /\ batch' = Append(batch, Head(queue))
    /\ queue' = Tail(queue)
    /\ UNCHANGED <<refused, emitted, accepted, inflight, attempt, droppedEvents,
                   settled, savedEvents, stopVars, final, wpc, mpc>>

\* Mutant: every tick drains without a limit.
DrainOneUnlimited ==
    /\ wpc = "drain"
    /\ TakeOne

DrainOne ==
    /\ wpc = "drain" /\ Len(batch) < BatchSize
    /\ TakeOne

\* batch_size taken, or queue.Empty: `if events` decides what follows.
DrainEnds ==
    /\ wpc = "drain" /\ (Len(batch) >= BatchSize \/ queue = <<>>)
    /\ wpc' = IF batch = <<>> THEN "sleep" ELSE "flush"
    /\ UNCHANGED <<queueVars, flushVars, stopVars, final, mpc>>

FinalDrainOne ==
    /\ wpc = "finalDrain"
    /\ TakeOne

FinalDrainEnds ==
    /\ wpc = "finalDrain" /\ queue = <<>>
    /\ wpc' = IF batch = <<>> THEN "closing" ELSE "flush"
    /\ UNCHANGED <<queueVars, flushVars, stopVars, final, mpc>>

BeginFlush ==
    /\ WorkerGoes("flush", "saving")
    /\ inflight' = Len(batch)
    /\ attempt' = 0
    /\ UNCHANGED <<queueVars, batch, droppedEvents, settled, savedEvents,
                   stopVars, final, mpc>>

\* _flush_with_retry returns: the batch is settled, `finally` clears the
\* in-flight count, and the worker goes back to its loop or on to close().
FlushEnds ==
    /\ settled' = settled \o batch
    /\ batch' = <<>>
    /\ inflight' = 0
    /\ attempt' = 0
    /\ wpc' = IF final THEN "closing" ELSE "sleep"
    /\ UNCHANGED <<queueVars, stopVars, final, mpc>>

SaveReturns ==
    /\ wpc = "saving"
    /\ savedEvents' = savedEvents + Len(batch)
    /\ UNCHANGED droppedEvents
    /\ FlushEnds

\* Mutant: counts the batch, not its events.
SaveRaisesDropOne ==
    /\ wpc = "saving"
    /\ droppedEvents' = droppedEvents + 1
    /\ UNCHANGED savedEvents
    /\ FlushEnds

\* save_batch raised and the batch is given up: on the last attempt, or
\* because the next wait would exceed the budget (_record_drop).
SaveRaisesDrop ==
    /\ wpc = "saving"
    /\ droppedEvents' = droppedEvents + Len(batch)
    /\ UNCHANGED savedEvents
    /\ FlushEnds

\* Mutant: one retry too many.
SaveRaisesRetryMore ==
    /\ attempt < Attempts
    /\ WorkerGoes("saving", "backoff")
    /\ UNCHANGED <<queueVars, flushVars, stopVars, final, mpc>>

SaveRaisesRetry ==
    /\ attempt < Attempts - 1
    /\ WorkerGoes("saving", "backoff")
    /\ UNCHANGED <<queueVars, flushVars, stopVars, final, mpc>>

\* Mutant: the attempt is not counted.
BackoffEndsUncounted ==
    /\ WorkerGoes("backoff", "saving")
    /\ UNCHANGED <<queueVars, flushVars, stopVars, final, mpc>>

BackoffEnds ==
    /\ WorkerGoes("backoff", "saving")
    /\ attempt' = attempt + 1
    /\ UNCHANGED <<queueVars, batch, inflight, droppedEvents, settled,
                   savedEvents, stopVars, final, mpc>>

\* wait_for(shield(stop_event.wait()), flush_interval) times out or returns.
SleepEnds ==
    /\ WorkerGoes("sleep", "check")
    /\ UNCHANGED <<queueVars, flushVars, stopVars, final, mpc>>

\* The loop runs the callback stop() posted.
RunStopCallback ==
    /\ posted = "queued" /\ wpc \in Awaiting
    /\ posted' = "ran"
    /\ stopEvent' = "set"
    /\ UNCHANGED <<queueVars, flushVars, stops, stopMark, final, wpc, mpc>>

\* store.close() returns or raises: both lead to the `finally`.
CloseStore ==
    /\ WorkerGoes("closing", "ending")
    /\ UNCHANGED <<queueVars, flushVars, stopVars, final, mpc>>

CloseLoop ==
    /\ WorkerGoes("ending", "dead")
    /\ UNCHANGED <<queueVars, flushVars, stopVars, final, mpc>>

WorkerStep ==
    \/ CreateLoop \/ CreateStopEvent \/ InitializeReturns \/ InitializeRaises
    \/ CheckStop \/ DrainOne \/ DrainEnds \/ FinalDrainOne \/ FinalDrainEnds
    \/ BeginFlush \/ SaveReturns \/ SaveRaisesDrop \/ SaveRaisesRetry
    \/ BackoffEnds \/ SleepEnds \/ CloseStore \/ CloseLoop

----------------------------------------------------------------------------
Next ==
    \/ mpc # "exited" /\ (Emit \/ Owner \/ WorkerStep \/ RunStopCallback)
    \/ ProcessExits

Spec == Init /\ [][Next]_vars

(* Fairness.  The worker's thread is scheduled, timers fire, and every store    *)
(* call returns or raises: SQLite's do and httpx has a timeout, but asyncpg is  *)
(* called without one, and for a Postgres that does not answer this is assumed. *)
(* A posted callback sits in the loop's ready list, which the loop empties at   *)
(* every iteration, so it cannot be passed over at infinitely many awaits.      *)
(* Nothing is assumed of the callers and the owner, and the process may end.    *)
Running == mpc # "exited"

Fairness ==
    /\ WF_vars(Running /\ WorkerStep)
    /\ SF_vars(Running /\ RunStopCallback)

FairSpec == Spec /\ Fairness

----------------------------------------------------------------------------
(* Properties. *)

\* An event is the number of the enqueue call that carried it.
EventId == Nat

\* Every variable has its type; the worker's retry counter stays a legal
\* index of `range(max_retries)`.
TypeOK ==
    /\ queue \in Seq(EventId) /\ batch \in Seq(EventId)
    /\ accepted \in Seq(EventId) /\ settled \in Seq(EventId)
    /\ refused \in Nat /\ emitted \in Nat /\ inflight \in Nat
    /\ droppedEvents \in Nat /\ savedEvents \in Nat
    /\ stops \in Nat /\ stopMark \in Nat
    /\ attempt \in 0..(Attempts - 1)
    /\ stopEvent \in {"none", "clear", "set"}
    /\ posted \in {"no", "queued", "ran"}
    /\ final \in BOOLEAN
    /\ wpc \in WorkerPCs /\ mpc \in OwnerPCs

\* What enqueue accepted is, in that order: what was settled, what the worker
\* holds, what is queued.  Nothing accepted is lost, settled twice or
\* overtaken, whatever drains, retries, drops and a stop interleave.
FIFODelivery == accepted = settled \o batch \o queue

\* The two counters behind LeanLLM.dropped_events_count, the saved events and
\* what is still in the queue and in the worker add up to the events emitted.
EveryEventAccounted ==
    emitted = (refused + droppedEvents) + savedEvents + Len(batch) + Len(queue)

\* "Signal the worker to stop and wait for it to finish flushing": a worker
\* that left its loop because of stop() closes the store only when all that
\* was accepted before the stop was posted is settled.
GracefulStopFlushes ==
    final /\ wpc \in {"closing", "ending", "dead"} => Len(settled) >= stopMark

\* What a client with a bounded queue can hold in memory is bounded: a full
\* queue and one batch, until the unbounded drain of the stop.
BoundedBacklog ==
    MaxSize > 0 =>
      /\ Len(queue) <= MaxSize
      /\ ~final => Len(batch) <= (IF BatchSize > 0 THEN BatchSize ELSE 0)

\* How the worker's place, its batch and the stop hang together: the inductive
\* strengthening of the invariants above.
\* The worker has something to flush while it flushes.
FlushHasBatch == wpc \in {"flush", "saving", "backoff"} => batch # <<>>

\* A backoff is only for a retry that is still allowed.
BackoffHasRetry == wpc = "backoff" => attempt < Attempts - 1

\* The worker only leaves its loop because a posted stop ran.
FinalAfterStop ==
    /\ stopEvent = "set" => posted # "no"
    /\ final => stopEvent = "set"
    /\ wpc = "finalDrain" => final
    /\ final => wpc \in {"finalDrain", "flush", "saving", "backoff",
                          "closing", "ending", "dead"}
    /\ wpc = "closing" => final
    /\ mpc = "new" => wpc = "none"

\* What the last flush still holds covers what the stop has to wait for.
FinalBatchCovers ==
    /\ stopMark <= Len(accepted)
    /\ final /\ wpc \in {"flush", "saving", "backoff"} =>
         Len(settled) + Len(batch) >= stopMark

IInv ==
    /\ TypeOK /\ FIFODelivery /\ EveryEventAccounted /\ BoundedBacklog
    /\ FlushHasBatch /\ BackoffHasRetry /\ FinalAfterStop /\ FinalBatchCovers /\ GracefulStopFlushes

\* An accepted event is eventually saved or dropped, unless the worker ends
\* (failed start, or a stop that came first) or the process does.
AcceptedSettles ==
    \A e \in 1..MaxEvents :
      (\E i \in DOMAIN accepted : accepted[i] = e)
        ~> \/ \E i \in DOMAIN settled : settled[i] = e
           \/ wpc = "dead" \/ ~Running

\* Once stop() has posted its signal the worker ends, even when it comes while
\* the store is being opened, or in the middle of retries.
PostedStopEnds == posted # "no" ~> wpc = "dead" \/ ~Running

\* "Signal the worker to stop and wait for it to finish flushing"
\* (worker.py:103): after a call of stop() the worker ends.
StopEndsWorker == mpc = "joining" ~> wpc = "dead" \/ ~Running

\* The pipeline implements Delivery: the backlog is the worker's batch and
\* then the queue, and it is open until the worker leaves the store.
delivery == INSTANCE Delivery WITH
    Events <- 1..MaxEvents,
    pending <- batch \o queue,
    saved <- savedEvents,
    dropped <- droppedEvents,
    open <- Running /\ wpc \notin {"ending", "dead"}

ImplementsDelivery == delivery!Spec

\* The part of it that is about what can happen, not about what must.
DeliverySafety == delivery!Init /\ [][delivery!Next]_(delivery!vars)

=============================================================================
