---------------------------- MODULE ProcessClient ----------------------------
(* The process-wide client of leanllm/__init__.py: init(), shutdown(), chat()  *)
(* and reads by threads that share one module variable and no lock, the        *)
(* workers of the clients they construct, and the atexit handlers.             *)
(*                                                                             *)
(* Every read of _default_client is a step of its own.  A worker is reduced to *)
(* the life of its thread and loop; a flush saves what is queued (EventPipeline *)
(* has the batches and retries).  Clients have a persistent store.             *)
EXTENDS Integers, Sequences

CONSTANTS
    Threads,
    MaxClients,   \* bound: clients constructed
    MaxCalls      \* bound: calls begun

ASSUME ProcessAssumption == MaxClients \in Nat /\ MaxCalls \in Nat /\ 0 \notin Threads

VARIABLES
    default,      \* _default_client, 0 for None
    made,         \* clients constructed so far: 1..made
    worker,       \* the thread and loop of each client's worker
    queued,       \* the number of events in each client's queue
    atexit,       \* clients whose stop is registered with atexit, in this order
    pc,           \* where each thread is
    client,       \* the client its call works on
    held,         \* the client its last init() returned, 0 for none
    calls,        \* calls begun
    exit,         \* "no", "running" (the handlers run), "joining", "gone"
    parted,       \* history: clients whose stop() was called or whose start() raised
    failed,       \* history: clients whose store did not initialize
    overlap,      \* history: init() or shutdown() overlapped another call
    surprised     \* history: an AttributeError on None, or an init() that returned None

shared == <<default, made, worker, queued, atexit>>
local == <<pc, client, held, calls>>
vars == <<shared, local, exit, parted, failed, overlap, surprised>>

Clients == 1..MaxClients
Lives == {"none", "thread", "loop", "initializing", "told", "up", "stopping", "closing",
          "ended", "closed"}
InInit == {"constructing", "starting", "returning"}
InShutdown == {"checking", "stopping", "joining", "clearing"}
PCs == InInit \cup InShutdown \cup {"idle", "calling", "emitting", "reading"}

Init ==
    /\ default = 0 /\ made = 0 /\ calls = 0 /\ exit = "no"
    /\ worker = [c \in Clients |-> "none"] /\ queued = [c \in Clients |-> 0]
    /\ pc = [t \in Threads |-> "idle"]
    /\ client = [t \in Threads |-> 0] /\ held = [t \in Threads |-> 0]
    /\ atexit = <<>> /\ parted = {} /\ failed = {}
    /\ overlap = FALSE /\ surprised = FALSE

\* A call begins; if another thread is in one of `at` the two overlap.
Begin(t, to, at) ==
    /\ exit = "no" /\ pc[t] = "idle" /\ calls < MaxCalls
    /\ calls' = calls + 1
    /\ pc' = [pc EXCEPT ![t] = to]
    /\ overlap' = (overlap \/ \E u \in Threads \ {t} : pc[u] \in at)
    /\ UNCHANGED <<shared, held, exit, parted, failed, surprised>>

\* A thread goes on in its call.
Go(t, from, to) ==
    /\ pc[t] = from /\ pc' = [pc EXCEPT ![t] = to]
    /\ UNCHANGED <<calls, exit, failed, overlap>>

\* The thread reads the variable again, for an attribute of what it finds.
Dereference(t, from, to) ==
    /\ Go(t, from, IF default = 0 THEN "idle" ELSE to)
    /\ surprised' = (surprised \/ default = 0)
    /\ UNCHANGED held

----------------------------------------------------------------------------
(* init() *)

Busy == PCs \ {"idle", "reading"}

\* Mutant: no look at what is there.
CallInitAlways(t) == Begin(t, "constructing", Busy) /\ UNCHANGED client

CallInit(t) ==
    /\ Begin(t, IF default = 0 THEN "constructing" ELSE "returning", Busy)
    /\ UNCHANGED client

\* LeanLLM(...) constructs a store and a worker and starts its thread.
Construct(t) ==
    /\ Go(t, "constructing", "starting") /\ made < MaxClients
    /\ made' = made + 1
    /\ worker' = [worker EXCEPT ![made'] = "thread"]
    /\ client' = [client EXCEPT ![t] = made']
    /\ UNCHANGED <<default, queued, atexit, held, parted, surprised>>

\* The new client becomes the default, whatever is there.
Publish(t, handlers) ==
    /\ Go(t, "starting", "returning")
    /\ default' = client[t]
    /\ atexit' = handlers
    /\ UNCHANGED <<made, worker, queued, client, held, parted, surprised>>

\* Mutant: start() registers no stop with atexit.
StartReturnsUnregistered(t) ==
    /\ pc[t] = "starting" /\ worker[client[t]] # "thread"
    /\ Publish(t, atexit)

\* start() saw _loop_ready.
StartReturns(t) ==
    /\ pc[t] = "starting" /\ worker[client[t]] # "thread"
    /\ Publish(t, Append(atexit, client[t]))

\* start() raises after 5 s: its thread is left to itself.
StartTimesOut(t) ==
    /\ Go(t, "starting", "idle")
    /\ parted' = parted \cup {client[t]}
    /\ UNCHANGED <<shared, client, held, surprised>>

\* `return _default_client` reads the variable again.
InitReturns(t) ==
    /\ Go(t, "returning", "idle")
    /\ held' = [held EXCEPT ![t] = default]
    /\ surprised' = (surprised \/ default = 0)
    /\ UNCHANGED <<shared, client, parted>>

----------------------------------------------------------------------------
(* shutdown() and EventWorker.stop() *)

CallShutdown(t) ==
    /\ Begin(t, IF default = 0 THEN "clearing" ELSE "checking", Busy)
    /\ UNCHANGED client

\* _default_client._worker is not None
CheckWorker(t) ==
    /\ Dereference(t, "checking", "stopping")
    /\ UNCHANGED <<shared, client, parted>>

\* The stop event exists once the loop runs _worker_loop; before, the stop is lost.
SignalStop(c) ==
    /\ parted' = parted \cup {c}
    /\ worker' = [worker EXCEPT ![c] = CASE @ = "initializing" -> "told"
                                        [] @ = "up"           -> "stopping"
                                        [] OTHER              -> @]

\* _default_client._worker.stop(timeout=2.0), up to its join.
StopWorker(t) ==
    /\ Dereference(t, "stopping", "joining")
    /\ client' = [client EXCEPT ![t] = default]
    /\ IF default = 0 THEN UNCHANGED <<worker, parted>> ELSE SignalStop(default)
    /\ UNCHANGED <<default, made, queued, atexit>>

\* The worker's thread ended, or the timeout passed.
JoinReturns(t) ==
    /\ Go(t, "joining", "clearing")
    /\ UNCHANGED <<shared, client, held, parted, surprised>>

\* _default_client = None, whatever it is now.
ClearDefault(t) ==
    /\ Go(t, "clearing", "idle")
    /\ default' = 0
    /\ UNCHANGED <<made, worker, queued, atexit, client, held, parted, surprised>>

----------------------------------------------------------------------------
(* chat() and completion() *)

\* Mutant: no check for None.
CallChatUnchecked(t) == Begin(t, "calling", InInit \cup InShutdown) /\ UNCHANGED client

\* Without a client they raise RuntimeError at once.
CallChat(t) ==
    /\ Begin(t, IF default = 0 THEN "idle" ELSE "calling", InInit \cup InShutdown)
    /\ UNCHANGED client

\* _default_client.chat
LookUpClient(t) ==
    /\ Dereference(t, "calling", "emitting")
    /\ client' = [client EXCEPT ![t] = default]
    /\ UNCHANGED <<shared, parted>>

\* The provider answered: the event is put in the client's queue.
ChatReturns(t) ==
    /\ Go(t, "emitting", "idle")
    /\ queued' = [queued EXCEPT ![client[t]] = @ + 1]
    /\ UNCHANGED <<default, made, worker, atexit, client, held, parted, surprised>>

----------------------------------------------------------------------------
(* get_event, list_events and count_events on the client init() returned. *)

\* Mutant: what is posted before the store is initialized is lost.
PostReadIfUp(t) ==
    /\ held[t] # 0 /\ Begin(t, "reading", {})
    /\ client' = [client EXCEPT ![t] = IF worker[held[t]] = "up" THEN held[t] ELSE 0]

\* run_coroutine_threadsafe raises on a closed loop, and only then.
PostRead(t) ==
    /\ held[t] # 0
    /\ Begin(t, IF worker[held[t]] = "closed" THEN "idle" ELSE "reading", {})
    /\ client' = [client EXCEPT ![t] = held[t]]

\* The loop runs the read as long as it runs _worker_loop.
ReadReturns(t) ==
    /\ client[t] # 0
    /\ worker[client[t]] \in {"loop", "initializing", "told", "up", "stopping", "closing"}
    /\ Go(t, "reading", "idle")
    /\ UNCHANGED <<shared, client, held, parted, surprised>>

----------------------------------------------------------------------------
(* The worker of each client. *)

WorkerGoes(c, from, to) ==
    /\ exit # "gone"
    /\ worker[c] = from /\ worker' = [worker EXCEPT ![c] = to]
    /\ UNCHANGED <<default, made, atexit, local, exit, parted, overlap, surprised>>

CreateLoop(c) == WorkerGoes(c, "thread", "loop") /\ UNCHANGED <<queued, failed>>

\* _worker_loop() creates the stop event, then awaits initialize().
CreateStopEvent(c) == WorkerGoes(c, "loop", "initializing") /\ UNCHANGED <<queued, failed>>

\* The store is initialized; a stop that came meanwhile is seen at once.
WorkerStarts(c) ==
    /\ WorkerGoes(c, "initializing", "up") \/ WorkerGoes(c, "told", "stopping")
    /\ UNCHANGED <<queued, failed>>

InitializeRaises(c) ==
    /\ WorkerGoes(c, "initializing", "ended") \/ WorkerGoes(c, "told", "ended")
    /\ failed' = failed \cup {c} /\ UNCHANGED queued

\* A tick, and its flush.
Tick(c) ==
    /\ WorkerGoes(c, "up", "up") /\ queued[c] # 0
    /\ queued' = [queued EXCEPT ![c] = 0] /\ UNCHANGED failed

\* Mutant: no last drain.
LeaveQueue(c) == WorkerGoes(c, "stopping", "closing") /\ UNCHANGED <<queued, failed>>

\* The last drain and its flush, then the store is closed.
FinalDrain(c) ==
    /\ WorkerGoes(c, "stopping", "closing")
    /\ queued' = [queued EXCEPT ![c] = 0] /\ UNCHANGED failed

LoopEnds(c) == WorkerGoes(c, "closing", "ended") /\ UNCHANGED <<queued, failed>>

CloseLoop(c) == WorkerGoes(c, "ended", "closed") /\ UNCHANGED <<queued, failed>>

----------------------------------------------------------------------------
(* The end of the process: the handlers run one after the other, last first. *)

ExitGoes(from, to) ==
    /\ exit = from /\ exit' = to
    /\ UNCHANGED <<default, made, queued, local, failed, overlap, surprised>>

\* The interpreter waits for the threads first.
Exit ==
    /\ \A t \in Threads : pc[t] = "idle"
    /\ ExitGoes("no", "running") /\ UNCHANGED <<worker, atexit, parted>>

\* The handler registered last: stop(), up to its join.
ExitStop ==
    /\ ExitGoes("running", "joining") /\ atexit # <<>>
    /\ SignalStop(atexit[Len(atexit)])
    /\ atexit' = SubSeq(atexit, 1, Len(atexit) - 1)

\* The worker's thread ended, or 3 s passed.
ExitJoin == ExitGoes("joining", "running") /\ UNCHANGED <<worker, atexit, parted>>

ProcessEnds ==
    /\ ExitGoes("running", "gone") /\ atexit = <<>>
    /\ UNCHANGED <<worker, atexit, parted>>

----------------------------------------------------------------------------
WorkerStep(c) ==
    \/ CreateLoop(c) \/ CreateStopEvent(c) \/ WorkerStarts(c) \/ InitializeRaises(c)
    \/ Tick(c) \/ FinalDrain(c) \/ LoopEnds(c) \/ CloseLoop(c)

ThreadStep(t) ==
    \/ CallInit(t) \/ Construct(t) \/ StartReturns(t) \/ StartTimesOut(t) \/ InitReturns(t)
    \/ CallShutdown(t) \/ CheckWorker(t) \/ StopWorker(t) \/ JoinReturns(t) \/ ClearDefault(t)
    \/ CallChat(t) \/ LookUpClient(t) \/ ChatReturns(t)
    \/ PostRead(t) \/ ReadReturns(t)

Next ==
    \/ \E t \in Threads : ThreadStep(t)
    \/ \E c \in Clients : WorkerStep(c)
    \/ Exit \/ ExitStop \/ ExitJoin \/ ProcessEnds

\* The loop of a running worker runs what is posted to it; a started thread
\* goes on.  Nothing is assumed of the callers.
Spec ==
    /\ Init /\ [][Next]_vars
    /\ \A c \in Clients : WF_vars(WorkerStep(c))
    /\ \A t \in Threads : WF_vars(ReadReturns(t))

----------------------------------------------------------------------------
(* Properties. *)

\* The variable, the workers and the calls keep to their types, and no client is
\* referred to that was not constructed.
TypeOK ==
    /\ default \in 0..made /\ made \in 0..MaxClients /\ calls \in 0..MaxCalls
    /\ worker \in [Clients -> Lives]
    /\ queued \in [Clients -> Nat]
    /\ pc \in [Threads -> PCs]
    /\ client \in [Threads -> 0..made] /\ held \in [Threads -> 0..made]
    /\ exit \in {"no", "running", "joining", "gone"}
    /\ atexit \in Seq(1..made) /\ parted \subseteq 1..made /\ failed \subseteq 1..made
    /\ overlap \in BOOLEAN /\ surprised \in BOOLEAN

\* "Subsequent calls return the same instance (idempotent)" (__init__.py:35), as
\* far as it goes: unless init() or shutdown() overlaps another call, every
\* client constructed is the default, or its stop() was called, or its start()
\* raised.
NoClientForgotten ==
    ~overlap /\ (\A t \in Threads : pc[t] \notin InInit) =>
        \A c \in 1..made : c = default \/ c \in parted

\* Unless init() or shutdown() overlaps another call, no call meets a client
\* that vanished between two reads of the variable, and init() returns one.
NoSurpriseInSequence == ~overlap => ~surprised

\* A client that init() returned has its loop: no read finds _loop None.
HeldClientHasLoop ==
    \A t \in Threads : held[t] # 0 => worker[held[t]] \notin {"none", "thread"}

\* Whatever raced, a process that ends asks every worker to stop whose start()
\* returned, forgotten clients included.
ExitAsksEveryWorker == exit = "gone" => 1..made \subseteq parted

\* Calls that did not overlap an init() or shutdown() leave no event behind: at
\* the end of the process the queue of every worker is flushed that ended and
\* whose store worked.
SequentialUseFlushes ==
    exit = "gone" /\ ~overlap =>
        \A c \in Clients \ failed : worker[c] = "closed" => queued[c] = 0

\* A read that was posted is answered, unless its worker's loop ended first.
ReadAnsweredUnlessEnded ==
    \A t \in Threads :
        pc[t] = "reading" ~>
            \/ pc[t] # "reading" \/ exit = "gone"
            \/ client[t] # 0 /\ worker[client[t]] \in {"ended", "closed"}
=============================================================================
