----------------------------- MODULE ClientCall -----------------------------
(* LeanLLM.chat (client.py) as its callers see it: sampling, streaming, the    *)
(* emission of events, the hooks, and the trace and auto-chain context the     *)
(* calls read and advance (context.py).                                        *)
(*                                                                             *)
(* Tasks are threads or asyncio tasks of the application; each has its own     *)
(* values of the two context variables.  Task 1 is there from the start, the   *)
(* others are spawned: an asyncio task inherits its parent's values, a thread  *)
(* begins with the defaults.  A call is the number of its chat(); 0 is None.   *)
(* A stream is an object that any task may read, in that task's context.       *)
(*                                                                             *)
(* Abstractions.  The content of a call is left out: building the event        *)
(* succeeds or raises.  A hook may raise, which changes nothing (_fire_...     *)
(* swallows it); hooks do not call chat() themselves.  Correlation ids come    *)
(* from trace(): calls that pass correlation_id= and use_context() are left    *)
(* out, and so is log=False, which bypasses all of this.  The queue behind     *)
(* _enqueue is EventPipeline's.                                                *)
EXTENDS Integers, Sequences, FiniteSets

CONSTANTS
    Tasks,       \* 1..n
    AutoChain,   \* LeanLLMConfig.auto_chain
    MaxCalls,    \* bound: calls of chat()
    MaxContexts  \* bound: tasks and trace() scopes, together

ASSUME ClientAssumption ==
    /\ Tasks \subseteq Nat /\ 1 \in Tasks
    /\ AutoChain \in BOOLEAN /\ MaxCalls \in Nat /\ MaxContexts \in Nat

VARIABLES
    calls,       \* the calls so far: a sequence of records, see Call
    chain,       \* _auto_chain_var of each task
    corr,        \* correlation_id of each task's current context
    scopes,      \* each task's open trace() scopes: what their tokens restore
    family,      \* the tasks whose context a task has inherited, itself
                 \* included; empty while it is not spawned
    traces,      \* correlation ids handed out by trace()
    events       \* history: the events given to _enqueue, in order

contextVars == <<chain, corr, scopes>>
vars == <<calls, contextVars, family, traces, events>>

Running == {t \in Tasks : family[t] # {}}

Call == [task : Tasks, stream : BOOLEAN, sampled : BOOLEAN,
         auto : BOOLEAN,                   \* no explicit parent, auto-chain on
         parent : Nat,                     \* then, what auto-chain filled in
         corr : Nat,
         first : BOOLEAN,                  \* the first call of a trace() scope
         before : Nat,                     \* events emitted before it began
         built : BOOLEAN,                  \* its event could be built
         posts : Nat, errors : Nat,        \* post_call_hook, error_hook fired
         state : {"calling",               \* the provider is being called
                  "unread", "reading",     \* a stream the caller holds
                  "returned", "raised",
                  "ended", "abandoned"}]   \* a stream read to its end or closed;
                                           \* a stream never read

Busy(t) == \E i \in DOMAIN calls : calls[i].task = t /\ calls[i].state = "calling"
Free(t) == t \in Running /\ ~Busy(t)

MoreContexts == Cardinality(Running) + traces < MaxContexts

----------------------------------------------------------------------------
Init ==
    /\ calls = <<>> /\ events = <<>> /\ traces = 0
    /\ chain = [t \in Tasks |-> 0] /\ corr = [t \in Tasks |-> 0]
    /\ scopes = [t \in Tasks |-> <<>>]
    /\ family = [t \in Tasks |-> IF t = 1 THEN {1} ELSE {}]

\* A child asyncio task copies its parent's context; a thread starts afresh.
Spawn(t, u) ==
    /\ Free(t) /\ u \in Tasks \ Running /\ MoreContexts
    /\ \/ /\ family' = [family EXCEPT ![u] = family[t] \cup {u}]
          /\ chain' = [chain EXCEPT ![u] = chain[t]]
          /\ corr' = [corr EXCEPT ![u] = corr[t]]
       \/ /\ family' = [family EXCEPT ![u] = {u}]
          /\ UNCHANGED <<chain, corr>>
    /\ UNCHANGED <<calls, scopes, traces, events>>

\* `with trace(...):` the correlation id given, new or used before (0: none is
\* given), else the one that is set, else one of its own; a new chain.
EnterTrace(t) ==
    /\ Free(t) /\ MoreContexts
    /\ traces' = traces + 1
    /\ scopes' = [scopes EXCEPT ![t] =
                    Append(@, [chain |-> chain[t], corr |-> corr[t], fresh |-> TRUE])]
    /\ \E given \in 0..traces' :
         corr' = [corr EXCEPT ![t] = IF given # 0 THEN given ELSE IF @ = 0 THEN traces' ELSE @]
    /\ chain' = [chain EXCEPT ![t] = 0]
    /\ UNCHANGED <<calls, family, events>>

\* Mutant: the scope's end leaves the chain where the calls inside put it.
ExitTraceKeepsChain(t) ==
    /\ Free(t) /\ scopes[t] # <<>>
    /\ LET top == scopes[t][Len(scopes[t])]
       IN  corr' = [corr EXCEPT ![t] = top.corr]
    /\ scopes' = [scopes EXCEPT ![t] = SubSeq(@, 1, Len(@) - 1)]
    /\ UNCHANGED <<chain, calls, family, traces, events>>

\* The scope ends: both tokens are reset.
ExitTrace(t) ==
    /\ Free(t) /\ scopes[t] # <<>>
    /\ LET top == scopes[t][Len(scopes[t])]
       IN  /\ chain' = [chain EXCEPT ![t] = top.chain]
           /\ corr' = [corr EXCEPT ![t] = top.corr]
    /\ scopes' = [scopes EXCEPT ![t] = SubSeq(@, 1, Len(@) - 1)]
    /\ UNCHANGED <<calls, family, traces, events>>

----------------------------------------------------------------------------
(* chat() until the provider is called: context, sampling, the snapshot. *)

\* parent_request_id: the keyword wins, then auto-chain fills the gap.
Begin(t) ==
    /\ Free(t) /\ Len(calls) < MaxCalls
    /\ LET fresh == scopes[t] # <<>> /\ scopes[t][Len(scopes[t])].fresh
       IN  /\ \E stream, sampled, explicit \in BOOLEAN :
                LET auto == AutoChain /\ ~explicit IN
                calls' = Append(calls,
                  [task |-> t, stream |-> stream, sampled |-> sampled,
                   auto |-> auto, parent |-> IF auto THEN chain[t] ELSE 0,
                   corr |-> corr[t], first |-> fresh, before |-> Len(events),
                   built |-> TRUE, posts |-> 0, errors |-> 0, state |-> "calling"])
           /\ scopes' = IF fresh
                        THEN [scopes EXCEPT ![t][Len(scopes[t])].fresh = FALSE]
                        ELSE scopes
    /\ UNCHANGED <<chain, corr, family, traces, events>>

----------------------------------------------------------------------------
(* Emission. *)

\* Mutant: the chain pointer is the process's, not the task's.
EnqueueGlobal(t, i, kind) ==
    /\ events' = Append(events, [id |-> i, kind |-> kind, by |-> t])
    /\ chain' = IF AutoChain THEN [u \in Tasks |-> i] ELSE chain

\* _enqueue: the event is handed over and the running task's chain advances.
Enqueue(t, i, kind) ==
    /\ events' = Append(events, [id |-> i, kind |-> kind, by |-> t])
    /\ chain' = IF AutoChain THEN [chain EXCEPT ![t] = i] ELSE chain

\* _emit and _emit_stream: a build that raises skips the event and its hook.
EmitOk(t, i, state) ==
    \/ /\ Enqueue(t, i, "ok")
       /\ calls' = [calls EXCEPT ![i].state = state, ![i].posts = @ + 1]
    \/ /\ calls' = [calls EXCEPT ![i].state = state, ![i].built = FALSE]
       /\ UNCHANGED <<chain, events>>

\* Mutant: an error is sampled out like a success.
EmitErrorSampled(t, i) ==
    /\ IF calls[i].sampled THEN Enqueue(t, i, "error") ELSE UNCHANGED <<chain, events>>
    /\ calls' = [calls EXCEPT ![i].state = "raised", ![i].errors = @ + 1]

\* _emit_error, then _fire_error whether or not the event could be built.
EmitError(t, i) ==
    \E built \in BOOLEAN :
      /\ IF built THEN Enqueue(t, i, "error") ELSE UNCHANGED <<chain, events>>
      /\ calls' = [calls EXCEPT ![i].state = "raised", ![i].built = built,
                                ![i].errors = @ + 1]

----------------------------------------------------------------------------
(* What the provider does. *)

Calling(t, i) == t \in Running /\ calls[i].task = t /\ calls[i].state = "calling"

\* A sampled-out response is returned without an event.
ProviderReturns(t, i) ==
    /\ Calling(t, i) /\ ~calls[i].stream
    /\ IF calls[i].sampled
         THEN EmitOk(t, i, "returned")
         ELSE /\ calls' = [calls EXCEPT ![i].state = "returned"]
              /\ UNCHANGED <<chain, events>>
    /\ UNCHANGED <<corr, scopes, family, traces>>

\* Errors always emit, stream or not.
ProviderRaises(t, i) ==
    /\ Calling(t, i)
    /\ EmitError(t, i)
    /\ UNCHANGED <<corr, scopes, family, traces>>

\* chat(stream=True) returns _wrap_stream's generator, which has not begun.
StreamOpens(t, i) ==
    /\ Calling(t, i) /\ calls[i].stream
    /\ calls' = [calls EXCEPT ![i].state = "unread"]
    /\ UNCHANGED <<contextVars, family, traces, events>>

----------------------------------------------------------------------------
(* The caller and its stream; a task other than the caller's may read it. *)

Held(t, i) == Free(t) /\ calls[i].state \in {"unread", "reading"}

ReadChunk(t, i) ==
    /\ Free(t) /\ calls[i].state = "unread"
    /\ calls' = [calls EXCEPT ![i].state = "reading"]
    /\ UNCHANGED <<contextVars, family, traces, events>>

\* The iterator is exhausted; sampling plays no part.
StreamEnds(t, i) ==
    /\ Held(t, i)
    /\ EmitOk(t, i, "ended")
    /\ UNCHANGED <<corr, scopes, family, traces>>

\* The provider fails while the stream is read: the error is seen by `except`.
StreamRaises(t, i) ==
    /\ Held(t, i)
    /\ EmitError(t, i)
    /\ UNCHANGED <<corr, scopes, family, traces>>

\* Mutant: a closed stream is taken for a failed one.
CloseStreamAsError(t, i) ==
    /\ Held(t, i)
    /\ IF calls[i].state = "reading"
         THEN /\ Enqueue(t, i, "ok")
              /\ calls' = [calls EXCEPT ![i].state = "ended", ![i].posts = @ + 1,
                                        ![i].errors = @ + 1]
         ELSE /\ calls' = [calls EXCEPT ![i].state = "abandoned"]
              /\ UNCHANGED <<chain, events>>
    /\ UNCHANGED <<corr, scopes, family, traces>>

\* The caller stops reading and the generator is closed: GeneratorExit is no
\* Exception, so `finally` emits a success.  A generator never begun runs
\* nothing when it goes.
CloseStream(t, i) ==
    /\ Held(t, i)
    /\ IF calls[i].state = "reading"
         THEN EmitOk(t, i, "ended")
         ELSE /\ calls' = [calls EXCEPT ![i].state = "abandoned"]
              /\ UNCHANGED <<chain, events>>
    /\ UNCHANGED <<corr, scopes, family, traces>>

Next ==
    \E t \in Tasks :
      \/ EnterTrace(t) \/ ExitTrace(t) \/ Begin(t)
      \/ \E u \in Tasks : Spawn(t, u)
      \/ \E i \in DOMAIN calls :
           \/ ProviderReturns(t, i) \/ ProviderRaises(t, i) \/ StreamOpens(t, i)
           \/ ReadChunk(t, i) \/ StreamEnds(t, i) \/ StreamRaises(t, i)
           \/ CloseStream(t, i)

Spec == Init /\ [][Next]_vars

----------------------------------------------------------------------------
(* Properties. *)

\* Every variable has its type; a chain points to a call, and a task that was
\* not spawned has no context of its own.
TypeOK ==
    /\ calls \in Seq(Call)
    /\ chain \in [Tasks -> 0..Len(calls)] /\ corr \in [Tasks -> 0..traces]
    /\ traces \in Nat
    /\ \A t \in Tasks \ Running : chain[t] = 0 /\ corr[t] = 0 /\ scopes[t] = <<>>
    /\ scopes \in [Tasks -> Seq([chain : Nat, corr : Nat, fresh : BOOLEAN])]
    /\ family \in [Tasks -> SUBSET Tasks]
    /\ events \in Seq([id : Nat, kind : {"ok", "error"}, by : Tasks])

EventsOf(i) == {k \in DOMAIN events : events[k].id = i}

\* When a call owes an event: "Errors always emit, regardless of sampling".
Owes(c) ==
    /\ c.built
    /\ \/ c.state \in {"raised", "ended"}
       \/ c.state = "returned" /\ c.sampled

\* A call emits one event if it owes one and none otherwise, as an error
\* exactly if the caller saw the provider's exception; no path through the
\* streaming generator emits twice.
OneEventPerCall ==
    \A i \in DOMAIN calls :
      /\ Cardinality(EventsOf(i)) = IF Owes(calls[i]) THEN 1 ELSE 0
      /\ \A k \in EventsOf(i) : (events[k].kind = "error") <=> (calls[i].state = "raised")

\* A call fires at most one hook, after its event: error_hook for every
\* exception the caller sees, post_call_hook for every success emitted.
OneHookPerCall ==
    \A i \in DOMAIN calls : LET c == calls[i] IN
      /\ c.errors = IF c.state = "raised" THEN 1 ELSE 0
      /\ c.posts = Cardinality({k \in EventsOf(i) : events[k].kind = "ok"})

\* The parent auto-chain fills in was emitted before the call began, by the
\* call's task or one it descends from: tasks and threads that share a client
\* never see each other's chain, and a chain never runs in a circle.
ChainStaysInTask ==
    \A i \in DOMAIN calls : LET c == calls[i] IN
      c.auto /\ c.parent # 0 =>
        \E k \in 1..c.before :
          events[k].id = c.parent /\ events[k].by \in family[c.task]

\* Outside streams, a chain stays within its correlation: the parent
\* auto-chain fills in has the call's correlation id, whatever scopes opened
\* and closed in between (context.py's token resets against _enqueue).
ChainStaysInTrace ==
    \A i \in DOMAIN calls : LET c == calls[i] IN
      c.auto /\ c.parent # 0 /\ ~calls[c.parent].stream
        => calls[c.parent].corr = c.corr

\* "sampling_rate: 0.0 = log nothing" (config.py:42), "Sampled-out success
\* calls skip `_emit` entirely" (TODO.md:1250).
SampledOutEmitsNothing ==
    \A i \in DOMAIN calls :
      ~calls[i].sampled => \A k \in EventsOf(i) : events[k].kind = "error"

\* "entering trace() means 'new chain starts here', so the first call inside
\* has no parent" (context.py:130-131).
FirstInTraceHasNoParent ==
    \A i \in DOMAIN calls : calls[i].first /\ calls[i].auto => calls[i].parent = 0
=============================================================================
