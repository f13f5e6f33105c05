---------------------------- MODULE NetworkStore ----------------------------
(* PostgresEventStore and RemoteEventStore (storage/postgres.py, remote.py)     *)
(* under the retries of their workers: statements and POSTs whose answer is     *)
(* lost, or that the server executes after the worker gave them up, two workers *)
(* on one server, and the migrations PostgresEventStore runs when it starts     *)
(* (storage/migrations/runner.py).                                              *)
(*                                                                              *)
(* Postgres executes an executemany as a whole or not at all; the service takes *)
(* a POST and accepts any part of it.  What is known of the service is what     *)
(* save_batch reads of its answer.                                              *)
EXTENDS Integers, FiniteSets

CONSTANTS
    Workers,
    Target,        \* [Workers -> URLs]: the database or service of each
    Events,        \* 1..n
    WorkerOf,      \* [Events -> Workers]
    IdOf,          \* [Events -> ids]; request_id lets callers repeat an id
    Attempts,      \* max(1, max_retries)
    BatchSize,
    NoUrl          \* LEANLLM_ALEMBIC_URL is not set

ASSUME NetworkAssumption ==
    /\ Events \subseteq Nat /\ Attempts \in Nat \ {0} /\ BatchSize \in Nat \ {0}
    /\ WorkerOf \in [Events -> Workers]
    /\ NoUrl \notin {Target[w] : w \in Workers}

VARIABLES
    kind,        \* what create_store chose: "postgres" or "remote"
    env,         \* os.environ["LEANLLM_ALEMBIC_URL"], of the workers' one process
    schema,      \* the databases that have the table
    rows,        \* what the servers hold: a function from keys to events
    requests,    \* sent and not executed: [worker, attempt, events]
    wpc, batch, attempt,   \* where each worker is, and its save_batch under way
    answered,    \* workers whose request was executed, its answer under way
    outcome,     \* history: what became of each event
    arrivals,    \* history: how often each event was executed
    refused      \* history: events the service reported as dropped

serverVars == <<schema, rows, requests, answered, arrivals, refused>>
workerVars == <<wpc, batch, attempt, outcome>>
vars == <<kind, env, serverVars, workerVars>>

Urls == {Target[w] : w \in Workers}
Key(e) == <<Target[WorkerOf[e]], IdOf[e]>>
Keys == {Key(e) : e \in Events}
First(S) == CHOOSE e \in S : \A f \in S : e <= f

\* Mutant: ON CONFLICT DO UPDATE.
InsertOrUpdate(S) ==
    [k \in DOMAIN rows \cup {Key(e) : e \in S} |->
        IF \E e \in S : Key(e) = k THEN First({e \in S : Key(e) = k}) ELSE rows[k]]

\* INSERT ... ON CONFLICT (event_id) DO NOTHING
Insert(S) ==
    [k \in DOMAIN rows \cup {Key(e) : e \in S} |->
        IF k \in DOMAIN rows THEN rows[k] ELSE First({e \in S : Key(e) = k})]

Init ==
    /\ kind \in {"postgres", "remote"} /\ env = NoUrl /\ schema = {}
    /\ rows = [k \in {} |-> 0] /\ requests = {} /\ answered = {}
    /\ wpc = [w \in Workers |-> "new"] /\ batch = [w \in Workers |-> {}]
    /\ attempt = [w \in Workers |-> 0]
    /\ outcome = [e \in Events |-> "new"] /\ arrivals = [e \in Events |-> 0]
    /\ refused = {}

Goes(w, from, to) == wpc[w] = from /\ wpc' = [wpc EXCEPT ![w] = to]

----------------------------------------------------------------------------
(* initialize() *)

StartUp(w, from, to) ==
    /\ Goes(w, from, to)
    /\ UNCHANGED <<kind, rows, requests, answered, arrivals, refused, batch, attempt, outcome>>

\* upgrade_postgres passes the URL to env.py through the environment.
SetUrl(w) ==
    /\ kind = "postgres" /\ StartUp(w, "new", "migrating")
    /\ env' = Target[w] /\ UNCHANGED schema

\* env.py reads the environment and migrates what it finds there.
MigrateReturns(w) ==
    /\ StartUp(w, "migrating", "connecting")
    /\ schema' = schema \cup {env} /\ UNCHANGED env

\* Another process migrates at the same time, or the server is away: logged.
MigrateRaises(w) ==
    /\ StartUp(w, "migrating", "connecting")
    /\ UNCHANGED <<env, schema>>

\* create_pool, also without auto_migrate; or httpx.AsyncClient.
Connect(w) ==
    /\ \/ StartUp(w, "connecting", "idle")
       \/ StartUp(w, "new", "idle")
    /\ UNCHANGED <<env, schema>>

ConnectRaises(w) ==
    /\ StartUp(w, "connecting", "ended") /\ UNCHANGED <<env, schema>>

----------------------------------------------------------------------------
(* save_batch() and the retries around it. *)

TakeBatch(w) ==
    /\ Goes(w, "idle", "sending")
    /\ LET new == {e \in Events : WorkerOf[e] = w /\ outcome[e] = "new"}
       IN  /\ new # {}
           /\ \E k \in 1..BatchSize :
                batch' = [batch EXCEPT ![w] = {e \in new : e < First(new) + k}]
    /\ outcome' = [e \in Events |-> IF e \in batch'[w] THEN "handed" ELSE outcome[e]]
    /\ UNCHANGED <<kind, env, serverVars, attempt>>

\* executemany, or client.post
Send(w) ==
    /\ Goes(w, "sending", "waiting")
    /\ requests' = requests \cup {[worker |-> w, attempt |-> attempt[w], events |-> batch[w]]}
    /\ UNCHANGED <<kind, env, schema, rows, answered, arrivals, refused, batch, attempt,
                   outcome>>

\* The server executes a request, also one its worker no longer waits for.
Arrive(r) ==
    /\ requests' = requests \ {r}
    /\ arrivals' = [e \in Events |-> arrivals[e] + IF e \in r.events THEN 1 ELSE 0]
    /\ answered' = IF /\ wpc[r.worker] = "waiting" /\ attempt[r.worker] = r.attempt
                      /\ batch[r.worker] = r.events
                   THEN answered \cup {r.worker} ELSE answered
    /\ UNCHANGED <<kind, env, schema, workerVars>>

PostgresExecutes(r) ==
    /\ kind = "postgres" /\ Target[r.worker] \in schema
    /\ Arrive(r)
    /\ rows' = Insert(r.events)
    /\ UNCHANGED refused

ServiceExecutes(r) ==
    /\ kind = "remote"
    /\ Arrive(r)
    /\ \E S \in SUBSET r.events : rows' = Insert(S) /\ refused' = refused \cup (r.events \ S)

Settle(w, fate) ==
    /\ outcome' = [e \in Events |-> IF e \in batch[w] THEN fate ELSE outcome[e]]
    /\ batch' = [batch EXCEPT ![w] = {}]
    /\ attempt' = [attempt EXCEPT ![w] = 0]
    /\ answered' = answered \ {w}

\* Mutant: a status that is not 2xx is not raised.
SaveReturnsUnanswered(w) ==
    /\ Goes(w, "waiting", "idle")
    /\ Settle(w, "saved")
    /\ UNCHANGED <<kind, env, schema, rows, requests, arrivals, refused>>

\* The answer came: events the service dropped are logged and count as saved.
SaveReturns(w) ==
    /\ w \in answered
    /\ Goes(w, "waiting", "idle")
    /\ Settle(w, "saved")
    /\ UNCHANGED <<kind, env, schema, rows, requests, arrivals, refused>>

\* Mutant: the HTTP client has no timeout.
RaiseIfAnswered(w) ==
    /\ w \in answered
    /\ Goes(w, "waiting", "idle") /\ Settle(w, "dropped")
    /\ UNCHANGED <<kind, env, schema, rows, requests, arrivals, refused>>

\* Mutant: one retry too many.
RaiseMore(w) ==
    /\ IF attempt[w] < Attempts
       THEN /\ Goes(w, "waiting", "sending")
            /\ attempt' = [attempt EXCEPT ![w] = @ + 1]
            /\ answered' = answered \ {w}
            /\ UNCHANGED <<batch, outcome>>
       ELSE Goes(w, "waiting", "idle") /\ Settle(w, "dropped")
    /\ UNCHANGED <<kind, env, schema, rows, requests, arrivals, refused>>

\* An error, a timeout or a lost connection, the request executed or not; a
\* retry if one is left, or the batch is dropped.
SaveRaises(w) ==
    /\ \/ /\ attempt[w] < Attempts - 1
          /\ Goes(w, "waiting", "sending")
          /\ attempt' = [attempt EXCEPT ![w] = @ + 1]
          /\ answered' = answered \ {w}
          /\ UNCHANGED <<batch, outcome>>
       \/ Goes(w, "waiting", "idle") /\ Settle(w, "dropped")
    /\ UNCHANGED <<kind, env, schema, rows, requests, arrivals, refused>>

\* stop() and close(), or the worker's process ends, at any point.
End(w) ==
    /\ wpc[w] # "ended" /\ wpc' = [wpc EXCEPT ![w] = "ended"]
    /\ Settle(w, "lost")
    /\ UNCHANGED <<kind, env, schema, rows, requests, arrivals, refused>>

Step(w) ==
    \/ SetUrl(w) \/ MigrateReturns(w) \/ MigrateRaises(w) \/ Connect(w) \/ ConnectRaises(w)
    \/ TakeBatch(w) \/ Send(w) \/ SaveReturns(w) \/ SaveRaises(w)

Next ==
    \/ \E w \in Workers : Step(w) \/ End(w)
    \/ \E r \in requests : PostgresExecutes(r) \/ ServiceExecutes(r)

\* A worker goes on, and httpx answers or raises (RemoteEventStore sets a timeout).
\* asyncpg is given none: such a worker may wait, migrate or connect for ever.
MustReturn(w) == kind = "remote" \/ wpc[w] \in {"idle", "sending"}

Spec == Init /\ [][Next]_vars /\ \A w \in Workers : WF_vars(MustReturn(w) /\ Step(w))

----------------------------------------------------------------------------
(* Properties. *)

\* Types; a batch is in a worker's hands while it sends and waits, and only the
\* worker that waits has an answer.
TypeOK ==
    /\ kind \in {"postgres", "remote"} /\ env \in Urls \cup {NoUrl} /\ schema \subseteq Urls
    /\ DOMAIN rows \subseteq Keys /\ \A k \in DOMAIN rows : rows[k] \in Events
    /\ requests \subseteq [worker : Workers, attempt : Nat, events : SUBSET Events]
    /\ wpc \in [Workers -> {"new", "migrating", "connecting", "idle", "sending", "waiting",
                            "ended"}]
    /\ batch \in [Workers -> SUBSET Events] /\ attempt \in [Workers -> Nat]
    /\ \A w \in Workers : (batch[w] # {}) <=> (wpc[w] \in {"sending", "waiting"})
    /\ answered \subseteq {w \in Workers : wpc[w] = "waiting"}
    /\ outcome \in [Events -> {"new", "handed", "saved", "dropped", "lost"}]
    /\ arrivals \in [Events -> Nat] /\ refused \subseteq Events

\* Postgres keeps what EventStore promises, whatever is lost on the way, late,
\* or repeated: what is saved is stored, and no row ever changes.
store == INSTANCE EventStore WITH IdOf <- [e \in Events |-> Key(e)]

PostgresImplementsEventStore ==
    store!Init /\ [][kind = "postgres" => store!Next]_<<rows, outcome>>

\* The service is at-least-once: an event that counts as saved was executed, and
\* the service stored its id or reported it as dropped.
SavedWasAnswered ==
    \A e \in Events : outcome[e] = "saved" =>
        /\ arrivals[e] >= 1
        /\ Key(e) \in DOMAIN rows \/ (kind = "remote" /\ e \in refused)

\* A server executes an event at most once per attempt, late answers included.
AtMostAttempts == \A e \in Events : arrivals[e] <= Attempts

\* A batch in a worker's hands is saved or dropped, or the worker ends: retries do
\* not go on for ever.  A worker of Postgres may instead wait for ever for one answer,
\* which is the only way its batch stays in its hands.
HandedSettles ==
    \A e \in Events :
        outcome[e] = "handed" ~>
            \/ outcome[e] # "handed"
            \/ kind = "postgres" /\ [](wpc[WorkerOf[e]] = "waiting")
=============================================================================
