----------------------------- MODULE SqliteStore -----------------------------
(* SQLiteEventStore (storage/sqlite.py) under the worker's retries: the file,   *)
(* the one aiosqlite connection with its implicit transaction, batches that     *)
(* fail half-way, the reads the application posts to the worker's loop          *)
(* (client.py), and the end of the process at any point.                        *)
(*                                                                              *)
(* sqlite3 opens a transaction before the first INSERT and leaves it open when  *)
(* executemany or commit raises, unless SQLite has rolled it back itself        *)
(* (disk full); a connection that is closed rolls back.  aiosqlite runs one     *)
(* statement after the other in a thread of its own; at every `await` the       *)
(* worker's loop may run a read.                                                *)
(*                                                                              *)
(* Abstractions.  An event is its number in the order the worker takes them     *)
(* from the queue, a row the event it was made from.  A batch is an interval    *)
(* of events.  Columns, indexes and the filters of list_events are left out:    *)
(* a read is get_event.                                                         *)
EXTENDS Integers, FiniteSets

CONSTANTS
    Events,        \* 1..n
    IdOf,          \* [Events -> ids]; request_id lets callers repeat an id
    Attempts,      \* max(1, max_retries)
    BatchSize,
    Unreadable,    \* the events whose rows another version of the SDK wrote so
                   \* that row_to_event raises
    MaxSessions    \* bound: processes that open the file, one after the other

ASSUME StoreAssumption ==
    /\ Events \subseteq Nat /\ Attempts \in Nat \ {0}
    /\ BatchSize \in Nat \ {0} /\ MaxSessions \in Nat \ {0} /\ Unreadable \subseteq Events

VARIABLES
    disk,        \* the committed rows: a function from ids to events
    schema,      \* the table exists in the file
    view,        \* the rows the connection sees: disk and its transaction
    conn,        \* _conn: "none", "open", or "closed" and not yet reset
    wpc,         \* where the worker is
    batch,       \* the events of the save_batch under way
    attempt,
    sessions,    \* processes so far
    outcome,     \* history: what became of each event
    rpc,         \* the reader: "idle", "posted" to the worker's loop, "fetching"
    rid,         \* the event_id it asks for
    cursor,      \* the rows its statement found
    known,       \* history: it was saved before the read, in a row one can read
    answer,      \* the last answer: "", "row", "None" or "raised"
    openThen     \* history: the store was ready when it answered

storeVars == <<disk, schema, view, conn>>
workerVars == <<wpc, batch, attempt, sessions, outcome>>
readVars == <<rpc, rid, cursor, known, answer, openThen>>
vars == <<storeVars, workerVars, readVars>>

Ids == {IdOf[e] : e \in Events}

Flushing == {"inserting", "committing", "committed", "backoff"}
WorkerPCs == Flushing \cup {"connecting", "creating", "idle", "closing", "forgetting", "ended"}

Ready == conn = "open" /\ wpc # "creating"

First(S) == CHOOSE e \in S : \A f \in S : e <= f

\* Mutant: INSERT OR REPLACE.
InsertOrReplace(rows, S) ==
    [i \in DOMAIN rows \cup {IdOf[e] : e \in S} |->
        IF \E e \in S : IdOf[e] = i THEN First({e \in S : IdOf[e] = i}) ELSE rows[i]]

\* INSERT OR IGNORE, one row after the other: an id that is there stays.
InsertOrIgnore(rows, S) ==
    [i \in DOMAIN rows \cup {IdOf[e] : e \in S} |->
        IF i \in DOMAIN rows THEN rows[i] ELSE First({e \in S : IdOf[e] = i})]

----------------------------------------------------------------------------
Init ==
    /\ disk = [i \in {} |-> 0] /\ view = disk /\ schema = FALSE /\ conn = "none"
    /\ wpc = "connecting" /\ batch = {} /\ attempt = 0 /\ sessions = 1
    /\ outcome = [e \in Events |-> "new"]
    /\ rpc = "idle" /\ rid \in Ids /\ cursor = {}
    /\ known = FALSE /\ answer = "" /\ openThen = FALSE

WorkerGoes(from, to) == wpc = from /\ wpc' = to

----------------------------------------------------------------------------
(* initialize(): connect, create the table and its indexes. *)

Connect ==
    /\ WorkerGoes("connecting", "creating")
    /\ conn' = "open" /\ view' = disk
    /\ UNCHANGED <<disk, schema, batch, attempt, sessions, outcome, readVars>>

\* DDL is committed statement by statement.
CreateTables ==
    /\ WorkerGoes("creating", "idle")
    /\ schema' = TRUE
    /\ UNCHANGED <<disk, view, conn, batch, attempt, sessions, outcome, readVars>>

\* connect or a statement raises: the worker ends, what is open stays open,
\* what was created stays.
InitializeRaises ==
    /\ \/ WorkerGoes("connecting", "ended") /\ UNCHANGED schema
       \/ WorkerGoes("creating", "ended") /\ schema' \in {schema, TRUE}
    /\ UNCHANGED <<disk, view, conn, batch, attempt, sessions, outcome, readVars>>

----------------------------------------------------------------------------
(* save_batch() and the worker's retries around it. *)

TakeBatch ==
    /\ WorkerGoes("idle", "inserting")
    /\ LET new == {e \in Events : outcome[e] = "new"}
       IN  /\ new # {}
           /\ \E k \in 1..BatchSize : batch' = {e \in new : e < First(new) + k}
    /\ attempt' = 0
    /\ outcome' = [e \in Events |-> IF e \in batch' THEN "handed" ELSE outcome[e]]
    /\ UNCHANGED <<storeVars, sessions, readVars>>

\* The flush is over, whatever became of its batch.
Settle(fate) ==
    /\ outcome' = [e \in Events |-> IF e \in batch THEN fate ELSE outcome[e]]
    /\ batch' = {} /\ attempt' = 0 /\ wpc' = "idle"

\* save_batch raised: a retry if one is left, or the batch is dropped (the
\* retry budget may run out before the attempts do).
Raise ==
    \/ attempt < Attempts - 1 /\ wpc' = "backoff" /\ UNCHANGED <<batch, attempt, outcome>>
    \/ Settle("dropped")

BackoffEnds ==
    /\ WorkerGoes("backoff", "inserting")
    /\ attempt' = attempt + 1
    /\ UNCHANGED <<storeVars, batch, sessions, outcome, readVars>>

\* Mutant: the transaction is never committed.
InsertReturnsUncommitted ==
    /\ wpc = "inserting"
    /\ view' = InsertOrIgnore(view, batch)
    /\ Settle("saved")
    /\ UNCHANGED <<disk, schema, conn, sessions, readVars>>

InsertReturns ==
    /\ WorkerGoes("inserting", "committing")
    /\ view' = InsertOrIgnore(view, batch)
    /\ UNCHANGED <<disk, schema, conn, batch, attempt, sessions, outcome, readVars>>

\* executemany raises before one of its rows: those before it stay in the open
\* transaction, unless SQLite rolls all of it back.
InsertRaises ==
    /\ wpc = "inserting"
    /\ \/ \E e \in batch : view' = InsertOrIgnore(view, {f \in batch : f < e})
       \/ view' = disk
    /\ Raise
    /\ UNCHANGED <<disk, schema, conn, sessions, readVars>>

\* The transaction is in the file; the worker does not know yet.
Commit ==
    /\ WorkerGoes("committing", "committed")
    /\ disk' = view
    /\ UNCHANGED <<view, schema, conn, batch, attempt, sessions, outcome, readVars>>

CommitReturns ==
    /\ wpc = "committed"
    /\ Settle("saved")
    /\ UNCHANGED <<storeVars, sessions, readVars>>

\* Mutant: an exception of commit is swallowed.
CommitRaisesSwallowed ==
    /\ wpc = "committing"
    /\ view' \in {view, disk}
    /\ Settle("saved")
    /\ UNCHANGED <<disk, schema, conn, sessions, readVars>>

\* commit raises (the file is locked, the disk is full): the transaction stays
\* open or is rolled back.
CommitRaises ==
    /\ wpc = "committing"
    /\ view' \in {view, disk}
    /\ Raise
    /\ UNCHANGED <<disk, schema, conn, sessions, readVars>>

----------------------------------------------------------------------------
(* close(), and the end of the process. *)

Stop ==
    /\ WorkerGoes("idle", "closing")
    /\ UNCHANGED <<storeVars, batch, attempt, sessions, outcome, readVars>>

\* An open transaction is rolled back.
CloseReturns ==
    /\ WorkerGoes("closing", "forgetting")
    /\ conn' = "closed" /\ view' = disk
    /\ UNCHANGED <<disk, schema, batch, attempt, sessions, outcome, readVars>>

CloseRaises ==
    /\ WorkerGoes("closing", "ended")
    /\ UNCHANGED <<storeVars, batch, attempt, sessions, outcome, readVars>>

\* self._conn = None
ForgetConnection ==
    /\ WorkerGoes("forgetting", "ended")
    /\ conn' = "none"
    /\ UNCHANGED <<disk, schema, view, batch, attempt, sessions, outcome, readVars>>

\* The process ends, at any point, and another one opens the same file.
Restart ==
    /\ sessions < MaxSessions
    /\ sessions' = sessions + 1
    /\ wpc' = "connecting" /\ conn' = "none" /\ view' = disk
    /\ outcome' = [e \in Events |-> IF e \in batch THEN "lost" ELSE outcome[e]]
    /\ batch' = {} /\ attempt' = 0
    /\ rpc' = "idle" /\ cursor' = {} /\ known' = FALSE /\ answer' = "" /\ openThen' = FALSE
    /\ UNCHANGED <<disk, schema, rid>>

----------------------------------------------------------------------------
(* get_event, posted to the worker's loop by a thread of the application. *)

PostRead ==
    /\ rpc = "idle" /\ wpc # "ended"
    /\ rpc' = "posted" /\ rid' \in Ids /\ cursor' = {}
    /\ known' = /\ \E e \in Events : IdOf[e] = rid' /\ outcome[e] = "saved"
                /\ \A e \in Unreadable : IdOf[e] # rid'
    /\ answer' = "" /\ openThen' = FALSE
    /\ UNCHANGED <<storeVars, workerVars>>

AnswerRead(a) ==
    /\ rpc' = "idle" /\ answer' = a /\ openThen' = Ready
    /\ UNCHANGED <<storeVars, workerVars, rid, cursor, known>>

ReadWithoutStore ==
    /\ rpc = "posted" /\ conn = "none" /\ wpc # "ended"
    /\ AnswerRead("None")

\* The statement sees the connection's transaction.
ExecuteRead ==
    /\ rpc = "posted" /\ conn = "open" /\ schema /\ wpc # "ended"
    /\ rpc' = "fetching" /\ cursor' = {view[i] : i \in DOMAIN view \cap {rid}}
    /\ UNCHANGED <<storeVars, workerVars, rid, known, answer, openThen>>

\* A row that row_to_event does not take is logged and None.
FetchRow ==
    /\ rpc = "fetching" /\ conn = "open" /\ wpc # "ended"
    /\ AnswerRead(IF cursor \subseteq Unreadable THEN "None" ELSE "row")

\* execute or fetchone raises: the table is missing, the connection was closed
\* (also between the two), the file is locked.
ReadRaises ==
    /\ \/ rpc = "posted" /\ conn # "none"
       \/ rpc = "fetching"
    /\ wpc # "ended"
    /\ AnswerRead("raised")

Next ==
    \/ Connect \/ CreateTables \/ InitializeRaises
    \/ TakeBatch \/ InsertReturns \/ InsertRaises \/ Commit \/ CommitReturns \/ CommitRaises
    \/ BackoffEnds
    \/ Stop \/ CloseReturns \/ CloseRaises \/ ForgetConnection \/ Restart
    \/ PostRead \/ ReadWithoutStore \/ ExecuteRead \/ FetchRow \/ ReadRaises

Spec == Init /\ [][Next]_vars

----------------------------------------------------------------------------
(* Properties. *)

IsTable(rows) == DOMAIN rows \subseteq Ids /\ \A i \in DOMAIN rows : rows[i] \in Events

\* Every variable has its type; only a flush holds a batch.
TypeOK ==
    /\ IsTable(disk) /\ IsTable(view)
    /\ schema \in BOOLEAN /\ conn \in {"none", "open", "closed"}
    /\ wpc \in WorkerPCs /\ batch \subseteq Events
    /\ attempt \in 0..(Attempts - 1) /\ sessions \in 1..MaxSessions
    /\ (batch # {}) <=> (wpc \in Flushing)
    /\ outcome \in [Events -> {"new", "handed", "saved", "dropped", "lost"}]
    /\ rpc \in {"idle", "posted", "fetching"} /\ rid \in Ids /\ cursor \subseteq Events
    /\ answer \in {"", "row", "None", "raised"}
    /\ known \in BOOLEAN /\ openThen \in BOOLEAN

\* An event whose save_batch returned has its id in the file, whatever failed
\* before it, and through every end of the process after it.
SavedIsStored == \A e \in Events : outcome[e] = "saved" => IdOf[e] \in DOMAIN disk

\* A committed row is never changed or removed: retries and repeated ids leave
\* the first event with an id alone.
RowsNeverChange ==
    [][\A i \in DOMAIN disk : i \in DOMAIN disk' /\ disk'[i] = disk[i]]_vars

\* While the store is ready a read finds every event that was saved before it
\* was posted, in this process or an earlier one, if its row can be read.
ReadsFindSaved == answer = "None" /\ known => ~openThen

\* The SQLite store keeps what EventStore promises.
store == INSTANCE EventStore WITH rows <- disk

ImplementsEventStore == store!Spec

\* "Fetch a single event by id, or None if it isn't present." (base.py:32)
NoneMeansAbsent == answer = "None" => ~known

\* "Save a batch with bounded retry. Drops the batch if exhausted."
\* (worker.py:189): what is counted as dropped is not in the store.
DroppedIsNotStored ==
    \A i \in DOMAIN disk : outcome[disk[i]] # "dropped"
=============================================================================
