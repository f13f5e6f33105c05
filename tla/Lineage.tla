------------------------------ MODULE Lineage ------------------------------
(* A trace from its calls to its rows: a Chain (lineage.py) shared by         *)
(* concurrent calls of one client, the events they emit, the worker that      *)
(* writes them to the table in the order of the queue, and a reader that      *)
(* pages through list_events meanwhile.                                       *)
(*                                                                            *)
(* The reader follows `leanllm logs --offset`: it lists a page, moves the     *)
(* offset on by the limit, and ends when the offset has reached count_events. *)
(*                                                                            *)
(* Abstractions.  A call is a number and the id of its event; calls begin in  *)
(* the order of their numbers.  A timestamp is any hour in Times: events are  *)
(* stamped before they are enqueued, by a clock that may be set back.  An     *)
(* event the full queue refuses is one the worker gives up.  What a call does *)
(* beside its event and its hook is in ClientCall, how the worker delivers in *)
(* EventPipeline.                                                             *)
EXTENDS EventQuery

CONSTANTS
    Calls,      \* bound: 1..n
    Corrs,      \* the correlation ids calls are made with: in [Calls -> ids]
    Times,      \* bound: the hours events are stamped with
    Foreign,    \* the rows an earlier process left
    Filters,    \* the arguments of list_events a reader may choose
    PageSize    \* limit

ASSUME LineageAssumption ==
    /\ Calls \subseteq Nat \ {0} /\ Corrs \subseteq [Calls -> STRING] /\ Times \subseteq Nat
    /\ Foreign \in Seq(Rows) /\ Filters # {} /\ PageSize \in Nat \ {0}

VARIABLES
    last,        \* the chain's _last_request_id; 0 is None
    pc, corr, parent,   \* of each call: where it is, what it was called with
    overlap,     \* history: two calls were ever under way at the same time
    queue,       \* accepted and not yet written
    table,
    rpc, filter, backend, offset, seen,   \* the reader
    atStart      \* history: the rows of the table when the reader began

callVars == <<last, pc, corr, parent, overlap>>
readVars == <<rpc, filter, backend, offset, seen, atStart>>
vars == <<callVars, queue, table, readVars>>

Own == "own"      \* the chain's correlation id
NoCorr == "none"  \* a call without one

Init ==
    /\ last = 0 /\ overlap = FALSE
    /\ pc = [c \in Calls |-> "new"]
    /\ corr \in Corrs /\ parent = [c \in Calls |-> 0]
    /\ queue = <<>> /\ table = Foreign
    /\ rpc = "idle" /\ filter = (CHOOSE f \in Filters : TRUE) /\ backend = "sqlite"
    /\ offset = 0 /\ seen = <<>> /\ atStart = 0

Goes(c, from, to) == pc[c] = from /\ pc' = [pc EXCEPT ![c] = to]

----------------------------------------------------------------------------
(* The calls. *)

\* chat(**chain.kwargs()), or a call that has nothing to do with the chain.
Begin(c) ==
    /\ Goes(c, "new", "calling")
    /\ \A d \in Calls : d < c => pc[d] # "new"
    /\ parent' = [parent EXCEPT ![c] = IF corr[c] = Own THEN last ELSE 0]
    /\ overlap' = (overlap \/ \E d \in Calls : pc[d] \in {"calling", "emitted"})
    /\ UNCHANGED <<last, corr, queue, table, readVars>>

\* _build_event, _enqueue.  An error event fires no post_call hook.  The stamp
\* is chosen when the row is written.
Emit(c) ==
    \E error \in BOOLEAN :
      /\ Goes(c, "calling", IF error THEN "failed" ELSE "emitted")
      /\ queue' = Append(queue, [id |-> c, corr |-> corr[c], parent |-> parent[c], at |-> 0,
                                 error |-> error, cost |-> IF error THEN 0 ELSE c,
                                 readable |-> TRUE])
      /\ UNCHANGED <<last, corr, parent, overlap, table, readVars>>

\* The call is sampled out, or its event cannot be built: no event, no hook.
Skip(c) ==
    /\ Goes(c, "calling", "skipped")
    /\ UNCHANGED <<last, corr, parent, overlap, queue, table, readVars>>

\* Mutant: the chain follows any event.
RecordAny(c) == last' = c

\* Chain.record: an event of another trace is ignored.
Record(c) == last' = IF corr[c] \in {NoCorr, Own} THEN c ELSE last

\* Mutant: the chain is registered as pre_call_hook.
HookBefore(c) ==
    /\ pc[c] = "calling" /\ Record(c)
    /\ UNCHANGED <<pc, corr, parent, overlap, queue, table, readVars>>

\* post_call_hook=chain
Hook(c) ==
    /\ Goes(c, "emitted", "done")
    /\ Record(c)
    /\ UNCHANGED <<corr, parent, overlap, queue, table, readVars>>

----------------------------------------------------------------------------
(* The worker, row after row: the next event is written or given up. *)
Flush ==
    /\ queue # <<>> /\ queue' = Tail(queue)
    /\ table' \in {table} \cup {Append(table, [Head(queue) EXCEPT !.at = t]) : t \in Times}
    /\ UNCHANGED <<callVars, readVars>>

----------------------------------------------------------------------------
(* The reader. *)

\* Bound: it begins when the calls have ended.  They do not depend on the table,
\* and the worker may lag behind them: rows still appear between the reads.
StartReading ==
    /\ \A c \in Calls : pc[c] \in {"done", "failed", "skipped"}
    /\ rpc = "idle" /\ rpc' = "paging"
    /\ backend' \in Backends /\ filter' \in Filters
    /\ atStart' = Len(table)
    /\ UNCHANGED <<callVars, queue, table, offset, seen>>

\* list_events(limit, offset)
ReadPage ==
    /\ rpc = "paging" /\ offset < CountEvents(backend, table, filter)
    /\ \E s \in Listings(backend, table, filter) :
         seen' = seen \o Page(table, s, PageSize, offset)
    /\ offset' = offset + PageSize
    /\ UNCHANGED <<callVars, queue, table, rpc, filter, backend, atStart>>

EndReading ==
    /\ rpc = "paging" /\ offset >= CountEvents(backend, table, filter)
    /\ rpc' = "done"
    /\ UNCHANGED <<callVars, queue, table, filter, backend, offset, seen, atStart>>

----------------------------------------------------------------------------
CallNext == \E c \in Calls : Begin(c) \/ Emit(c) \/ Skip(c) \/ Hook(c)
ReadNext == StartReading \/ ReadPage \/ EndReading
Next == CallNext \/ Flush \/ ReadNext

Spec == Init /\ [][Next]_vars

----------------------------------------------------------------------------
(* Properties. *)

\* Types of all variables: ids, events and the reader's state.
TypeOK ==
    /\ last \in Calls \cup {0}
    /\ pc \in [Calls -> {"new", "calling", "emitted", "done", "failed", "skipped"}]
    /\ corr \in Corrs /\ parent \in [Calls -> Calls \cup {0}]
    /\ \A s \in {queue, table, seen} : s \in Seq(Rows)
    /\ overlap \in BOOLEAN /\ backend \in Backends /\ filter \in Filters
    /\ rpc \in {"idle", "paging", "done"} /\ offset \in Nat /\ atStart \in 0..Len(table)

\* However the calls of a chain overlap, a call's parent has emitted its event
\* before the call begins (Chain.kwargs at the begin, Chain.record in the hook
\* after the enqueue): the links of a chain never close a cycle.
ParentPrecedes ==
    \A c \in Calls : parent[c] # 0 => pc[parent[c]] \in {"emitted", "done"}

\* "r2's event.parent_request_id == r1's event.event_id" (lineage.py:191-197):
\* of calls made one after the other, each names the last one that succeeded in
\* the trace, or without a correlation id.
SequentialIsAChain ==
    ~overlap => \A c \in Calls :
      LET earlier == {d \in Calls :
                        /\ d < c /\ corr[d] \in {NoCorr, Own}
                        /\ pc[d] \in {"emitted", "done"}}
      IN  corr[c] = Own /\ pc[c] # "new" =>
            parent[c] = IF earlier = {} THEN 0
                        ELSE CHOOSE d \in earlier : \A e \in earlier : e <= d

\* Whether a row is what the reader asked for, by instants.
Wanted(row) ==
    /\ filter.corr \in {Never, row.corr} /\ (filter.errorsOnly => row.error)
    /\ filter.since # Never => filter.since.at <= row.at
    /\ filter.until # Never => row.at <= filter.until.at

\* Paging: rows inserted meanwhile push others to later pages, where they are
\* seen twice, but no row that was there at the start is skipped.  In Postgres
\* that takes distinct timestamps.
NothingSkipped ==
    LET ties == \E i, j \in DOMAIN table : i # j /\ table[i].at = table[j].at
    IN  rpc = "done" /\ (backend = "sqlite" \/ ~ties) =>
          \A i \in 1..atStart :
            Wanted(table[i]) /\ table[i].readable =>
              \E k \in DOMAIN seen : seen[k].id = table[i].id

\* A window given in UTC holds what it says in both stores.
OnlyWanted == \A i \in DOMAIN seen : Wanted(seen[i])

\* `leanllm logs` shows the events of its window: "Returns a timezone-aware UTC
\* datetime." (cli/_store.py:61).  A time with another zone stays in it, and
\* SQLite compares its text.
LogsShowWindow == NothingSkipped /\ OnlyWanted
=============================================================================
