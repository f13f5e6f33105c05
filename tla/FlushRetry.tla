----------------------------- MODULE FlushRetry -----------------------------
(* EventWorker._flush_with_retry and _record_drop with their clock             *)
(* (events/worker.py): attempts, exponential backoff with jitter, the retry    *)
(* budget, the drop counters, the rate-limited drop log and the on_dropped     *)
(* callback.  One worker flushes one batch after the other; a batch is the     *)
(* number of its events.  Time is an integer clock (time.monotonic); a save    *)
(* takes one of SaveTimes, the idle time between two flushes is one of         *)
(* IdleTimes, and a sleep lasts what was asked.                                *)
EXTENDS Integers

CONSTANTS
    MaxRetries,       \* max_retries
    InitialBackoff,   \* initial_backoff_ms
    TotalBudget,      \* total_budget_ms
    Window,           \* _DROP_LOG_WINDOW_SECONDS
    BatchSizes,       \* the sizes a drained batch can have
    SaveTimes,        \* how long save_batch may take
    IdleTimes,        \* how long the worker may sit between two flushes
    BootTimes,        \* what time.monotonic() may say when the worker starts
    MaxTime           \* bound: no flush begins after this time

ASSUME FlushAssumption ==
    /\ MaxRetries \in Int /\ InitialBackoff \in Int /\ TotalBudget \in Int
    /\ Window \in Nat /\ MaxTime \in Nat
    /\ BatchSizes \subseteq Nat \ {0}
    /\ SaveTimes \subseteq Nat /\ IdleTimes \subseteq Nat /\ BootTimes \subseteq Nat

VARIABLES
    now,             \* time.monotonic()
    pc,              \* "idle", "saving" or "backoff"
    n,               \* len(events)
    attempt, elapsed, wait,      \* locals of _flush_with_retry
    droppedEvents,   \* _dropped_events
    sinceLog,        \* _dropped_since_last_log
    lastLog,         \* _last_drop_log_ts
    logged,          \* history: events the drop log has reported
    told,            \* history: events on_dropped was called with
    prevLog,         \* history: when the log line before the last was written
    lastDrop         \* history: when the last batch was dropped

flushVars == <<pc, n, attempt, elapsed, wait>>
dropVars  == <<droppedEvents, sinceLog, lastLog, logged, told, prevLog, lastDrop>>
vars == <<now, flushVars, dropVars>>

NonNegative(x) == IF x > 0 THEN x ELSE 0

\* What __init__ keeps of the configuration.
Attempts == IF MaxRetries >= 1 THEN MaxRetries ELSE 1
Backoff == NonNegative(InitialBackoff)
Budget == NonNegative(TotalBudget)

\* base_wait, and the waits that base_wait * (1 + uniform(-0.2, +0.2)) can give.
BaseWait(a) == Backoff * 2^a
ShortestWait(a) == (8 * BaseWait(a) + 9) \div 10
LongestWait(a) == (12 * BaseWait(a)) \div 10
Waits(a) == {w \in ShortestWait(a)..LongestWait(a) : w >= 0}

----------------------------------------------------------------------------
Init ==
    /\ now \in BootTimes
    /\ pc = "idle" /\ n = 0 /\ attempt = 0 /\ elapsed = 0 /\ wait = 0
    /\ droppedEvents = 0 /\ sinceLog = 0 /\ lastLog = 0
    /\ logged = 0 /\ told = 0 /\ prevLog = 0 /\ lastDrop = 0

\* `if events: await self._flush_with_retry(events)`
Begin ==
    /\ pc = "idle" /\ now <= MaxTime
    /\ pc' = "saving"
    /\ n' \in BatchSizes
    /\ \E d \in IdleTimes : now' = now + d
    /\ attempt' = 0 /\ elapsed' = 0 /\ wait' = 0
    /\ UNCHANGED dropVars

SaveTakes == \E d \in SaveTimes : now' = now + d

FlushEnds ==
    /\ pc' = "idle"
    /\ n' = 0 /\ attempt' = 0 /\ elapsed' = 0 /\ wait' = 0

SaveReturns ==
    /\ pc = "saving"
    /\ SaveTakes
    /\ FlushEnds
    /\ UNCHANGED dropVars

\* The log line is due: it reports all that was dropped since the last one.
WriteLog ==
    /\ logged' = logged + sinceLog + n
    /\ sinceLog' = 0
    /\ lastLog' = now'
    /\ prevLog' = lastLog

KeepForLog ==
    /\ sinceLog' = sinceLog + n
    /\ UNCHANGED <<logged, lastLog, prevLog>>

\* Mutant: a log line reports only the batch at hand.
RecordDropForgets ==
    /\ droppedEvents' = droppedEvents + n
    /\ told' = told + n
    /\ lastDrop' = now'
    /\ IF now' - lastLog >= Window
         THEN /\ logged' = logged + n
              /\ sinceLog' = 0 /\ lastLog' = now' /\ prevLog' = lastLog
         ELSE KeepForLog

\* Mutant: silent drops move the window along.
RecordDropSlides ==
    /\ droppedEvents' = droppedEvents + n
    /\ told' = told + n
    /\ lastDrop' = now'
    /\ IF now' - lastDrop >= Window THEN WriteLog ELSE KeepForLog

\* _record_drop; on_dropped may raise, which is swallowed.
RecordDrop ==
    /\ droppedEvents' = droppedEvents + n
    /\ told' = told + n
    /\ lastDrop' = now'
    /\ IF now' - lastLog >= Window THEN WriteLog ELSE KeepForLog

GiveUp ==
    /\ FlushEnds
    /\ RecordDrop

\* The last attempt raised: "max retries reached".
SaveRaisesLast ==
    /\ pc = "saving" /\ attempt >= Attempts - 1
    /\ SaveTakes
    /\ GiveUp

\* Mutant: the wait after the next one is compared with the budget.
SaveRaisesOverBudgetEarly ==
    /\ pc = "saving" /\ attempt < Attempts - 1
    /\ \E w \in Waits(attempt + 1) : elapsed + w > Budget
    /\ SaveTakes
    /\ GiveUp

\* The next wait would exceed the budget: "retry budget exceeded".
SaveRaisesOverBudget ==
    /\ pc = "saving" /\ attempt < Attempts - 1
    /\ \E w \in Waits(attempt) : elapsed + w > Budget
    /\ SaveTakes
    /\ GiveUp

\* Mutant: the budget is compared with the next wait alone.
SaveRaisesRetryBudgetPerWait ==
    /\ pc = "saving" /\ attempt < Attempts - 1
    /\ \E w \in Waits(attempt) : w <= Budget /\ wait' = w
    /\ SaveTakes
    /\ pc' = "backoff"
    /\ UNCHANGED <<n, attempt, elapsed, dropVars>>

SaveRaisesRetry ==
    /\ pc = "saving" /\ attempt < Attempts - 1
    /\ \E w \in Waits(attempt) : elapsed + w <= Budget /\ wait' = w
    /\ SaveTakes
    /\ pc' = "backoff"
    /\ UNCHANGED <<n, attempt, elapsed, dropVars>>

BackoffEnds ==
    /\ pc = "backoff"
    /\ now' = now + wait
    /\ elapsed' = elapsed + wait
    /\ attempt' = attempt + 1
    /\ pc' = "saving" /\ wait' = 0
    /\ UNCHANGED <<n, dropVars>>

Next ==
    \/ Begin \/ SaveReturns \/ SaveRaisesLast \/ SaveRaisesOverBudget
    \/ SaveRaisesRetry \/ BackoffEnds

Spec == Init /\ [][Next]_vars

----------------------------------------------------------------------------
(* Properties. *)

\* Every variable has its type; a batch in flight is never empty and `attempt`
\* stays an index of range(max_retries).
TypeOK ==
    /\ now \in Nat /\ wait \in Nat /\ elapsed \in Nat /\ n \in Nat
    /\ attempt \in 0..(Attempts - 1)
    /\ pc \in {"idle", "saving", "backoff"}
    /\ pc # "idle" => n \in BatchSizes
    /\ droppedEvents \in Nat /\ sinceLog \in Nat /\ lastLog \in Nat
    /\ logged \in Nat /\ told \in Nat /\ lastDrop \in Nat
    /\ prevLog \in Nat

\* The time a batch is kept waiting between its attempts never exceeds the
\* budget, and it is what exponential backoff gives: after a retries between
\* 0.8 and 1.2 times initial * (2^a - 1).
BackoffBudget ==
    /\ elapsed + wait <= Budget
    /\ 10 * elapsed >= 8 * Backoff * (2^attempt - 1)
    /\ 10 * elapsed <= 12 * Backoff * (2^attempt - 1)

\* The counter, the drop log and the on_dropped callback tell of the same
\* events: the log's total lags only by what waits for its next line.
DropsReported == logged + sinceLog = droppedEvents /\ told = droppedEvents

\* The log is rate-limited but never goes silent: two lines are a window
\* apart, and the last drop waits for a line only if one was written less than
\* a window before it (or the clock itself is younger than a window).
LogRate ==
    /\ prevLog > 0 => lastLog - prevLog >= Window
    /\ sinceLog > 0 => lastDrop - lastLog < Window

\* A batch is not given up lightly: a drop follows the last attempt, or
\* some wait that was due did not fit in what was left of the budget.
DropsAreJustified ==
    [][droppedEvents' > droppedEvents =>
         \/ attempt = Attempts - 1
         \/ elapsed + LongestWait(attempt) > Budget]_vars
=============================================================================
