----------------------------- MODULE InFlightPoll -----------------------------
(* LeanLLM.events_in_flight, polled by an application thread while the           *)
(* pipeline runs: the property reads the queue's size and then the worker's      *)
(* in-flight count, with no lock around the two (client.py).                     *)
EXTENDS EventPipeline

VARIABLES
    ppc,          \* "idle", or "half": the queue's size is read
    inQueue,      \* the local in_queue
    reading,      \* the value the last poll returned
    atStart,      \* history: the unsettled events when the poll began
    stillOpen     \* history: those of them unsettled when it returned

pollVars == <<ppc, inQueue, reading, atStart, stillOpen>>
allVars == <<vars, pollVars>>

Unsettled == Len(batch) + Len(queue)

PollInit ==
    /\ Init
    /\ ppc = "idle" /\ inQueue = 0 /\ reading = 0 /\ atStart = 0 /\ stillOpen = 0

\* in_queue = self._queue._q.qsize()
PollQueue ==
    /\ Usable /\ ppc = "idle"
    /\ ppc' = "half"
    /\ inQueue' = Len(queue)
    /\ atStart' = Len(accepted)
    /\ reading' = 0 /\ stillOpen' = 0
    /\ UNCHANGED vars

\* Mutant: the worker's count is taken twice.
PollInflightTwice ==
    /\ Running /\ ppc = "half"
    /\ ppc' = "idle"
    /\ reading' = inQueue + 2 * inflight
    /\ stillOpen' = IF Len(settled) < atStart THEN atStart - Len(settled) ELSE 0
    /\ inQueue' = 0
    /\ UNCHANGED <<vars, atStart>>

\* ... + self._worker.inflight_count
PollInflight ==
    /\ Running /\ ppc = "half"
    /\ ppc' = "idle"
    /\ reading' = inQueue + inflight
    /\ stillOpen' = IF Len(settled) < atStart THEN atStart - Len(settled) ELSE 0
    /\ inQueue' = 0
    /\ UNCHANGED <<vars, atStart>>

PollNext ==
    \/ Next /\ UNCHANGED pollVars
    \/ PollQueue \/ PollInflight

PollSpec == PollInit /\ [][PollNext]_allVars
----------------------------------------------------------------------------
\* "Events the SDK is responsible for but hasn't persisted yet. [...] Read-only;
\* safe to poll." (client.py:219-222): a poll never returns less than the
\* events that were unsettled from its first read to its second.
PollCoversUnsettled == reading >= stillOpen \/ ppc = "half"

\* What a poll does guarantee outside the last drain: the events it misses fit
\* in one batch, and what it returns never exceeds what the queue and one
\* batch can hold, although a batch that moves between its reads counts twice.
OneBatch == IF BatchSize > 0 THEN BatchSize ELSE 0

PollOffByOneBatch ==
    ppc = "idle" /\ ~final /\ MaxSize > 0 =>
      /\ stillOpen - reading <= OneBatch
      /\ reading <= MaxSize + OneBatch
=============================================================================
