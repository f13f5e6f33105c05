------------------------------ MODULE Delivery ------------------------------
(* What the delivery pipeline of LeanLLM promises its callers, with no thread, *)
(* no retry and no batch in sight.  EventPipeline.tla is the detailed model    *)
(* that implements it.                                                         *)
(*                                                                             *)
(* An event handed to the SDK is either refused on the spot, which only        *)
(* happens while the backlog is at least the queue's capacity, or it joins a   *)
(* backlog that is settled oldest first: each event once, as saved or as       *)
(* dropped, and a drop is counted.  The pipeline settles for as long as it is  *)
(* open; what is pending when it closes, or when the process ends, is lost.    *)
EXTENDS Integers, Sequences

CONSTANTS
    MaxSize,   \* the queue's maxsize; 0 or less means unbounded
    Events     \* what the callers may hand over

VARIABLES
    pending,         \* accepted events not settled yet, oldest first
    settled,         \* settled events, in the order they were settled
    saved,           \* how many of them were saved
    dropped,         \* how many of them were dropped, as the counter says
    refused,         \* events refused because the queue was full
    open             \* the pipeline still settles events

vars == <<pending, settled, saved, dropped, refused, open>>

Init ==
    /\ pending = <<>> /\ settled = <<>>
    /\ saved = 0 /\ dropped = 0 /\ refused = 0
    /\ open = TRUE

\* A caller's event joins the backlog.  A closed pipeline still accepts.
Accept ==
    /\ \E e \in Events : pending' = Append(pending, e)
    /\ UNCHANGED <<settled, saved, dropped, refused, open>>

\* A caller's event is refused: the backlog is at least the queue's capacity.
Refuse ==
    /\ MaxSize > 0 /\ Len(pending) >= MaxSize
    /\ refused' = refused + 1
    /\ UNCHANGED <<pending, settled, saved, dropped, open>>

\* The oldest n events leave the backlog together, all saved or all dropped.
Settle ==
    /\ open
    /\ \E n \in 1..Len(pending) :
         /\ settled' = settled \o SubSeq(pending, 1, n)
         /\ pending' = SubSeq(pending, n + 1, Len(pending))
         /\ \/ saved' = saved + n /\ UNCHANGED dropped
            \/ dropped' = dropped + n /\ UNCHANGED saved
    /\ UNCHANGED <<refused, open>>

\* A graceful stop, a failed start or the end of the process.
Close ==
    /\ open
    /\ open' = FALSE
    /\ UNCHANGED <<pending, settled, saved, dropped, refused>>

Next == Accept \/ Refuse \/ Settle \/ Close

Spec == Init /\ [][Next]_vars /\ WF_vars(Settle)
=============================================================================
