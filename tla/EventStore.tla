----------------------------- MODULE EventStore -----------------------------
(* What an event store promises the worker (BaseEventStore.save_batch,        *)
(* storage/base.py), whatever happens to its connection or its process: a row *)
(* that is in the store stays there as it is, the first event with an id wins, *)
(* and an event is saved only once its id is in the store.  Nothing is         *)
(* promised of an event that is not saved: a row of it may appear at any time  *)
(* after it was handed over, also after it was given up.                       *)
EXTENDS Integers

CONSTANTS
    Events,    \* the events handed to the store, in their order: 1..n
    IdOf       \* [Events -> ids]: the event_id of each

VARIABLES
    rows,      \* the table: a function from the ids it holds to events
    outcome    \* [Events -> {"new", "handed", "saved", "dropped", "lost"}]

vars == <<rows, outcome>>

Ids == {IdOf[e] : e \in Events}

Init ==
    /\ rows = [i \in {} |-> 0]
    /\ outcome = [e \in Events |-> "new"]

\* The worker hands over new events.
HandOver ==
    /\ \E S \in SUBSET {e \in Events : outcome[e] = "new"} :
         outcome' = [e \in Events |-> IF e \in S THEN "handed" ELSE outcome[e]]
    /\ UNCHANGED rows

\* Rows appear, of events that were handed over.
Grow(new) ==
    /\ DOMAIN rows \subseteq DOMAIN new
    /\ \A i \in DOMAIN rows : new[i] = rows[i]
    /\ \A i \in DOMAIN new \ DOMAIN rows :
         new[i] \in Events /\ IdOf[new[i]] = i /\ outcome[new[i]] # "new"

\* The events in the worker's hands are saved, or given up, or they are gone
\* with the process.
Settle ==
    \E D \in SUBSET Ids :
      /\ rows' \in [DOMAIN rows \cup D -> Events] /\ Grow(rows')
      /\ \/ UNCHANGED outcome
         \/ \E S \in SUBSET {e \in Events : outcome[e] = "handed"} :
            \E fate \in {"saved", "dropped", "lost"} :
              /\ fate = "saved" => \A e \in S : IdOf[e] \in DOMAIN rows'
              /\ outcome' = [e \in Events |-> IF e \in S THEN fate ELSE outcome[e]]

Next == HandOver \/ Settle

Spec == Init /\ [][Next]_vars
=============================================================================
