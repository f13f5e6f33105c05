---------------------------- MODULE ReplayProofs ----------------------------
(* The theorems about Replay and their proofs: for any number of ids, threads  *)
(* and originals, whatever the provider answers and in which order the calls   *)
(* end, the results are in the order of the events and every call leaves at    *)
(* most one event; the same answer compares as the same.                       *)
EXTENDS Replay, FiniteSetTheorems, FunctionTheorems, SequenceTheorems,
        WellFoundedInduction, TLAPS

----------------------------------------------------------------------------
(* The ids that are found. *)

\* The ids of a set that come before i.
Before(S, i) == {j \in S : j < i}

LEMMA BeforeIsLess ==
    ASSUME NEW n \in Nat, NEW S, S \subseteq 1..n, NEW i \in S
    PROVE  /\ IsFiniteSet(S) /\ Cardinality(S) \in Nat
           /\ IsFiniteSet(Before(S, i)) /\ Before(S, i) \in SUBSET S
           /\ Cardinality(Before(S, i)) \in 0..(Cardinality(S) - 1)
<1>1. IsFiniteSet(S) /\ Cardinality(S) \in Nat
  <2>1. IsFiniteSet(1..n)
    BY FS_Interval
  <2>. QED
    BY <2>1, FS_Subset, FS_CardinalityType
<1>2. Before(S, i) \in SUBSET S /\ i \notin Before(S, i)
  BY DEF Before
<1>3. IsFiniteSet(Before(S, i)) /\ Cardinality(Before(S, i)) \in Nat
  BY <1>1, <1>2, FS_Subset, FS_CardinalityType
<1>4. Cardinality(Before(S, i)) <= Cardinality(S) /\ Cardinality(Before(S, i)) # Cardinality(S)
  BY <1>1, <1>2, FS_Subset
<1>. QED
  BY <1>1, <1>2, <1>3, <1>4

LEMMA PlacesDiffer ==
    ASSUME NEW n \in Nat, NEW S, S \subseteq 1..n, NEW i \in S, NEW j \in S, i < j
    PROVE  Cardinality(Before(S, i)) # Cardinality(Before(S, j))
<1>1. \A k \in S : k \in Nat
  OBVIOUS
<1>2. Before(S, i) \in SUBSET Before(S, j) /\ i \in Before(S, j) /\ i \notin Before(S, i)
  <2>1. \A k \in S : (k < i => k < j) /\ ~(i < i)
    BY <1>1
  <2>. QED
    BY <2>1 DEF Before
<1>. QED
  BY <1>2, BeforeIsLess, FS_Subset

\* Every place is taken.
LEMMA PlaceTaken ==
    ASSUME NEW n \in Nat, NEW S, S \subseteq 1..n, NEW k \in 1..Cardinality(S)
    PROVE  \E i \in S : Cardinality(Before(S, i)) = k - 1
<1>1. PICK c \in Nat : IsFiniteSet(S) /\ c = Cardinality(S)
  <2>1. IsFiniteSet(1..n)
    BY FS_Interval
  <2>. QED
    BY <2>1, FS_Subset, FS_CardinalityType
<1> DEFINE place == [i \in S |-> Cardinality(Before(S, i))]
<1>2. place \in Injection(S, 0..(c - 1))
  <2>1. place \in [S -> 0..(c - 1)]
    BY <1>1, BeforeIsLess
  <2>2. ASSUME NEW i \in S, NEW j \in S, place[i] = place[j] PROVE i = j
    <3>1. i \in Nat /\ j \in Nat /\ Cardinality(Before(S, i)) = Cardinality(Before(S, j))
      BY <2>2
    <3>2. ~(i < j) /\ ~(j < i)
      BY <3>1, PlacesDiffer
    <3>. QED
      BY <3>1, <3>2
  <2>. QED
    BY <2>1, <2>2, Fun_IsInj
<1>3. IsFiniteSet(0..(c - 1)) /\ Cardinality(0..(c - 1)) = c
  BY FS_Interval
<1>4. place \in Surjection(S, 0..(c - 1))
  <2>. HIDE DEF place
  <2>1. Cardinality(S) = Cardinality(0..(c - 1))
    BY <1>1, <1>3
  <2>. QED
    BY <1>2, <1>3, <2>1, FS_Injection, Zenon
<1>5. k - 1 \in 0..(c - 1)
  BY <1>1
<1>6. PICK i \in S : place[i] = k - 1
  BY <1>4, <1>5 DEF Surjection
<1>. QED
  BY <1>6

LEMMA CountIsNat == Count \in Nat
BY ReplayAssumption DEF ReplayAssumption

\* The events are those of ids that are found.
LEMMA FoundIds ==
    ASSUME wanted \in [Ids -> Originals \cup {None}]
    PROVE  /\ Len(Found) \in Nat /\ DOMAIN Found = All /\ All \subseteq Nat
           /\ \A k \in All : Found[k] \in Ids /\ Original(k) \in Originals
<1> DEFINE ids == {i \in Ids : wanted[i] # None}
<1>1. PICK c \in Nat : c = Cardinality(ids)
  <2>1. IsFiniteSet(1..Count)
    BY CountIsNat, FS_Interval
  <2>2. ids \in SUBSET (1..Count)
    BY DEF Ids
  <2>. QED
    BY <2>1, <2>2, FS_Subset, FS_CardinalityType
<1>2. ASSUME NEW k \in 1..c PROVE \E i \in ids : Cardinality({j \in ids : j < i}) = k - 1
  <2>1. ids \subseteq 1..Count
    BY DEF Ids
  <2>. HIDE DEF ids
  <2>2. \E i \in ids : Cardinality(Before(ids, i)) = k - 1
    BY <1>1, <2>1, PlaceTaken, CountIsNat
  <2>. QED
    BY <2>2 DEF Before
<1>3. Found = [k \in 1..c |-> CHOOSE i \in ids : Cardinality({j \in ids : j < i}) = k - 1]
  BY <1>1 DEF Found
<1>. HIDE DEF ids
<1>4. \A k \in 1..c : Found[k] \in ids
  BY <1>2, <1>3
<1>5. Found \in Seq(ids) /\ Len(Found) = c
  <2>1. Found \in [1..c -> ids]
    BY <1>3, <1>4
  <2>. QED
    BY <2>1, <1>1
<1>6. DOMAIN Found = 1..c
  BY <1>3
<1>. QED
  BY <1>1, <1>4, <1>5, <1>6 DEF All, Original, ids

----------------------------------------------------------------------------
(* The inductive invariant. *)

\* The pool: a thread that calls does so for an event of its own, whose replay
\* has no outcome yet; no event beyond the executor's queue has one.
Calls(t, i) == tpc[t] = "calling" /\ work[t] = i

PoolTypes ==
    /\ wanted \in [Ids -> Originals \cup {None}]
    /\ next \in 1..(Len(Found) + 1)
    /\ tpc \in [Threads -> {"idle", "calling"}] /\ work \in [Threads -> All \cup {0}]
    /\ sent = [i \in All |-> sent[i]]
    /\ future \in [All -> Responses \cup {None, Raised}]

CallsAreApart ==
    \A t \in Threads : tpc[t] = "calling" =>
      work[t] \in All /\ \A u \in Threads : Calls(u, work[t]) => u = t

CallsArePending ==
    \A t \in Threads, i \in All : Calls(t, i) =>
      i < next /\ Resolves(i) /\ future[i] = None /\ sent[i] = Request(i)

OutcomesOfCalls ==
    \A i \in All : future[i] # None =>
      /\ i < next
      /\ future[i] # Raised => Resolves(i) /\ sent[i] = Request(i)

PoolInv == PoolTypes /\ CallsAreApart /\ CallsArePending /\ OutcomesOfCalls

\* What the calls may leave, and what the call of an event that has its outcome
\* left or owes.
Replayed == {i \in All : Resolves(i)}
Emissions ==
    {FromError(-i, Request(i)) : i \in Replayed}
      \cup UNION {{FromResponse(-i, Request(i), r) :
                      r \in {x \in Responses : Builds(Request(i), x.usage)}} : i \in Replayed}

IsEventOf(e, i) ==
    /\ e.id = -i /\ Resolves(i) /\ future[i] # None
    /\ e = IF future[i] = Raised THEN FromError(-i, Request(i))
           ELSE FromResponse(-i, Request(i), future[i])

OwesEvent(i) ==
    /\ Resolves(i) /\ future[i] # None
    /\ future[i] = Raised \/ (sampled /\ Builds(Request(i), future[i].usage))

EventsInv ==
    /\ emitted \in Seq(Emissions)
    /\ \A k \in DOMAIN emitted : \E i \in All : IsEventOf(emitted[k], i)
    /\ \A k, l \in DOMAIN emitted : emitted[k].id = emitted[l].id => k = l
    /\ \A i \in All : OwesEvent(i) => \E k \in DOMAIN emitted : emitted[k].id = -i

\* The results are those of the first events, as their futures say.
Outcome(i) == IF future[i] = Raised THEN Failure(i) ELSE Compare(i, future[i])

Outcomes ==
    {Failure(i) : i \in All} \cup UNION {{Compare(i, r) : r \in Responses} : i \in All}

ResultsInv ==
    /\ results \in Seq(Outcomes) /\ Len(results) <= Len(Found)
    /\ \A i \in DOMAIN results : future[i] # None /\ results[i] = Outcome(i)

IInv == PoolInv /\ EventsInv /\ ResultsInv

----------------------------------------------------------------------------
(* Lemmas. *)

\* An event has the id of its call, and says whether it is an error.
LEMMA EventIds ==
    /\ \A id, call, resp : /\ FromResponse(id, call, resp).id = id
                           /\ FromResponse(id, call, resp).error \in {FALSE}
    /\ \A id, call : FromError(id, call).id = id /\ FromError(id, call).error \in {TRUE}
    /\ \A id, call, chunks : FromStream(id, call, chunks).id = id
BY DEF FromResponse, FromError, FromStream, Event

LEMMA SourceIds ==
    ASSUME wanted \in [Ids -> Originals \cup {None}], NEW i \in All
    PROVE  Source(i).id = Found[i]
<1>1. Original(i).as \in {"response", "stream", "error"}
  BY FoundIds, ReplayAssumption DEF ReplayAssumption
<1>. QED
  BY <1>1, EventIds DEF Source, Stored

\* None, an exception and a response are three different things.
LEMMA ThreeOutcomes ==
    /\ None # Raised /\ None \notin Responses /\ Raised \notin Responses
    /\ \A o \in Originals : o.resp \in Responses
    /\ Others \subseteq Responses
BY ReplayAssumption DEF ReplayAssumption, Responses

\* What depends on the setup only stays as it is.
LEMMA SetupStays ==
    ASSUME UNCHANGED setup
    PROVE  /\ Found' = Found /\ All' = All
           /\ \A i : /\ Original(i)' = Original(i) /\ Source(i)' = Source(i)
                     /\ Request(i)' = Request(i) /\ (Resolves(i)' <=> Resolves(i))
                     /\ Failure(i)' = Failure(i)
                     /\ \A r : Compare(i, r)' = Compare(i, r)
           /\ Emissions' = Emissions /\ Outcomes' = Outcomes
<1>1. wanted' = wanted /\ overrides' = overrides /\ mode' = mode
  BY DEF setup
<1>2. Found' = Found
  BY <1>1 DEF Found
<1>3. All' = All
  BY <1>2 DEF All
<1>4. ASSUME NEW i PROVE Original(i)' = Original(i) /\ Source(i)' = Source(i)
  BY <1>1, <1>2 DEF Original, Source
<1>5. ASSUME NEW i PROVE Request(i)' = Request(i) /\ (Resolves(i)' <=> Resolves(i))
  BY <1>1, <1>4 DEF Request, Resolves
<1>6. ASSUME NEW i
      PROVE  Failure(i)' = Failure(i) /\ \A r : Compare(i, r)' = Compare(i, r)
  BY <1>4 DEF Failure, Compare
<1>7. Emissions' = Emissions
  BY <1>3, <1>5 DEF Emissions, Replayed
<1>8. Outcomes' = Outcomes
  BY <1>3, <1>6 DEF Outcomes
<1>. QED
  BY <1>2, <1>3, <1>4, <1>5, <1>6, <1>7, <1>8

\* What a step may do to an event of the batch: its messages do not resolve, or
\* its call ends.
Fails(i) ==
    /\ i \in All /\ future[i] = None /\ ~Resolves(i)
    /\ future' = [future EXCEPT ![i] = Raised] /\ emitted' = emitted

Ends(i, o) ==
    /\ i \in All /\ future[i] = None /\ Resolves(i) /\ sent[i] = Request(i)
    /\ o \in Responses \cup {Raised} /\ future' = [future EXCEPT ![i] = o]
    /\ emitted' = IF o = Raised THEN Append(emitted, FromError(-i, Request(i)))
                  ELSE IF sampled /\ Builds(Request(i), o.usage)
                       THEN Append(emitted, FromResponse(-i, Request(i), o))
                       ELSE emitted

Quiet == future' = future /\ emitted' = emitted

LEMMA ThreeKindsOfStep ==
    ASSUME PoolInv, [Next]_vars
    PROVE  /\ UNCHANGED setup
           /\ Quiet \/ (\E i : Fails(i)) \/ \E i, o : Ends(i, o)
<1>1. ASSUME NEW t \in Threads, Run(t)
      PROVE  UNCHANGED setup /\ (Quiet \/ \E i : Fails(i))
  <2>1. next \in All /\ (future[next] # None => next < next) /\ next \in Nat
    BY <1>1, FoundIds DEF Run, PoolInv, PoolTypes, OutcomesOfCalls
  <2>2. future[next] = None
    BY <2>1
  <2>3. CASE Resolves(next)
    BY <1>1, <2>3 DEF Run, Quiet
  <2>4. CASE ~Resolves(next)
    BY <1>1, <2>1, <2>2, <2>4 DEF Run, Fails
  <2>. QED
    BY <1>1, <2>3, <2>4 DEF Run
<1>2. ASSUME NEW t \in Threads, Answer(t) PROVE UNCHANGED setup /\ \E i, o : Ends(i, o)
  <2> DEFINE i == work[t]
  <2>1. /\ i \in All /\ Resolves(i) /\ future[i] = None /\ sent[i] = Request(i)
    BY <1>2 DEF Answer, PoolInv, CallsAreApart, CallsArePending, Calls
  <2>2. PICK o \in {Original(i).resp} \cup Others :
          /\ Finish(t, o)
          /\ emitted' = IF sampled /\ Builds(sent[i], o.usage)
                        THEN Append(emitted, FromResponse(-i, sent[i], o)) ELSE emitted
    BY <1>2 DEF Answer
  <2>3. o \in Responses /\ o # Raised
    BY <2>1, <2>2, FoundIds, ThreeOutcomes DEF PoolInv, PoolTypes
  <2>4. Ends(i, o)
    BY <2>1, <2>2, <2>3 DEF Ends, Finish
  <2>. QED
    BY <2>2, <2>4 DEF Finish
<1>3. ASSUME NEW t \in Threads, Raise(t) PROVE UNCHANGED setup /\ \E i, o : Ends(i, o)
  <2>1. Ends(work[t], Raised)
    BY <1>3 DEF Raise, Finish, Ends, PoolInv, CallsAreApart, CallsArePending, Calls
  <2>. QED
    BY <1>3, <2>1 DEF Raise, Finish
<1>4. CASE Collect
  BY <1>4 DEF Collect, Quiet
<1>5. CASE UNCHANGED vars
  BY <1>5 DEF vars, Quiet
<1>. QED
  BY <1>1, <1>2, <1>3, <1>4, <1>5 DEF Next

----------------------------------------------------------------------------
(* The invariant is inductive. *)

LEMMA InitInv == Init => IInv
<1>. SUFFICES ASSUME Init PROVE IInv
  OBVIOUS
<1>1. wanted \in [Ids -> Originals \cup {None}]
  BY DEF Init
<1>2. Len(Found) \in Nat
  BY <1>1, FoundIds
<1>3. PoolInv
  BY <1>1, <1>2
     DEF Init, PoolInv, PoolTypes, CallsAreApart, CallsArePending, OutcomesOfCalls, Calls
<1>4. EventsInv
  <2>1. emitted \in Seq(Emissions) /\ DOMAIN emitted = {}
    BY DEF Init
  <2>2. \A i \in All : future[i] = None
    BY DEF Init
  <2>. QED
    BY <2>1, <2>2 DEF EventsInv, OwesEvent
<1>5. ResultsInv
  <2>1. results \in Seq(Outcomes) /\ DOMAIN results = {} /\ Len(results) = 0
    BY DEF Init
  <2>. QED
    BY <1>2, <2>1 DEF ResultsInv
<1>. QED
  BY <1>3, <1>4, <1>5 DEF IInv

LEMMA PoolTypesStep == ASSUME PoolInv, [Next]_vars PROVE PoolTypes'
<1>1. UNCHANGED setup /\ wanted' = wanted /\ Found' = Found /\ All' = All
  BY ThreeKindsOfStep, SetupStays DEF setup
<1>2. Len(Found) \in Nat /\ All = 1..Len(Found)
  BY FoundIds DEF PoolInv, PoolTypes, All
<1>3. /\ next' = next \/ (next \in All /\ next' = next + 1)
      /\ sent' = sent \/ \E i, c : sent' = [sent EXCEPT ![i] = c]
      /\ tpc' = tpc \/ \E t \in Threads, p \in {"idle", "calling"} : tpc' = [tpc EXCEPT ![t] = p]
      /\ work' = work \/ \E t, i : i \in All \cup {0} /\ work' = [work EXCEPT ![t] = i]
  <2>1. ASSUME NEW t \in Threads, Run(t) PROVE <1>3!:
    BY <2>1 DEF Run
  <2>2. ASSUME NEW t \in Threads, NEW o, Finish(t, o) PROVE <1>3!:
    BY <2>2 DEF Finish
  <2>3. CASE UNCHANGED <<next, sent, tpc, work>>
    BY <2>3
  <2>. QED
    BY <2>1, <2>2, <2>3 DEF Next, Answer, Raise, Collect, vars
<1>4. next' \in 1..(Len(Found) + 1)
  BY <1>2, <1>3 DEF PoolInv, PoolTypes
<1>5. sent' = [i \in All |-> sent'[i]]
  BY <1>3 DEF PoolInv, PoolTypes
<1>6. tpc' \in [Threads -> {"idle", "calling"}]
  BY <1>3 DEF PoolInv, PoolTypes
<1>7. work' \in [Threads -> All \cup {0}]
  BY <1>3 DEF PoolInv, PoolTypes
<1>8. future' \in [All -> Responses \cup {None, Raised}]
  BY ThreeKindsOfStep DEF PoolInv, PoolTypes, Quiet, Fails, Ends
<1>. QED
  BY <1>1, <1>4, <1>5, <1>6, <1>7, <1>8 DEF PoolInv, PoolTypes

\* A thread that takes an event is the only one that has it, because it was
\* beyond the queue's head.
LEMMA RunKeepsApart ==
    ASSUME PoolInv, NEW t \in Threads, Run(t)
    PROVE  CallsAreApart' /\ CallsArePending' /\ OutcomesOfCalls'
<1>1. /\ All' = All /\ \A i : Request(i)' = Request(i) /\ (Resolves(i)' <=> Resolves(i))
  BY SetupStays DEF Run
<1>2. /\ tpc[t] = "idle" /\ next \in All /\ next \in Nat /\ next' = next + 1 /\ All \subseteq Nat
      /\ \A i \in All : i < next => i # next /\ i < next'
      /\ next < next'
  <2>1. tpc[t] = "idle" /\ next \in All /\ next' = next + 1 /\ All \subseteq Nat
    BY FoundIds DEF Run, PoolInv, PoolTypes
  <2>. QED
    BY <2>1
<1>3. future[next] = None
  BY <1>2 DEF PoolInv, OutcomesOfCalls
<1>4. \A u \in Threads : ~Calls(u, next)
  BY <1>2 DEF PoolInv, CallsArePending
<1>5. CASE Resolves(next)
  <2>1. /\ sent' = [sent EXCEPT ![next] = Request(next)]
        /\ tpc' = [tpc EXCEPT ![t] = "calling"] /\ work' = [work EXCEPT ![t] = next]
        /\ future' = future
    BY <1>5 DEF Run
  <2>2. /\ sent'[next] = Request(next) /\ \A i \in All : i # next => sent'[i] = sent[i]
        /\ tpc'[t] = "calling" /\ work'[t] = next
        /\ \A u \in Threads : u # t => tpc'[u] = tpc[u] /\ work'[u] = work[u]
    BY <1>2, <2>1 DEF PoolInv, PoolTypes
  <2>3. \A u \in Threads, i \in All :
          tpc'[u] = "calling" /\ work'[u] = i <=> (u = t /\ i = next) \/ (u # t /\ Calls(u, i))
    BY <2>2 DEF Calls
  <2>4. CallsAreApart'
    <3>1. \A u \in Threads : tpc'[u] = "calling" => work'[u] \in All
      BY <1>2, <2>2 DEF PoolInv, CallsAreApart
    <3>2. \A i \in All, u, v \in Threads :
            tpc'[u] = "calling" /\ work'[u] = i /\ tpc'[v] = "calling" /\ work'[v] = i => u = v
      BY <1>4, <2>3 DEF PoolInv, CallsAreApart, Calls
    <3>. QED
      BY <1>1, <3>1, <3>2 DEF CallsAreApart, Calls
  <2>5. CallsArePending'
    <3>1. ASSUME NEW u \in Threads, NEW i \in All, tpc'[u] = "calling", work'[u] = i
          PROVE  i < next' /\ Resolves(i) /\ future[i] = None /\ sent'[i] = Request(i)
      <4>1. CASE u = t /\ i = next
        BY <1>2, <1>3, <1>5, <2>2, <4>1
      <4>2. CASE u # t /\ Calls(u, i)
        BY <1>2, <2>2, <4>2 DEF PoolInv, CallsArePending
      <4>. QED
        BY <2>3, <3>1, <4>1, <4>2
    <3>. QED
      BY <1>1, <2>1, <3>1 DEF CallsArePending, Calls
  <2>6. OutcomesOfCalls'
    BY <1>1, <1>2, <1>3, <2>1, <2>2 DEF PoolInv, OutcomesOfCalls
  <2>. QED
    BY <2>4, <2>5, <2>6
<1>6. CASE ~Resolves(next)
  <2>1. future' = [future EXCEPT ![next] = Raised] /\ UNCHANGED <<sent, tpc, work>>
    BY <1>6 DEF Run
  <2>2. future'[next] = Raised /\ \A i \in All : i # next => future'[i] = future[i]
    BY <1>2, <2>1 DEF PoolInv, PoolTypes
  <2>3. CallsAreApart'
    BY <1>1, <2>1 DEF PoolInv, CallsAreApart, Calls
  <2>4. CallsArePending'
    BY <1>1, <1>2, <1>4, <2>1, <2>2 DEF PoolInv, CallsArePending, Calls
  <2>5. OutcomesOfCalls'
    BY <1>1, <1>2, <2>1, <2>2 DEF PoolInv, OutcomesOfCalls
  <2>. QED
    BY <2>3, <2>4, <2>5
<1>. QED
  BY <1>5, <1>6

\* A call that ends leaves the calls of the other threads alone.
LEMMA FinishKeepsApart ==
    ASSUME PoolInv, NEW t \in Threads, tpc[t] = "calling", NEW o, Finish(t, o)
    PROVE  CallsAreApart' /\ CallsArePending' /\ OutcomesOfCalls'
<1>1. /\ All' = All /\ \A i : Request(i)' = Request(i) /\ (Resolves(i)' <=> Resolves(i))
  BY SetupStays DEF Finish
<1>2. PICK i : i = work[t] /\ i \in All /\ Calls(t, i)
  BY DEF PoolInv, CallsAreApart, Calls
<1>3. /\ future' = [future EXCEPT ![i] = o] /\ tpc' = [tpc EXCEPT ![t] = "idle"]
      /\ work' = [work EXCEPT ![t] = 0] /\ next' = next /\ sent' = sent
  BY <1>2 DEF Finish
<1>4. \A u \in Threads : tpc'[u] = "calling" =>
        u # t /\ tpc[u] = "calling" /\ work'[u] = work[u]
  BY <1>3 DEF PoolInv, PoolTypes
<1>5. \A j \in All : j # i => future'[j] = future[j]
  BY <1>2, <1>3 DEF PoolInv, PoolTypes
<1>6. i < next /\ Resolves(i) /\ sent[i] = Request(i)
  BY <1>2 DEF PoolInv, CallsArePending
<1>7. CallsAreApart'
  BY <1>1, <1>4 DEF PoolInv, CallsAreApart, Calls
<1>8. CallsArePending'
  <2>1. ASSUME NEW u \in Threads, NEW j \in All, tpc'[u] = "calling", work'[u] = j
        PROVE  Calls(u, j) /\ j # i
    BY <1>2, <1>4, <2>1 DEF PoolInv, CallsAreApart, Calls
  <2>. QED
    BY <1>1, <1>3, <1>5, <2>1 DEF PoolInv, CallsArePending, Calls
<1>9. OutcomesOfCalls'
  BY <1>1, <1>3, <1>5, <1>6 DEF PoolInv, OutcomesOfCalls
<1>. QED
  BY <1>7, <1>8, <1>9

LEMMA PoolStep == ASSUME PoolInv, [Next]_vars PROVE PoolInv'
<1>1. ASSUME NEW t \in Threads, Answer(t)
      PROVE  CallsAreApart' /\ CallsArePending' /\ OutcomesOfCalls'
  <2>1. tpc[t] = "calling" /\ \E o : Finish(t, o)
    BY <1>1 DEF Answer
  <2>. QED
    BY <2>1, FinishKeepsApart
<1>2. ASSUME NEW t \in Threads, Raise(t)
      PROVE  CallsAreApart' /\ CallsArePending' /\ OutcomesOfCalls'
  BY <1>2, FinishKeepsApart DEF Raise
<1>3. ASSUME UNCHANGED <<setup, next, tpc, work, sent, future>>
      PROVE  CallsAreApart' /\ CallsArePending' /\ OutcomesOfCalls'
  <2>1. /\ All' = All /\ \A i : Request(i)' = Request(i) /\ (Resolves(i)' <=> Resolves(i))
    BY <1>3, SetupStays
  <2>2. CallsAreApart'
    BY <1>3, <2>1 DEF PoolInv, CallsAreApart, Calls
  <2>3. CallsArePending'
    BY <1>3, <2>1 DEF PoolInv, CallsArePending, Calls
  <2>4. OutcomesOfCalls'
    BY <1>3, <2>1 DEF PoolInv, OutcomesOfCalls
  <2>. QED
    BY <2>2, <2>3, <2>4
<1>4. CallsAreApart' /\ CallsArePending' /\ OutcomesOfCalls'
  BY <1>1, <1>2, <1>3, RunKeepsApart DEF Next, Collect, vars
<1>. QED
  BY <1>4, PoolTypesStep DEF PoolInv

\* The events of other calls stay what they are when one event gets its outcome.
LEMMA OthersKeepTheirEvents ==
    ASSUME PoolInv, UNCHANGED setup, NEW i \in All, future[i] = None, NEW o,
           future' = [future EXCEPT ![i] = o]
    PROVE  /\ future'[i] = o
           /\ \A e, j : j \in All /\ IsEventOf(e, j) => j # i /\ IsEventOf(e, j)'
           /\ \A j \in All : j # i => (OwesEvent(j)' <=> OwesEvent(j))
<1>1. /\ \A j : Request(j)' = Request(j) /\ (Resolves(j)' <=> Resolves(j))
      /\ sampled' = sampled
  BY SetupStays DEF setup
<1>2. future'[i] = o /\ \A j \in All : j # i => future'[j] = future[j]
  BY DEF PoolInv, PoolTypes
<1>3. ASSUME NEW e, NEW j \in All, IsEventOf(e, j) PROVE j # i /\ IsEventOf(e, j)'
  BY <1>1, <1>2, <1>3 DEF IsEventOf
<1>4. ASSUME NEW j \in All, j # i PROVE OwesEvent(j)' <=> OwesEvent(j)
  BY <1>1, <1>2, <1>4 DEF OwesEvent
<1>. QED
  BY <1>2, <1>3, <1>4

LEMMA EventsStep == ASSUME PoolInv, EventsInv, [Next]_vars PROVE EventsInv'
<1>1. /\ UNCHANGED setup /\ sampled' = sampled /\ All' = All /\ Emissions' = Emissions
      /\ \A j : Request(j)' = Request(j) /\ (Resolves(j)' <=> Resolves(j))
  BY ThreeKindsOfStep, SetupStays DEF setup
<1>2. CASE Quiet
  <2>1. \A j : (OwesEvent(j)' <=> OwesEvent(j)) /\ \A e : IsEventOf(e, j) => IsEventOf(e, j)'
    BY <1>1, <1>2 DEF Quiet, OwesEvent, IsEventOf
  <2>. QED
    BY <1>1, <1>2, <2>1 DEF EventsInv, Quiet
<1>3. ASSUME NEW i, Fails(i) PROVE EventsInv'
  <2>1. /\ \A e, j : j \in All /\ IsEventOf(e, j) => IsEventOf(e, j)'
        /\ \A j \in All : j # i => (OwesEvent(j)' <=> OwesEvent(j))
        /\ emitted' = emitted
    BY <1>1, <1>3, OthersKeepTheirEvents DEF Fails
  <2>2. ~OwesEvent(i)'
    BY <1>1, <1>3 DEF Fails, OwesEvent
  <2>. QED
    BY <1>1, <2>1, <2>2 DEF EventsInv
<1>4. ASSUME NEW i, NEW o, Ends(i, o) PROVE EventsInv'
  <2>1. /\ i \in All /\ i \in Nat /\ o \in Responses \cup {Raised} /\ o # None
        /\ Resolves(i) /\ future'[i] = o
        /\ \A e, j : j \in All /\ IsEventOf(e, j) => j # i /\ IsEventOf(e, j)'
        /\ \A j \in All : j # i => (OwesEvent(j)' <=> OwesEvent(j))
    BY <1>1, <1>4, OthersKeepTheirEvents, ThreeOutcomes, FoundIds DEF Ends, PoolInv, PoolTypes
  <2>2. \A k \in DOMAIN emitted : emitted[k].id # -i
    <3>1. TAKE k \in DOMAIN emitted
    <3>2. PICK j \in All : IsEventOf(emitted[k], j) /\ j # i
      BY <2>1 DEF EventsInv
    <3>3. emitted[k].id = -j /\ j \in Nat
      BY <3>2, FoundIds DEF IsEventOf, PoolInv, PoolTypes
    <3>. QED
      BY <2>1, <3>2, <3>3
  <2>3. ASSUME NEW e \in Emissions, emitted' = Append(emitted, e), IsEventOf(e, i)', e.id = -i
        PROVE  EventsInv'
    <3>1. /\ emitted' \in Seq(Emissions) /\ Len(emitted) \in Nat
          /\ Len(emitted') = Len(emitted) + 1
          /\ emitted'[Len(emitted) + 1] = e
          /\ \A k \in 1..Len(emitted) : emitted'[k] = emitted[k]
      BY <2>3, AppendProperties, LenProperties DEF EventsInv
    <3>2. /\ DOMAIN emitted = 1..Len(emitted) /\ DOMAIN emitted' = 1..Len(emitted')
          /\ \A k \in DOMAIN emitted' : k \in DOMAIN emitted \/ k = Len(emitted) + 1
          /\ Len(emitted) + 1 \in DOMAIN emitted'
      BY <3>1, LenProperties DEF EventsInv
    <3>3. \A k \in DOMAIN emitted' : \E j \in All : \E d : d = emitted'[k] /\ IsEventOf(d, j)'
      <4>1. TAKE k \in DOMAIN emitted'
      <4>2. CASE k \in DOMAIN emitted
        <5>1. PICK j \in All : \E d : d = emitted[k] /\ IsEventOf(d, j)
          BY <4>2 DEF EventsInv
        <5>. QED
          BY <2>1, <3>1, <3>2, <4>2, <5>1
      <4>3. CASE k = Len(emitted) + 1
        BY <2>1, <2>3, <3>1, <4>3
      <4>. QED
        BY <3>2, <4>2, <4>3
    <3>4. \A k, l \in DOMAIN emitted' : emitted'[k].id = emitted'[l].id => k = l
      BY <2>2, <2>3, <3>1, <3>2 DEF EventsInv
    <3>5. \A j \in All : OwesEvent(j)' => \E k \in DOMAIN emitted' : emitted'[k].id = -j
      <4>1. TAKE j \in All
      <4>2. CASE j = i
        BY <2>3, <3>1, <3>2, <4>2
      <4>3. CASE j # i
        BY <2>1, <3>1, <3>2, <4>3 DEF EventsInv
      <4>. QED
        BY <4>2, <4>3
    <3>6. (\A k \in DOMAIN emitted : \E j \in All : IsEventOf(emitted[k], j))'
      BY <1>1, <3>3 DEF IsEventOf
    <3>. QED
      BY <1>1, <3>1, <3>4, <3>5, <3>6 DEF EventsInv
  <2>4. CASE o = Raised
    <3>1. PICK e \in Emissions : e = FromError(-i, Request(i)) /\ e.id = -i
      BY <2>1, <2>4, EventIds DEF Emissions, Replayed
    <3>2. emitted' = Append(emitted, e)
      BY <1>4, <2>4, <3>1 DEF Ends
    <3>3. IsEventOf(e, i)'
      BY <1>1, <2>1, <2>4, <3>1 DEF IsEventOf
    <3>. QED
      BY <2>3, <3>1, <3>2, <3>3
  <2>5. CASE o # Raised /\ sampled /\ Builds(Request(i), o.usage)
    <3>1. PICK e \in Emissions : e = FromResponse(-i, Request(i), o) /\ e.id = -i
      BY <2>1, <2>5, EventIds DEF Emissions, Replayed
    <3>2. emitted' = Append(emitted, e)
      BY <1>4, <2>5, <3>1 DEF Ends
    <3>3. IsEventOf(e, i)'
      BY <1>1, <2>1, <2>5, <3>1 DEF IsEventOf
    <3>. QED
      BY <2>3, <3>1, <3>2, <3>3
  <2>6. CASE o # Raised /\ ~(sampled /\ Builds(Request(i), o.usage))
    <3>1. emitted' = emitted
      BY <1>4, <2>6 DEF Ends
    <3>2. ~OwesEvent(i)'
      BY <1>1, <2>1, <2>6 DEF OwesEvent
    <3>. QED
      BY <1>1, <2>1, <3>1, <3>2 DEF EventsInv
  <2>. QED
    BY <2>4, <2>5, <2>6
<1>. QED
  BY <1>2, <1>3, <1>4, ThreeKindsOfStep

LEMMA ResultsStep == ASSUME PoolInv, ResultsInv, [Next]_vars PROVE ResultsInv'
<1>1. /\ UNCHANGED setup /\ Found' = Found /\ All' = All /\ Outcomes' = Outcomes
      /\ \A i : Failure(i)' = Failure(i) /\ \A r : Compare(i, r)' = Compare(i, r)
  BY ThreeKindsOfStep, SetupStays
<1>2. Len(Found) \in Nat /\ All = 1..Len(Found)
  BY FoundIds DEF PoolInv, PoolTypes, All
<1>3. Len(results) \in Nat /\ DOMAIN results = 1..Len(results) /\ DOMAIN results \subseteq All
  BY <1>2, LenProperties DEF ResultsInv
\* An outcome is never replaced by another one.
<1>4. \A i \in All : future[i] # None => future'[i] = future[i]
  BY ThreeKindsOfStep DEF Quiet, Fails, Ends, PoolInv, PoolTypes
<1>5. \A i \in All : future[i] # None => Outcome(i)' = Outcome(i)
  BY <1>1, <1>4 DEF Outcome
<1>6. CASE results' = results
  BY <1>1, <1>3, <1>4, <1>5, <1>6 DEF ResultsInv
<1>7. CASE Collect
  <2>1. PICK i, d : /\ i = Len(results) + 1 /\ i \in All /\ future[i] # None
                    /\ d = Outcome(i) /\ results' = Append(results, d)
    BY <1>7 DEF Collect, Outcome
  <2>2. d \in Outcomes
    <3>1. future[i] # Raised => future[i] \in Responses
      BY <2>1 DEF PoolInv, PoolTypes
    <3>. QED
      BY <2>1, <3>1 DEF Outcome, Outcomes
  <2>3. /\ results' \in Seq(Outcomes) /\ Len(results') = i /\ results'[i] = d
        /\ DOMAIN results' = 1..i /\ \A k \in 1..Len(results) : results'[k] = results[k]
    <3>1. /\ results' \in Seq(Outcomes) /\ Len(results') = i /\ results'[i] = d
          /\ \A k \in 1..Len(results) : results'[k] = results[k]
      BY <2>1, <2>2, AppendProperties DEF ResultsInv
    <3>. QED
      BY <3>1, LenProperties
  <2>4. i <= Len(Found)
    BY <1>2, <2>1
  <2>5. \A k \in DOMAIN results' : future'[k] # None /\ results'[k] = Outcome(k)'
    <3>1. TAKE k \in DOMAIN results'
    <3>2. k = i \/ k \in DOMAIN results
      BY <1>3, <2>1, <2>3
    <3>3. k \in All /\ future[k] # None /\ results'[k] = Outcome(k)
      BY <1>3, <2>1, <2>3, <3>2 DEF ResultsInv
    <3>. QED
      BY <1>4, <1>5, <3>3
  <2>. QED
    BY <1>1, <2>3, <2>4, <2>5 DEF ResultsInv
<1>. QED
  BY <1>6, <1>7 DEF Next, Run, Answer, Raise, Finish, vars

----------------------------------------------------------------------------
(* The theorems. *)

\* Every state satisfies the inductive invariant.
THEOREM InductiveInvariant == Spec => []IInv
<1>1. IInv /\ [Next]_vars => IInv'
  BY PoolStep, EventsStep, ResultsStep DEF IInv
<1>. QED
  BY <1>1, InitInv, PTL DEF Spec

\* The i-th result is of the i-th event that was found, and an error if and only
\* if its replay raised, in whatever order the calls end (ResultsInOrder).
THEOREM ResultsKeepTheirOrder == Spec => []ResultsInOrder
<1>1. ASSUME IInv PROVE ResultsInOrder
  <2>1. /\ Len(Found) \in Nat /\ All = 1..Len(Found) /\ DOMAIN Found = 1..Len(Found)
        /\ Len(results) \in Nat /\ DOMAIN results = 1..Len(results)
        /\ Len(results) <= Len(Found)
    BY <1>1, FoundIds, LenProperties DEF IInv, PoolInv, PoolTypes, ResultsInv, All
  <2>2. ASSUME NEW i \in DOMAIN results
        PROVE  results[i].original = Found[i] /\ (results[i].error <=> future[i] = Raised)
    <3>1. Source(i).id = Found[i] /\ results[i] = Outcome(i)
      BY <1>1, <2>1, SourceIds DEF IInv, PoolInv, PoolTypes, ResultsInv
    <3>. QED
      BY <3>1 DEF Outcome, Failure, Compare
  <2>3. Ended => (ExitCode = 0 <=> Found # <<>> /\ \A i \in All : future[i] # Raised)
    BY <2>1, <2>2 DEF Ended, ExitCode
  <2>. QED
    BY <2>2, <2>3 DEF ResultsInOrder
<1>. QED
  BY <1>1, InductiveInvariant, PTL

\* The events that carry the id of a replay are of that replay, and one at most.
LEMMA EventsOfReplay ==
    ASSUME IInv, NEW i \in All
    PROVE  /\ \A k \in DOMAIN emitted : emitted[k].id = -i => IsEventOf(emitted[k], i)
           /\ \A k, l \in DOMAIN emitted : emitted[k].id = -i /\ emitted[l].id = -i => k = l
<1>1. ASSUME NEW k \in DOMAIN emitted, emitted[k].id = -i PROVE IsEventOf(emitted[k], i)
  <2>1. PICK j \in All : IsEventOf(emitted[k], j)
    BY DEF IInv, EventsInv
  <2>2. emitted[k].id = -j /\ i \in Nat /\ j \in Nat
    BY <2>1, FoundIds DEF IsEventOf, IInv, PoolInv, PoolTypes
  <2>3. i = j
    BY <1>1, <2>2
  <2>. QED
    BY <2>1, <2>3
<1>2. \A k, l \in DOMAIN emitted : emitted[k].id = -i /\ emitted[l].id = -i => k = l
  BY DEF IInv, EventsInv
<1>. QED
  BY <1>1, <1>2

\* A replay leaves at most one event: an error event if its call raised, none if
\* its messages did not resolve, one of a success if it is sampled and can be
\* built (OneEventPerReplay).
THEOREM ReplaysEmitOnce == Spec => []OneEventPerReplay
<1>1. ASSUME IInv, NEW i \in All
      PROVE  LET events == {k \in DOMAIN emitted : emitted[k].id = -i}
             IN  /\ Cardinality(events) <= 1
                 /\ future[i] = Raised =>
                      {emitted[k].error : k \in events} = IF Resolves(i) THEN {TRUE} ELSE {}
                 /\ future[i] \notin {None, Raised} /\ sampled
                      /\ Builds(sent[i], future[i].usage) =>
                      {emitted[k].error : k \in events} = {FALSE}
  <2> DEFINE events == {k \in DOMAIN emitted : emitted[k].id = -i}
             errors == {emitted[k].error : k \in events}
  <2>1. \A k \in events : IsEventOf(emitted[k], i)
    BY <1>1, EventsOfReplay
  <2>2. \A k, l \in events : k = l
    BY <1>1, EventsOfReplay
  <2>3. OwesEvent(i) => events # {}
    BY <1>1 DEF IInv, EventsInv
  <2>4. \A k \in events : /\ future[i] = Raised => emitted[k].error \in {TRUE}
                          /\ future[i] # Raised => emitted[k].error \in {FALSE}
    <3>1. TAKE k \in events
    <3>2. CASE future[i] = Raised
      <4>1. emitted[k] = FromError(-i, Request(i))
        BY <2>1, <3>2 DEF IsEventOf
      <4>. QED
        BY <3>2, <4>1, EventIds, ZenonT(30)
    <3>3. CASE future[i] # Raised
      <4>1. emitted[k] = FromResponse(-i, Request(i), future[i])
        BY <2>1, <3>3 DEF IsEventOf
      <4>2. FromResponse(-i, Request(i), future[i]).error \in {FALSE}
        BY EventIds
      <4>. QED
        BY <3>3, <4>1, <4>2
    <3>. QED
      BY <3>2, <3>3
  <2>. HIDE DEF events
  <2>5. Cardinality(events) <= 1
    <3>1. events = {} \/ \E k : events = {k}
      BY <2>2
    <3>2. Cardinality(events) \in {0, 1}
      BY <3>1, FS_EmptySet, FS_Singleton
    <3>. QED
      BY <3>2
  <2>6. ASSUME future[i] = Raised PROVE errors = IF Resolves(i) THEN {TRUE} ELSE {}
    <3>1. CASE Resolves(i)
      <4>1. OwesEvent(i)
        BY <2>6, <3>1, ThreeOutcomes DEF OwesEvent
      <4>. QED
        BY <2>3, <2>4, <2>6, <3>1, <4>1
    <3>2. CASE ~Resolves(i)
      BY <2>1, <3>2 DEF IsEventOf
    <3>. QED
      BY <3>1, <3>2
  <2>7. ASSUME future[i] \notin {None, Raised}, sampled, Builds(sent[i], future[i].usage)
        PROVE  errors = {FALSE}
    <3>1. Resolves(i) /\ sent[i] = Request(i)
      BY <1>1, <2>7 DEF IInv, PoolInv, OutcomesOfCalls
    <3>2. OwesEvent(i)
      BY <2>7, <3>1 DEF OwesEvent
    <3>. QED
      BY <2>3, <2>4, <2>7, <3>2
  <2>. QED
    BY <2>5, <2>6, <2>7 DEF events
<1>2. IInv => OneEventPerReplay
  BY <1>1 DEF OneEventPerReplay
<1>. QED
  BY <1>2, InductiveInvariant, PTL

----------------------------------------------------------------------------
(* The event of a stream is that of its whole response. *)

\* A set of natural numbers that is not empty has a least one.
LEMMA LeastExists ==
    ASSUME NEW S, S \subseteq Nat, S # {}
    PROVE  \E n \in S : \A m \in S : n <= m
<1> DEFINE Less == {p \in Nat \X Nat : p[1] < p[2]}
<1>1. IsWellFoundedOn(Less, Nat)
  BY NatLessThanWellFounded DEF OpToRel
<1>2. \A x, y \in Nat : <<y, x>> \in Less <=> y < x
  OBVIOUS
<1>. HIDE DEF Less
<1>3. PICK n \in S : \A m \in S : ~(<<m, n>> \in Less)
  BY <1>1, WFMin
<1>4. n \in Nat /\ \A m \in S : m \in Nat /\ ~(m < n)
  BY <1>2, <1>3
<1>. QED
  BY <1>4

\* Two loops that begin the same and do not part in any round end the same.
LEMMA LoopsAgree ==
    ASSUME NEW n \in Nat, NEW f, NEW g, f[0] = g[0],
           \A k \in 1..n : f[k - 1] = g[k - 1] => f[k] = g[k]
    PROVE  f[n] = g[n]
<1> DEFINE Apart == {k \in 0..n : f[k] # g[k]}
<1>1. SUFFICES ASSUME Apart # {} PROVE FALSE
  OBVIOUS
<1>2. PICK k \in Apart : \A m \in Apart : k <= m
  <2>1. Apart \subseteq Nat
    OBVIOUS
  <2>. HIDE DEF Apart
  <2>. QED
    BY <1>1, <2>1, LeastExists
<1>3. k \in 0..n /\ f[k] # g[k] /\ k # 0
  BY <1>2
<1>4. k \in 1..n /\ k - 1 \in 0..n /\ ~(k <= k - 1)
  BY <1>3
<1>5. f[k - 1] = g[k - 1]
  BY <1>2, <1>4
<1>. QED
  BY <1>3, <1>4, <1>5

\* The parts of a sequence that was cut up are joined to it again.
LEMMA JoinedIsWhole ==
    ASSUME NEW S, NEW s \in Seq(S), NEW n \in Nat, NEW parts,
           DOMAIN parts = 1..n, Len(parts) = n, CutUp(s, parts)
    PROVE  Joined(parts) = s
<1>1. PICK e \in [0..n -> 0..Len(s)] :
        /\ e[0] = 0 /\ e[n] = Len(s)
        /\ \A k \in 1..n : e[k - 1] <= e[k] /\ parts[k] = SubSeq(s, e[k - 1] + 1, e[k])
  BY DEF CutUp
<1>2. Len(s) \in Nat
  BY LenProperties
<1> DEFINE Round(f) == [k \in 0..n |-> IF k = 0 THEN <<>> ELSE f[k - 1] \o parts[k]]
           sofar == CHOOSE f : f = Round(f)
           cut == [k \in 0..n |-> SubSeq(s, 1, e[k])]
<1>3. Joined(parts) = sofar[n]
  BY DEF Joined
<1>4. \A k \in 1..n : cut[k - 1] \o parts[k] = cut[k]
  <2>1. TAKE k \in 1..n
  <2>2. k - 1 \in 0..n /\ k \in 0..n
    OBVIOUS
  <2>3. e[k - 1] \in 0..Len(s) /\ e[k] \in 0..Len(s) /\ e[k - 1] <= e[k]
    BY <1>1, <2>2
  <2>4. SubSeq(s, 1, e[k - 1]) \o SubSeq(s, e[k - 1] + 1, e[k]) = SubSeq(s, 1, e[k])
    <3>1. 1 \in 1..(Len(s) + 1) /\ e[k - 1] \in (1 - 1)..Len(s) /\ e[k] \in e[k - 1]..Len(s)
      BY <1>2, <2>3
    <3>. QED
      BY <3>1, ConcatAdjacentSubSeq
  <2>. QED
    BY <1>1, <2>2, <2>4
<1>5. cut[0] = <<>>
  BY <1>1, SubSeqEmpty
<1>6. cut = Round(cut)
  <2>1. \A k \in 0..n : cut[k] = Round(cut)[k]
    <3>1. TAKE k \in 0..n
    <3>2. k # 0 => k \in 1..n
      OBVIOUS
    <3>. HIDE DEF cut
    <3>. QED
      BY <1>4, <1>5, <3>2
  <2>. QED
    BY <2>1
<1>7. sofar = Round(sofar)
  BY <1>6
<1>. HIDE DEF sofar, cut
<1>8. sofar[0] = cut[0] /\ \A k \in 1..n : sofar[k] = sofar[k - 1] \o parts[k]
  <2>1. \A k \in 0..n : sofar[k] = Round(sofar)[k]
    BY <1>7
  <2>2. 0 \in 0..n /\ \A k \in 1..n : k \in 0..n /\ k # 0
    OBVIOUS
  <2>. QED
    BY <1>5, <2>1, <2>2
<1>9. sofar[n] = cut[n]
  <2>1. \A k \in 1..n : sofar[k - 1] = cut[k - 1] => sofar[k] = cut[k]
    BY <1>4, <1>8
  <2>. QED
    BY <1>8, <2>1, LoopsAgree, Zenon
<1>10. cut[n] = s
  BY <1>1, SubSeqFull DEF cut
<1>. QED
  BY <1>3, <1>9, <1>10

\* The value the loop was told last is the last one told.
LEMMA LatestIsLast ==
    ASSUME NEW n \in Nat, NEW told, NEW nothing, DOMAIN told = 1..n, Len(told) = n
    PROVE  Latest(told, nothing) = LastTold(told, nothing, n)
<1> DEFINE Round(f) == [k \in 0..n |->
                          IF k = 0 THEN nothing
                          ELSE IF told[k] # nothing THEN told[k] ELSE f[k - 1]]
           last == CHOOSE f : f = Round(f)
           reached == [k \in 0..n |-> LastTold(told, nothing, k)]
           Places(k) == {l \in 1..k : told[l] # nothing}
<1>1. Latest(told, nothing) = last[n]
  BY DEF Latest
<1>2. \A k \in 1..n :
        reached[k] = IF told[k] # nothing THEN told[k] ELSE reached[k - 1]
  <2>1. TAKE k \in 1..n
  <2>2. k - 1 \in 0..n /\ k \in 0..n
    OBVIOUS
  <2>3. CASE told[k] # nothing
    <3>1. k \in Places(k) /\ \A l \in Places(k) : l \in Nat /\ l <= k
      BY <2>3
    <3>2. (CHOOSE l \in Places(k) : \A m \in Places(k) : m <= l) = k
      <4>. HIDE DEF Places
      <4>1. \A l \in Places(k) : (\A m \in Places(k) : m <= l) => l = k
        BY <3>1
      <4>. QED
        BY <3>1, <4>1
    <3>3. LastTold(told, nothing, k) = told[k]
      BY <3>1, <3>2 DEF LastTold
    <3>. QED
      BY <2>2, <2>3, <3>3
  <2>4. CASE told[k] = nothing
    <3>1. Places(k) = Places(k - 1)
      BY <2>4
    <3> DEFINE Value(T) == IF T = {} THEN nothing
                           ELSE told[CHOOSE l \in T : \A m \in T : m <= l]
    <3>2. /\ LastTold(told, nothing, k) = Value(Places(k))
          /\ LastTold(told, nothing, k - 1) = Value(Places(k - 1))
      BY DEF LastTold
    <3>. HIDE DEF Places, Value
    <3>. QED
      BY <2>2, <2>4, <3>1, <3>2
  <2>. QED
    BY <2>3, <2>4
<1>3. reached[0] = nothing
  <2>1. Places(0) = {}
    OBVIOUS
  <2>. QED
    BY <2>1 DEF LastTold
<1>4. reached = Round(reached)
  <2>1. \A k \in 0..n : reached[k] = Round(reached)[k]
    <3>1. TAKE k \in 0..n
    <3>2. k # 0 => k \in 1..n
      OBVIOUS
    <3>. HIDE DEF reached
    <3>. QED
      BY <1>2, <1>3, <3>2
  <2>. QED
    BY <2>1
<1>5. last = Round(last)
  BY <1>4
<1>. HIDE DEF last, reached
<1>6. /\ last[0] = reached[0]
      /\ \A k \in 1..n : last[k] = IF told[k] # nothing THEN told[k] ELSE last[k - 1]
  <2>1. \A k \in 0..n : last[k] = Round(last)[k]
    BY <1>5
  <2>2. 0 \in 0..n /\ \A k \in 1..n : k \in 0..n /\ k # 0
    OBVIOUS
  <2>. QED
    BY <1>3, <2>1, <2>2
<1>7. last[n] = reached[n]
  <2>1. \A k \in 1..n : last[k - 1] = reached[k - 1] => last[k] = reached[k]
    BY <1>2, <1>6
  <2>. QED
    BY <1>6, <2>1, LoopsAgree, Zenon
<1>. QED
  BY <1>1, <1>7 DEF reached

\* What a chunk tells is told once for each chunk.
LEMMA ToldByChunks ==
    ASSUME NEW chunks, chunks \in Seq(Range(chunks))
    PROVE  /\ Len(chunks) \in Nat
           /\ \A told \in {InputOf(chunks), OutputOf(chunks), PiecesOf(chunks),
                           ToolCallsOf(chunks), ReasonOf(chunks)} :
                DOMAIN told = 1..Len(chunks) /\ Len(told) = Len(chunks)
<1>1. Len(chunks) \in Nat /\ DOMAIN chunks = 1..Len(chunks)
  BY LenProperties
<1>2. ASSUME NEW told, DOMAIN told = 1..Len(chunks), told = [k \in DOMAIN told |-> told[k]]
      PROVE  Len(told) = Len(chunks)
  <2>1. told \in [1..Len(chunks) -> {told[k] : k \in 1..Len(chunks)}]
    BY <1>2
  <2>2. told \in Seq({told[k] : k \in 1..Len(chunks)})
    BY <1>1, <2>1, SeqDef
  <2>. QED
    BY <1>1, <1>2, <2>2, LenProperties
<1>. QED
  BY <1>1, <1>2 DEF InputOf, OutputOf, PiecesOf, ToolCallsOf, ReasonOf

\* A response and the chunks it is streamed in leave the same event, but for an
\* empty text and for tool calls that were sent in fragments.
LEMMA StreamsAddUp ==
    ASSUME NEW id, NEW o, Streams(o.chunks, o.resp, o.calls)
    PROVE  AsWhole(FromStream(id, o.call, o.chunks), FromResponse(id, o.call, o.resp), o)
<1> DEFINE call == o.call
           chunks == o.chunks
           resp == o.resp
           calls == o.calls
           content == IF Text(resp) = <<>> THEN None ELSE Text(resp)
           input == InputTokens(call, resp.usage)
           output == OutputTokens(resp.content, resp.usage)
           fragments == calls.fragments
           whole == FromResponse(id, call, resp)
           event == FromStream(id, call, chunks)
<1>1. Sequence(chunks) /\ Len(chunks) \in Nat
  BY ToldByChunks DEF Streams, Sequence
<1>2. Joined(PiecesOf(chunks)) = Text(resp)
  BY <1>1, ToldByChunks, JoinedIsWhole DEF Streams, Sequence
<1>3. Joined(ToolCallsOf(chunks)) = fragments
  BY <1>1, ToldByChunks, JoinedIsWhole DEF Streams, Sequence
<1>4. Joined(fragments) = Joined(resp.toolCalls)
  <2>1. \A s : Sequence(s) => Len(s) \in Nat /\ DOMAIN s = 1..Len(s)
    BY LenProperties DEF Sequence
  <2>2. Joined(fragments) = calls.pieces
    BY <2>1, JoinedIsWhole DEF Streams, Sequence
  <2>3. Joined(resp.toolCalls) = calls.pieces
    BY <2>1, JoinedIsWhole DEF Streams, Sequence
  <2>. QED
    BY <2>2, <2>3
<1>5. Latest(ReasonOf(chunks), None) = resp.finish
  BY <1>1, ToldByChunks, LatestIsLast DEF Streams, Sequence
<1>6. Usage(chunks).input = resp.usage.input
  BY <1>1, ToldByChunks, LatestIsLast DEF Streams, Sequence, Usage
<1>7. Usage(chunks).output = resp.usage.output
  BY <1>1, ToldByChunks, LatestIsLast DEF Streams, Sequence, Usage
<1>8. InputTokens(call, Usage(chunks)) = input
  BY <1>6 DEF InputTokens
<1>9. OutputTokens(content, Usage(chunks)) = output
  <2>1. CASE resp.content = <<>>
    <3>1. content = None /\ Len(resp.content) = 0
      BY <2>1 DEF Text
    <3>. QED
      BY <1>7, <3>1 DEF OutputTokens
  <2>2. CASE resp.content # <<>>
    <3>1. content = resp.content
      BY <2>2 DEF Text
    <3>. QED
      BY <1>7, <3>1 DEF OutputTokens
  <2>. QED
    BY <2>1, <2>2
<1>10. event = Event(id, call, content, fragments, input, output, resp.finish)
  BY <1>2, <1>3, <1>5, <1>8, <1>9 DEF FromStream
<1>11. whole = Event(id, call, resp.content, resp.toolCalls, input, output, resp.finish)
  BY DEF FromResponse
<1>. HIDE DEF event, whole, input, output, fragments, content, resp, call
<1>12. \A field \in DOMAIN whole \ {"response", "kind", "toolCalls"} : event[field] = whole[field]
  <2>1. /\ event.id = whole.id /\ event.model = whole.model /\ event.params = whole.params
        /\ event.tools = whole.tools /\ event.prompt = whole.prompt
        /\ event.total = whole.total /\ event.cost = whole.cost
        /\ event.finish = whole.finish /\ event.error = whole.error
    BY <1>10, <1>11 DEF Event
  <2>2. DOMAIN whole \ {"response", "kind", "toolCalls"} =
          {"id", "model", "params", "tools", "prompt", "total", "cost", "finish", "error"}
    BY <1>11 DEF Event
  <2>. QED
    BY <2>1, <2>2
<1>13. /\ event.toolCalls = fragments /\ whole.toolCalls = resp.toolCalls
       /\ event.response = Apply(call.mode, content)
       /\ whole.response = Apply(call.mode, resp.content)
       /\ event.kind = OutputType(content, fragments)
       /\ whole.kind = OutputType(resp.content, resp.toolCalls)
  BY <1>10, <1>11 DEF Event
<1>14. IF resp.content = <<>> THEN event.response = None
       ELSE event.response = whole.response /\ event.kind = whole.kind
  <2>1. CASE resp.content = <<>>
    <3>1. content = None
      BY <2>1 DEF Text, content, resp
    <3>. QED
      BY <1>13, <2>1, <3>1 DEF Apply
  <2>2. CASE resp.content # <<>>
    <3>1. content = resp.content
      BY <2>2 DEF Text, content, resp
    <3>2. fragments = <<>> <=> resp.toolCalls = <<>>
      BY DEF Streams, fragments, resp
    <3>3. OutputType(content, fragments) = OutputType(resp.content, resp.toolCalls)
      BY <3>1, <3>2 DEF OutputType
    <3>. QED
      BY <1>13, <2>2, <3>1, <3>3
  <2>. QED
    BY <2>1, <2>2
<1>. QED
  <2>1. Joined(event.toolCalls) = Joined(whole.toolCalls)
    BY <1>4, <1>13 DEF fragments, resp
  <2>2. o.calls.fragments = o.resp.toolCalls => event.toolCalls = whole.toolCalls
    BY <1>13 DEF fragments, resp
  <2>3. AsWhole(event, whole, o)
    BY <1>12, <1>14, <2>1, <2>2 DEF AsWhole, resp
  <2>. QED
    BY <2>3 DEF event, whole, call, resp

\* A stream that was read to its end leaves the event its whole response leaves,
\* however it was cut into chunks and its tool calls into fragments: the same
\* tokens, price, reason, prompt and parameters, the same text unless it is
\* empty, the same pieces of tool calls in their order, and the same tool calls
\* if none came in fragments (StreamAsWhole).
THEOREM StreamsLeaveTheirWhole == Spec => []StreamAsWhole
<1>1. ASSUME IInv, NEW i \in All, Original(i).as = "stream"
      PROVE  /\ Streams(Original(i).chunks, Original(i).resp, Original(i).calls)
             /\ Source(i) = FromStream(Found[i], Original(i).call, Original(i).chunks)
  <2>1. Original(i) \in Originals
    BY <1>1, FoundIds DEF IInv, PoolInv, PoolTypes
  <2>2. Streams(Original(i).chunks, Original(i).resp, Original(i).calls)
    BY <1>1, <2>1, ReplayAssumption DEF ReplayAssumption
  <2>. QED
    BY <1>1, <2>2 DEF Source, Stored
<1>2. IInv => StreamAsWhole
  <2>1. ASSUME IInv, NEW i \in All, Original(i).as = "stream"
        PROVE  AsWhole(Source(i), FromResponse(Found[i], Original(i).call, Original(i).resp),
                       Original(i))
    BY <1>1, <2>1, StreamsAddUp
  <2>. QED
    BY <2>1 DEF StreamAsWhole
<1>. QED
  BY <1>2, InductiveInvariant, PTL

\* Captured whole, messages that are not empty come back from the prompt.
LEMMA FullPrompt ==
    ASSUME NEW messages, messages = [k \in DOMAIN messages |-> messages[k]],
           Prompt("full", messages) # None
    PROVE  Prompt("full", messages) = messages
<1>1. messages # <<>>
  BY DEF Prompt
<1>2. \A k \in DOMAIN messages : Apply("full", messages[k]) = messages[k]
  BY DEF Apply
<1>3. Prompt("full", messages) = [k \in DOMAIN messages |-> messages[k]]
  BY <1>1, <1>2 DEF Prompt
<1>. QED
  BY <1>3

\* A call that was captured whole and is answered as before compares as identical,
\* with no difference in tokens, and its event costs and says the same, streamed
\* or not (SameCallSameResult).
THEOREM SameCallComparesAsSame == Spec => []SameCallSameResult
<1>1. ASSUME IInv, NEW i \in DOMAIN results, NEW o, o = Original(i),
             o.as # "error", o.call.mode = "full",
             overrides = [model |-> None, params |-> None, messages |-> None, tools |-> None],
             o.resp.usage.input # 0, o.resp.usage.output # 0,
             o.resp.usage.total = o.resp.usage.input + o.resp.usage.output,
             o.as = "stream" => o.resp.content # <<>>, future[i] = o.resp
      PROVE  /\ results[i].identical /\ results[i].delta = 0
             /\ \A k \in DOMAIN emitted : emitted[k].id = -i =>
                  /\ emitted[k].cost = Source(i).cost /\ emitted[k].finish = Source(i).finish
                  /\ emitted[k].params = Source(i).params \ {"stream"}
                  /\ mode = "full" => emitted[k].prompt = Source(i).prompt
  <2>1. i \in All /\ Found[i] \in Ids /\ o \in Originals
    <3>1. /\ Len(results) \in Nat /\ DOMAIN results = 1..Len(results)
          /\ Len(results) <= Len(Found) /\ Len(Found) \in Nat
      BY <1>1, LenProperties, FoundIds DEF IInv, PoolInv, PoolTypes, ResultsInv
    <3>2. i \in All
      BY <3>1 DEF All
    <3>. QED
      BY <1>1, <3>2, FoundIds DEF IInv, PoolInv, PoolTypes
  <2>2. future[i] # None /\ future[i] # Raised /\ o.resp \in Responses
    BY <1>1, <2>1, ThreeOutcomes
  <2>3. Resolves(i) /\ results[i] = Compare(i, o.resp)
    BY <1>1, <2>1, <2>2 DEF IInv, PoolInv, OutcomesOfCalls, ResultsInv, Outcome
  <2> DEFINE whole == FromResponse(Found[i], o.call, o.resp)
  <2>4. /\ Source(i).total = whole.total /\ Source(i).cost = whole.cost
        /\ Source(i).finish = whole.finish /\ Source(i).model = whole.model
        /\ Source(i).params = whole.params /\ Source(i).prompt = whole.prompt
        /\ Source(i).response = whole.response
    <3>1. o.as \in {"response", "stream", "error"}
      BY <2>1, ReplayAssumption DEF ReplayAssumption
    <3>2. CASE o.as = "response"
      BY <1>1, <3>2 DEF Source, Stored
    <3>3. CASE o.as = "stream"
      <4>1. Streams(o.chunks, o.resp, o.calls)
        BY <2>1, <3>3, ReplayAssumption DEF ReplayAssumption
      <4>2. Source(i) = FromStream(Found[i], o.call, o.chunks)
        BY <1>1, <3>3 DEF Source, Stored
      <4>3. AsWhole(Source(i), whole, o)
        BY <4>1, <4>2, StreamsAddUp
      <4>4. {"total", "cost", "finish", "model", "params", "prompt"} \subseteq
              DOMAIN whole \ {"response", "kind", "toolCalls"}
        BY DEF FromResponse, Event
      <4>. HIDE DEF whole
      <4>5. \A field \in {"total", "cost", "finish", "model", "params", "prompt"} :
              Source(i)[field] = whole[field]
        BY <4>3, <4>4 DEF AsWhole
      <4>6. Source(i).response = whole.response
        BY <1>1, <3>3, <4>3 DEF AsWhole
      <4>. QED
        BY <4>5, <4>6
    <3>. QED
      BY <1>1, <3>1, <3>2, <3>3
  <2>5. PICK in \in Nat, out \in Nat :
          /\ in = o.resp.usage.input /\ out = o.resp.usage.output
          /\ in = InputTokens(o.call, o.resp.usage)
          /\ out = OutputTokens(o.resp.content, o.resp.usage)
    BY <1>1, <2>2, ReplayAssumption DEF ReplayAssumption, InputTokens, OutputTokens
  <2>6. /\ Source(i).total = in + out /\ Source(i).cost = Cost(o.call.model, in, out)
        /\ Source(i).finish = o.resp.finish /\ Source(i).model = o.call.model
        /\ Source(i).params = o.call.params \cap Captured
        /\ Source(i).prompt = Prompt("full", o.call.messages)
        /\ Source(i).response = Apply("full", o.resp.content)
    <3>1. whole = Event(Found[i], o.call, o.resp.content, o.resp.toolCalls, in, out,
                        o.resp.finish)
      BY <2>5 DEF FromResponse
    <3>. HIDE DEF whole
    <3>. QED
      BY <1>1, <2>4, <3>1 DEF Event
  <2>7. Source(i).prompt = o.call.messages
    <3>1. Source(i).prompt # None
      BY <1>1, <2>3 DEF Resolves
    <3>2. o.call.messages = [k \in DOMAIN o.call.messages |-> o.call.messages[k]]
      BY <2>1, ReplayAssumption DEF ReplayAssumption
    <3>. QED
      BY <2>6, <3>1, <3>2, FullPrompt
  <2>8. /\ Request(i).model = o.call.model /\ Request(i).messages = o.call.messages
        /\ Request(i).params = Source(i).params \ {"stream"} /\ Request(i).mode = mode
    BY <1>1, <2>6, <2>7 DEF Request, Chosen
  <2>9. results[i].identical /\ results[i].delta = 0
    <3>1. Source(i).response = o.resp.content
      BY <2>6 DEF Apply
    <3>2. results[i].identical
      <4>1. Compare(i, o.resp).identical
        BY <3>1 DEF Compare
      <4>. QED
        BY <2>3, <4>1
    <3>3. TokensOf(o.resp) - Source(i).total = 0
      <4>1. o.resp.usage.total = in + out
        BY <1>1, <2>5
      <4>. QED
        BY <2>6, <4>1 DEF TokensOf
    <3>. QED
      BY <2>3, <3>2, <3>3 DEF Compare
  <2>10. ASSUME NEW k \in DOMAIN emitted, emitted[k].id = -i
         PROVE  /\ emitted[k].cost = Source(i).cost /\ emitted[k].finish = Source(i).finish
                /\ emitted[k].params = Source(i).params \ {"stream"}
                /\ mode = "full" => emitted[k].prompt = Source(i).prompt
    <3>1. emitted[k] = FromResponse(-i, Request(i), o.resp)
      BY <1>1, <2>1, <2>2, <2>10, EventsOfReplay DEF IsEventOf
    <3>2. InputTokens(Request(i), o.resp.usage) = in
      BY <1>1, <2>5 DEF InputTokens
    <3>3. /\ emitted[k].cost = Cost(Request(i).model, in, out)
          /\ emitted[k].finish = o.resp.finish
          /\ emitted[k].params = Request(i).params \cap Captured
          /\ emitted[k].prompt = Prompt(Request(i).mode, Request(i).messages)
      BY <2>5, <3>1, <3>2 DEF FromResponse, Event
    <3>4. Request(i).params \cap Captured = Request(i).params
      BY <2>6, <2>8
    <3>. QED
      BY <2>6, <2>8, <3>3, <3>4
  <2>. QED
    BY <2>9, <2>10
<1>2. IInv => SameCallSameResult
  BY <1>1 DEF SameCallSameResult
<1>. QED
  BY <1>2, InductiveInvariant, PTL
=============================================================================
