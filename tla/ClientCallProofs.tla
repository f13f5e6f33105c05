-------------------------- MODULE ClientCallProofs --------------------------
(* The theorems about ClientCall and their proofs: for any number of tasks,    *)
(* calls and trace() scopes, with auto-chain on or off.                        *)
EXTENDS ClientCall, SequenceTheorems, FiniteSetTheorems, TLAPS

USE ClientAssumption DEF ClientAssumption

\* The states in which a call may still emit.
Open == {"calling", "unread", "reading"}

Event == [id : Nat, kind : {"ok", "error"}, by : Tasks]
Scope == [chain : Nat, corr : Nat, fresh : BOOLEAN]

\* What a call can be: its task runs and cannot leave the context it began in
\* while the provider is called; only streams are read; the hooks that fired are
\* those its state owes.
CallInOrder(c) ==
    /\ c.task \in Running /\ c.before <= Len(events)
    /\ c.state \in Open => c.built
    /\ c.state \in {"unread", "reading"} => c.stream
    /\ c.state = "calling" => c.corr = corr[c.task]
    /\ c.errors = IF c.state = "raised" THEN 1 ELSE 0
    /\ c.posts = IF Owes(c) /\ c.state # "raised" THEN 1 ELSE 0

CallsInOrder == \A i \in DOMAIN calls : CallInOrder(calls[i])

\* The events are those of the calls that owe one, each once and of its kind.
EventsAreOwed ==
    /\ \A k \in DOMAIN events : LET e == events[k] IN
         /\ e.id \in DOMAIN calls /\ Owes(calls[e.id])
         /\ e.kind = "error" <=> calls[e.id].state = "raised"
    /\ \A k, l \in DOMAIN events : events[k].id = events[l].id => k = l
    /\ \A i \in DOMAIN calls : Owes(calls[i]) => \E k \in DOMAIN events : events[k].id = i

\* A pointer p that task t may hold under correlation id r: one of the first n
\* events is of call p, by a task whose context t inherited; unless p is a stream
\* its correlation id is r.
PointsBack(cs, es, fam, p, r, t, n) ==
    p # 0 =>
      /\ p \in DOMAIN cs
      /\ \E k \in 1..n : es[k].id = p /\ es[k].by \in fam[t]
      /\ ~cs[p].stream => cs[p].corr = r

\* The chain of every task points back, and so does what the end of each of its
\* open scopes restores,
ChainsPointBack ==
    \A t \in Tasks :
      /\ family[t] # {} => t \in family[t]
      /\ PointsBack(calls, events, family, chain[t], corr[t], t, Len(events))
      /\ \A s \in DOMAIN scopes[t] :
           PointsBack(calls, events, family, scopes[t][s].chain, scopes[t][s].corr, t, Len(events))

\* and the parent of every call, to what was emitted before it began.
ParentsPointBack ==
    \A i \in DOMAIN calls : LET c == calls[i] IN
      c.auto => PointsBack(calls, events, family, c.parent, c.corr, c.task, c.before)

\* What the end of a scope restores is a correlation id trace() handed out.
ScopesInRange == \A t \in Tasks : \A s \in DOMAIN scopes[t] : scopes[t][s].corr <= traces

IInv ==
    /\ TypeOK /\ ScopesInRange /\ CallsInOrder /\ EventsAreOwed
    /\ ChainsPointBack /\ ParentsPointBack

----------------------------------------------------------------------------
LEMMA InitInv == Init => IInv
<1> SUFFICES ASSUME Init PROVE IInv
  OBVIOUS
<1>1. calls = <<>> /\ events = <<>> /\ Len(calls) = 0 /\ \A t \in Tasks : scopes[t] = <<>>
  BY DEF Init
<1>2. TypeOK
  BY <1>1 DEF Init, TypeOK, Running
<1>3. ScopesInRange /\ CallsInOrder /\ EventsAreOwed /\ ParentsPointBack
  BY <1>1 DEF ScopesInRange, CallsInOrder, EventsAreOwed, ParentsPointBack
<1>4. ChainsPointBack
  BY <1>1 DEF Init, ChainsPointBack, PointsBack
<1>. QED
  BY <1>2, <1>3, <1>4 DEF IInv

----------------------------------------------------------------------------
(* What a step of one call does. *)

CallStep(t, i) ==
    \/ ProviderReturns(t, i) \/ ProviderRaises(t, i) \/ StreamOpens(t, i)
    \/ ReadChunk(t, i) \/ StreamEnds(t, i) \/ StreamRaises(t, i) \/ CloseStream(t, i)

\* What a call was begun with.
SameCall(c, d) ==
    /\ d.task = c.task /\ d.stream = c.stream /\ d.sampled = c.sampled /\ d.auto = c.auto
    /\ d.parent = c.parent /\ d.corr = c.corr /\ d.before = c.before

\* Call i becomes d, and the event is emitted that d owes.
Becomes(t, i, d) ==
    /\ calls' = [calls EXCEPT ![i] = d]
    /\ SameCall(calls[i], d) /\ d.state # "calling"
    /\ d.state \in {"unread", "reading"} => d.stream /\ d.built
    /\ d.errors = IF d.state = "raised" THEN 1 ELSE 0
    /\ d.posts = IF Owes(d) /\ d.state # "raised" THEN 1 ELSE 0
    /\ \/ ~Owes(d) /\ UNCHANGED <<chain, events>>
       \/ Owes(d) /\ Enqueue(t, i, IF d.state = "raised" THEN "error" ELSE "ok")

\* A step of a call: it is open and moves on, in a task that runs, and leaves the
\* tasks' contexts alone.
LEMMA CallEffect ==
    ASSUME TypeOK, CallsInOrder, NEW t \in Tasks, NEW i \in DOMAIN calls, CallStep(t, i)
    PROVE  /\ t \in Running /\ calls[i] \in Call /\ calls[i].state \in Open
           /\ calls[i].state = "calling" => calls[i].task = t
           /\ calls[i].state # "calling" => calls[i].stream
           /\ UNCHANGED <<corr, scopes, family, traces>>
           /\ \E d \in Call : Becomes(t, i, d)
<1> DEFINE c == calls[i]
<1>1. /\ c \in Call
      /\ c.state \in Open => c.built /\ c.errors = 0 /\ c.posts = 0
      /\ c.state \in {"unread", "reading"} => c.stream
  <2>1. calls \in Seq(Call) /\ c \in Call
    BY ElementOfSeq DEF TypeOK
  <2>. QED
    BY <2>1 DEF CallsInOrder, CallInOrder, Owes, Open
<1>2. \/ t \in Running /\ c.task = t /\ c.state = "calling"
      \/ t \in Running /\ c.state \in {"unread", "reading"}
  BY DEF CallStep, ProviderReturns, ProviderRaises, StreamOpens, ReadChunk, StreamEnds,
     StreamRaises, CloseStream, Calling, Held, Free
<1>3. UNCHANGED <<corr, scopes, family, traces>>
  BY DEF CallStep, ProviderReturns, ProviderRaises, StreamOpens, ReadChunk, StreamEnds,
     StreamRaises, CloseStream, contextVars
<1>4. c.state \in Open /\ c.built /\ c.errors = 0 /\ c.posts = 0
  BY <1>1, <1>2 DEF Open
<1>. HIDE DEF c
<1>5. ASSUME NEW state \in {"returned", "ended"}, EmitOk(t, i, state),
             state = "returned" => c.sampled
      PROVE  \E d \in Call : Becomes(t, i, d)
  <2>1. CASE Enqueue(t, i, "ok") /\ calls' = [calls EXCEPT ![i].state = state, ![i].posts = @ + 1]
    <3> DEFINE d == [c EXCEPT !.state = state, !.posts = 1]
    <3>1. calls' = [calls EXCEPT ![i] = d]
      <4>1. calls' = [calls EXCEPT ![i] = [c EXCEPT !.state = state, !.posts = c.posts + 1]]
        BY <2>1 DEF c
      <4>2. c.posts + 1 = 1
        BY <1>4
      <4>. QED
        BY <4>1, <4>2
    <3>2. d \in Call
      BY <1>1 DEF Call
    <3>3. /\ SameCall(c, d) /\ d.state = state /\ d.built
          /\ d.errors = 0 /\ d.posts = 1
      BY <1>1, <1>4 DEF Call, SameCall
    <3>. HIDE DEF d
    <3>. QED
      BY <1>5, <2>1, <3>1, <3>2, <3>3 DEF Becomes, Owes, SameCall, c
  <2>2. CASE /\ calls' = [calls EXCEPT ![i].state = state, ![i].built = FALSE]
             /\ UNCHANGED <<chain, events>>
    <3> DEFINE d == [c EXCEPT !.state = state, !.built = FALSE]
    <3>1. calls' = [calls EXCEPT ![i] = d]
      BY <2>2 DEF c
    <3>2. d \in Call
      BY <1>1 DEF Call
    <3>3. /\ SameCall(c, d) /\ d.state = state /\ ~d.built
          /\ d.errors = 0 /\ d.posts = 0
      BY <1>1, <1>4 DEF Call, SameCall
    <3>. HIDE DEF d
    <3>. QED
      BY <1>5, <2>2, <3>1, <3>2, <3>3 DEF Becomes, Owes, c
  <2>. QED
    BY <1>5, <2>1, <2>2 DEF EmitOk
<1>6. ASSUME EmitError(t, i)
      PROVE  \E d \in Call : Becomes(t, i, d)
  <2>1. PICK built \in BOOLEAN :
          /\ IF built THEN Enqueue(t, i, "error") ELSE UNCHANGED <<chain, events>>
          /\ calls' = [calls EXCEPT ![i].state = "raised", ![i].built = built,
                                    ![i].errors = @ + 1]
    BY <1>6 DEF EmitError
  <2> DEFINE d == [c EXCEPT !.state = "raised", !.built = built, !.errors = 1]
  <2>2. calls' = [calls EXCEPT ![i] = d]
    <3>1. calls' = [calls EXCEPT ![i] = [c EXCEPT !.state = "raised", !.built = built,
                                                  !.errors = c.errors + 1]]
      BY <2>1 DEF c
    <3>2. c.errors + 1 = 1
      BY <1>4
    <3>. QED
      BY <3>1, <3>2
  <2>3. d \in Call
    BY <1>1, <2>1 DEF Call
  <2>4. /\ SameCall(c, d) /\ d.state = "raised" /\ d.built = built
        /\ d.errors = 1 /\ d.posts = 0
    BY <1>1, <1>4, <2>1 DEF Call, SameCall
  <2>. HIDE DEF d
  <2>. QED
    BY <2>1, <2>2, <2>3, <2>4 DEF Becomes, Owes, c
<1>7. ASSUME NEW state \in {"unread", "reading", "returned", "abandoned"},
             state \in {"unread", "reading"} => c.stream,
             state = "returned" => ~c.sampled,
             calls' = [calls EXCEPT ![i].state = state], UNCHANGED <<chain, events>>
      PROVE  \E d \in Call : Becomes(t, i, d)
  <2> DEFINE d == [c EXCEPT !.state = state]
  <2>1. calls' = [calls EXCEPT ![i] = d]
    BY <1>7 DEF c
  <2>2. d \in Call
    BY <1>1 DEF Call
  <2>3. SameCall(c, d) /\ d.state = state /\ d.built /\ d.errors = 0 /\ d.posts = 0
    BY <1>1, <1>4 DEF Call, SameCall
  <2>. HIDE DEF d
  <2>. QED
    BY <1>7, <2>1, <2>2, <2>3 DEF Becomes, Owes, SameCall, c
<1>8. \E d \in Call : Becomes(t, i, d)
  <2>1. CASE ProviderReturns(t, i)
    BY <2>1, <1>5, <1>7 DEF ProviderReturns, c
  <2>2. CASE ProviderRaises(t, i) \/ StreamRaises(t, i)
    BY <2>2, <1>6 DEF ProviderRaises, StreamRaises
  <2>3. CASE StreamOpens(t, i)
    BY <2>3, <1>7 DEF StreamOpens, contextVars, c
  <2>4. CASE ReadChunk(t, i)
    BY <2>4, <1>1, <1>7 DEF ReadChunk, contextVars, c
  <2>5. CASE StreamEnds(t, i)
    BY <2>5, <1>5 DEF StreamEnds
  <2>6. CASE CloseStream(t, i)
    BY <2>6, <1>5, <1>7 DEF CloseStream
  <2>. QED
    BY <2>1, <2>2, <2>3, <2>4, <2>5, <2>6 DEF CallStep
<1>. QED
  BY <1>1, <1>2, <1>3, <1>4, <1>8 DEF c

----------------------------------------------------------------------------
(* A call moves on. *)

\* What Becomes says of the sequence of calls, call by call.
LEMMA CallsChange ==
    ASSUME TypeOK, NEW t \in Tasks, NEW i \in DOMAIN calls, NEW d \in Call, Becomes(t, i, d)
    PROVE  /\ calls' \in Seq(Call) /\ Len(calls') = Len(calls) /\ DOMAIN calls' = DOMAIN calls
           /\ calls'[i] = d /\ \A j \in DOMAIN calls : j # i => calls'[j] = calls[j]
<1>1. calls \in Seq(Call) /\ calls' = [calls EXCEPT ![i] = d]
  BY DEF TypeOK, Becomes
<1>2. DOMAIN calls = 1..Len(calls)
  BY <1>1, LenProperties
<1>3. calls' \in Seq(Call) /\ Len(calls') = Len(calls)
  BY <1>1, ExceptSeq
<1>. QED
  BY <1>1, <1>2, <1>3

LEMMA TypeByCall ==
    ASSUME TypeOK, CallsInOrder, NEW t \in Tasks, NEW i \in DOMAIN calls, CallStep(t, i)
    PROVE  TypeOK'
<1>1. /\ t \in Running /\ UNCHANGED <<corr, scopes, family, traces>>
      /\ \E d \in Call : Becomes(t, i, d)
  BY CallEffect
<1>2. PICK d \in Call : Becomes(t, i, d)
  BY <1>1
<1>3. calls' \in Seq(Call) /\ Len(calls') = Len(calls)
  BY <1>2, CallsChange
<1>4. i \in 1..Len(calls) /\ i \in Nat
  BY LenProperties DEF TypeOK
<1>5. \/ UNCHANGED <<chain, events>>
      \/ \E kind \in {"ok", "error"} : Enqueue(t, i, kind)
  BY <1>2 DEF Becomes
<1>6. /\ chain' \in [Tasks -> 0..Len(calls)]
      /\ \A u \in Tasks \ Running : chain'[u] = 0
  <2>1. chain \in [Tasks -> 0..Len(calls)] /\ \A u \in Tasks \ Running : chain[u] = 0
    BY DEF TypeOK
  <2>2. chain' = chain \/ chain' = [chain EXCEPT ![t] = i]
    BY <1>5 DEF Enqueue
  <2>3. i \in 0..Len(calls)
    BY <1>4, LenProperties
  <2>. QED
    BY <1>1, <2>1, <2>2, <2>3
<1>7. events' \in Seq(Event)
  <2>1. CASE UNCHANGED events
    BY <2>1 DEF TypeOK, Event
  <2>2. ASSUME NEW kind \in {"ok", "error"}, Enqueue(t, i, kind)
        PROVE  events' \in Seq(Event)
    <3>1. [id |-> i, kind |-> kind, by |-> t] \in Event /\ events \in Seq(Event)
      BY <1>4 DEF TypeOK, Event
    <3>. QED
      BY <2>2, <3>1, AppendProperties DEF Enqueue
  <2>. QED
    BY <1>5, <2>1, <2>2
<1>8. Running' = Running
  BY <1>1 DEF Running
<1>. QED
  BY <1>1, <1>3, <1>6, <1>7, <1>8 DEF TypeOK, Event

LEMMA CallsInOrderByCall ==
    ASSUME TypeOK, CallsInOrder, NEW t \in Tasks, NEW i \in DOMAIN calls, CallStep(t, i)
    PROVE  CallsInOrder'
<1>1. /\ calls[i] \in Call /\ UNCHANGED <<corr, scopes, family, traces>>
      /\ \E d \in Call : Becomes(t, i, d)
  BY CallEffect
<1>2. PICK d \in Call : Becomes(t, i, d)
  BY <1>1
<1>3. /\ DOMAIN calls' = DOMAIN calls /\ calls'[i] = d
      /\ \A j \in DOMAIN calls : j # i => calls'[j] = calls[j]
  BY <1>2, CallsChange
<1>4. Len(events) \in Nat /\ Len(events') \in Nat /\ Len(events) <= Len(events')
  BY <1>2, LenProperties DEF Becomes, Enqueue, TypeOK
<1>5. Running' = Running
  BY <1>1 DEF Running
<1>. QED
  <2>1. ASSUME NEW j \in DOMAIN calls, j # i
        PROVE  CallInOrder(calls[j])'
    <3>1. calls[j] \in Call /\ CallInOrder(calls[j]) /\ calls'[j] = calls[j]
      BY <1>3, <2>1, ElementOfSeq DEF TypeOK, CallsInOrder
    <3>2. calls[j].before \in Nat
      BY <3>1 DEF Call
    <3>. QED
      BY <1>1, <1>4, <1>5, <3>1, <3>2 DEF CallInOrder, Owes
  <2>2. CallInOrder(calls[i])'
    <3>1. CallInOrder(calls[i])
      BY DEF CallsInOrder
    <3>2. /\ d.task \in Running /\ d.before <= Len(events') /\ d.state \notin {"calling"}
          /\ d.state \in {"unread", "reading"} => d.stream /\ d.built
          /\ d.errors = IF d.state = "raised" THEN 1 ELSE 0
          /\ d.posts = IF Owes(d) /\ d.state # "raised" THEN 1 ELSE 0
      BY <1>1, <1>2, <1>4, <3>1 DEF Becomes, SameCall, CallInOrder, Call
    <3>. QED
      BY <1>3, <1>5, <3>2 DEF CallInOrder, Owes, Open
  <2>. QED
    BY <1>3, <2>1, <2>2 DEF CallsInOrder

LEMMA EventsAreOwedByCall ==
    ASSUME TypeOK, CallsInOrder, EventsAreOwed,
           NEW t \in Tasks, NEW i \in DOMAIN calls, CallStep(t, i)
    PROVE  EventsAreOwed'
<1>1. calls[i].state \in Open /\ \E d \in Call : Becomes(t, i, d)
  BY CallEffect
<1>2. PICK d \in Call : Becomes(t, i, d)
  BY <1>1
<1>3. /\ DOMAIN calls' = DOMAIN calls /\ calls'[i] = d
      /\ \A j \in DOMAIN calls : j # i => calls'[j] = calls[j]
  BY <1>2, CallsChange
<1>4. ~Owes(calls[i])
  BY <1>1 DEF Owes, Open
<1>5. \A k \in DOMAIN events : events[k].id # i
  BY <1>4 DEF EventsAreOwed
<1>6. CASE ~Owes(d) /\ UNCHANGED events
  BY <1>3, <1>5, <1>6 DEF EventsAreOwed
<1>7. CASE Owes(d) /\ Enqueue(t, i, IF d.state = "raised" THEN "error" ELSE "ok")
  <2> DEFINE e == [id |-> i, kind |-> IF d.state = "raised" THEN "error" ELSE "ok", by |-> t]
             n == Len(events) + 1
  <2>1. events' = Append(events, e)
    BY <1>7 DEF Enqueue
  <2>2. /\ DOMAIN events = 1..Len(events) /\ Len(events) \in Nat
        /\ DOMAIN events' = DOMAIN events \cup {n} /\ n \notin DOMAIN events
        /\ events'[n] = e /\ \A k \in DOMAIN events : events'[k] = events[k]
    <3>1. events \in Seq(Event) /\ e \in Event
      BY LenProperties DEF TypeOK, Event
    <3>. HIDE DEF e
    <3>2. /\ DOMAIN events = 1..Len(events) /\ Len(events) \in Nat
          /\ DOMAIN events' = 1..(Len(events) + 1)
          /\ events'[n] = e /\ \A k \in 1..Len(events) : events'[k] = events[k]
      BY <2>1, <3>1, AppendProperties, LenProperties
    <3>. QED
      BY <3>2
  <2>. HIDE DEF n
  <2>3. /\ e.id = i /\ (e.kind = "error" <=> d.state = "raised")
    OBVIOUS
  <2>. HIDE DEF e
  <2>. QED
    BY <1>3, <1>5, <1>7, <2>2, <2>3 DEF EventsAreOwed
<1>. QED
  BY <1>2, <1>6, <1>7 DEF Becomes

\* Nothing is forgotten: calls keep what they were begun with, events stay, and
\* no task loses an ancestor.
Grows ==
    /\ \A i \in DOMAIN calls : i \in DOMAIN calls' /\ SameCall(calls[i], calls'[i])
    /\ Len(events) \in Nat /\ Len(events') \in Nat /\ Len(events) <= Len(events')
    /\ \A k \in 1..Len(events) : events'[k] = events[k]
    /\ \A t \in Tasks : family[t] \subseteq family'[t]

\* Then a pointer goes on pointing back.
LEMMA PointerKept ==
    ASSUME Grows, NEW p, NEW r, NEW t \in Tasks, NEW n \in Nat, NEW m \in Nat,
           n <= m, n <= Len(events), PointsBack(calls, events, family, p, r, t, n)
    PROVE  PointsBack(calls', events', family', p, r, t, m)
<1>1. CASE p = 0
  BY <1>1 DEF PointsBack
<1>2. CASE p # 0
  <2>1. p \in DOMAIN calls /\ (~calls[p].stream => calls[p].corr = r)
    BY <1>2 DEF PointsBack
  <2>2. PICK k \in 1..n : events[k].id = p /\ events[k].by \in family[t]
    BY <1>2 DEF PointsBack
  <2>3. k \in 1..Len(events) /\ k \in 1..m
    BY DEF Grows
  <2>4. events'[k].id = p /\ events'[k].by \in family'[t]
    BY <2>2, <2>3 DEF Grows
  <2>5. p \in DOMAIN calls' /\ (~calls'[p].stream => calls'[p].corr = r)
    BY <2>1 DEF Grows, SameCall
  <2>. QED
    BY <2>3, <2>4, <2>5 DEF PointsBack
<1>. QED
  BY <1>1, <1>2

LEMMA ParentsKept ==
    ASSUME TypeOK, CallsInOrder, ParentsPointBack, Grows, NEW i \in DOMAIN calls, calls'[i].auto
    PROVE  PointsBack(calls', events', family', calls'[i].parent, calls'[i].corr,
                      calls'[i].task, calls'[i].before)
<1>1. /\ calls[i] \in Call /\ SameCall(calls[i], calls'[i]) /\ calls[i].before <= Len(events)
  BY ElementOfSeq DEF TypeOK, CallsInOrder, CallInOrder, Grows
<1>2. PICK n \in Nat, t \in Tasks : n = calls[i].before /\ t = calls[i].task
  BY <1>1 DEF Call
<1>3. PointsBack(calls, events, family, calls[i].parent, calls[i].corr, t, n)
  BY <1>1, <1>2 DEF ParentsPointBack, SameCall
<1>4. n <= n /\ n <= Len(events)
  BY <1>1, <1>2
<1>5. PointsBack(calls', events', family', calls[i].parent, calls[i].corr, t, n)
  BY <1>3, <1>4, PointerKept
<1>. QED
  BY <1>1, <1>2, <1>5 DEF SameCall

LEMMA PointersByCall ==
    ASSUME TypeOK, CallsInOrder, ChainsPointBack, ParentsPointBack,
           NEW t \in Tasks, NEW i \in DOMAIN calls, CallStep(t, i)
    PROVE  ChainsPointBack' /\ ParentsPointBack'
<1>1. /\ t \in Running /\ calls[i] \in Call
      /\ calls[i].state = "calling" => calls[i].task = t
      /\ calls[i].state # "calling" => calls[i].stream
      /\ UNCHANGED <<corr, scopes, family, traces>>
      /\ \E d \in Call : Becomes(t, i, d)
  BY CallEffect
<1>2. PICK d \in Call : Becomes(t, i, d)
  BY <1>1
<1>3. /\ DOMAIN calls' = DOMAIN calls /\ calls'[i] = d
      /\ \A j \in DOMAIN calls : j # i => calls'[j] = calls[j]
  BY <1>2, CallsChange
<1>4. \/ UNCHANGED <<chain, events>>
      \/ \E kind \in {"ok", "error"} : Enqueue(t, i, kind)
  BY <1>2 DEF Becomes
<1>5. Grows
  <2>1. events \in Seq(Event) /\ Len(events) \in Nat
    BY LenProperties DEF TypeOK, Event
  <2>2. /\ Len(events') \in Nat /\ Len(events) <= Len(events')
        /\ \A k \in 1..Len(events) : events'[k] = events[k]
    <3>1. CASE UNCHANGED events
      BY <2>1, <3>1
    <3>2. ASSUME NEW e \in Event, events' = Append(events, e)
          PROVE  /\ Len(events') = Len(events) + 1
                 /\ \A k \in 1..Len(events) : events'[k] = events[k]
      BY <2>1, <3>2, AppendProperties
    <3>3. i \in Nat
      BY LenProperties DEF TypeOK
    <3>4. CASE \E e \in Event : events' = Append(events, e)
      BY <2>1, <3>2, <3>4
    <3>. QED
      BY <1>4, <3>1, <3>3, <3>4 DEF Enqueue, Event
  <2>3. SameCall(calls[i], calls'[i])
    BY <1>2, <1>3 DEF Becomes
  <2>. QED
    BY <1>1, <1>3, <2>1, <2>2, <2>3 DEF Grows, SameCall
<1>6. ParentsPointBack'
  BY <1>3, <1>5, ParentsKept DEF ParentsPointBack
<1>7. ASSUME NEW u \in Tasks, NEW p, NEW r,
             PointsBack(calls, events, family, p, r, u, Len(events))
      PROVE  PointsBack(calls', events', family', p, r, u, Len(events'))
  BY <1>5, <1>7, PointerKept DEF Grows
<1>8. ASSUME Enqueue(t, i, "ok") \/ Enqueue(t, i, "error")
      PROVE  PointsBack(calls', events', family', i, corr[t], t, Len(events'))
  <2>1. PICK e \in Event : events' = Append(events, e) /\ e.id = i /\ e.by = t
    <3>1. i \in Nat
      BY LenProperties DEF TypeOK
    <3>. QED
      BY <1>8, <3>1 DEF Enqueue, Event
  <2>2. Len(events') \in 1..Len(events') /\ events'[Len(events')] = e
    BY <2>1, AppendProperties, LenProperties DEF TypeOK, Event
  <2>3. e.by \in family'[t]
    BY <1>1, <2>1 DEF ChainsPointBack, Running
  <2>4. ~calls'[i].stream => calls'[i].corr = corr[t]
    <3>1. ~calls[i].stream => calls[i].corr = corr[t]
      BY <1>1 DEF CallsInOrder, CallInOrder
    <3>. QED
      BY <1>5, <3>1 DEF Grows, SameCall
  <2>. QED
    BY <1>3, <2>1, <2>2, <2>3, <2>4 DEF PointsBack
<1>9. ChainsPointBack'
  <2>1. ASSUME NEW u \in Tasks
        PROVE  PointsBack(calls', events', family', chain'[u], corr[u], u, Len(events'))
    <3>1. CASE chain'[u] = chain[u]
      BY <1>7, <3>1 DEF ChainsPointBack
    <3>2. CASE chain'[u] # chain[u]
      <4>1. u = t /\ chain'[u] = i /\ (Enqueue(t, i, "ok") \/ Enqueue(t, i, "error"))
        BY <1>4, <3>2 DEF Enqueue, TypeOK
      <4>. QED
        BY <1>8, <4>1
    <3>. QED
      BY <3>1, <3>2
  <2>2. ASSUME NEW u \in Tasks, NEW s \in DOMAIN scopes[u]
        PROVE  PointsBack(calls', events', family', scopes[u][s].chain, scopes[u][s].corr, u,
                          Len(events'))
    BY <1>7 DEF ChainsPointBack
  <2>. QED
    BY <1>1, <2>1, <2>2 DEF ChainsPointBack
<1>. QED
  BY <1>6, <1>9

----------------------------------------------------------------------------
(* A call begins. *)

\* What a call is when it begins, in task t.
Begun(t, d) ==
    /\ d \in Call /\ calls' = Append(calls, d)
    /\ d.task = t /\ d.corr = corr[t] /\ d.before = Len(events)
    /\ d.auto => d.parent = chain[t]
    /\ d.state = "calling" /\ d.built /\ d.posts = 0 /\ d.errors = 0

\* The scopes restore what they restored before.
SameScopes ==
    /\ scopes' \in [Tasks -> Seq(Scope)]
    /\ \A t \in Tasks :
         /\ scopes[t] = <<>> => scopes'[t] = <<>>
         /\ DOMAIN scopes'[t] = DOMAIN scopes[t]
         /\ \A s \in DOMAIN scopes[t] :
              /\ scopes'[t][s].chain = scopes[t][s].chain
              /\ scopes'[t][s].corr = scopes[t][s].corr

LEMMA BeginEffect ==
    ASSUME TypeOK, NEW t \in Tasks, Begin(t)
    PROVE  /\ t \in Running /\ UNCHANGED <<chain, corr, family, traces, events>>
           /\ (\E d : Begun(t, d)) /\ SameScopes
<1>1. t \in Running /\ UNCHANGED <<chain, corr, family, traces, events>>
  BY DEF Begin, Free
<1>2. \E d : Begun(t, d)
  <2> DEFINE fresh == scopes[t] # <<>> /\ scopes[t][Len(scopes[t])].fresh
  <2>1. PICK stream \in BOOLEAN, sampled \in BOOLEAN, explicit \in BOOLEAN :
          LET auto == AutoChain /\ ~explicit IN
          calls' = Append(calls,
            [task |-> t, stream |-> stream, sampled |-> sampled,
             auto |-> auto, parent |-> IF auto THEN chain[t] ELSE 0,
             corr |-> corr[t], first |-> fresh, before |-> Len(events),
             built |-> TRUE, posts |-> 0, errors |-> 0, state |-> "calling"])
    BY DEF Begin
  <2>2. fresh \in BOOLEAN
    OBVIOUS
  <2>. HIDE DEF fresh
  <2> DEFINE auto == AutoChain /\ ~explicit
             parent == IF auto THEN chain[t] ELSE 0
             r == corr[t]
             n == Len(events)
             d == [task |-> t, stream |-> stream, sampled |-> sampled,
                   auto |-> auto, parent |-> parent,
                   corr |-> r, first |-> fresh, before |-> n,
                   built |-> TRUE, posts |-> 0, errors |-> 0, state |-> "calling"]
  <2>3. calls' = Append(calls, d)
    BY <2>1
  <2>4. auto \in BOOLEAN
    BY DEF ClientAssumption
  <2>5. parent \in Nat /\ r \in Nat /\ n \in Nat
    <3>1. chain[t] \in Nat /\ corr[t] \in Nat
      BY LenProperties DEF TypeOK
    <3>2. Len(events) \in Nat
      BY LenProperties DEF TypeOK
    <3>. QED
      BY <3>1, <3>2
  <2>6. auto => parent = chain[t]
    OBVIOUS
  <2>7. r = corr[t] /\ n = Len(events)
    OBVIOUS
  <2>. HIDE DEF auto, parent, r, n
  <2>8. d \in Call
    BY <2>2, <2>4, <2>5 DEF Call
  <2>. QED
    BY <2>3, <2>6, <2>7, <2>8 DEF Begun
<1>3. SameScopes
  <2> DEFINE l == Len(scopes[t])
             top == scopes[t][l]
  <2>1. scopes \in [Tasks -> Seq(Scope)]
    BY DEF TypeOK, Scope
  <2>2. CASE scopes' = scopes
    BY <2>1, <2>2 DEF SameScopes
  <2>3. CASE scopes[t] # <<>> /\ scopes' = [scopes EXCEPT ![t][l].fresh = FALSE]
    <3>1. scopes[t] \in Seq(Scope) /\ l \in Nat /\ l \in DOMAIN scopes[t] /\ top \in Scope
      BY <2>1, <2>3, LenProperties, ElementOfSeq, EmptySeq
    <3> DEFINE new == [top EXCEPT !.fresh = FALSE]
               ss == [scopes[t] EXCEPT ![l] = new]
    <3>2. new \in Scope /\ new.chain = top.chain /\ new.corr = top.corr
      BY <3>1 DEF Scope
    <3>3. scopes' = [scopes EXCEPT ![t] = ss]
      BY <2>3
    <3>. HIDE DEF new, l
    <3>4. ss \in Seq(Scope) /\ DOMAIN ss = DOMAIN scopes[t]
      BY <3>1, <3>2, ExceptSeq
    <3>5. ss[l] = new /\ \A s \in DOMAIN scopes[t] : s # l => ss[s] = scopes[t][s]
      BY <3>1
    <3>. HIDE DEF ss, top
    <3>6. \A s \in DOMAIN scopes[t] :
            ss[s].chain = scopes[t][s].chain /\ ss[s].corr = scopes[t][s].corr
      BY <3>2, <3>5 DEF top
    <3>7. \A u \in Tasks : scopes'[u] = IF u = t THEN ss ELSE scopes[u]
      BY <2>1, <3>3
    <3>8. scopes' \in [Tasks -> Seq(Scope)]
      BY <2>1, <3>3, <3>4
    <3>. QED
      BY <2>3, <3>4, <3>6, <3>7, <3>8 DEF SameScopes
  <2>. QED
    BY <2>2, <2>3 DEF Begin
<1>. QED
  BY <1>1, <1>2, <1>3

LEMMA BeginInv == ASSUME IInv, NEW t \in Tasks, Begin(t) PROVE IInv'
<1>1. /\ TypeOK /\ t \in Running /\ UNCHANGED <<chain, corr, family, traces, events>>
      /\ SameScopes
  BY BeginEffect DEF IInv
<1>2. PICK d : Begun(t, d)
  BY BeginEffect DEF IInv
<1>0. PICK n \in Nat : n = Len(calls) + 1
  BY <1>1, LenProperties DEF TypeOK
<1>3. /\ Len(calls) \in Nat /\ calls' \in Seq(Call) /\ Len(calls') = n
      /\ DOMAIN calls = 1..Len(calls) /\ DOMAIN calls' = 1..n
      /\ DOMAIN calls' = DOMAIN calls \cup {n} /\ n \notin DOMAIN calls
      /\ calls'[n] = d /\ \A i \in DOMAIN calls : calls'[i] = calls[i]
  <2>1. calls \in Seq(Call) /\ d \in Call /\ calls' = Append(calls, d)
    BY <1>1, <1>2 DEF TypeOK, Begun
  <2>2. Len(calls) \in Nat /\ DOMAIN calls = 1..Len(calls)
    BY <2>1, LenProperties
  <2>3. calls' \in Seq(Call) /\ Len(calls') = n /\ calls'[n] = d
        /\ \A i \in 1..Len(calls) : calls'[i] = calls[i]
    BY <1>0, <2>1, AppendProperties
  <2>4. DOMAIN calls' = 1..n
    BY <2>3, LenProperties
  <2>. QED
    BY <1>0, <2>2, <2>3, <2>4
<1>4. Running' = Running /\ Len(events) \in Nat
  BY <1>1, LenProperties DEF Running, TypeOK
<1>5. TypeOK'
  <2>1. chain' \in [Tasks -> 0..Len(calls')]
    BY <1>0, <1>1, <1>3, SMTT(30) DEF TypeOK
  <2>2. \A u \in Tasks \ Running' : chain'[u] = 0 /\ corr'[u] = 0 /\ scopes'[u] = <<>>
    BY <1>1, <1>4 DEF TypeOK, SameScopes
  <2>. QED
    BY <1>1, <1>3, <2>1, <2>2 DEF TypeOK, SameScopes, Scope
<1>6. CallsInOrder'
  <2>1. ASSUME NEW i \in DOMAIN calls PROVE CallInOrder(calls[i])'
    <3>1. CallInOrder(calls[i]) /\ calls'[i] = calls[i]
      BY <1>3 DEF IInv, CallsInOrder
    <3>. QED
      BY <1>1, <1>4, <3>1 DEF CallInOrder, Owes
  <2>2. CallInOrder(calls[n])'
    BY <1>1, <1>2, <1>3, <1>4 DEF CallInOrder, Begun, Owes
  <2>. QED
    BY <1>3, <2>1, <2>2 DEF CallsInOrder
<1>7. EventsAreOwed'
  BY <1>1, <1>2, <1>3 DEF IInv, EventsAreOwed, Begun, Owes
<1>8. Grows
  <2>1. \A i \in DOMAIN calls : i \in DOMAIN calls' /\ SameCall(calls[i], calls'[i])
    BY <1>3 DEF SameCall
  <2>. QED
    BY <1>1, <1>4, <2>1 DEF Grows
<1>9. ASSUME NEW u \in Tasks, NEW p, NEW r,
             PointsBack(calls, events, family, p, r, u, Len(events))
      PROVE  PointsBack(calls', events', family', p, r, u, Len(events))
  BY <1>4, <1>8, <1>9, PointerKept
<1>10. ChainsPointBack'
  BY <1>1, <1>9 DEF IInv, ChainsPointBack, SameScopes
<1>11. ParentsPointBack'
  <2>1. ASSUME NEW i \in DOMAIN calls, calls'[i].auto
        PROVE  PointsBack(calls', events', family', calls'[i].parent, calls'[i].corr,
                          calls'[i].task, calls'[i].before)
    BY <1>8, <2>1, ParentsKept DEF IInv
  <2>2. d.auto => PointsBack(calls', events', family', d.parent, d.corr, d.task, d.before)
    <3>1. PointsBack(calls, events, family, chain[t], corr[t], t, Len(events))
      BY DEF IInv, ChainsPointBack
    <3>. QED
      BY <1>2, <1>9, <3>1 DEF Begun
  <2>. QED
    BY <1>3, <2>1, <2>2 DEF ParentsPointBack
<1>12. ScopesInRange'
  BY <1>1, SMTT(30) DEF IInv, ScopesInRange, SameScopes
<1>. QED
  BY <1>12, <1>5, <1>6, <1>7, <1>10, <1>11 DEF IInv

----------------------------------------------------------------------------
(* The steps of the context: spawn, and the two ends of a trace() scope. *)

\* A task inherits what it may point to with the context it inherits.
LEMMA PointerInherited ==
    ASSUME NEW p, NEW r, NEW t \in Tasks, NEW u \in Tasks,
           UNCHANGED <<calls, events>>, family[t] \subseteq family'[u],
           PointsBack(calls, events, family, p, r, t, Len(events))
    PROVE  PointsBack(calls', events', family', p, r, u, Len(events'))
BY DEF PointsBack

\* No call is under way in a task whose context changes, so the calls stay in order.
LEMMA ContextKept ==
    ASSUME IInv, TypeOK', ScopesInRange', ChainsPointBack', UNCHANGED <<calls, events>>,
           \A t \in Tasks : family[t] \subseteq family'[t],
           \A t \in Running : Busy(t) => corr'[t] = corr[t]
    PROVE  IInv'
<1>1. Running \subseteq Running'
  BY DEF Running
<1>2. CallsInOrder'
  <2>1. ASSUME NEW i \in DOMAIN calls PROVE CallInOrder(calls[i])'
    <3>1. CallInOrder(calls[i])
      BY DEF IInv, CallsInOrder
    <3>2. calls[i].state = "calling" => Busy(calls[i].task)
      BY DEF Busy
    <3>. QED
      BY <1>1, <3>1, <3>2 DEF CallInOrder, Owes
  <2>. QED
    BY <2>1 DEF CallsInOrder
<1>3. EventsAreOwed'
  BY DEF IInv, EventsAreOwed, Owes
<1>4. Grows
  BY LenProperties DEF Grows, SameCall, IInv, TypeOK
<1>5. ParentsPointBack'
  BY <1>4, ParentsKept DEF IInv, ParentsPointBack
<1>. QED
  BY <1>2, <1>3, <1>5 DEF IInv

LEMMA SpawnInv == ASSUME IInv, NEW t \in Tasks, NEW u \in Tasks, Spawn(t, u) PROVE IInv'
<1>1. /\ t \in Running /\ ~Busy(t) /\ u \notin Running /\ u # t
      /\ UNCHANGED <<calls, scopes, traces, events>>
  BY DEF Spawn, Free
<1>2. /\ TypeOK /\ family[u] = {} /\ scopes[u] = <<>> /\ chain[u] = 0
      /\ t \in family[t] /\ family[t] \subseteq Tasks
  BY <1>1 DEF IInv, TypeOK, Running, ChainsPointBack
<1>3. \/ /\ family' = [family EXCEPT ![u] = family[t] \cup {u}]
         /\ chain' = [chain EXCEPT ![u] = chain[t]] /\ corr' = [corr EXCEPT ![u] = corr[t]]
      \/ family' = [family EXCEPT ![u] = {u}] /\ UNCHANGED <<chain, corr>>
  BY DEF Spawn
<1>4. /\ \A v \in Tasks : v # u => /\ family'[v] = family[v]
                                  /\ chain'[v] = chain[v] /\ corr'[v] = corr[v]
      /\ u \in family'[u] /\ Running' = Running \cup {u}
      /\ \/ family[t] \subseteq family'[u] /\ chain'[u] = chain[t] /\ corr'[u] = corr[t]
         \/ chain'[u] = 0
  <2>1. PICK new \in SUBSET Tasks : u \in new /\ family' = [family EXCEPT ![u] = new]
    BY <1>2, <1>3
  <2>2. family \in [Tasks -> SUBSET Tasks] /\ DOMAIN chain = Tasks /\ DOMAIN corr = Tasks
    BY <1>2 DEF TypeOK
  <2>3. /\ \A v \in Tasks : v # u => family'[v] = family[v]
        /\ u \in family'[u] /\ Running' = Running \cup {u}
    BY <2>1, <2>2 DEF Running
  <2>4. /\ \A v \in Tasks : v # u => chain'[v] = chain[v] /\ corr'[v] = corr[v]
        /\ \/ family[t] \subseteq family'[u] /\ chain'[u] = chain[t] /\ corr'[u] = corr[t]
           \/ chain'[u] = 0
    BY <1>2, <1>3, <2>2
  <2>. QED
    BY <2>3, <2>4
<1>5. TypeOK'
  <2>1. /\ chain' \in [Tasks -> 0..Len(calls)] /\ corr' \in [Tasks -> 0..traces]
        /\ family' \in [Tasks -> SUBSET Tasks]
    <3>1. /\ chain \in [Tasks -> 0..Len(calls)] /\ corr \in [Tasks -> 0..traces]
          /\ family \in [Tasks -> SUBSET Tasks]
      BY <1>2 DEF TypeOK
    <3>2. family[t] \cup {u} \in SUBSET Tasks /\ {u} \in SUBSET Tasks
      BY <1>2
    <3>. QED
      BY <1>3, <3>1, <3>2, SMTT(30)
  <2>2. \A v \in Tasks \ Running' : chain'[v] = 0 /\ corr'[v] = 0 /\ scopes'[v] = <<>>
    BY <1>1, <1>2, <1>4 DEF TypeOK
  <2>. QED
    BY <1>1, <1>2, <2>1, <2>2 DEF TypeOK
<1>6. ScopesInRange'
  BY <1>1 DEF IInv, ScopesInRange
<1>7. \A v \in Tasks : family[v] \subseteq family'[v]
  BY <1>2, <1>4
<1>8. ChainsPointBack'
  <2>1. ASSUME NEW v \in Tasks, v # u
        PROVE  /\ family'[v] # {} => v \in family'[v]
               /\ PointsBack(calls', events', family', chain'[v], corr'[v], v, Len(events'))
    BY <1>1, <1>4, <1>7, <2>1, PointerInherited DEF IInv, ChainsPointBack
  <2>2. PointsBack(calls', events', family', chain'[u], corr'[u], u, Len(events'))
    <3>1. CASE chain'[u] = 0
      BY <3>1 DEF PointsBack
    <3>2. CASE family[t] \subseteq family'[u] /\ chain'[u] = chain[t] /\ corr'[u] = corr[t]
      BY <1>1, <3>2, PointerInherited DEF IInv, ChainsPointBack
    <3>. QED
      BY <1>4, <3>1, <3>2
  <2>3. ASSUME NEW v \in Tasks, NEW s \in DOMAIN scopes[v]
        PROVE  PointsBack(calls', events', family', scopes[v][s].chain, scopes[v][s].corr, v,
                          Len(events'))
    BY <1>1, <1>7, PointerInherited DEF IInv, ChainsPointBack
  <2>. QED
    BY <1>1, <1>4, <2>1, <2>2, <2>3 DEF ChainsPointBack
<1>9. \A v \in Running : Busy(v) => corr'[v] = corr[v]
  BY <1>1, <1>4 DEF Running
<1>. QED
  BY <1>1, <1>5, <1>6, <1>7, <1>8, <1>9, ContextKept

\* Both ends of a scope: task t's context alone changes, and it points back.
LEMMA ScopeInv ==
    ASSUME IInv, NEW t \in Tasks, ~Busy(t), t \in Running, UNCHANGED <<calls, events, family>>,
           NEW p \in Nat, NEW r \in Nat, NEW ss \in Seq(Scope),
           chain' = [chain EXCEPT ![t] = p], corr' = [corr EXCEPT ![t] = r],
           scopes' = [scopes EXCEPT ![t] = ss],
           traces' \in Nat, traces <= traces', r <= traces',
           PointsBack(calls, events, family, p, r, t, Len(events)),
           \A s \in DOMAIN ss :
             /\ ss[s].corr <= traces
             /\ PointsBack(calls, events, family, ss[s].chain, ss[s].corr, t, Len(events))
    PROVE  IInv'
<1>1. TypeOK /\ Running' = Running /\ Len(calls) \in Nat
  BY LenProperties DEF IInv, TypeOK, Running
<1>2. TypeOK'
  <2>1. p \in 0..Len(calls)
    BY <1>1, LenProperties, SMTT(30) DEF PointsBack, TypeOK
  <2>2. /\ chain' \in [Tasks -> 0..Len(calls)] /\ corr' \in [Tasks -> 0..traces']
        /\ scopes' \in [Tasks -> Seq(Scope)]
    <3>1. /\ chain \in [Tasks -> 0..Len(calls)] /\ scopes \in [Tasks -> Seq(Scope)]
      BY <1>1 DEF TypeOK, Scope
    <3>2. corr \in [Tasks -> 0..traces] /\ traces \in Nat /\ \A o \in 0..traces : o \in 0..traces'
      BY <1>1 DEF TypeOK
    <3>3. corr \in [Tasks -> 0..traces'] /\ r \in 0..traces'
      BY <3>2
    <3>. QED
      BY <2>1, <3>1, <3>3
  <2>3. \A v \in Tasks \ Running' : chain'[v] = 0 /\ corr'[v] = 0 /\ scopes'[v] = <<>>
    BY <1>1 DEF TypeOK
  <2>. QED
    BY <1>1, <2>2, <2>3 DEF TypeOK, Scope
<1>3. \A v \in Tasks :
        /\ v # t => chain'[v] = chain[v] /\ corr'[v] = corr[v] /\ scopes'[v] = scopes[v]
        /\ v = t => chain'[v] = p /\ corr'[v] = r /\ scopes'[v] = ss
  BY <1>1 DEF TypeOK
<1>4. ScopesInRange'
  <2>1. \A v \in Tasks : \A s \in DOMAIN scopes[v] : scopes[v][s].corr \in Nat
    <3>1. ASSUME NEW v \in Tasks, NEW s \in DOMAIN scopes[v] PROVE scopes[v][s] \in Scope
      <4>1. scopes \in [Tasks -> Seq(Scope)]
        BY <1>1 DEF TypeOK, Scope
      <4>. QED
        BY <3>1, <4>1, ElementOfSeq
    <3>. QED
      BY <3>1 DEF Scope
  <2>2. \A s \in DOMAIN ss : ss[s].corr \in Nat
    <3>1. \A s \in DOMAIN ss : ss[s] \in Scope
      BY ElementOfSeq
    <3>. QED
      BY <3>1 DEF Scope
  <2>3. ASSUME NEW v \in Tasks, NEW s \in DOMAIN scopes'[v] PROVE scopes'[v][s].corr <= traces'
    <3>1. scopes'[v][s].corr <= traces /\ scopes'[v][s].corr \in Nat
      BY <1>3, <2>1, <2>2, <2>3 DEF IInv, ScopesInRange
    <3>2. traces \in Nat
      BY <1>1 DEF TypeOK
    <3>. QED
      BY <3>1, <3>2
  <2>. QED
    BY <2>3 DEF ScopesInRange
<1>5. ChainsPointBack'
  BY <1>3 DEF IInv, ChainsPointBack
<1>. QED
  BY <1>2, <1>3, <1>4, <1>5, ContextKept DEF Running

LEMMA EnterTraceInv == ASSUME IInv, NEW t \in Tasks, EnterTrace(t) PROVE IInv'
<1>1. /\ ~Busy(t) /\ t \in Running /\ UNCHANGED <<calls, events, family>>
      /\ traces' = traces + 1 /\ TypeOK
  BY DEF EnterTrace, Free, IInv
<1>2. PICK c \in Nat, o \in Nat : c = chain[t] /\ o = corr[t] /\ o <= traces
  BY <1>1, LenProperties DEF TypeOK
<1>0. PICK given \in 0..(traces + 1) :
        corr' = [corr EXCEPT ![t] = IF given # 0 THEN given
                                    ELSE IF corr[t] = 0 THEN traces + 1 ELSE corr[t]]
  BY <1>1 DEF EnterTrace
<1> DEFINE r == IF given # 0 THEN given ELSE IF corr[t] = 0 THEN traces + 1 ELSE corr[t]
           e == [chain |-> c, corr |-> o, fresh |-> TRUE]
           ss == Append(scopes[t], e)
<1>3. /\ chain' = [chain EXCEPT ![t] = 0] /\ corr' = [corr EXCEPT ![t] = r]
      /\ scopes' = [scopes EXCEPT ![t] = ss]
  BY <1>1, <1>2, <1>0 DEF EnterTrace
<1>4. r \in Nat /\ r <= traces'
  BY <1>1, <1>2, <1>0 DEF TypeOK
<1>5. scopes[t] \in Seq(Scope) /\ e \in Scope /\ e.chain = c /\ e.corr = o
  BY <1>1 DEF TypeOK, Scope
<1>. HIDE DEF r, e
<1>6. /\ ss \in Seq(Scope)
      /\ \A s \in DOMAIN ss : ss[s] = e \/ (s \in DOMAIN scopes[t] /\ ss[s] = scopes[t][s])
  BY <1>5, AppendProperties, LenProperties
<1>. HIDE DEF ss
<1>7. \A s \in DOMAIN ss :
        /\ ss[s].corr <= traces
        /\ PointsBack(calls, events, family, ss[s].chain, ss[s].corr, t, Len(events))
  BY <1>2, <1>5, <1>6 DEF IInv, ScopesInRange, ChainsPointBack
<1>8. PointsBack(calls, events, family, 0, r, t, Len(events))
  BY DEF PointsBack
<1>9. traces' \in Nat /\ traces <= traces'
  BY <1>1 DEF TypeOK
<1>. QED
  BY <1>1, <1>3, <1>4, <1>6, <1>7, <1>8, <1>9, ScopeInv

LEMMA ExitTraceInv == ASSUME IInv, NEW t \in Tasks, ExitTrace(t) PROVE IInv'
<1> DEFINE l == Len(scopes[t])
           top == scopes[t][l]
           ss == SubSeq(scopes[t], 1, l - 1)
<1>1. /\ ~Busy(t) /\ t \in Running /\ UNCHANGED <<calls, events, family, traces>>
      /\ TypeOK /\ scopes[t] # <<>> /\ scopes[t] \in Seq(Scope)
  BY DEF ExitTrace, Free, IInv, TypeOK, Scope
<1>2. /\ chain' = [chain EXCEPT ![t] = top.chain] /\ corr' = [corr EXCEPT ![t] = top.corr]
      /\ scopes' = [scopes EXCEPT ![t] = ss]
  BY DEF ExitTrace
<1>3. l \in Nat /\ DOMAIN scopes[t] = 1..l /\ l \in DOMAIN scopes[t]
  BY <1>1, LenProperties, EmptySeq
<1>4. top.chain \in Nat /\ top.corr \in Nat
  <2>1. top \in Scope
    BY <1>1, <1>3, ElementOfSeq
  <2>. QED
    BY <2>1 DEF Scope
<1>5. /\ top.corr <= traces
      /\ PointsBack(calls, events, family, top.chain, top.corr, t, Len(events))
  BY <1>3 DEF IInv, ScopesInRange, ChainsPointBack
<1>6. ss \in Seq(Scope) /\ \A s \in DOMAIN ss : s \in DOMAIN scopes[t] /\ ss[s] = scopes[t][s]
  BY <1>1, <1>3, SubSeqProperties, LenProperties
<1>. HIDE DEF l, top, ss
<1>7. \A s \in DOMAIN ss :
        /\ ss[s].corr <= traces
        /\ PointsBack(calls, events, family, ss[s].chain, ss[s].corr, t, Len(events))
  BY <1>6 DEF IInv, ScopesInRange, ChainsPointBack
<1>8. traces' \in Nat /\ traces <= traces' /\ top.corr <= traces'
  BY <1>1, <1>5 DEF TypeOK
<1>. QED
  BY <1>1, <1>2, <1>4, <1>5, <1>6, <1>7, <1>8, ScopeInv

----------------------------------------------------------------------------
(* The inductive invariant. *)

LEMMA NextInv == ASSUME IInv, [Next]_vars PROVE IInv'
<1>1. ASSUME NEW t \in Tasks, NEW i \in DOMAIN calls, CallStep(t, i) PROVE IInv'
  <2>1. UNCHANGED <<scopes, traces>>
    BY <1>1, CallEffect DEF IInv
  <2>2. ScopesInRange'
    BY <2>1 DEF IInv, ScopesInRange
  <2>. QED
    BY <1>1, <2>2, TypeByCall, CallsInOrderByCall, EventsAreOwedByCall, PointersByCall DEF IInv
<1>2. CASE UNCHANGED vars
  BY <1>2, SMTT(30) DEF vars, contextVars, IInv, TypeOK, Running, ScopesInRange,
     CallsInOrder, CallInOrder, EventsAreOwed, Owes, ChainsPointBack, ParentsPointBack, PointsBack
<1>3. CASE Next
  BY <1>1, <1>3, BeginInv, SpawnInv, EnterTraceInv, ExitTraceInv DEF Next, CallStep
<1>. QED
  BY <1>2, <1>3

\* Every state of the program satisfies the inductive invariant.
THEOREM InductiveInvariant == Spec => []IInv
BY InitInv, NextInv, PTL DEF Spec

\* Every variable of the client keeps its type (TypeOK).
THEOREM TypeCorrect == Spec => []TypeOK
<1>1. IInv => TypeOK
  BY DEF IInv
<1>. QED
  BY <1>1, InductiveInvariant, PTL

----------------------------------------------------------------------------
(* What the callers rely on. *)

\* The events of a call: one if it owes one, and none otherwise.
LEMMA EventsOfCall ==
    ASSUME IInv, NEW i \in DOMAIN calls
    PROVE  \/ Owes(calls[i]) /\ \E k \in DOMAIN events : EventsOf(i) = {k}
           \/ ~Owes(calls[i]) /\ EventsOf(i) = {}
BY DEF IInv, EventsAreOwed, EventsOf

\* A call emits one event if it owes one and none otherwise, as an error exactly
\* if the caller saw the provider's exception (OneEventPerCall).
THEOREM EveryCallEmitsOnce == Spec => []OneEventPerCall
<1>1. ASSUME IInv PROVE OneEventPerCall
  <2>1. ASSUME NEW i \in DOMAIN calls
        PROVE  Cardinality(EventsOf(i)) = IF Owes(calls[i]) THEN 1 ELSE 0
    BY EventsOfCall, <1>1, FS_EmptySet, FS_Singleton
  <2>2. ASSUME NEW i \in DOMAIN calls, NEW k \in EventsOf(i)
        PROVE  (events[k].kind = "error") <=> (calls[i].state = "raised")
    BY <1>1 DEF IInv, EventsAreOwed, EventsOf
  <2>. QED
    BY <2>1, <2>2 DEF OneEventPerCall
<1>. QED
  BY <1>1, InductiveInvariant, PTL

\* A call fires at most one hook: error_hook for every exception the caller sees,
\* post_call_hook for every success emitted (OneHookPerCall).
THEOREM HooksFollowEvents == Spec => []OneHookPerCall
<1>1. ASSUME IInv PROVE OneHookPerCall
  <2>1. ASSUME NEW i \in DOMAIN calls
        PROVE  /\ calls[i].errors = IF calls[i].state = "raised" THEN 1 ELSE 0
               /\ calls[i].posts = Cardinality({k \in EventsOf(i) : events[k].kind = "ok"})
    <3> DEFINE S == {k \in EventsOf(i) : events[k].kind = "ok"}
    <3>1. /\ CallInOrder(calls[i])
          /\ calls[i].state = "raised" => \A k \in EventsOf(i) : events[k].kind # "ok"
          /\ calls[i].state # "raised" => \A k \in EventsOf(i) : events[k].kind = "ok"
      <4>1. ASSUME NEW k \in EventsOf(i)
            PROVE  /\ events[k].kind \in {"ok", "error"}
                   /\ events[k].kind = "error" <=> calls[i].state = "raised"
        <5>1. events \in Seq(Event) /\ k \in DOMAIN events /\ events[k].id = i
          BY <1>1 DEF IInv, TypeOK, Event, EventsOf
        <5>2. events[k] \in Event
          BY <5>1, ElementOfSeq
        <5>. QED
          BY <1>1, <5>1, <5>2 DEF IInv, EventsAreOwed, Event
      <4>. QED
        BY <1>1, <4>1 DEF IInv, CallsInOrder
    <3>2. CASE Owes(calls[i]) /\ calls[i].state # "raised"
      <4>1. PICK k \in DOMAIN events : EventsOf(i) = {k}
        BY <1>1, <3>2, EventsOfCall
      <4>2. S = {k}
        BY <3>1, <3>2, <4>1
      <4>. QED
        BY <3>1, <3>2, <4>2, FS_Singleton DEF CallInOrder
    <3>3. CASE ~Owes(calls[i]) \/ calls[i].state = "raised"
      <4>1. S = {}
        BY <1>1, <3>1, <3>3, EventsOfCall
      <4>. QED
        BY <3>1, <3>3, <4>1, FS_EmptySet DEF CallInOrder
    <3>. QED
      BY <3>2, <3>3
  <2>. QED
    BY <2>1 DEF OneHookPerCall
<1>. QED
  BY <1>1, InductiveInvariant, PTL

\* The parent auto-chain fills in was emitted before the call began, by the
\* call's task or one it descends from (ChainStaysInTask).
THEOREM ParentsAreAncestors == Spec => []ChainStaysInTask
<1>1. IInv => ChainStaysInTask
  BY DEF IInv, ParentsPointBack, PointsBack, ChainStaysInTask
<1>. QED
  BY <1>1, InductiveInvariant, PTL

\* Outside streams, the parent auto-chain fills in has the call's correlation id
\* (ChainStaysInTrace).
THEOREM ParentsShareTheTrace == Spec => []ChainStaysInTrace
<1>1. IInv => ChainStaysInTrace
  BY DEF IInv, ParentsPointBack, PointsBack, ChainStaysInTrace
<1>. QED
  BY <1>1, InductiveInvariant, PTL
=============================================================================
