------------------------ MODULE EventPipelineProofs ------------------------
(* The theorems about EventPipeline and their proofs: the pipeline delivers    *)
(* in order and loses nothing, accounts for every event, holds a bounded       *)
(* backlog, flushes before a graceful stop closes the store, and implements    *)
(* Delivery step by step; and a poll of the events in flight, however the      *)
(* pipeline moves between its two reads, is off by at most one batch.  All     *)
(* for every queue size, batch size, number of attempts and number of events.  *)
EXTENDS InFlightPoll, SequenceTheorems, TLAPS

----------------------------------------------------------------------------
(* Sequences: s is what was settled, b the worker's batch, q the queue.        *)

\* Associativity of \o, named so that it is instantiated one triple at a time.
Associates(s, t, u) == (s \o t) \o u = s \o (t \o u)

LEMMA ConcatAssociates ==
    ASSUME NEW S, NEW s \in Seq(S), NEW t \in Seq(S), NEW u \in Seq(S)
    PROVE  Associates(s, t, u)
BY ConcatAssociative DEF Associates

\* Enqueue: appending to the queue appends to s \o b \o q.
LEMMA AppendAtEnd ==
    ASSUME NEW S, NEW s \in Seq(S), NEW b \in Seq(S), NEW q \in Seq(S), NEW e \in S
    PROVE  (s \o b) \o Append(q, e) = Append((s \o b) \o q, e)
<1>1. s \o b \in Seq(S) /\ (s \o b) \o q \in Seq(S) /\ <<e>> \in Seq(S)
  <2>1. s \o b \in Seq(S)
    BY ConcatProperties
  <2>. QED
    BY <2>1, ConcatProperties
<1>2. Append((s \o b) \o q, e) = ((s \o b) \o q) \o <<e>>
  BY <1>1, AppendIsConcat
<1>3. Append(q, e) = q \o <<e>>
  BY AppendIsConcat
<1>4. Associates(s \o b, q, <<e>>)
  BY <1>1, ConcatAssociates
<1>. QED
  BY <1>2, <1>3, <1>4 DEF Associates

\* A sequence that is not empty is its head and then its tail.
LEMMA HeadThenTail ==
    ASSUME NEW S, NEW q \in Seq(S), q # <<>>
    PROVE  /\ Head(q) \in S /\ Tail(q) \in Seq(S)
           /\ Len(q) \in Nat /\ Len(q) > 0 /\ Len(Tail(q)) = Len(q) - 1
           /\ q = <<Head(q)>> \o Tail(q)
<1>1. Head(q) \in S /\ Tail(q) \in Seq(S) /\ Len(Tail(q)) = Len(q) - 1
  BY HeadTailProperties
<1>2. Len(q) \in Nat /\ Len(q) > 0
  BY EmptySeq
<1>3. SubSeq(q, 1, Len(q)) = <<q[1]>> \o SubSeq(q, 2, Len(q))
  BY <1>2, SubSeqRecursiveFirst
<1>4. Head(q) = q[1] /\ Tail(q) = SubSeq(q, 2, Len(q))
  BY TailIsSubSeq
<1>. QED
  BY <1>1, <1>2, <1>3, <1>4, SubSeqFull

\* get_nowait: moving the queue's head to the end of the batch changes nothing.
LEMMA MoveHead ==
    ASSUME NEW S, NEW b \in Seq(S), NEW q \in Seq(S), q # <<>>
    PROVE  /\ Append(b, Head(q)) \o Tail(q) = b \o q
           /\ Append(b, Head(q)) \in Seq(S) /\ Tail(q) \in Seq(S)
           /\ Len(Append(b, Head(q))) = Len(b) + 1
           /\ Append(b, Head(q)) # <<>>
           /\ Len(Tail(q)) = Len(q) - 1
<1>1. /\ Head(q) \in S /\ Tail(q) \in Seq(S) /\ Len(Tail(q)) = Len(q) - 1
      /\ q = <<Head(q)>> \o Tail(q)
  BY HeadThenTail
<1>2. Append(b, Head(q)) = b \o <<Head(q)>>
  BY <1>1, AppendIsConcat
<1>3. (b \o <<Head(q)>>) \o Tail(q) = b \o (<<Head(q)>> \o Tail(q))
  <2>1. <<Head(q)>> \in Seq(S)
    BY <1>1
  <2>2. Associates(b, <<Head(q)>>, Tail(q))
    BY <1>1, <2>1, ConcatAssociates
  <2>. QED
    BY <2>2 DEF Associates
<1>4. Append(b, Head(q)) \in Seq(S) /\ Len(Append(b, Head(q))) = Len(b) + 1
      /\ Append(b, Head(q)) # <<>>
  BY <1>1, AppendProperties
<1>. QED
  BY <1>1, <1>2, <1>3, <1>4

\* The abstract backlog is cut where the batch ends.
LEMMA CutBacklog ==
    ASSUME NEW S, NEW b \in Seq(S), NEW q \in Seq(S), b # <<>>
    PROVE  /\ Len(b) \in 1..Len(b \o q)
           /\ SubSeq(b \o q, 1, Len(b)) = b
           /\ SubSeq(b \o q, Len(b) + 1, Len(b \o q)) = q
<1>1. Len(b) \in Nat /\ Len(b) > 0 /\ Len(q) \in Nat
  BY EmptySeq, LenProperties
<1>2. Len(b \o q) = Len(b) + Len(q)
  BY ConcatProperties
<1>3. SubSeq(b \o q, 1, Len(b)) = b
  BY <1>1, SubSeqOfConcat1, SubSeqFull
<1>4. SubSeq(b \o q, Len(b) + 1, Len(b \o q)) = q
  <2>1. CASE q = <<>>
    BY <2>1, <1>1, <1>2, SubSeqEmpty
  <2>2. CASE q # <<>>
    <3>1. Len(q) > 0
      BY <2>2, EmptySeq
    <3>2. /\ Len(b) + 1 \in (Len(b) + 1)..(Len(b) + Len(q))
          /\ Len(b) + Len(q) \in (Len(b) + 1)..(Len(b) + Len(q))
      BY <1>1, <3>1
    <3>3. SubSeq(b \o q, Len(b) + 1, Len(b) + Len(q))
            = SubSeq(q, Len(b) + 1 - Len(b), Len(b) + Len(q) - Len(b))
      BY <3>2, SubSeqOfConcat2
    <3>4. Len(b) + 1 - Len(b) = 1 /\ Len(b) + Len(q) - Len(b) = Len(q)
      BY <1>1
    <3>. QED
      BY <3>3, <3>4, <1>2, SubSeqFull
  <2>. QED
    BY <2>1, <2>2
<1>. QED
  BY <1>1, <1>2, <1>3, <1>4

----------------------------------------------------------------------------
\* What every step is proved to preserve, one conjunct at a time.
USE PipelineAssumption DEF PipelineAssumption

----------------------------------------------------------------------------
(* Type correctness. *)

LEMMA AttemptsType == Attempts \in Nat /\ Attempts >= 1
BY DEF Attempts

\* The number of the next event is an event's number.
LEMMA NextId == TypeOK => emitted + 1 \in EventId
BY DEF TypeOK, EventId

LEMMA InitTypeOK == Init => TypeOK
<1>1. <<>> \in Seq(EventId) /\ 0 \in 0..(Attempts - 1)
  BY EmptySeq, AttemptsType
<1>2. "none" \in WorkerPCs /\ "new" \in OwnerPCs
  BY DEF WorkerPCs, OwnerPCs
<1>3. Init => final \in BOOLEAN
  BY DEF Init
<1>4. Init => /\ queue \in Seq(EventId) /\ batch \in Seq(EventId)
              /\ accepted \in Seq(EventId) /\ settled \in Seq(EventId)
  BY <1>1 DEF Init
<1>5. Init => /\ attempt \in 0..(Attempts - 1)
              /\ wpc \in WorkerPCs /\ mpc \in OwnerPCs
  BY <1>1, <1>2 DEF Init
<1>6. Init => /\ refused \in Nat /\ emitted \in Nat /\ inflight \in Nat
              /\ droppedEvents \in Nat /\ savedEvents \in Nat
              /\ stops \in Nat /\ stopMark \in Nat
              /\ stopEvent \in {"none", "clear", "set"}
              /\ posted \in {"no", "queued", "ran"}
  BY DEF Init
<1>. QED
  BY <1>3, <1>4, <1>5, <1>6 DEF TypeOK

\* Every step keeps the types; the retry counter needs SaveRaisesRetry's guard
\* to be an invariant of the backoff, hence BackoffHasRetry.
LEMMA NextTypeOK ==
    ASSUME TypeOK, BackoffHasRetry, [Next]_vars
    PROVE  TypeOK' /\ BackoffHasRetry'
<1> USE DEF vars, queueVars, flushVars, stopVars, WorkerGoes
<1>0. Attempts \in Nat /\ Attempts >= 1
  BY AttemptsType
<1>1. CASE Emit
  <2>1. emitted' \in Nat /\ refused + 1 \in Nat
    BY <1>1 DEF Emit, TypeOK
  <2>2. /\ Append(queue, emitted + 1) \in Seq(EventId)
        /\ Append(accepted, emitted + 1) \in Seq(EventId)
    BY NextId, AppendProperties DEF TypeOK
  <2>3. queue' \in Seq(EventId) /\ accepted' \in Seq(EventId) /\ refused' \in Nat
    BY <1>1, <2>1, <2>2 DEF Emit, EmitAccepted, EmitRefused, TypeOK
  <2>4. UNCHANGED <<flushVars, stopVars, final, wpc, mpc>>
    BY <1>1 DEF Emit
  <2>. QED
    BY <2>1, <2>3, <2>4 DEF TypeOK, BackoffHasRetry
<1>2. CASE Owner
  <2>1. CASE Start \/ StartReturns \/ StartTimesOut
    BY <2>1, ZenonT(30) DEF Start, StartReturns, StartTimesOut, TypeOK, BackoffHasRetry,
       OwnerPCs, WorkerPCs
  <2>2. CASE CallStop
    BY <2>2 DEF CallStop, TypeOK, BackoffHasRetry, OwnerPCs
  <2>3. CASE PostStop
    <3>1. Len(accepted) \in Nat
      BY LenProperties DEF TypeOK
    <3>. QED
      BY <2>3, <3>1 DEF PostStop, TypeOK, BackoffHasRetry, OwnerPCs
  <2>4. CASE PostStopRaises \/ JoinReturns
    BY <2>4 DEF PostStopRaises, JoinReturns, TypeOK, BackoffHasRetry, OwnerPCs
  <2>. QED
    BY <1>2, <2>1, <2>2, <2>3, <2>4 DEF Owner
<1>3. CASE WorkerStep
  <2>1. CASE CreateLoop \/ CreateStopEvent \/ InitializeReturns \/ InitializeRaises
             \/ CheckStop \/ DrainEnds \/ FinalDrainEnds \/ SleepEnds \/ CloseStore \/ CloseLoop
    BY <2>1 DEF CreateLoop, CreateStopEvent, InitializeReturns, InitializeRaises,
       CheckStop, DrainEnds, FinalDrainEnds, SleepEnds, CloseStore, CloseLoop,
       TypeOK, BackoffHasRetry, WorkerPCs
  <2>2. CASE DrainOne \/ FinalDrainOne
    <3>1. queue # <<>> =>
            Append(batch, Head(queue)) \in Seq(EventId) /\ Tail(queue) \in Seq(EventId)
      BY MoveHead DEF TypeOK
    <3>. QED
      BY <2>2, <3>1 DEF DrainOne, FinalDrainOne, TakeOne, TypeOK, BackoffHasRetry
  <2>3. CASE BeginFlush
    <3>1. Len(batch) \in Nat
      BY LenProperties DEF TypeOK
    <3>. QED
      BY <1>0, <2>3, <3>1 DEF BeginFlush, TypeOK, BackoffHasRetry, WorkerPCs
  <2>4. CASE SaveReturns \/ SaveRaisesDrop
    <3>1. Len(batch) \in Nat /\ settled \o batch \in Seq(EventId) /\ <<>> \in Seq(EventId)
      BY LenProperties, ConcatProperties, EmptySeq DEF TypeOK
    <3>2. FlushEnds
      BY <2>4 DEF SaveReturns, SaveRaisesDrop
    <3>3. wpc' \in {"closing", "sleep"}
      BY <3>2 DEF FlushEnds
    <3>4. savedEvents' \in Nat /\ droppedEvents' \in Nat
      BY <2>4, <3>1 DEF SaveReturns, SaveRaisesDrop, TypeOK
    <3>5. /\ settled' = settled \o batch /\ batch' = <<>>
          /\ inflight' = 0 /\ attempt' = 0
          /\ UNCHANGED <<queueVars, stopVars, final, mpc>>
      BY <3>2 DEF FlushEnds
    <3>. QED
      BY <1>0, <3>1, <3>3, <3>4, <3>5 DEF TypeOK, BackoffHasRetry, WorkerPCs
  <2>5. CASE SaveRaisesRetry
    BY <2>5 DEF SaveRaisesRetry, TypeOK, BackoffHasRetry, WorkerPCs
  <2>6. CASE BackoffEnds
    BY <1>0, <2>6 DEF BackoffEnds, TypeOK, BackoffHasRetry, WorkerPCs
  <2>. QED
    BY <1>3, <2>1, <2>2, <2>3, <2>4, <2>5, <2>6 DEF WorkerStep
<1>4. CASE RunStopCallback
  BY <1>4 DEF RunStopCallback, TypeOK, BackoffHasRetry
<1>5. CASE ProcessExits
  BY <1>5 DEF ProcessExits, TypeOK, BackoffHasRetry, OwnerPCs
<1>6. CASE UNCHANGED vars
  BY <1>6 DEF TypeOK, BackoffHasRetry
<1>. QED
  BY <1>1, <1>2, <1>3, <1>4, <1>5, <1>6 DEF Next

\* The pipeline's variables keep their types, and `attempt` stays an index of
\* range(max(1, max_retries)), for every configuration.
THEOREM TypeCorrect == Spec => []TypeOK
<1>1. Init => TypeOK /\ BackoffHasRetry
  BY InitTypeOK DEF Init, BackoffHasRetry
<1>2. TypeOK /\ BackoffHasRetry /\ [Next]_vars => (TypeOK /\ BackoffHasRetry)'
  BY NextTypeOK
<1>. QED
  BY <1>1, <1>2, PTL DEF Spec

----------------------------------------------------------------------------
(* What a step can do to the events: nothing, or one of three moves. *)

NothingMoves == UNCHANGED <<queueVars, batch, settled, savedEvents, droppedEvents>>

BatchSettles ==
    /\ settled' = settled \o batch /\ batch' = <<>>
    /\ UNCHANGED queueVars
    /\ \/ savedEvents' = savedEvents + Len(batch) /\ UNCHANGED droppedEvents
       \/ droppedEvents' = droppedEvents + Len(batch) /\ UNCHANGED savedEvents

LEMMA FourKindsOfStep ==
    ASSUME [Next]_vars
    PROVE  \/ NothingMoves
           \/ Emit
           \/ TakeOne /\ (DrainOne \/ FinalDrainOne)
           \/ BatchSettles /\ FlushEnds /\ wpc = "saving" /\ Running
<1> USE DEF vars, queueVars, flushVars, NothingMoves
<1>1. CASE Emit
  BY <1>1
<1>2. CASE Owner
  BY <1>2 DEF Owner, Start, StartReturns, StartTimesOut, CallStop, PostStop,
     PostStopRaises, JoinReturns
<1>3. CASE WorkerStep /\ Running
  <2>1. CASE DrainOne \/ FinalDrainOne
    BY <2>1 DEF DrainOne, FinalDrainOne
  <2>2. CASE SaveReturns \/ SaveRaisesDrop
    BY <1>3, <2>2 DEF SaveReturns, SaveRaisesDrop, FlushEnds, BatchSettles
  <2>3. CASE CreateLoop \/ CreateStopEvent \/ InitializeReturns \/ InitializeRaises
             \/ CheckStop \/ DrainEnds \/ FinalDrainEnds \/ BeginFlush
             \/ SaveRaisesRetry \/ BackoffEnds \/ SleepEnds \/ CloseStore \/ CloseLoop
    BY <2>3 DEF CreateLoop, CreateStopEvent, InitializeReturns, InitializeRaises,
       CheckStop, DrainEnds, FinalDrainEnds, BeginFlush, SaveRaisesRetry, BackoffEnds,
       SleepEnds, CloseStore, CloseLoop
  <2>. QED
    BY <1>3, <2>1, <2>2, <2>3 DEF WorkerStep
<1>4. CASE RunStopCallback
  BY <1>4 DEF RunStopCallback
<1>5. CASE ProcessExits
  BY <1>5 DEF ProcessExits
<1>6. CASE UNCHANGED vars
  BY <1>6
<1>. QED
  BY <1>1, <1>2, <1>3, <1>4, <1>5, <1>6 DEF Next, Running

----------------------------------------------------------------------------
(* Delivery in order, and the accounts. *)

LEMMA NextFIFO ==
    ASSUME TypeOK, FIFODelivery, [Next]_vars
    PROVE  FIFODelivery'
<1>0. /\ settled \in Seq(EventId) /\ batch \in Seq(EventId) /\ queue \in Seq(EventId)
      /\ settled \o batch \in Seq(EventId)
  BY ConcatProperties DEF TypeOK
<1>1. CASE NothingMoves
  BY <1>1 DEF NothingMoves, queueVars, FIFODelivery
<1>2. CASE Emit
  <2>1. emitted + 1 \in EventId
    BY NextId
  <2>2. (settled \o batch) \o Append(queue, emitted + 1)
          = Append((settled \o batch) \o queue, emitted + 1)
    BY <1>0, <2>1, AppendAtEnd
  <2>. QED
    BY <1>2, <2>2 DEF Emit, EmitAccepted, EmitRefused, FIFODelivery, flushVars
<1>3. CASE TakeOne
  <2>1. queue # <<>> /\ batch' = Append(batch, Head(queue)) /\ queue' = Tail(queue)
        /\ UNCHANGED <<accepted, settled>>
    BY <1>3 DEF TakeOne
  <2>2. batch' \o queue' = batch \o queue /\ batch' \in Seq(EventId) /\ queue' \in Seq(EventId)
    BY <1>0, <2>1, MoveHead, SMTT(30)
  <2>3. Associates(settled, batch', queue') /\ Associates(settled, batch, queue)
    BY <1>0, <2>2, ConcatAssociates
  <2>. QED
    BY <2>1, <2>2, <2>3 DEF Associates, FIFODelivery
<1>4. CASE BatchSettles
  <2>1. (settled \o batch) \o <<>> = settled \o batch
    BY <1>0, ConcatEmptySeq
  <2>. QED
    BY <1>4, <2>1 DEF BatchSettles, queueVars, FIFODelivery
<1>. QED
  BY <1>1, <1>2, <1>3, <1>4, FourKindsOfStep

LEMMA NextAccounted ==
    ASSUME TypeOK, EveryEventAccounted, [Next]_vars
    PROVE  EveryEventAccounted'
<1>0. /\ Len(batch) \in Nat /\ Len(queue) \in Nat /\ emitted \in Nat
      /\ refused \in Nat /\ droppedEvents \in Nat /\ savedEvents \in Nat
  BY LenProperties DEF TypeOK
<1>1. CASE NothingMoves
  BY <1>1 DEF NothingMoves, queueVars, EveryEventAccounted
<1>2. CASE Emit
  <2>1. Len(Append(queue, emitted + 1)) = Len(queue) + 1
    BY NextId, AppendProperties DEF TypeOK
  <2>. QED
    BY <1>0, <1>2, <2>1, SMTT(30)
       DEF Emit, EmitAccepted, EmitRefused, flushVars, EveryEventAccounted
<1>3. CASE TakeOne
  <2>1. queue # <<>> /\ batch' = Append(batch, Head(queue)) /\ queue' = Tail(queue)
        /\ UNCHANGED <<emitted, refused, droppedEvents, savedEvents>>
    BY <1>3 DEF TakeOne
  <2>2. Len(batch') = Len(batch) + 1 /\ Len(queue') = Len(queue) - 1
    BY <2>1, MoveHead DEF TypeOK
  <2>. QED
    BY <1>0, <2>1, <2>2 DEF EveryEventAccounted
<1>4. CASE BatchSettles
  <2>1. Len(<<>>) = 0
    BY EmptySeq
  <2>. QED
    BY <1>0, <1>4, <2>1 DEF BatchSettles, queueVars, EveryEventAccounted
<1>. QED
  BY <1>1, <1>2, <1>3, <1>4, FourKindsOfStep

\* Nothing enqueue accepted is lost, duplicated or reordered on its way
\* through the queue, the worker's batch and the settled events.
THEOREM DeliveryIsFIFO == Spec => []FIFODelivery
<1>1. Init => FIFODelivery
  <2>1. (<<>> \o <<>>) \o <<>> = <<>>
    BY EmptySeq, ConcatEmptySeq
  <2>. QED
    BY <2>1 DEF Init, FIFODelivery
<1>2. TypeOK /\ FIFODelivery /\ [Next]_vars => FIFODelivery'
  BY NextFIFO
<1>. QED
  BY <1>1, <1>2, TypeCorrect, PTL DEF Spec

\* The drop counters, the saved events and the unsettled ones always add up to
\* the events emitted.
THEOREM EventsAccounted == Spec => []EveryEventAccounted
<1>1. Init => EveryEventAccounted
  BY EmptySeq DEF Init, EveryEventAccounted
<1>2. TypeOK /\ EveryEventAccounted /\ [Next]_vars => EveryEventAccounted'
  BY NextAccounted
<1>. QED
  BY <1>1, <1>2, TypeCorrect, PTL DEF Spec

----------------------------------------------------------------------------
(* The bounded backlog. *)

LEMMA NextBounded ==
    ASSUME TypeOK, BoundedBacklog, FinalAfterStop, [Next]_vars
    PROVE  BoundedBacklog'
<1>0. Len(batch) \in Nat /\ Len(queue) \in Nat /\ Len(<<>>) = 0
  BY LenProperties, EmptySeq DEF TypeOK
<1>f. final => final'
  <2>1. CASE WorkerStep
    BY <2>1 DEF WorkerStep, CreateLoop, CreateStopEvent, InitializeReturns,
       InitializeRaises, CheckStop, DrainOne, DrainEnds, FinalDrainOne, FinalDrainEnds,
       TakeOne, BeginFlush, SaveReturns, SaveRaisesDrop, FlushEnds, SaveRaisesRetry,
       BackoffEnds, SleepEnds, CloseStore, CloseLoop
  <2>2. CASE Emit \/ Owner \/ RunStopCallback \/ ProcessExits \/ UNCHANGED vars
    BY <2>2 DEF Emit, Owner, Start, StartReturns, StartTimesOut, CallStop, PostStop,
       PostStopRaises, JoinReturns, RunStopCallback, ProcessExits, vars
  <2>. QED
    BY <2>1, <2>2 DEF Next
<1>1. CASE NothingMoves
  BY <1>1, <1>f DEF NothingMoves, queueVars, BoundedBacklog
<1>2. CASE Emit
  <2>1. Len(Append(queue, emitted + 1)) = Len(queue) + 1
    BY NextId, AppendProperties DEF TypeOK
  <2>. QED
    BY <1>0, <1>2, <1>f, <2>1 DEF Emit, EmitAccepted, EmitRefused, Full, flushVars, BoundedBacklog
<1>3. CASE TakeOne /\ (DrainOne \/ FinalDrainOne)
  <2>1. queue # <<>> /\ batch' = Append(batch, Head(queue)) /\ queue' = Tail(queue)
        /\ UNCHANGED final
    BY <1>3 DEF TakeOne
  <2>2. Len(batch') = Len(batch) + 1 /\ Len(queue') = Len(queue) - 1
    BY <2>1, MoveHead DEF TypeOK
  <2>3. final \/ Len(batch) < BatchSize
    BY <1>3 DEF DrainOne, FinalDrainOne, FinalAfterStop
  <2>. QED
    BY <1>0, <2>1, <2>2, <2>3 DEF BoundedBacklog
<1>4. CASE BatchSettles
  BY <1>0, <1>4, <1>f DEF BatchSettles, queueVars, BoundedBacklog
<1>. QED
  BY <1>1, <1>2, <1>3, <1>4, FourKindsOfStep

----------------------------------------------------------------------------
(* The stop. *)

LEMMA NextFlushHasBatch ==
    ASSUME TypeOK, FlushHasBatch, [Next]_vars
    PROVE  FlushHasBatch'
<1> USE DEF FlushHasBatch, vars, flushVars, WorkerGoes
<1>1. CASE Emit \/ Owner \/ RunStopCallback \/ ProcessExits \/ UNCHANGED vars
  BY <1>1 DEF Emit, Owner, Start, StartReturns, StartTimesOut, CallStop, PostStop,
     PostStopRaises, JoinReturns, RunStopCallback, ProcessExits
<1>2. CASE WorkerStep
  <2>1. CASE DrainOne \/ FinalDrainOne
    BY <2>1 DEF DrainOne, FinalDrainOne, TakeOne
  <2>2. CASE SaveReturns \/ SaveRaisesDrop
    BY <2>2 DEF SaveReturns, SaveRaisesDrop, FlushEnds
  <2>3. CASE CreateLoop \/ CreateStopEvent \/ InitializeReturns \/ InitializeRaises
             \/ CheckStop \/ DrainEnds \/ FinalDrainEnds \/ BeginFlush
             \/ SaveRaisesRetry \/ BackoffEnds \/ SleepEnds \/ CloseStore \/ CloseLoop
    BY <2>3 DEF CreateLoop, CreateStopEvent, InitializeReturns, InitializeRaises,
       CheckStop, DrainEnds, FinalDrainEnds, BeginFlush, SaveRaisesRetry, BackoffEnds,
       SleepEnds, CloseStore, CloseLoop
  <2>. QED
    BY <1>2, <2>1, <2>2, <2>3 DEF WorkerStep
<1>. QED
  BY <1>1, <1>2 DEF Next

LEMMA NextFinalAfterStop ==
    ASSUME TypeOK, FinalAfterStop, [Next]_vars
    PROVE  FinalAfterStop'
<1> USE DEF FinalAfterStop, vars, stopVars, WorkerGoes
<1>1. CASE Emit
  BY <1>1 DEF Emit
<1>2. CASE Owner
  <2>1. CASE Start
    BY <2>1 DEF Start
  <2>2. CASE StartReturns \/ StartTimesOut \/ CallStop \/ PostStop \/ PostStopRaises \/ JoinReturns
    BY <2>2 DEF StartReturns, StartTimesOut, CallStop, PostStop, PostStopRaises, JoinReturns
  <2>. QED
    BY <1>2, <2>1, <2>2 DEF Owner
<1>3. CASE WorkerStep
  <2>1. CASE CheckStop
    BY <2>1 DEF CheckStop
  <2>2. CASE DrainOne \/ FinalDrainOne
    BY <2>2 DEF DrainOne, FinalDrainOne, TakeOne
  <2>3. CASE SaveReturns \/ SaveRaisesDrop
    BY <2>3 DEF SaveReturns, SaveRaisesDrop, FlushEnds
  <2>4. CASE CreateLoop \/ CreateStopEvent \/ InitializeReturns \/ InitializeRaises
    BY <2>4 DEF CreateLoop, CreateStopEvent, InitializeReturns, InitializeRaises
  <2>5. CASE DrainEnds \/ FinalDrainEnds \/ BeginFlush \/ SaveRaisesRetry
    BY <2>5 DEF DrainEnds, FinalDrainEnds, BeginFlush, SaveRaisesRetry
  <2>6. CASE BackoffEnds \/ SleepEnds \/ CloseStore \/ CloseLoop
    BY <2>6 DEF BackoffEnds, SleepEnds, CloseStore, CloseLoop
  <2>. QED
    BY <1>3, <2>1, <2>2, <2>3, <2>4, <2>5, <2>6 DEF WorkerStep
<1>4. CASE RunStopCallback
  BY <1>4 DEF RunStopCallback, Awaiting
<1>5. CASE ProcessExits \/ UNCHANGED vars
  BY <1>5 DEF ProcessExits
<1>. QED
  BY <1>1, <1>2, <1>3, <1>4, <1>5 DEF Next

\* Under FIFO delivery the settled events and the batch are all that was
\* accepted once the queue is empty.
LEMMA EmptyQueueCovers ==
    ASSUME TypeOK, FIFODelivery
    PROVE  /\ Len(accepted) = Len(settled) + Len(batch) + Len(queue)
           /\ Len(accepted) \in Nat /\ Len(settled) \in Nat
           /\ Len(batch) \in Nat /\ Len(queue) \in Nat
           /\ Len(settled \o batch) = Len(settled) + Len(batch)
           /\ Len(<<>>) = 0
<1>1. /\ Len(accepted) \in Nat /\ Len(settled) \in Nat
      /\ Len(batch) \in Nat /\ Len(queue) \in Nat
  BY LenProperties DEF TypeOK
<1>2. settled \o batch \in Seq(EventId) /\ Len(settled \o batch) = Len(settled) + Len(batch)
  BY ConcatProperties DEF TypeOK
<1>3. Len((settled \o batch) \o queue) = Len(settled \o batch) + Len(queue)
  BY <1>2, ConcatProperties DEF TypeOK
<1>. QED
  BY <1>1, <1>2, <1>3, EmptySeq DEF FIFODelivery

StopInv == FinalBatchCovers /\ GracefulStopFlushes

LEMMA NextStop ==
    ASSUME TypeOK, FIFODelivery, FlushHasBatch, FinalAfterStop, StopInv, [Next]_vars
    PROVE  StopInv'
<1> USE DEF StopInv, FinalBatchCovers, GracefulStopFlushes, vars, queueVars, flushVars,
            stopVars, WorkerGoes
<1>0. /\ Len(accepted) = Len(settled) + Len(batch) + Len(queue)
      /\ Len(accepted) \in Nat /\ Len(settled) \in Nat
      /\ Len(batch) \in Nat /\ Len(queue) \in Nat
      /\ Len(settled \o batch) = Len(settled) + Len(batch)
      /\ Len(<<>>) = 0 /\ stopMark \in Nat
  BY EmptyQueueCovers DEF TypeOK
<1>1. CASE Emit
  <2>1. Len(Append(accepted, emitted + 1)) = Len(accepted) + 1
    BY NextId, AppendProperties DEF TypeOK
  <2>. QED
    BY <1>0, <1>1, <2>1 DEF Emit, EmitAccepted, EmitRefused
<1>2. CASE Owner
  <2>1. CASE Start
    BY <2>1 DEF Start
  <2>2. CASE StartReturns \/ StartTimesOut \/ CallStop \/ PostStopRaises \/ JoinReturns
    BY <2>2 DEF StartReturns, StartTimesOut, CallStop, PostStopRaises, JoinReturns
  <2>3. CASE PostStop
    <3>1. final => posted # "no"
      BY DEF FinalAfterStop
    <3>2. CASE posted = "no"
      BY <1>0, <2>3, <3>1, <3>2 DEF PostStop
    <3>3. CASE posted # "no"
      BY <2>3, <3>3 DEF PostStop
    <3>. QED
      BY <3>2, <3>3
  <2>. QED
    BY <1>2, <2>1, <2>2, <2>3 DEF Owner
<1>3. CASE WorkerStep
  <2>1. CASE CheckStop
    BY <2>1 DEF CheckStop
  <2>2. CASE DrainOne \/ FinalDrainOne
    BY <2>2 DEF DrainOne, FinalDrainOne, TakeOne
  <2>3. CASE SaveReturns \/ SaveRaisesDrop
    <3>1. /\ wpc = "saving" /\ Len(settled') = Len(settled) + Len(batch)
          /\ wpc' \in {"closing", "sleep"}
          /\ UNCHANGED <<accepted, stopMark, final>>
      BY <1>0, <2>3 DEF SaveReturns, SaveRaisesDrop, FlushEnds
    <3>. QED
      BY <1>0, <3>1
  <2>4. CASE CreateLoop \/ CreateStopEvent \/ InitializeReturns \/ InitializeRaises
    BY <2>4 DEF CreateLoop, CreateStopEvent, InitializeReturns, InitializeRaises, FinalAfterStop
  <2>5. CASE DrainEnds
    BY <2>5 DEF DrainEnds, FinalAfterStop
  <2>6. CASE FinalDrainEnds
    <3>1. /\ queue = <<>> /\ UNCHANGED <<accepted, settled, batch, stopMark, final>>
          /\ batch = <<>> => Len(batch) = 0
      BY <1>0, <2>6 DEF FinalDrainEnds
    <3>2. Len(queue) = 0
      BY <1>0, <3>1
    <3>3. IF batch = <<>> THEN wpc' = "closing" ELSE wpc' = "flush"
      BY <2>6 DEF FinalDrainEnds
    <3>. QED
      BY <1>0, <3>1, <3>2, <3>3
  <2>7. CASE BeginFlush \/ SaveRaisesRetry \/ BackoffEnds
    BY <2>7 DEF BeginFlush, SaveRaisesRetry, BackoffEnds
  <2>8. CASE SleepEnds \/ CloseStore \/ CloseLoop
    BY <2>8 DEF SleepEnds, CloseStore, CloseLoop
  <2>. QED
    BY <1>3, <2>1, <2>2, <2>3, <2>4, <2>5, <2>6, <2>7, <2>8 DEF WorkerStep
<1>4. CASE RunStopCallback
  BY <1>4 DEF RunStopCallback
<1>5. CASE ProcessExits \/ UNCHANGED vars
  BY <1>5 DEF ProcessExits
<1>. QED
  BY <1>1, <1>2, <1>3, <1>4, <1>5 DEF Next

----------------------------------------------------------------------------
(* The inductive invariant. *)

THEOREM InductiveInvariant == Spec => []IInv
<1>1. Init => IInv
  <2>1. Len(<<>>) = 0
    BY EmptySeq
  <2>2. Init => FIFODelivery
    <3>1. (<<>> \o <<>>) \o <<>> = <<>>
      BY EmptySeq, ConcatEmptySeq
    <3>. QED
      BY <3>1 DEF Init, FIFODelivery
  <2>3. Init => /\ EveryEventAccounted /\ BoundedBacklog /\ FlushHasBatch
                /\ BackoffHasRetry /\ FinalAfterStop
                /\ FinalBatchCovers /\ GracefulStopFlushes
    BY <2>1 DEF Init, EveryEventAccounted, BoundedBacklog, FlushHasBatch,
       BackoffHasRetry, FinalAfterStop, FinalBatchCovers, GracefulStopFlushes
  <2>. QED
    BY <2>2, <2>3, InitTypeOK DEF IInv
<1>2. IInv /\ [Next]_vars => IInv'
  BY NextTypeOK, NextFIFO, NextAccounted, NextBounded, NextFlushHasBatch,
     NextFinalAfterStop, NextStop DEF IInv, StopInv
<1>. QED
  BY <1>1, <1>2, PTL DEF Spec

\* The memory a client holds is bounded by the queue's size and one batch,
\* until a stop drains all there is.
THEOREM BacklogBounded == Spec => []BoundedBacklog
BY InductiveInvariant, PTL DEF IInv

\* When a worker that was stopped closes its store, every event accepted
\* before the stop was posted has been saved or dropped.
THEOREM StopFlushes == Spec => []GracefulStopFlushes
BY InductiveInvariant, PTL DEF IInv

----------------------------------------------------------------------------
(* The pipeline implements Delivery, its fairness apart. *)

\* Every initial state is one of Delivery's.
LEMMA InitRefines == Init => delivery!Init
<1>1. <<>> \o <<>> = <<>>
  BY EmptySeq, ConcatEmptySeq
<1>. QED
  BY <1>1 DEF Init, delivery!Init, Running

\* The pipeline, once closed, stays closed: no second start, no way back from
\* the end of the worker or of the process.
OpenPipeline == Running /\ wpc \notin {"ending", "dead"}

LEMMA NeverReopens ==
    ASSUME FinalAfterStop, [Next]_vars
    PROVE  OpenPipeline' => OpenPipeline
<1> USE DEF OpenPipeline, Running
<1>1. CASE Owner
  BY <1>1 DEF Owner, Start, StartReturns, StartTimesOut, CallStop, PostStop,
     PostStopRaises, JoinReturns, Next, FinalAfterStop
<1>2. CASE WorkerStep
  BY <1>2 DEF WorkerStep, CreateLoop, CreateStopEvent, InitializeReturns,
     InitializeRaises, CheckStop, DrainOne, DrainEnds, FinalDrainOne, FinalDrainEnds,
     TakeOne, BeginFlush, SaveReturns, SaveRaisesDrop, FlushEnds, SaveRaisesRetry,
     BackoffEnds, SleepEnds, CloseStore, CloseLoop, WorkerGoes
<1>3. CASE Emit \/ RunStopCallback \/ ProcessExits \/ UNCHANGED vars
  BY <1>3 DEF Emit, RunStopCallback, ProcessExits, vars
<1>. QED
  BY <1>1, <1>2, <1>3 DEF Next

\* Every step is a step of Delivery, or changes nothing of what it sees.
LEMMA NextRefines ==
    ASSUME IInv, [Next]_vars
    PROVE  [delivery!Next]_(delivery!vars)
<1> USE DEF delivery!vars, delivery!Next
<1>0. /\ TypeOK /\ FlushHasBatch /\ FinalAfterStop
      /\ settled \in Seq(EventId) /\ batch \in Seq(EventId) /\ queue \in Seq(EventId)
      /\ Len(batch) \in Nat /\ Len(queue) \in Nat
      /\ Len(batch \o queue) = Len(batch) + Len(queue)
  BY LenProperties, ConcatProperties DEF IInv, TypeOK
<1>1. CASE Emit
  <2>1. emitted + 1 \in EventId /\ emitted + 1 \in 1..MaxEvents
    BY <1>0, <1>1, NextId DEF Emit, TypeOK
  <2>2. UNCHANGED <<batch, settled, savedEvents, droppedEvents, OpenPipeline>>
    BY <1>1 DEF Emit, flushVars, Running, OpenPipeline
  <2>3. CASE EmitAccepted
    <3>1. batch \o Append(queue, emitted + 1) = Append(batch \o queue, emitted + 1)
      <4>1. /\ <<>> \o batch = batch /\ <<>> \in Seq(EventId)
        BY <1>0, EmptySeq, ConcatEmptySeq
      <4>2. (<<>> \o batch) \o Append(queue, emitted + 1)
              = Append((<<>> \o batch) \o queue, emitted + 1)
        BY <1>0, <2>1, <4>1, AppendAtEnd
      <4>. QED
        BY <4>1, <4>2
    <3>. QED
      BY <2>1, <2>2, <2>3, <3>1 DEF EmitAccepted, delivery!Accept, OpenPipeline
  <2>4. CASE EmitRefused
    <3>1. MaxSize > 0 /\ Len(batch \o queue) >= MaxSize
      BY <1>0, <2>4 DEF EmitRefused, Full
    <3>. QED
      BY <2>2, <2>4, <3>1 DEF EmitRefused, delivery!Refuse, OpenPipeline
  <2>. QED
    BY <1>1, <2>3, <2>4 DEF Emit
<1>2. CASE TakeOne /\ (DrainOne \/ FinalDrainOne)
  <2>1. queue # <<>> /\ batch' = Append(batch, Head(queue)) /\ queue' = Tail(queue)
        /\ UNCHANGED <<settled, savedEvents, droppedEvents, refused, OpenPipeline>>
    BY <1>2 DEF TakeOne, Running, OpenPipeline
  <2>2. batch' \o queue' = batch \o queue
    BY <1>0, <2>1, MoveHead, SMTT(30)
  <2>. QED
    BY <2>1, <2>2 DEF OpenPipeline
<1>3. CASE BatchSettles /\ FlushEnds /\ wpc = "saving" /\ Running
  <2>1. batch # <<>> /\ OpenPipeline /\ OpenPipeline'
    BY <1>0, <1>3 DEF FlushHasBatch, FlushEnds, Running, OpenPipeline
  <2>2. <<>> \o queue = queue
    BY <1>0, ConcatEmptySeq
  <2>3. /\ Len(batch) \in 1..Len(batch \o queue)
        /\ SubSeq(batch \o queue, 1, Len(batch)) = batch
        /\ SubSeq(batch \o queue, Len(batch) + 1, Len(batch \o queue)) = queue
    BY <1>0, <2>1, CutBacklog
  <2>. QED
    BY <1>3, <2>1, <2>2, <2>3 DEF BatchSettles, queueVars, delivery!Settle, OpenPipeline
<1>4. CASE NothingMoves
  <2>1. UNCHANGED <<batch \o queue, settled, savedEvents, droppedEvents, refused>>
    BY <1>4 DEF NothingMoves, queueVars
  <2>. QED
    BY <1>0, <2>1, NeverReopens DEF delivery!Close, OpenPipeline
<1>. QED
  BY <1>1, <1>2, <1>3, <1>4, FourKindsOfStep

\* For every configuration the pipeline is an implementation of Delivery's
\* safety part: what it does to the events, callers see as accepting, refusing
\* and settling the oldest ones.
THEOREM RefinesDelivery == Spec => DeliverySafety
<1>1. Init => delivery!Init
  BY InitRefines
<1>2. IInv /\ [Next]_vars => [delivery!Next]_(delivery!vars)
  BY NextRefines
<1>. QED
  BY <1>1, <1>2, InductiveInvariant, PTL DEF Spec, DeliverySafety

----------------------------------------------------------------------------
(* Polls of the events in flight: the theorem about InFlightPoll. *)

\* The poll's locals are numbers; what a poll that is half done has not counted
\* is at most the batch that was in the worker's hands when it began.
PollInv ==
    /\ ppc \in {"idle", "half"}
    /\ inQueue \in Nat /\ reading \in Nat /\ atStart \in Nat /\ stillOpen \in Nat
    /\ inflight <= Len(batch)
    /\ ppc = "half" /\ ~final /\ MaxSize > 0 =>
         /\ inQueue <= MaxSize
         /\ atStart - inQueue - Len(settled) <= OneBatch
    /\ PollOffByOneBatch

\* A poll leaves the pipeline alone, so the pipeline's invariant holds.
LEMMA PipelineUnderPolls == PollSpec => []IInv
<1>1. PollInit => Init
  BY DEF PollInit
<1>2. [PollNext]_allVars => [Next]_vars
  BY DEF PollNext, PollQueue, PollInflight, allVars
<1>. QED
  BY <1>1, <1>2, InductiveInvariant, PTL DEF PollSpec, Spec

LEMMA Lengths ==
    ASSUME IInv
    PROVE  /\ Len(settled) \in Nat /\ Len(batch) \in Nat /\ Len(queue) \in Nat
           /\ inflight \in Nat
           /\ Len(accepted) = Len(settled) + Len(batch) + Len(queue)
<1>1. /\ settled \in Seq(EventId) /\ batch \in Seq(EventId) /\ queue \in Seq(EventId)
      /\ accepted = (settled \o batch) \o queue /\ inflight \in Nat
  BY DEF IInv, TypeOK, FIFODelivery
<1>2. settled \o batch \in Seq(EventId) /\ Len(settled \o batch) = Len(settled) + Len(batch)
  BY <1>1, ConcatProperties
<1>3. Len((settled \o batch) \o queue) = Len(settled \o batch) + Len(queue)
  BY <1>1, <1>2, ConcatProperties
<1>. QED
  BY <1>1, <1>2, <1>3, LenProperties

\* The pipeline settles and never takes back, its last drain stays its last, and
\* the worker counts no more in flight than it holds.
LEMMA PipelineMoves ==
    ASSUME IInv, IInv', inflight <= Len(batch), [Next]_vars
    PROVE  /\ Len(settled') \in Nat /\ Len(settled') >= Len(settled)
           /\ final => final'
           /\ inflight' <= Len(batch')
<1> USE DEF vars, queueVars, flushVars, WorkerGoes
<1>0. /\ Len(settled) \in Nat /\ Len(batch) \in Nat /\ inflight \in Nat /\ Len(<<>>) = 0
      /\ settled \in Seq(EventId) /\ batch \in Seq(EventId) /\ queue \in Seq(EventId)
  BY Lengths, EmptySeq DEF IInv, TypeOK
<1>1. /\ final => final'
      /\ \/ UNCHANGED <<inflight, batch, settled>>
         \/ inflight' = Len(batch) /\ UNCHANGED <<batch, settled>>
         \/ inflight' = inflight /\ UNCHANGED settled /\ TakeOne
         \/ inflight' = 0 /\ settled' = settled \o batch /\ batch' = <<>>
  <2>1. CASE WorkerStep
    BY <2>1 DEF WorkerStep, CreateLoop, CreateStopEvent, InitializeReturns,
       InitializeRaises, CheckStop, DrainOne, DrainEnds, FinalDrainOne, FinalDrainEnds,
       TakeOne, BeginFlush, SaveReturns, SaveRaisesDrop, FlushEnds, SaveRaisesRetry,
       BackoffEnds, SleepEnds, CloseStore, CloseLoop
  <2>2. CASE Emit \/ Owner \/ RunStopCallback \/ ProcessExits \/ UNCHANGED vars
    BY <2>2 DEF Emit, Owner, Start, StartReturns, StartTimesOut, CallStop, PostStop,
       PostStopRaises, JoinReturns, RunStopCallback, ProcessExits
  <2>. QED
    BY <2>1, <2>2 DEF Next
<1>2. TakeOne => Len(batch') = Len(batch) + 1
  BY <1>0, MoveHead DEF TakeOne
<1>3. Len(settled \o batch) = Len(settled) + Len(batch)
  BY <1>0, ConcatProperties
<1>4. Len(settled') \in Nat
  <2>1. settled' \in Seq(EventId)
    BY DEF IInv, TypeOK
  <2>. QED
    BY <2>1, LenProperties
<1>. QED
  BY <1>0, <1>1, <1>2, <1>3, <1>4

LEMMA NextPollInv ==
    ASSUME IInv, IInv', PollInv, [PollNext]_allVars
    PROVE  PollInv'
<1>0. /\ Len(settled) \in Nat /\ Len(batch) \in Nat /\ Len(queue) \in Nat /\ inflight \in Nat
      /\ Len(accepted) = Len(settled) + Len(batch) + Len(queue)
      /\ MaxSize \in Int /\ OneBatch \in Nat
      /\ MaxSize > 0 => Len(queue) <= MaxSize
      /\ MaxSize > 0 /\ ~final => Len(batch) <= OneBatch
  <2>1. /\ Len(settled) \in Nat /\ Len(batch) \in Nat /\ Len(queue) \in Nat /\ inflight \in Nat
        /\ Len(accepted) = Len(settled) + Len(batch) + Len(queue)
    BY Lengths
  <2>2. BatchSize \in Int /\ MaxSize \in Int /\ OneBatch \in Nat
    BY DEF OneBatch
  <2>3. BoundedBacklog
    BY DEF IInv
  <2>. QED
    BY <2>1, <2>2, <2>3 DEF BoundedBacklog, OneBatch
<1>1. CASE UNCHANGED pollVars /\ [Next]_vars
  <2>1. /\ Len(settled') >= Len(settled) /\ (final => final')
        /\ inflight' <= Len(batch') /\ Len(settled') \in Nat
    BY <1>1, PipelineMoves DEF PollInv
  <2>. QED
    BY <1>0, <1>1, <2>1 DEF PollInv, PollOffByOneBatch, pollVars
<1>2. CASE PollQueue
  <2>1. /\ ppc' = "half" /\ inQueue' = Len(queue) /\ atStart' = Len(accepted)
        /\ reading' = 0 /\ stillOpen' = 0
        /\ UNCHANGED <<inflight, batch, settled, final>>
    BY <1>2 DEF PollQueue, vars, flushVars
  <2>2. atStart' - inQueue' - Len(settled) = Len(batch)
    BY <1>0, <2>1
  <2>3. PollOffByOneBatch'
    BY <2>1 DEF PollOffByOneBatch
  <2>. QED
    BY <1>0, <2>1, <2>2, <2>3 DEF PollInv
<1>3. CASE PollInflight
  <2>1. /\ ppc = "half" /\ ppc' = "idle" /\ reading' = inQueue + inflight /\ inQueue' = 0
        /\ stillOpen' = IF Len(settled) < atStart THEN atStart - Len(settled) ELSE 0
        /\ UNCHANGED <<atStart, inflight, batch, settled, final>>
    BY <1>3 DEF PollInflight, vars, flushVars
  <2>2. inQueue \in Nat /\ atStart \in Nat /\ inflight <= Len(batch)
    BY DEF PollInv
  <2>3. reading' \in Nat /\ stillOpen' \in Nat
    BY <1>0, <2>1, <2>2
  <2>4. PollOffByOneBatch'
    <3>1. SUFFICES ASSUME ~final, MaxSize > 0
                   PROVE  /\ stillOpen' - reading' <= OneBatch
                          /\ reading' <= MaxSize + OneBatch
      BY <2>1 DEF PollOffByOneBatch, OneBatch
    <3>2. inQueue <= MaxSize /\ atStart - inQueue - Len(settled) <= OneBatch
      BY <2>1, <3>1 DEF PollInv
    <3>. QED
      BY <1>0, <2>1, <2>2, <3>1, <3>2
  <2>. QED
    BY <2>1, <2>2, <2>3, <2>4 DEF PollInv
<1>. QED
  BY <1>1, <1>2, <1>3 DEF PollNext, allVars

\* Outside the last drain a poll of events_in_flight misses at most one batch of
\* the events that were unsettled throughout, and never exceeds a full queue and
\* one batch.
THEOREM PollIsOffByOneBatch == PollSpec => []PollOffByOneBatch
<1>1. PollInit /\ IInv => PollInv
  <2>1. SUFFICES ASSUME PollInit, IInv PROVE PollInv
    OBVIOUS
  <2>2. inflight = 0 /\ Len(batch) \in Nat
    BY <2>1, Lengths DEF PollInit, Init
  <2>3. OneBatch \in Nat /\ MaxSize \in Int
    BY DEF OneBatch
  <2>. QED
    BY <2>1, <2>2, <2>3 DEF PollInit, PollInv, PollOffByOneBatch
<1>2. IInv /\ IInv' /\ PollInv /\ [PollNext]_allVars => PollInv'
  BY NextPollInv
<1>3. PollInv => PollOffByOneBatch
  BY DEF PollInv
<1>. QED
  BY <1>1, <1>2, <1>3, PipelineUnderPolls, PTL DEF PollSpec
=============================================================================
