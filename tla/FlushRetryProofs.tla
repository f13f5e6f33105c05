-------------------------- MODULE FlushRetryProofs --------------------------
(* The theorems about FlushRetry and their proofs: for every number of         *)
(* attempts, backoff, budget and log window, whatever time saves take, the     *)
(* drop counter, the drop log and the callback agree, the log keeps its rate,  *)
(* the backoff keeps its budget and no batch is given up before its time.      *)
EXTENDS FlushRetry, FiniteSets, FiniteSetTheorems, FunctionTheorems, TLAPS

\* The powers of two count the subsets of 1..a, and one more element doubles
\* their number: every subset appears without it and with it.
LEMMA PowersOfTwo ==
    /\ 2^0 = 1
    /\ \A a \in Nat : 2^a \in Nat /\ 2^(a + 1) = 2 * 2^a
<1>1. \A a \in Nat : /\ IsFiniteSet(SUBSET (1..a)) /\ Cardinality(SUBSET (1..a)) = 2^a
                     /\ 2^a \in Nat
  <2>1. TAKE a \in Nat
  <2>2. IsFiniteSet(1..a) /\ Cardinality(1..a) = a
    BY FS_Interval
  <2>3. IsFiniteSet(SUBSET (1..a)) /\ Cardinality(SUBSET (1..a)) = 2^a
    BY <2>2, FS_SUBSET
  <2>. QED
    BY <2>3, FS_CardinalityType
<1>2. 2^0 = 1
  <2>1. SUBSET (1..0) = {{}}
    OBVIOUS
  <2>2. Cardinality({{}}) = 1
    BY FS_Singleton
  <2>. QED
    BY <1>1, <2>1, <2>2
<1>3. ASSUME NEW a \in Nat PROVE 2^(a + 1) = 2 * 2^a
  <2> DEFINE Without == SUBSET (1..a)
             x == a + 1
             With == {T \cup {x} : T \in Without}
             f == [T \in Without |-> T \cup {x}]
  <2>1. \A T \in Without : x \notin T
    OBVIOUS
  <2>2. f \in Bijection(Without, With)
    <3>1. f \in [Without -> With] /\ \A T \in With : \E U \in Without : f[U] = T
      OBVIOUS
    <3>2. ASSUME NEW T \in Without, NEW U \in Without, f[T] = f[U] PROVE T = U
      <4>1. T \cup {x} = U \cup {x}
        BY <3>2
      <4>2. \A y : y \in T <=> y \in U
        BY <2>1, <4>1
      <4>. QED
        BY <4>2
    <3>. QED
      BY <3>1, <3>2, Fun_IsBij
  <2>3. IsFiniteSet(With) /\ Cardinality(With) = Cardinality(Without)
    BY <1>1, <2>2, Fun_ExistsBij, FS_Bijection, ZenonT(30)
  <2>4. Without \cap With = {}
    BY <2>1
  <2>5. Without \cup With = SUBSET (1..(a + 1))
    <3>1. 1..(a + 1) = (1..a) \cup {x}
      OBVIOUS
    <3>2. ASSUME NEW T \in SUBSET ((1..a) \cup {x}) PROVE T \in Without \cup With
      <4>1. T \ {x} \in Without
        OBVIOUS
      <4>2. T = T \ {x} \/ T = (T \ {x}) \cup {x}
        OBVIOUS
      <4>. QED
        BY <4>1, <4>2
    <3>3. ASSUME NEW T \in Without \cup With PROVE T \in SUBSET ((1..a) \cup {x})
      BY <3>3
    <3>. QED
      BY <3>1, <3>2, <3>3
  <2>6. Cardinality(Without \cup With) = Cardinality(Without) + Cardinality(With)
    <3>1. Cardinality({}) = 0 /\ Cardinality(Without) \in Nat /\ Cardinality(With) \in Nat
      BY <1>1, <2>3, FS_EmptySet, FS_CardinalityType
    <3>. HIDE DEF Without, With
    <3>2. IsFiniteSet(Without) /\ IsFiniteSet(With)
      BY <1>1, <2>3 DEF Without
    <3>3. Cardinality(Without \cup With)
            = Cardinality(Without) + Cardinality(With) - Cardinality(Without \cap With)
      BY <3>2, FS_Union
    <3>4. Cardinality(Without \cap With) = 0
      BY <2>4, <3>1, Zenon
    <3>. QED
      BY <3>1, <3>3, <3>4
  <2>7. Cardinality(SUBSET (1..(a + 1))) = 2^(a + 1)
    <3>1. a + 1 \in Nat
      OBVIOUS
    <3>. QED
      BY <1>1, <3>1
  <2>8. PICK p \in Nat : p = 2^a /\ Cardinality(Without) = p
    BY <1>1
  <2>. HIDE DEF Without, With
  <2>9. Cardinality(Without \cup With) = 2 * p
    BY <2>3, <2>6, <2>8
  <2>. QED
    BY <2>5, <2>7, <2>8, <2>9
<1>. QED
  BY <1>1, <1>2, <1>3

----------------------------------------------------------------------------
USE FlushAssumption DEF FlushAssumption

LEMMA ConfigTypes ==
    /\ Attempts \in Nat /\ Attempts >= 1 /\ 0 \in 0..(Attempts - 1)
    /\ Budget \in Nat /\ Window \in Nat
BY DEF Attempts, Budget, NonNegative

\* Every wait the jitter can give is a natural number.
LEMMA WaitsAreNat == ASSUME NEW a, NEW w \in Waits(a) PROVE w \in Nat
BY DEF Waits

\* The time waited between the attempts of a batch, after a retries: the band
\* that exponential backoff with its jitter gives.
InBand(time, a) ==
    /\ 10 * time >= 8 * Backoff * (2^a - 1)
    /\ 10 * time <= 12 * Backoff * (2^a - 1)

LEMMA BandStarts == InBand(0, 0)
<1>1. PICK one \in Nat, b \in Nat : one = 1 /\ 2^0 = one /\ b = Backoff
  BY PowersOfTwo DEF Backoff, NonNegative
<1>2. 8 * b * (one - 1) = 0 /\ 12 * b * (one - 1) = 0
  BY <1>1
<1>. QED
  BY <1>1, <1>2 DEF InBand

\* One more wait leads from one band to the next.
LEMMA BandGrows ==
    ASSUME NEW a \in Nat, NEW time \in Nat, NEW w \in Waits(a), InBand(time, a)
    PROVE  InBand(time + w, a + 1)
<1>1. PICK b \in Nat, q \in Nat : b = Backoff /\ q = 2^a /\ 2^(a + 1) = 2 * q
  BY PowersOfTwo DEF Backoff, NonNegative
<1>2. PICK m \in Nat : m = b * q
  BY <1>1
<1>3. BaseWait(a) = m
  BY <1>1, <1>2 DEF BaseWait
<1>4. w \in Nat /\ 10 * w >= 8 * m /\ 10 * w <= 12 * m
  BY <1>3, WaitsAreNat DEF Waits, ShortestWait, LongestWait
<1>5. 10 * time >= 8 * m - 8 * b /\ 10 * time <= 12 * m - 12 * b
  <2>1. 8 * b * (q - 1) = 8 * m - 8 * b /\ 12 * b * (q - 1) = 12 * m - 12 * b
    BY <1>2
  <2>. QED
    BY <1>1, <2>1 DEF InBand
<1>6. 8 * b * (2 * q - 1) = 16 * m - 8 * b /\ 12 * b * (2 * q - 1) = 24 * m - 12 * b
  BY <1>2
<1>7. 10 * (time + w) >= 16 * m - 8 * b /\ 10 * (time + w) <= 24 * m - 12 * b
  BY <1>4, <1>5
<1>. QED
  BY <1>1, <1>6, <1>7 DEF InBand

\* A retry that waits has an attempt left, and its wait is one the jitter gives.
RetryInv ==
    /\ pc = "backoff" => attempt < Attempts - 1 /\ wait \in Waits(attempt)
    /\ pc # "backoff" => wait = 0
    /\ pc = "idle" => attempt = 0 /\ elapsed = 0

IInv == TypeOK /\ RetryInv /\ BackoffBudget /\ DropsReported /\ LogRate

----------------------------------------------------------------------------
LEMMA InitInv == Init => IInv
<1> SUFFICES ASSUME Init PROVE IInv
  OBVIOUS
<1>1. now \in Nat
  BY DEF Init
<1>2. TypeOK
  BY <1>1, ConfigTypes DEF Init, TypeOK
<1>3. RetryInv
  BY ConfigTypes DEF Init, RetryInv
<1>4. DropsReported /\ LogRate
  BY DEF Init, DropsReported, LogRate
<1>5. BackoffBudget
  BY BandStarts, ConfigTypes DEF Init, BackoffBudget, InBand
<1>. QED
  BY <1>2, <1>3, <1>4, <1>5 DEF IInv

\* Dropping the batch in hand keeps the counters, the log and the callback in
\* step, and the log at its rate.
LEMMA RecordDropInv ==
    ASSUME IInv, RecordDrop, now' \in Nat, n \in Nat
    PROVE  /\ DropsReported' /\ LogRate'
           /\ droppedEvents' \in Nat /\ sinceLog' \in Nat /\ lastLog' \in Nat
           /\ logged' \in Nat /\ told' \in Nat /\ lastDrop' \in Nat
           /\ prevLog' \in Nat
<1>0. /\ droppedEvents \in Nat /\ sinceLog \in Nat /\ lastLog \in Nat
      /\ logged \in Nat /\ told \in Nat /\ prevLog \in Nat
      /\ logged + sinceLog = droppedEvents /\ told = droppedEvents
      /\ Window \in Nat
      /\ prevLog > 0 => lastLog - prevLog >= Window
  BY ConfigTypes DEF IInv, TypeOK, DropsReported, LogRate
<1>1. PICK t \in Nat : t = now'
  OBVIOUS
<1>2. /\ droppedEvents' = droppedEvents + n /\ told' = told + n /\ lastDrop' = t
      /\ IF t - lastLog >= Window THEN WriteLog ELSE KeepForLog
  BY <1>1 DEF RecordDrop
<1>3. CASE t - lastLog >= Window
  <2>1. /\ logged' = logged + sinceLog + n /\ sinceLog' = 0 /\ lastLog' = t
        /\ prevLog' = lastLog
    BY <1>1, <1>2, <1>3 DEF WriteLog
  <2>2. lastLog' - prevLog' >= Window /\ ~(sinceLog' > 0)
    BY <1>0, <1>3, <2>1
  <2>3. LogRate'
    BY <2>2 DEF LogRate
  <2>. QED
    BY <1>0, <1>2, <2>1, <2>3 DEF DropsReported
<1>4. CASE t - lastLog < Window
  <2>1. ~(t - lastLog >= Window)
    BY <1>0, <1>4
  <2>2. sinceLog' = sinceLog + n /\ UNCHANGED <<logged, lastLog, prevLog>>
    BY <1>2, <2>1 DEF KeepForLog
  <2>3. lastDrop' - lastLog' < Window
    BY <1>0, <1>2, <1>4, <2>2
  <2>4. prevLog' > 0 => lastLog' - prevLog' >= Window
    BY <1>0, <2>2
  <2>5. LogRate'
    BY <2>3, <2>4 DEF LogRate
  <2>. QED
    BY <1>0, <1>2, <2>2, <2>5 DEF DropsReported
<1>. QED
  BY <1>0, <1>3, <1>4

LEMMA NextInv ==
    ASSUME IInv, [Next]_vars
    PROVE  IInv'
<1>0. TypeOK /\ RetryInv /\ BackoffBudget /\ DropsReported /\ LogRate
  BY DEF IInv
\* Where no wait begins or ends the band is kept, or starts again.
<1>1. ASSUME \/ UNCHANGED <<attempt, elapsed>> /\ wait' \in Nat /\ elapsed + wait' <= Budget
             \/ attempt' = 0 /\ elapsed' = 0 /\ wait' = 0
      PROVE  BackoffBudget'
  <2>1. InBand(elapsed, attempt)
    BY <1>0 DEF BackoffBudget, InBand
  <2>2. InBand(elapsed', attempt') /\ elapsed' + wait' <= Budget
    <3>1. CASE UNCHANGED <<attempt, elapsed>> /\ wait' \in Nat /\ elapsed + wait' <= Budget
      BY <2>1, <3>1
    <3>2. CASE attempt' = 0 /\ elapsed' = 0 /\ wait' = 0
      <4>1. elapsed' + wait' = 0
        BY <3>2
      <4>. QED
        BY <3>2, <4>1, BandStarts, ConfigTypes
    <3>. QED
      BY <1>1, <3>1, <3>2
  <2>. QED
    BY <2>2 DEF BackoffBudget, InBand, Backoff, Budget
<1>2. CASE Begin
  <2>1. now' \in Nat /\ n' \in BatchSizes /\ n' \in Nat
    BY <1>0, <1>2 DEF Begin, TypeOK
  <2>2. TypeOK' /\ RetryInv' /\ DropsReported' /\ LogRate'
    BY <1>0, <1>2, <2>1, ConfigTypes DEF Begin, TypeOK, RetryInv, DropsReported, LogRate, dropVars
  <2>3. BackoffBudget'
    BY <1>1, <1>2 DEF Begin
  <2>. QED
    BY <2>2, <2>3 DEF IInv
<1>3. CASE SaveReturns
  <2>1. now' \in Nat
    BY <1>0, <1>3 DEF SaveReturns, SaveTakes, TypeOK
  <2>2. TypeOK' /\ RetryInv' /\ DropsReported' /\ LogRate'
    BY <1>0, <1>3, <2>1, ConfigTypes DEF SaveReturns, FlushEnds, TypeOK, RetryInv,
       DropsReported, LogRate, dropVars
  <2>3. BackoffBudget'
    BY <1>1, <1>3 DEF SaveReturns, FlushEnds
  <2>. QED
    BY <2>2, <2>3 DEF IInv
<1>4. CASE SaveRaisesLast \/ SaveRaisesOverBudget
  <2>1. now' \in Nat /\ n \in Nat /\ GiveUp
    BY <1>0, <1>4 DEF SaveRaisesLast, SaveRaisesOverBudget, SaveTakes, TypeOK
  <2>2. /\ DropsReported' /\ LogRate'
        /\ droppedEvents' \in Nat /\ sinceLog' \in Nat /\ lastLog' \in Nat
        /\ logged' \in Nat /\ told' \in Nat /\ lastDrop' \in Nat
        /\ prevLog' \in Nat
    BY <2>1, RecordDropInv DEF GiveUp
  <2>3. /\ pc' = "idle"
        /\ n' = 0 /\ attempt' = 0 /\ elapsed' = 0 /\ wait' = 0
    BY <2>1 DEF GiveUp, FlushEnds
  <2>4. TypeOK' /\ RetryInv'
    BY <2>1, <2>2, <2>3, ConfigTypes DEF TypeOK, RetryInv
  <2>5. BackoffBudget'
    BY <1>1, <2>3
  <2>. QED
    BY <2>2, <2>4, <2>5 DEF IInv
<1>5. CASE SaveRaisesRetry
  <2>1. now' \in Nat
    BY <1>0, <1>5 DEF SaveRaisesRetry, SaveTakes, TypeOK
  <2>2. wait' \in Waits(attempt) /\ wait' \in Nat /\ elapsed + wait' <= Budget
    BY <1>5, WaitsAreNat DEF SaveRaisesRetry
  <2>3. pc = "saving" /\ attempt < Attempts - 1 /\ pc' = "backoff"
        /\ UNCHANGED <<n, attempt, elapsed, dropVars>>
    BY <1>5 DEF SaveRaisesRetry
  <2>4. RetryInv'
    BY <2>2, <2>3 DEF RetryInv, Waits, ShortestWait, LongestWait, BaseWait, Attempts, Backoff
  <2>5. TypeOK' /\ DropsReported' /\ LogRate'
    BY <1>0, <2>1, <2>2, <2>3 DEF TypeOK, DropsReported, LogRate, dropVars, Attempts
  <2>6. BackoffBudget'
    BY <1>1, <2>2, <2>3
  <2>. QED
    BY <2>4, <2>5, <2>6 DEF IInv
<1>6. CASE BackoffEnds
  <2>1. /\ now' = now + wait /\ elapsed' = elapsed + wait /\ attempt' = attempt + 1
        /\ pc = "backoff" /\ pc' = "saving" /\ wait' = 0 /\ UNCHANGED <<n, dropVars>>
    BY <1>6 DEF BackoffEnds
  <2>2. TypeOK' /\ RetryInv' /\ DropsReported' /\ LogRate'
    BY <1>0, <2>1, ConfigTypes DEF TypeOK, RetryInv, DropsReported, LogRate, dropVars, Attempts
  <2>3. InBand(elapsed', attempt')
    <3>1. attempt \in Nat /\ elapsed \in Nat /\ wait \in Waits(attempt) /\ InBand(elapsed, attempt)
      BY <1>0, <2>1 DEF TypeOK, RetryInv, BackoffBudget, InBand
    <3>. QED
      BY <2>1, <3>1, BandGrows
  <2>4. elapsed' + wait' <= Budget
    BY <1>0, <2>1 DEF BackoffBudget, TypeOK
  <2>5. BackoffBudget'
    BY <2>3, <2>4 DEF BackoffBudget, InBand, Backoff, Budget
  <2>. QED
    BY <2>2, <2>5 DEF IInv
<1>7. CASE UNCHANGED vars
  <2>1. TypeOK' /\ RetryInv' /\ DropsReported' /\ LogRate'
    BY <1>0, <1>7 DEF vars, flushVars, dropVars, TypeOK, RetryInv, DropsReported, LogRate,
       Attempts, Waits, ShortestWait, LongestWait, BaseWait, Backoff
  <2>2. BackoffBudget'
    BY <1>0, <1>7 DEF vars, flushVars, BackoffBudget, Backoff, Budget
  <2>. QED
    BY <2>1, <2>2 DEF IInv
<1>. QED
  BY <1>2, <1>3, <1>4, <1>5, <1>6, <1>7 DEF Next

THEOREM InductiveInvariant == Spec => []IInv
BY InitInv, NextInv, PTL DEF Spec

\* The locals of a flush and the drop counters keep their types: a batch in
\* flight is never empty and `attempt` is an index of range(max_retries).
THEOREM TypeCorrect == Spec => []TypeOK
BY InductiveInvariant, PTL DEF IInv

\* A batch never waits longer between its attempts than total_retry_budget_ms, and
\* after a retries between 0.8 and 1.2 times initial * (2^a - 1) (BackoffBudget).
THEOREM BackoffKeepsItsBudget == Spec => []BackoffBudget
BY InductiveInvariant, PTL DEF IInv

\* dropped_events_count, the drop log and on_dropped tell of the same events.
THEOREM DropsAreReported == Spec => []DropsReported
BY InductiveInvariant, PTL DEF IInv

\* Two lines of the drop log are a window apart, and only drops within a
\* window of the last line wait for the next one.
THEOREM LogKeepsItsRate == Spec => []LogRate
BY InductiveInvariant, PTL DEF IInv

\* A batch is dropped after its last attempt, or when a wait that was due did
\* not fit in the budget.
THEOREM DropsJustified == Spec => DropsAreJustified
<1> DEFINE Justified ==
      droppedEvents' > droppedEvents =>
         \/ attempt = Attempts - 1
         \/ elapsed + LongestWait(attempt) > Budget
<1>1. ASSUME IInv, Next
      PROVE  Justified
  <2>1. CASE SaveRaisesLast
    BY <1>1, <2>1, ConfigTypes DEF SaveRaisesLast, IInv, TypeOK
  <2>2. CASE SaveRaisesOverBudget
    <3>1. PICK w \in Waits(attempt) : elapsed + w > Budget
      BY <2>2 DEF SaveRaisesOverBudget
    <3>2. w <= LongestWait(attempt) /\ w \in Nat
      BY <3>1 DEF Waits
    <3>3. LongestWait(attempt) \in Int /\ elapsed \in Nat
      BY <1>1 DEF LongestWait, BaseWait, Backoff, NonNegative, IInv, TypeOK
    <3>. QED
      BY <3>1, <3>2, <3>3, ConfigTypes
  <2>3. CASE Begin \/ SaveReturns \/ SaveRaisesRetry \/ BackoffEnds
    BY <1>1, <2>3 DEF Begin, SaveReturns, SaveRaisesRetry, BackoffEnds, dropVars, IInv, TypeOK
  <2>. QED
    BY <1>1, <2>1, <2>2, <2>3 DEF Next
<1>2. IInv /\ [Next]_vars => [Justified]_vars
  BY <1>1
<1>. QED
  BY <1>2, InductiveInvariant, PTL DEF Spec, DropsAreJustified
=============================================================================
