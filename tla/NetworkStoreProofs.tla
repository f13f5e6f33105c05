-------------------------- MODULE NetworkStoreProofs --------------------------
(* The theorems about NetworkStore and their proofs: for any workers, servers,  *)
(* events, ids they repeat, batch sizes and attempts, whatever is lost, late or *)
(* repeated, what counts as saved was executed, no event is executed more often *)
(* than it was sent, and Postgres implements EventStore.                        *)
EXTENDS NetworkStore, FiniteSetTheorems, FunctionTheorems, WellFoundedInduction, TLAPS

USE NetworkAssumption DEF NetworkAssumption

Fates == {"new", "handed", "saved", "dropped", "lost"}

----------------------------------------------------------------------------
(* The inductive invariant. *)

\* A table of rows, each under its own key and handed over before.
HandedRows ==
    /\ rows \in [DOMAIN rows -> Events]
    /\ \A k \in DOMAIN rows : Key(rows[k]) = k /\ outcome[rows[k]] # "new"

\* A worker's batch is what was handed to it and is not settled.
BatchInHand ==
    /\ outcome \in [Events -> Fates] /\ batch \in [Workers -> SUBSET Events]
    /\ \A w \in Workers : \A e \in batch[w] : outcome[e] = "handed" /\ WorkerOf[e] = w
    /\ \A e \in Events : outcome[e] = "handed" => e \in batch[WorkerOf[e]]

\* What is under way was handed over; what was executed and reported as dropped
\* are events.
RequestsHanded ==
    /\ kind \in {"postgres", "remote"}
    /\ arrivals \in [Events -> Nat] /\ refused \subseteq Events
    /\ \A r \in requests :
         /\ r.worker \in Workers /\ r.events \subseteq Events
         /\ \A e \in r.events : outcome[e] # "new"

\* An event the service or the database took.
Taken(e) ==
    /\ arrivals[e] >= 1
    /\ Key(e) \in DOMAIN rows \/ (kind = "remote" /\ e \in refused)

\* The answer a worker waits for is the answer to the batch it holds.
AnswerIsOfBatch == \A w \in answered : w \in Workers /\ \A e \in batch[w] : Taken(e)

FatesInv == HandedRows /\ BatchInHand /\ RequestsHanded /\ AnswerIsOfBatch /\ SavedWasAnswered

\* A worker that neither sends nor waits holds nothing; one that has an answer waits.
HandsInv ==
    /\ wpc \in [Workers -> {"new", "migrating", "connecting", "idle", "sending", "waiting",
                            "ended"}]
    /\ \A w \in Workers : wpc[w] \notin {"sending", "waiting"} => batch[w] = {}
    /\ \A w \in answered : wpc[w] = "waiting"

IInv == FatesInv /\ HandsInv

----------------------------------------------------------------------------
(* ON CONFLICT DO NOTHING, and the steps of the workers. *)

LEMMA FirstIsFirst ==
    ASSUME NEW S, S \subseteq Events, S # {}
    PROVE  First(S) \in S /\ \A f \in S : First(S) <= f
<1> DEFINE Less == {p \in Nat \X Nat : p[1] < p[2]}
<1>1. IsWellFoundedOn(Less, Nat)
  BY NatLessThanWellFounded DEF OpToRel
<1>2. \A x, y \in Nat : <<y, x>> \in Less <=> y < x
  OBVIOUS
<1>. HIDE DEF Less
<1>3. PICK n \in S : \A m \in S : ~(<<m, n>> \in Less)
  BY <1>1, WFMin
<1>4. n \in Nat /\ \A m \in S : m \in Nat /\ ~(m < n)
  BY <1>2, <1>3
<1>5. \E k \in S : \A m \in S : k <= m
  BY <1>4
<1>. QED
  BY <1>5 DEF First

\* Insert adds the keys of S, with rows of S, and leaves every row alone.
LEMMA InsertOnlyAdds ==
    ASSUME HandedRows, NEW S, S \subseteq Events, \A e \in S : outcome[e] # "new"
    PROVE  LET new == Insert(S) IN
           /\ DOMAIN new = DOMAIN rows \cup {Key(e) : e \in S}
           /\ new \in [DOMAIN new -> Events]
           /\ \A k \in DOMAIN rows : new[k] = rows[k]
           /\ \A k \in DOMAIN new : Key(new[k]) = k /\ outcome[new[k]] # "new"
<1> DEFINE new == Insert(S)
           Same(k) == {e \in S : Key(e) = k}
<1>1. /\ DOMAIN new = DOMAIN rows \cup {Key(e) : e \in S}
      /\ new = [k \in DOMAIN new |-> new[k]]
      /\ \A k \in DOMAIN new : new[k] = IF k \in DOMAIN rows THEN rows[k] ELSE First(Same(k))
  BY DEF Insert
<1>2. \A k \in DOMAIN new \ DOMAIN rows :
         First(Same(k)) \in Events /\ Key(First(Same(k))) = k /\ outcome[First(Same(k))] # "new"
  <2>1. TAKE k \in DOMAIN new \ DOMAIN rows
  <2>2. Same(k) # {} /\ Same(k) \subseteq Events
    BY <1>1, <2>1
  <2>3. First(Same(k)) \in Same(k)
    BY <2>2, FirstIsFirst
  <2>. QED
    BY <2>3
<1> HIDE DEF new, Same
<1>3. \A k \in DOMAIN new : new[k] \in Events /\ Key(new[k]) = k /\ outcome[new[k]] # "new"
  BY <1>1, <1>2 DEF HandedRows
<1>4. new \in [DOMAIN new -> Events]
  BY <1>1, <1>3
<1>5. \A k \in DOMAIN rows : new[k] = rows[k]
  BY <1>1
<1>. QED
  BY <1>1, <1>3, <1>4, <1>5 DEF new

LEMMA InitInv == Init => IInv
<1> SUFFICES ASSUME Init PROVE IInv
  OBVIOUS
<1>1. HandedRows
  <2>1. DOMAIN rows = {} /\ rows = [k \in {} |-> 0]
    BY DEF Init
  <2>2. rows \in [DOMAIN rows -> Events]
    BY <2>1
  <2>. QED
    BY <2>1, <2>2 DEF HandedRows
<1>2. BatchInHand
  BY DEF Init, BatchInHand, Fates
<1>3. RequestsHanded /\ AnswerIsOfBatch
  BY DEF Init, RequestsHanded, AnswerIsOfBatch
<1>4. SavedWasAnswered
  BY DEF Init, SavedWasAnswered
<1>5. HandsInv
  BY DEF Init, HandsInv
<1>. QED
  BY <1>1, <1>2, <1>3, <1>4, <1>5 DEF IInv, FatesInv

\* The end of a flush: the batch's events get their fate.
LEMMA SettleFates ==
    ASSUME BatchInHand, NEW w \in Workers, NEW fate \in {"saved", "dropped", "lost"},
           Settle(w, fate)
    PROVE  /\ outcome' \in [Events -> Fates]
           /\ \A e \in Events : outcome'[e] = IF e \in batch[w] THEN fate ELSE outcome[e]
           /\ \A e \in Events : outcome[e] # "new" <=> outcome'[e] # "new"
           /\ batch' = [batch EXCEPT ![w] = {}] /\ answered' = answered \ {w}
           /\ BatchInHand'
<1>1. /\ \A e \in Events : outcome'[e] = IF e \in batch[w] THEN fate ELSE outcome[e]
      /\ outcome' \in [Events -> Fates]
      /\ batch' = [batch EXCEPT ![w] = {}] /\ answered' = answered \ {w}
  BY DEF BatchInHand, Settle, Fates
<1>2. \A e \in Events : outcome[e] # "new" <=> outcome'[e] # "new"
  BY <1>1 DEF BatchInHand
<1>3. batch' \in [Workers -> SUBSET Events]
  BY <1>1 DEF BatchInHand
<1>4. \A v \in Workers : batch'[v] = IF v = w THEN {} ELSE batch[v]
  BY <1>1 DEF BatchInHand
<1>5. \A v \in Workers : \A e \in batch'[v] : outcome'[e] = "handed" /\ WorkerOf[e] = v
  <2>1. TAKE v \in Workers
  <2>2. TAKE e \in batch'[v]
  <2>3. v # w /\ e \in batch[v] /\ e \in Events
    BY <1>3, <1>4, <2>1, <2>2
  <2>4. outcome[e] = "handed" /\ WorkerOf[e] = v
    BY <2>1, <2>3 DEF BatchInHand
  <2>5. \A x \in batch[w] : WorkerOf[x] = w
    BY DEF BatchInHand
  <2>6. e \notin batch[w]
    BY <2>3, <2>4, <2>5
  <2>. QED
    BY <1>1, <2>3, <2>4, <2>6
<1>6. \A e \in Events : outcome'[e] = "handed" => e \in batch'[WorkerOf[e]]
  <2>1. TAKE e \in Events
  <2>2. HAVE outcome'[e] = "handed"
  <2>3. e \notin batch[w] /\ outcome[e] = "handed"
    BY <1>1, <2>2
  <2>4. e \in batch[WorkerOf[e]] /\ WorkerOf[e] \in Workers
    BY <2>3 DEF BatchInHand
  <2>. QED
    BY <1>4, <2>3, <2>4
<1>. QED
  BY <1>1, <1>2, <1>3, <1>5, <1>6 DEF BatchInHand

\* A flush ends with any fate but "saved", or with "saved" after its answer.
LEMMA SettleInv ==
    ASSUME FatesInv, NEW w \in Workers, NEW fate \in {"saved", "dropped", "lost"}, Settle(w, fate),
           fate = "saved" => w \in answered,
           UNCHANGED <<kind, rows, requests, arrivals, refused>>
    PROVE  FatesInv'
<1>1. /\ outcome' \in [Events -> Fates] /\ BatchInHand'
      /\ \A e \in Events : outcome'[e] = IF e \in batch[w] THEN fate ELSE outcome[e]
      /\ \A e \in Events : outcome[e] # "new" <=> outcome'[e] # "new"
      /\ batch' = [batch EXCEPT ![w] = {}] /\ answered' = answered \ {w}
  BY SettleFates DEF FatesInv
<1>2. HandedRows'
  BY <1>1 DEF FatesInv, HandedRows, Key
<1>3. RequestsHanded'
  BY <1>1 DEF FatesInv, RequestsHanded
<1>4. \A e \in Events : Taken(e) => Taken(e)'
  BY DEF Taken, Key
<1>5. AnswerIsOfBatch'
  <2>1. \A v \in answered' : v \in Workers /\ v # w /\ v \in answered
    BY <1>1 DEF FatesInv, AnswerIsOfBatch
  <2>2. \A v \in answered' : batch'[v] = batch[v] /\ batch[v] \subseteq Events
    BY <1>1, <2>1 DEF FatesInv, BatchInHand
  <2>. QED
    BY <1>4, <2>1, <2>2 DEF FatesInv, AnswerIsOfBatch
<1>6. SavedWasAnswered'
  <2>1. SUFFICES ASSUME NEW e \in Events, outcome'[e] = "saved" PROVE Taken(e)'
    BY DEF SavedWasAnswered, Taken
  <2>2. Taken(e)
    <3>1. CASE e \in batch[w]
      BY <1>1, <2>1, <3>1 DEF FatesInv, AnswerIsOfBatch
    <3>2. CASE e \notin batch[w]
      BY <1>1, <2>1, <3>2 DEF FatesInv, SavedWasAnswered, Taken
    <3>. QED
      BY <3>1, <3>2
  <2>. QED
    BY <1>4, <2>2
<1>. QED
  BY <1>1, <1>2, <1>3, <1>5, <1>6 DEF FatesInv

\* A server executes a request: its events arrive, its rows are added.
LEMMA ArriveInv ==
    ASSUME FatesInv, NEW r \in requests, Arrive(r), NEW S \in SUBSET r.events,
           rows' = Insert(S),
           \/ kind = "postgres" /\ S = r.events /\ UNCHANGED refused
           \/ kind = "remote" /\ refused' = refused \cup (r.events \ S)
    PROVE  FatesInv'
<1>1. /\ r.worker \in Workers /\ r.events \subseteq Events
      /\ \A e \in r.events : outcome[e] # "new"
  BY DEF FatesInv, RequestsHanded
<1>2. /\ DOMAIN rows' = DOMAIN rows \cup {Key(e) : e \in S}
      /\ rows' \in [DOMAIN rows' -> Events]
      /\ \A k \in DOMAIN rows : rows'[k] = rows[k]
      /\ \A k \in DOMAIN rows' : Key(rows'[k]) = k /\ outcome[rows'[k]] # "new"
  BY <1>1, InsertOnlyAdds DEF FatesInv
<1>3. UNCHANGED <<kind, outcome, batch, wpc>>
  BY DEF Arrive, workerVars
<1>4. /\ arrivals' \in [Events -> Nat]
      /\ \A e \in Events : arrivals'[e] = arrivals[e] + (IF e \in r.events THEN 1 ELSE 0)
  <2>1. arrivals' = [e \in Events |-> arrivals[e] + (IF e \in r.events THEN 1 ELSE 0)]
    BY DEF Arrive
  <2>2. \A e \in Events : arrivals[e] + (IF e \in r.events THEN 1 ELSE 0) \in Nat
    BY DEF FatesInv, RequestsHanded
  <2>. QED
    BY <2>1, <2>2
<1>5. HandedRows'
  BY <1>2, <1>3 DEF HandedRows, Key
<1>6. BatchInHand'
  BY <1>3 DEF FatesInv, BatchInHand
<1>7. RequestsHanded'
  <2>1. requests' \subseteq requests /\ refused' \subseteq Events
    BY <1>1 DEF Arrive, FatesInv, RequestsHanded
  <2>. QED
    BY <1>3, <1>4, <2>1 DEF FatesInv, RequestsHanded
<1>8. \A e \in Events : Taken(e) => Taken(e)'
  <2>1. TAKE e \in Events
  <2>2. HAVE Taken(e)
  <2>3. arrivals'[e] >= 1
    BY <1>4, <2>2 DEF Taken, FatesInv, RequestsHanded
  <2>4. Key(e) \in DOMAIN rows => Key(e) \in DOMAIN rows'
    BY <1>2
  <2>5. refused \subseteq refused'
    OBVIOUS
  <2>. QED
    BY <1>3, <2>2, <2>3, <2>4, <2>5 DEF Taken, Key
<1>9. \A e \in r.events : Taken(e)'
  <2>1. TAKE e \in r.events
  <2>2. arrivals'[e] >= 1
    <3>1. arrivals[e] \in Nat /\ arrivals'[e] = arrivals[e] + 1
      BY <1>1, <1>4, <2>1 DEF FatesInv, RequestsHanded
    <3>. QED
      BY <3>1
  <2>3. e \in S => Key(e) \in DOMAIN rows'
    BY <1>2
  <2>4. e \in S \/ (kind = "remote" /\ e \in refused')
    BY <2>1
  <2>. QED
    BY <1>3, <2>2, <2>3, <2>4 DEF Taken, Key
<1>10. AnswerIsOfBatch'
  <2>1. \A w \in answered' : w \in answered \/ (w = r.worker /\ batch[w] = r.events)
    BY DEF Arrive
  <2>2. \A w \in answered : w \in Workers /\ batch[w] \subseteq Events
    BY DEF FatesInv, AnswerIsOfBatch, BatchInHand
  <2>. QED
    BY <1>1, <1>3, <1>8, <1>9, <2>1, <2>2 DEF FatesInv, AnswerIsOfBatch
<1>11. SavedWasAnswered'
  <2>1. SUFFICES ASSUME NEW e \in Events, outcome'[e] = "saved" PROVE Taken(e)'
    BY DEF SavedWasAnswered, Taken
  <2>2. Taken(e)
    BY <1>3, <2>1 DEF FatesInv, SavedWasAnswered, Taken
  <2>. QED
    BY <1>8, <2>2
<1>. QED
  BY <1>5, <1>6, <1>7, <1>10, <1>11 DEF FatesInv

\* A new batch is taken: its events were new and are handed over.
LEMMA TakeBatchFates ==
    ASSUME IInv, NEW w \in Workers, TakeBatch(w)
    PROVE  /\ batch'[w] \in SUBSET {e \in Events : WorkerOf[e] = w /\ outcome[e] = "new"}
           /\ batch' = [batch EXCEPT ![w] = batch'[w]] /\ batch[w] = {} /\ w \notin answered
           /\ outcome' = [e \in Events |-> IF e \in batch'[w] THEN "handed" ELSE outcome[e]]
           /\ outcome' \in [Events -> Fates]
<1> DEFINE new == {e \in Events : WorkerOf[e] = w /\ outcome[e] = "new"}
<1>1. PICK k \in 1..BatchSize : batch' = [batch EXCEPT ![w] = {e \in new : e < First(new) + k}]
  BY DEF TakeBatch
<1>2. batch'[w] = {e \in new : e < First(new) + k}
  BY <1>1 DEF IInv, FatesInv, BatchInHand
<1>3. batch'[w] \subseteq new /\ batch' = [batch EXCEPT ![w] = batch'[w]]
  BY <1>1, <1>2
<1>4. outcome' = [e \in Events |-> IF e \in batch'[w] THEN "handed" ELSE outcome[e]]
  BY DEF TakeBatch
<1>5. outcome' \in [Events -> Fates]
  BY <1>4 DEF IInv, FatesInv, BatchInHand, Fates
<1>6. batch[w] = {} /\ w \notin answered
  BY DEF TakeBatch, Goes, IInv, HandsInv
<1>. QED
  BY <1>3, <1>4, <1>5, <1>6

LEMMA TakeBatchInv ==
    ASSUME IInv, NEW w \in Workers, TakeBatch(w)
    PROVE  FatesInv'
<1> DEFINE B == batch'[w]
<1>1. /\ B \in SUBSET {e \in Events : WorkerOf[e] = w /\ outcome[e] = "new"}
      /\ batch' = [batch EXCEPT ![w] = B] /\ batch[w] = {} /\ w \notin answered
      /\ outcome' = [e \in Events |-> IF e \in B THEN "handed" ELSE outcome[e]]
      /\ outcome' \in [Events -> Fates]
  BY TakeBatchFates
<1>2. \A e \in Events : outcome'[e] = IF e \in B THEN "handed" ELSE outcome[e]
  BY <1>1
<1>3. UNCHANGED <<kind, rows, requests, answered, arrivals, refused>>
  BY DEF TakeBatch, serverVars
<1> HIDE DEF B
<1>4. FatesInv
  BY DEF IInv
<1>5. HandedRows'
  BY <1>2, <1>3, <1>4 DEF FatesInv, HandedRows, Key
<1>6. BatchInHand'
  <2>1. batch' \in [Workers -> SUBSET Events]
    BY <1>1, <1>4 DEF FatesInv, BatchInHand
  <2>2. \A v \in Workers : batch'[v] = IF v = w THEN B ELSE batch[v]
    BY <1>1, <1>4 DEF FatesInv, BatchInHand
  <2>3. \A v \in Workers : \A e \in batch'[v] : outcome'[e] = "handed" /\ WorkerOf[e] = v
    <3>1. TAKE v \in Workers
    <3>2. TAKE e \in batch'[v]
    <3>3. e \in Events
      BY <2>1, <3>1, <3>2
    <3>4. CASE v = w
      BY <1>1, <1>2, <2>2, <3>2, <3>3, <3>4
    <3>5. CASE v # w
      BY <1>2, <1>4, <2>2, <3>1, <3>2, <3>3, <3>5 DEF FatesInv, BatchInHand
    <3>. QED
      BY <3>4, <3>5
  <2>4. \A e \in Events : outcome'[e] = "handed" => e \in batch'[WorkerOf[e]]
    <3>1. TAKE e \in Events
    <3>2. HAVE outcome'[e] = "handed"
    <3>3. WorkerOf[e] \in Workers
      BY <3>1
    <3>4. CASE e \in B
      BY <1>1, <2>2, <3>1, <3>3, <3>4
    <3>5. CASE e \notin B
      <4>1. e \in batch[WorkerOf[e]]
        BY <1>2, <1>4, <3>1, <3>2, <3>5 DEF FatesInv, BatchInHand
      <4>. QED
        BY <1>1, <2>2, <3>3, <4>1
    <3>. QED
      BY <3>4, <3>5
  <2>. QED
    BY <1>1, <2>1, <2>3, <2>4 DEF BatchInHand
<1>7. RequestsHanded'
  BY <1>2, <1>3, <1>4 DEF FatesInv, RequestsHanded
<1>8. AnswerIsOfBatch'
  <2>1. \A v \in answered : v \in Workers /\ v # w /\ batch'[v] = batch[v]
    BY <1>1, <1>4 DEF FatesInv, AnswerIsOfBatch, BatchInHand
  <2>. QED
    BY <1>3, <1>4, <2>1 DEF FatesInv, AnswerIsOfBatch, Taken, Key
<1>9. SavedWasAnswered'
  BY <1>2, <1>3, <1>4 DEF FatesInv, SavedWasAnswered, Key
<1>. QED
  BY <1>5, <1>6, <1>7, <1>8, <1>9 DEF FatesInv

\* The batch is sent: what is under way was handed over.
LEMMA SendInv ==
    ASSUME IInv, NEW w \in Workers, Send(w)
    PROVE  FatesInv'
<1>1. /\ requests' = requests \cup {[worker |-> w, attempt |-> attempt[w], events |-> batch[w]]}
      /\ UNCHANGED <<kind, rows, answered, arrivals, refused, batch, outcome>>
  BY DEF Send
<1>2. RequestsHanded'
  <2>1. RequestsHanded /\ batch[w] \subseteq Events /\ \A e \in batch[w] : outcome[e] # "new"
    BY DEF IInv, FatesInv, BatchInHand
  <2> DEFINE sent == [worker |-> w, attempt |-> attempt[w], events |-> batch[w]]
  <2>2. sent.worker = w /\ sent.events = batch[w] /\ requests' = requests \cup {sent}
    BY <1>1
  <2> HIDE DEF sent
  <2>. QED
    BY <1>1, <2>1, <2>2 DEF RequestsHanded
<1>3. HandedRows' /\ BatchInHand' /\ AnswerIsOfBatch' /\ SavedWasAnswered'
  BY <1>1 DEF IInv, FatesInv, HandedRows, BatchInHand, AnswerIsOfBatch, SavedWasAnswered,
              Taken, Key
<1>. QED
  BY <1>2, <1>3 DEF FatesInv

\* What only starts a worker up leaves events, rows and requests alone.
StartsUp(w) ==
    SetUrl(w) \/ MigrateReturns(w) \/ MigrateRaises(w) \/ Connect(w) \/ ConnectRaises(w)

LEMMA StartsUpLeaves ==
    ASSUME NEW w \in Workers, StartsUp(w)
    PROVE  /\ UNCHANGED <<kind, rows, requests, answered, arrivals, refused, batch, attempt,
                          outcome>>
           /\ wpc[w] \in {"new", "migrating", "connecting"}
           /\ \E to \in {"migrating", "connecting", "idle", "ended"} :
                wpc' = [wpc EXCEPT ![w] = to]
BY DEF StartsUp, SetUrl, MigrateReturns, MigrateRaises, Connect, ConnectRaises, StartUp, Goes

LEMMA NextFatesInv ==
    ASSUME IInv, [Next]_vars
    PROVE  FatesInv'
<1>0. FatesInv
  BY DEF IInv
<1>1. ASSUME UNCHANGED <<kind, rows, requests, answered, arrivals, refused, batch, outcome>>
      PROVE  FatesInv'
  BY <1>0, <1>1 DEF FatesInv, HandedRows, BatchInHand, RequestsHanded, AnswerIsOfBatch,
                    SavedWasAnswered, Taken, Key
<1>2. CASE UNCHANGED vars
  BY <1>1, <1>2 DEF vars, serverVars, workerVars
<1>3. ASSUME NEW w \in Workers, StartsUp(w) PROVE FatesInv'
  BY <1>1, <1>3, StartsUpLeaves
<1>4. ASSUME NEW w \in Workers, TakeBatch(w) PROVE FatesInv'
  BY <1>4, TakeBatchInv
<1>5. ASSUME NEW w \in Workers, Send(w) PROVE FatesInv'
  BY <1>5, SendInv
<1>6. ASSUME NEW w \in Workers, SaveReturns(w) PROVE FatesInv'
  BY <1>0, <1>6, SettleInv DEF SaveReturns
<1>7. ASSUME NEW w \in Workers, SaveRaises(w) PROVE FatesInv'
  <2>1. UNCHANGED <<kind, rows, requests, arrivals, refused>>
    BY <1>7 DEF SaveRaises
  <2>2. CASE Settle(w, "dropped")
    BY <1>0, <2>1, <2>2, SettleInv
  <2>3. CASE answered' = answered \ {w} /\ UNCHANGED <<batch, outcome>>
    <3>1. AnswerIsOfBatch'
      BY <1>0, <2>1, <2>3 DEF FatesInv, AnswerIsOfBatch, Taken, Key
    <3>2. HandedRows' /\ BatchInHand' /\ RequestsHanded' /\ SavedWasAnswered'
      BY <1>0, <2>1, <2>3 DEF FatesInv, HandedRows, BatchInHand, RequestsHanded,
                              SavedWasAnswered, Key
    <3>. QED
      BY <3>1, <3>2 DEF FatesInv
  <2>. QED
    BY <1>7, <2>2, <2>3 DEF SaveRaises
<1>8. ASSUME NEW w \in Workers, End(w) PROVE FatesInv'
  BY <1>0, <1>8, SettleInv DEF End
<1>9. ASSUME NEW r \in requests, PostgresExecutes(r) PROVE FatesInv'
  <2>1. r.events \in SUBSET r.events
    OBVIOUS
  <2>. QED
    BY <1>0, <1>9, <2>1, ArriveInv DEF PostgresExecutes
<1>10. ASSUME NEW r \in requests, ServiceExecutes(r) PROVE FatesInv'
  BY <1>0, <1>10, ArriveInv DEF ServiceExecutes
<1>. QED
  BY <1>2, <1>3, <1>4, <1>5, <1>6, <1>7, <1>8, <1>9, <1>10 DEF Next, Step, StartsUp

LEMMA NextHandsInv ==
    ASSUME IInv, [Next]_vars
    PROVE  HandsInv'
<1>0. HandsInv /\ batch \in [Workers -> SUBSET Events]
  BY DEF IInv, FatesInv, BatchInHand
<1>1. CASE UNCHANGED vars
  BY <1>0, <1>1 DEF HandsInv, vars, serverVars, workerVars
<1>2. ASSUME NEW w \in Workers, StartsUp(w) PROVE HandsInv'
  <2>1. UNCHANGED <<batch, answered>> /\ wpc[w] \in {"new", "migrating", "connecting"}
    BY <1>2, StartsUpLeaves
  <2>2. PICK to \in {"migrating", "connecting", "idle", "ended"} : wpc' = [wpc EXCEPT ![w] = to]
    BY <1>2, StartsUpLeaves
  <2>. QED
    BY <1>0, <2>1, <2>2 DEF HandsInv
<1>3. ASSUME NEW w \in Workers, TakeBatch(w) PROVE HandsInv'
  <2>1. batch' = [batch EXCEPT ![w] = batch'[w]] /\ w \notin answered
    BY <1>3, TakeBatchFates
  <2>2. wpc' = [wpc EXCEPT ![w] = "sending"] /\ answered' = answered
    BY <1>3 DEF TakeBatch, Goes, serverVars
  <2>. QED
    BY <1>0, <2>1, <2>2 DEF HandsInv
<1>4. ASSUME NEW w \in Workers, Send(w) PROVE HandsInv'
  BY <1>0, <1>4 DEF Send, Goes, HandsInv
<1>5. ASSUME NEW w \in Workers, SaveReturns(w) PROVE HandsInv'
  BY <1>0, <1>5 DEF SaveReturns, Goes, Settle, HandsInv
<1>6. ASSUME NEW w \in Workers, SaveRaises(w) PROVE HandsInv'
  <2>1. CASE Goes(w, "waiting", "sending") /\ answered' = answered \ {w} /\ UNCHANGED batch
    BY <1>0, <2>1 DEF Goes, HandsInv
  <2>2. CASE Goes(w, "waiting", "idle") /\ Settle(w, "dropped")
    BY <1>0, <2>2 DEF Goes, Settle, HandsInv
  <2>. QED
    BY <1>6, <2>1, <2>2 DEF SaveRaises
<1>7. ASSUME NEW w \in Workers, End(w) PROVE HandsInv'
  BY <1>0, <1>7 DEF End, Settle, HandsInv
<1>8. ASSUME NEW r \in requests, Arrive(r) PROVE HandsInv'
  BY <1>0, <1>8 DEF Arrive, workerVars, HandsInv
<1>. QED
  BY <1>1, <1>2, <1>3, <1>4, <1>5, <1>6, <1>7, <1>8
     DEF Next, Step, StartsUp, PostgresExecutes, ServiceExecutes

\* Rows, requests and answers are of events that were handed over, a worker
\* holds exactly what it has not settled, and its answer is about that.
THEOREM InductiveInvariant == Spec => []IInv
<1>1. IInv /\ [Next]_vars => IInv'
  BY NextFatesInv, NextHandsInv DEF IInv
<1>. QED
  BY <1>1, InitInv, PTL DEF Spec

\* What counts as saved was executed, and its id is stored or was reported as
\* dropped, whatever answer was lost, late or meant for an earlier attempt.
THEOREM SavedIsAnswered == Spec => []SavedWasAnswered
BY InductiveInvariant, PTL DEF IInv, FatesInv

----------------------------------------------------------------------------
(* How often a server executes an event. *)

\* The requests under way that carry e.
Carrying(e) == {r \in requests : e \in r.events}

\* The sends that e can have had.
SendsOf(e) ==
    IF outcome[e] = "new" THEN 0
    ELSE IF outcome[e] = "handed"
      THEN attempt[WorkerOf[e]] + (IF wpc[WorkerOf[e]] = "waiting" THEN 1 ELSE 0)
    ELSE Attempts

\* What was executed and what is under way is at most what was sent.
SendsBoundArrivals ==
    /\ IsFiniteSet(requests)
    /\ attempt \in [Workers -> 0..(Attempts - 1)]
    /\ \A e \in Events : arrivals[e] + Cardinality(Carrying(e)) <= SendsOf(e)

\* The numbers of an event.
LEMMA SendsTypes ==
    ASSUME IInv, IsFiniteSet(requests), attempt \in [Workers -> 0..(Attempts - 1)],
           NEW e \in Events
    PROVE  /\ IsFiniteSet(Carrying(e)) /\ Cardinality(Carrying(e)) \in Nat
           /\ arrivals[e] \in Nat /\ SendsOf(e) \in Nat /\ SendsOf(e) <= Attempts
<1>1. IsFiniteSet(Carrying(e)) /\ Cardinality(Carrying(e)) \in Nat
  BY FS_Subset, FS_CardinalityType DEF Carrying
<1>2. arrivals[e] \in Nat
  BY DEF IInv, FatesInv, RequestsHanded
<1>3. attempt[WorkerOf[e]] \in Nat /\ attempt[WorkerOf[e]] + 1 <= Attempts /\ Attempts \in Nat
  BY DEF NetworkAssumption
<1>4. SendsOf(e) \in Nat /\ SendsOf(e) <= Attempts
  BY <1>3 DEF SendsOf
<1>. QED
  BY <1>1, <1>2, <1>4

\* A step that sends and executes nothing, and takes no send back.
LEMMA UnsentInv ==
    ASSUME SendsBoundArrivals, IInv, UNCHANGED <<requests, arrivals>>,
           attempt' \in [Workers -> 0..(Attempts - 1)],
           \A e \in Events : SendsOf(e)' \in Int /\ SendsOf(e) <= SendsOf(e)'
    PROVE  SendsBoundArrivals'
<1>1. \A e \in Events : Carrying(e)' = Carrying(e) /\ arrivals'[e] = arrivals[e]
  BY DEF Carrying
<1>2. ASSUME NEW e \in Events
      PROVE  arrivals'[e] + Cardinality(Carrying(e)') <= SendsOf(e)'
  <2>1. /\ Cardinality(Carrying(e)) \in Nat /\ arrivals[e] \in Nat /\ SendsOf(e) \in Nat
        /\ arrivals[e] + Cardinality(Carrying(e)) <= SendsOf(e)
    BY SendsTypes DEF SendsBoundArrivals
  <2>2. SendsOf(e)' \in Int /\ SendsOf(e) <= SendsOf(e)'
    OBVIOUS
  <2>3. arrivals'[e] + Cardinality(Carrying(e)') = arrivals[e] + Cardinality(Carrying(e))
    BY <1>1
  <2> HIDE DEF SendsOf
  <2>. QED
    BY <2>1, <2>2, <2>3
<1>. QED
  BY <1>2 DEF SendsBoundArrivals

LEMMA NextSendsInv ==
    ASSUME SendsBoundArrivals, IInv, IInv', [Next]_vars
    PROVE  SendsBoundArrivals'
<1>0. /\ attempt \in [Workers -> 0..(Attempts - 1)] /\ IsFiniteSet(requests)
      /\ wpc \in [Workers -> {"new", "migrating", "connecting", "idle", "sending", "waiting",
                              "ended"}]
      /\ BatchInHand
  BY DEF SendsBoundArrivals, IInv, FatesInv, HandsInv
<1>1. \A e \in Events : /\ WorkerOf[e] \in Workers
                        /\ attempt[WorkerOf[e]] \in Nat
                        /\ attempt[WorkerOf[e]] + 1 <= Attempts /\ Attempts \in Nat
  BY <1>0
<1>2. ASSUME UNCHANGED <<requests, arrivals>>,
             attempt' \in [Workers -> 0..(Attempts - 1)],
             \A e \in Events : SendsOf(e) <= SendsOf(e)'
      PROVE  SendsBoundArrivals'
  <2>1. \A e \in Events : SendsOf(e)' \in Int
    <3>1. \A e \in Events : attempt'[WorkerOf[e]] \in Nat /\ Attempts \in Nat
      BY <1>2
    <3>. QED
      BY <3>1 DEF SendsOf
  <2>. QED
    BY <1>2, <2>1, UnsentInv
<1>3. \A e \in Events : SendsOf(e) \in Nat /\ SendsOf(e) <= Attempts
  BY <1>0, SendsTypes
<1>4. ASSUME UNCHANGED <<requests, arrivals, attempt, outcome>>,
             \A w \in Workers : wpc[w] = "waiting" => wpc'[w] = "waiting"
      PROVE  SendsBoundArrivals'
  <2>1. \A e \in Events : SendsOf(e) <= SendsOf(e)'
    BY <1>1, <1>4 DEF SendsOf
  <2>. QED
    BY <1>0, <1>2, <1>4, <2>1
<1>5. CASE UNCHANGED vars
  BY <1>4, <1>5 DEF vars, serverVars, workerVars
<1>6. ASSUME NEW w \in Workers, StartsUp(w) PROVE SendsBoundArrivals'
  <2>1. /\ UNCHANGED <<requests, arrivals, attempt, outcome>>
        /\ wpc[w] \in {"new", "migrating", "connecting"}
    BY <1>6, StartsUpLeaves
  <2>2. PICK to \in {"migrating", "connecting", "idle", "ended"} : wpc' = [wpc EXCEPT ![w] = to]
    BY <1>6, StartsUpLeaves
  <2>3. \A v \in Workers : wpc[v] = "waiting" => wpc'[v] = "waiting"
    BY <1>0, <2>1, <2>2
  <2>. QED
    BY <1>4, <2>1, <2>3
<1>7. ASSUME NEW w \in Workers, TakeBatch(w) PROVE SendsBoundArrivals'
  <2>1. /\ batch'[w] \in SUBSET {e \in Events : WorkerOf[e] = w /\ outcome[e] = "new"}
        /\ outcome' = [e \in Events |-> IF e \in batch'[w] THEN "handed" ELSE outcome[e]]
        /\ wpc[w] = "idle" /\ wpc' = [wpc EXCEPT ![w] = "sending"]
        /\ UNCHANGED <<requests, arrivals, attempt>>
    BY <1>7, TakeBatchFates DEF TakeBatch, Goes, serverVars
  <2>2. \A e \in Events : SendsOf(e) <= SendsOf(e)'
    <3>1. TAKE e \in Events
    <3>2. CASE e \in batch'[w]
      <4>1. SendsOf(e) = 0
        BY <2>1, <3>2 DEF SendsOf
      <4>2. outcome'[e] = "handed" /\ WorkerOf[e] = w /\ wpc'[w] = "sending"
        BY <1>0, <2>1, <3>1, <3>2
      <4>3. SendsOf(e)' = attempt[w] + 0
        BY <2>1, <4>2 DEF SendsOf
      <4>4. attempt[w] \in Nat
        BY <1>0
      <4> HIDE DEF SendsOf
      <4>. QED
        BY <4>1, <4>3, <4>4
    <3>3. CASE e \notin batch'[w]
      <4>1. outcome'[e] = outcome[e]
        BY <2>1, <3>1, <3>3
      <4>2. CASE outcome[e] # "handed"
        BY <1>3, <3>1, <4>1, <4>2 DEF SendsOf
      <4>3. CASE outcome[e] = "handed"
        <5> DEFINE v == WorkerOf[e]
        <5>1. SendsOf(e) = attempt[v] + (IF wpc[v] = "waiting" THEN 1 ELSE 0)
          BY <4>3 DEF SendsOf
        <5>2. SendsOf(e)' = attempt[v] + (IF wpc'[v] = "waiting" THEN 1 ELSE 0)
          BY <2>1, <4>1, <4>3 DEF SendsOf
        <5>3. v \in Workers /\ attempt[v] \in Nat
          BY <1>1, <3>1
        <5>4. wpc[v] = "waiting" => wpc'[v] = "waiting"
          BY <1>0, <2>1, <5>3
        <5> HIDE DEF v, SendsOf
        <5>. QED
          BY <5>1, <5>2, <5>3, <5>4
      <4>. QED
        BY <4>2, <4>3
    <3>. QED
      BY <3>2, <3>3
  <2>. QED
    BY <1>0, <1>2, <2>1, <2>2
<1>8. ASSUME NEW w \in Workers, NEW fate \in {"saved", "dropped", "lost"}, Settle(w, fate),
             UNCHANGED <<requests, arrivals>>,
             \A v \in Workers \ {w} : wpc'[v] = wpc[v]
      PROVE  SendsBoundArrivals'
  <2>1. attempt' \in [Workers -> 0..(Attempts - 1)]
        /\ \A v \in Workers \ {w} : attempt'[v] = attempt[v]
    <3>1. 0 \in 0..(Attempts - 1)
      BY DEF NetworkAssumption
    <3>. QED
      BY <1>0, <1>8, <3>1 DEF Settle
  <2>2. \A e \in Events : outcome'[e] = IF e \in batch[w] THEN fate ELSE outcome[e]
    BY <1>8 DEF Settle
  <2>3. \A e \in Events : SendsOf(e) <= SendsOf(e)'
    <3>1. TAKE e \in Events
    <3>2. CASE e \in batch[w]
      <4>1. SendsOf(e)' = Attempts
        BY <2>2, <3>2 DEF SendsOf
      <4>. QED
        BY <1>3, <4>1
    <3>3. CASE e \notin batch[w] /\ outcome[e] = "handed"
      <4>1. WorkerOf[e] \in Workers \ {w} /\ outcome'[e] = outcome[e]
        BY <1>0, <1>1, <2>2, <3>3 DEF BatchInHand
      <4>. QED
        BY <1>1, <1>8, <2>1, <4>1 DEF SendsOf
    <3>4. CASE e \notin batch[w] /\ outcome[e] # "handed"
      <4>1. outcome'[e] = outcome[e]
        BY <2>2, <3>4
      <4>. QED
        BY <1>1, <3>4, <4>1 DEF SendsOf
    <3>. QED
      BY <3>2, <3>3, <3>4
  <2>. QED
    BY <1>2, <1>8, <2>1, <2>3
<1>9. ASSUME NEW w \in Workers, SaveReturns(w) \/ End(w) PROVE SendsBoundArrivals'
  <2>1. /\ Settle(w, "saved") \/ Settle(w, "lost")
        /\ UNCHANGED <<requests, arrivals>>
        /\ wpc' = [wpc EXCEPT ![w] = "idle"] \/ wpc' = [wpc EXCEPT ![w] = "ended"]
    BY <1>9 DEF SaveReturns, End, Goes
  <2>2. \A v \in Workers \ {w} : wpc'[v] = wpc[v]
    BY <1>0, <2>1
  <2>. QED
    BY <1>8, <2>1, <2>2
<1>10. ASSUME NEW w \in Workers, SaveRaises(w) PROVE SendsBoundArrivals'
  <2>1. UNCHANGED <<requests, arrivals>>
    BY <1>10 DEF SaveRaises
  <2>2. CASE Goes(w, "waiting", "idle") /\ Settle(w, "dropped")
    <3>1. \A v \in Workers \ {w} : wpc'[v] = wpc[v]
      BY <1>0, <2>2 DEF Goes
    <3>. QED
      BY <1>8, <2>1, <2>2, <3>1
  <2>3. CASE /\ attempt[w] < Attempts - 1 /\ Goes(w, "waiting", "sending")
             /\ attempt' = [attempt EXCEPT ![w] = @ + 1] /\ UNCHANGED outcome
    <3>1. attempt[w] \in Nat /\ attempt[w] + 1 \in 0..(Attempts - 1)
      BY <1>0, <2>3 DEF NetworkAssumption
    <3>2. attempt' \in [Workers -> 0..(Attempts - 1)] /\ attempt'[w] = attempt[w] + 1
          /\ \A v \in Workers \ {w} : attempt'[v] = attempt[v]
      BY <1>0, <2>3, <3>1
    <3>3. wpc[w] = "waiting" /\ wpc'[w] = "sending" /\ \A v \in Workers \ {w} : wpc'[v] = wpc[v]
      BY <1>0, <2>3 DEF Goes
    <3>4. \A e \in Events : SendsOf(e) <= SendsOf(e)'
      <4>1. TAKE e \in Events
      <4>2. CASE outcome[e] = "handed" /\ WorkerOf[e] = w
        BY <2>3, <3>1, <3>2, <3>3, <4>2 DEF SendsOf
      <4>3. CASE ~(outcome[e] = "handed" /\ WorkerOf[e] = w)
        BY <1>1, <2>3, <3>2, <3>3, <4>3 DEF SendsOf
      <4>. QED
        BY <4>2, <4>3
    <3>. QED
      BY <1>2, <2>1, <3>2, <3>4
  <2>. QED
    BY <1>10, <2>2, <2>3 DEF SaveRaises
<1>11. ASSUME NEW w \in Workers, Send(w) PROVE SendsBoundArrivals'
  <2> DEFINE sent == [worker |-> w, attempt |-> attempt[w], events |-> batch[w]]
  <2>1. /\ requests' = requests \cup {sent} /\ sent.events = batch[w]
        /\ UNCHANGED <<arrivals, attempt, outcome>>
        /\ wpc[w] = "sending" /\ wpc'[w] = "waiting"
        /\ \A v \in Workers \ {w} : wpc'[v] = wpc[v]
    BY <1>0, <1>11 DEF Send, Goes
  <2> HIDE DEF sent
  <2>2. IsFiniteSet(requests')
    BY <1>0, <2>1, FS_AddElement
  <2>3. ASSUME NEW e \in Events
        PROVE  arrivals'[e] + Cardinality(Carrying(e)') <= SendsOf(e)'
    <3>1. /\ Cardinality(Carrying(e)) \in Nat /\ arrivals[e] \in Nat /\ SendsOf(e) \in Nat
          /\ arrivals[e] + Cardinality(Carrying(e)) <= SendsOf(e)
          /\ IsFiniteSet(Carrying(e))
      BY SendsTypes DEF SendsBoundArrivals
    <3>2. CASE e \in batch[w]
      <4>1. Carrying(e)' = Carrying(e) \cup {sent}
        BY <2>1, <3>2 DEF Carrying
      <4>2. Cardinality(Carrying(e)') <= Cardinality(Carrying(e)) + 1
            /\ Cardinality(Carrying(e)') \in Nat
        <5>1. \/ Cardinality(Carrying(e)') = Cardinality(Carrying(e))
              \/ Cardinality(Carrying(e)') = Cardinality(Carrying(e)) + 1
          BY <3>1, <4>1, FS_AddElement
        <5>. QED
          BY <3>1, <5>1
      <4>3. SendsOf(e)' = SendsOf(e) + 1
        <5>1. outcome[e] = "handed" /\ WorkerOf[e] = w
          BY <1>0, <3>2 DEF BatchInHand
        <5>. QED
          BY <1>1, <2>1, <5>1 DEF SendsOf
      <4> HIDE DEF SendsOf
      <4>. QED
        BY <2>1, <3>1, <4>2, <4>3
    <3>3. CASE e \notin batch[w]
      <4>1. Carrying(e)' = Carrying(e)
        BY <2>1, <3>3 DEF Carrying
      <4>2. SendsOf(e)' = SendsOf(e)
        <5>1. outcome[e] = "handed" => WorkerOf[e] \in Workers \ {w}
          BY <1>0, <1>1, <3>3 DEF BatchInHand
        <5>. QED
          BY <2>1, <5>1 DEF SendsOf
      <4>. QED
        BY <2>1, <3>1, <4>1, <4>2
    <3>. QED
      BY <3>2, <3>3
  <2>. QED
    BY <1>0, <2>1, <2>2, <2>3 DEF SendsBoundArrivals
<1>12. ASSUME NEW r \in requests, Arrive(r) PROVE SendsBoundArrivals'
  <2>1. /\ requests' = requests \ {r}
        /\ arrivals' = [e \in Events |-> arrivals[e] + (IF e \in r.events THEN 1 ELSE 0)]
        /\ UNCHANGED <<attempt, outcome, wpc>>
    BY <1>12 DEF Arrive, workerVars
  <2>2. IsFiniteSet(requests')
    BY <1>0, <2>1, FS_RemoveElement
  <2>3. ASSUME NEW e \in Events
        PROVE  arrivals'[e] + Cardinality(Carrying(e)') <= SendsOf(e)'
    <3>1. /\ Cardinality(Carrying(e)) \in Nat /\ arrivals[e] \in Nat /\ SendsOf(e) \in Nat
          /\ arrivals[e] + Cardinality(Carrying(e)) <= SendsOf(e)
          /\ IsFiniteSet(Carrying(e))
      BY SendsTypes DEF SendsBoundArrivals
    <3>2. SendsOf(e)' = SendsOf(e)
      BY <2>1 DEF SendsOf
    <3>3. CASE e \in r.events
      <4>1. Carrying(e)' = Carrying(e) \ {r} /\ r \in Carrying(e)
        BY <1>12, <2>1, <3>3 DEF Carrying
      <4>2. Cardinality(Carrying(e)') = Cardinality(Carrying(e)) - 1
        BY <3>1, <4>1, FS_RemoveElement, ZenonT(30)
      <4>3. arrivals'[e] = arrivals[e] + 1
        BY <2>1, <3>3
      <4>. QED
        BY <3>1, <3>2, <4>2, <4>3
    <3>4. CASE e \notin r.events
      <4>1. Carrying(e)' = Carrying(e)
        BY <2>1, <3>4 DEF Carrying
      <4>2. arrivals'[e] = arrivals[e]
        BY <2>1, <3>1, <3>4
      <4>. QED
        BY <3>1, <3>2, <4>1, <4>2
    <3>. QED
      BY <3>3, <3>4
  <2>. QED
    BY <1>0, <2>1, <2>2, <2>3 DEF SendsBoundArrivals
<1>. QED
  BY <1>5, <1>6, <1>7, <1>9, <1>10, <1>11, <1>12
     DEF Next, Step, StartsUp, PostgresExecutes, ServiceExecutes

\* No event is executed more often than it was sent, which is at most once per
\* attempt, however late the requests of earlier attempts arrive.
THEOREM ArrivalsBounded == Spec => []AtMostAttempts
<1>1. Init => SendsBoundArrivals
  <2>1. SUFFICES ASSUME Init PROVE SendsBoundArrivals
    OBVIOUS
  <2>2. requests = {} /\ \A e \in Events : arrivals[e] = 0 /\ outcome[e] = "new"
    BY <2>1 DEF Init
  <2>3. attempt \in [Workers -> 0..(Attempts - 1)]
    <3>1. 0 \in 0..(Attempts - 1)
      BY DEF NetworkAssumption
    <3>. QED
      BY <2>1, <3>1 DEF Init
  <2>4. \A e \in Events : Carrying(e) = {}
    BY <2>2 DEF Carrying
  <2>. QED
    BY <2>2, <2>3, <2>4, FS_EmptySet DEF SendsBoundArrivals, SendsOf
<1>2. SendsBoundArrivals /\ IInv /\ IInv' /\ [Next]_vars => SendsBoundArrivals'
  BY NextSendsInv
<1>3. SendsBoundArrivals /\ IInv => AtMostAttempts
  <2>1. SUFFICES ASSUME SendsBoundArrivals, IInv, NEW e \in Events PROVE arrivals[e] <= Attempts
    BY DEF AtMostAttempts
  <2>2. /\ Cardinality(Carrying(e)) \in Nat /\ arrivals[e] \in Nat
        /\ SendsOf(e) \in Nat /\ SendsOf(e) <= Attempts
        /\ arrivals[e] + Cardinality(Carrying(e)) <= SendsOf(e)
    BY <2>1, SendsTypes DEF SendsBoundArrivals
  <2>3. Attempts \in Nat
    BY DEF NetworkAssumption
  <2>. QED
    BY <2>2, <2>3
<1>. QED
  BY <1>1, <1>2, <1>3, InductiveInvariant, PTL DEF Spec

----------------------------------------------------------------------------
(* Postgres implements EventStore. *)

\* Handed events get a fate, and those that are saved are in the table.
LEMMA SettleRefines ==
    ASSUME FatesInv, kind = "postgres", UNCHANGED rows, NEW w \in Workers,
           NEW fate \in {"saved", "dropped", "lost"}, Settle(w, fate),
           fate = "saved" => w \in answered
    PROVE  store!Settle
<1>1. batch[w] \in SUBSET {e \in Events : outcome[e] = "handed"}
  BY DEF FatesInv, BatchInHand
<1>2. {} \in SUBSET store!Ids /\ rows' \in [DOMAIN rows \cup {} -> Events]
  BY DEF FatesInv, HandedRows
<1>3. store!Grow(rows')
  BY DEF store!Grow
<1>4. fate = "saved" => \A e \in batch[w] : Key(e) \in DOMAIN rows'
  <2>1. SUFFICES ASSUME fate = "saved", NEW e \in batch[w] PROVE Key(e) \in DOMAIN rows
    OBVIOUS
  <2>2. Taken(e)
    BY <2>1 DEF FatesInv, AnswerIsOfBatch
  <2>. QED
    BY <2>2 DEF Taken
<1>5. \E S \in SUBSET {e \in Events : outcome[e] = "handed"} :
      \E given \in {"saved", "dropped", "lost"} :
        /\ given = "saved" => \A e \in S : [x \in Events |-> Key(x)][e] \in DOMAIN rows'
        /\ outcome' = [e \in Events |-> IF e \in S THEN given ELSE outcome[e]]
  <2>1. \A e \in batch[w] : [x \in Events |-> Key(x)][e] = Key(e)
    BY <1>1
  <2>2. outcome' = [e \in Events |-> IF e \in batch[w] THEN fate ELSE outcome[e]]
    BY DEF Settle
  <2>3. WITNESS batch[w] \in SUBSET {e \in Events : outcome[e] = "handed"}
  <2>4. WITNESS fate \in {"saved", "dropped", "lost"}
  <2>. QED
    BY <1>4, <2>1, <2>2
<1>. QED
  BY <1>2, <1>3, <1>5 DEF store!Settle

\* Rows appear, of events that were handed over.
LEMMA ExecuteRefines ==
    ASSUME FatesInv, NEW r \in requests, PostgresExecutes(r)
    PROVE  store!Settle
<1>1. r.events \subseteq Events /\ \A e \in r.events : outcome[e] # "new"
  BY DEF FatesInv, RequestsHanded
<1>2. rows' = Insert(r.events) /\ UNCHANGED outcome
  BY DEF PostgresExecutes, Arrive, workerVars
<1>3. /\ DOMAIN rows' = DOMAIN rows \cup {Key(e) : e \in r.events}
      /\ rows' \in [DOMAIN rows' -> Events]
      /\ \A k \in DOMAIN rows : rows'[k] = rows[k]
      /\ \A k \in DOMAIN rows' : Key(rows'[k]) = k /\ outcome[rows'[k]] # "new"
  BY <1>1, <1>2, InsertOnlyAdds DEF FatesInv
<1>4. {Key(e) : e \in r.events} \in SUBSET store!Ids
  BY <1>1 DEF store!Ids
<1>5. store!Grow(rows')
  BY <1>3 DEF store!Grow
<1>. QED
  BY <1>2, <1>3, <1>4, <1>5 DEF store!Settle

LEMMA NextRefines ==
    ASSUME IInv, [Next]_vars
    PROVE  [kind = "postgres" => store!Next]_<<rows, outcome>>
<1>1. SUFFICES ASSUME kind = "postgres", ~UNCHANGED <<rows, outcome>> PROVE store!Next
  OBVIOUS
<1>2. FatesInv
  BY DEF IInv
<1>3. ASSUME NEW w \in Workers, TakeBatch(w) PROVE store!Next
  <2>1. /\ batch'[w] \in SUBSET {e \in Events : outcome[e] = "new"} /\ UNCHANGED rows
        /\ outcome' = [e \in Events |-> IF e \in batch'[w] THEN "handed" ELSE outcome[e]]
    BY <1>3, TakeBatchFates DEF TakeBatch, serverVars
  <2>. QED
    BY <2>1 DEF store!Next, store!HandOver
<1>4. ASSUME NEW w \in Workers, SaveReturns(w) PROVE store!Next
  <2>1. Settle(w, "saved") /\ w \in answered /\ UNCHANGED rows
    BY <1>4 DEF SaveReturns
  <2>. QED
    BY <1>1, <1>2, <2>1, SettleRefines DEF store!Next
<1>5. ASSUME NEW w \in Workers, SaveRaises(w) PROVE store!Next
  <2>1. Settle(w, "dropped") /\ UNCHANGED rows
    BY <1>1, <1>5 DEF SaveRaises
  <2>. QED
    BY <1>1, <1>2, <2>1, SettleRefines DEF store!Next
<1>6. ASSUME NEW w \in Workers, End(w) PROVE store!Next
  <2>1. Settle(w, "lost") /\ UNCHANGED rows
    BY <1>6 DEF End
  <2>. QED
    BY <1>1, <1>2, <2>1, SettleRefines DEF store!Next
<1>7. ASSUME NEW r \in requests, PostgresExecutes(r) PROVE store!Next
  BY <1>2, <1>7, ExecuteRefines DEF store!Next
<1>8. ASSUME NEW w \in Workers, StartsUp(w) \/ Send(w) PROVE FALSE
  BY <1>1, <1>8, StartsUpLeaves DEF Send
<1>9. ASSUME NEW r \in requests, ServiceExecutes(r) PROVE FALSE
  BY <1>1, <1>9 DEF ServiceExecutes
<1>10. ~UNCHANGED vars
  BY <1>1 DEF vars, serverVars, workerVars
<1>. QED
  BY <1>3, <1>4, <1>5, <1>6, <1>7, <1>8, <1>9, <1>10 DEF Next, Step, StartsUp

\* Postgres keeps what EventStore promises for any number of workers on any
\* number of databases, whatever is lost on the way, late, or repeated.
THEOREM PostgresRefinesEventStore == Spec => PostgresImplementsEventStore
<1>1. Init => store!Init
  BY DEF Init, store!Init
<1>. QED
  BY <1>1, NextRefines, InductiveInvariant, PTL DEF Spec, PostgresImplementsEventStore

----------------------------------------------------------------------------
(* Types. *)

Requests == [worker : Workers, attempt : Nat, events : SUBSET Events]

\* What the proofs above do not need.  No worker migrates before the variable
\* of the environment is set, and a batch that is sent is not empty.
ServerTypes ==
    /\ env \in Urls \cup {NoUrl} /\ schema \subseteq Urls
    /\ requests \subseteq Requests
    /\ attempt \in [Workers -> Nat]
    /\ \A w \in Workers : wpc[w] = "migrating" => env # NoUrl
    /\ \A w \in Workers : wpc[w] \in {"sending", "waiting"} => batch[w] # {}

\* The batch a worker takes has its first event.
LEMMA TakenIsNotEmpty ==
    ASSUME IInv, NEW w \in Workers, TakeBatch(w)
    PROVE  batch'[w] # {}
<1> DEFINE new == {e \in Events : WorkerOf[e] = w /\ outcome[e] = "new"}
<1>1. PICK k \in 1..BatchSize : batch' = [batch EXCEPT ![w] = {e \in new : e < First(new) + k}]
  BY DEF TakeBatch
<1>2. batch'[w] = {e \in new : e < First(new) + k}
  BY <1>1 DEF IInv, FatesInv, BatchInHand
<1>3. new # {} /\ new \subseteq Events
  BY DEF TakeBatch
<1>4. First(new) \in new
  BY <1>3, FirstIsFirst
<1> HIDE DEF new
<1>5. First(new) \in Nat /\ k \in Nat /\ k >= 1
  <2>1. First(new) \in Nat
    BY <1>3, <1>4
  <2>2. k \in Nat /\ k >= 1
    BY <1>1
  <2>. QED
    BY <2>1, <2>2
<1>6. First(new) < First(new) + k
  BY <1>5
<1>. QED
  BY <1>2, <1>4, <1>6

LEMMA NextServerTypes ==
    ASSUME IInv, ServerTypes, [Next]_vars
    PROVE  ServerTypes'
<1>0. /\ wpc \in [Workers -> {"new", "migrating", "connecting", "idle", "sending", "waiting",
                              "ended"}]
      /\ batch \in [Workers -> SUBSET Events]
  BY DEF IInv, FatesInv, HandsInv, BatchInHand
<1>1. CASE UNCHANGED vars
  BY <1>1 DEF ServerTypes, vars, serverVars, workerVars
<1>2. ASSUME NEW w \in Workers, StartsUp(w) PROVE ServerTypes'
  <2>1. /\ UNCHANGED <<requests, batch, attempt>>
        /\ wpc[w] \in {"new", "migrating", "connecting"}
    BY <1>2, StartsUpLeaves
  <2>2. PICK to \in {"migrating", "connecting", "idle", "ended"} : wpc' = [wpc EXCEPT ![w] = to]
    BY <1>2, StartsUpLeaves
  <2>3. CASE SetUrl(w)
    <3>1. env' = Target[w] /\ schema' = schema
      BY <2>3 DEF SetUrl
    <3>2. env' \in Urls /\ env' # NoUrl
      BY <3>1 DEF Urls
    <3>. QED
      BY <1>0, <2>1, <2>2, <3>1, <3>2 DEF ServerTypes
  <2>4. CASE MigrateReturns(w)
    <3>1. env' = env /\ schema' = schema \cup {env}
          /\ wpc[w] = "migrating" /\ wpc' = [wpc EXCEPT ![w] = "connecting"]
      BY <2>4 DEF MigrateReturns, StartUp, Goes
    <3>2. env \in Urls
      BY <3>1 DEF ServerTypes
    <3>. QED
      BY <1>0, <2>1, <3>1, <3>2 DEF ServerTypes
  <2>5. CASE MigrateRaises(w) \/ Connect(w) \/ ConnectRaises(w)
    <3>1. UNCHANGED <<env, schema>>
          /\ \E go \in {"connecting", "idle", "ended"} : wpc' = [wpc EXCEPT ![w] = go]
      BY <2>5 DEF MigrateRaises, Connect, ConnectRaises, StartUp, Goes
    <3>. QED
      BY <1>0, <2>1, <3>1 DEF ServerTypes
  <2>. QED
    BY <1>2, <2>3, <2>4, <2>5 DEF StartsUp
<1>3. ASSUME NEW w \in Workers, TakeBatch(w) PROVE ServerTypes'
  <2>1. batch' = [batch EXCEPT ![w] = batch'[w]] /\ batch'[w] # {}
    BY <1>3, TakeBatchFates, TakenIsNotEmpty
  <2>2. /\ wpc' = [wpc EXCEPT ![w] = "sending"]
        /\ UNCHANGED <<env, schema, requests, attempt>>
    BY <1>3 DEF TakeBatch, Goes, serverVars
  <2>. QED
    BY <1>0, <2>1, <2>2 DEF ServerTypes
<1>4. ASSUME NEW w \in Workers, Send(w) PROVE ServerTypes'
  <2>1. /\ wpc[w] = "sending" /\ wpc' = [wpc EXCEPT ![w] = "waiting"]
        /\ requests' = requests \cup
             {[worker |-> w, attempt |-> attempt[w], events |-> batch[w]]}
        /\ UNCHANGED <<env, schema, attempt, batch>>
    BY <1>4 DEF Send, Goes
  <2>2. [worker |-> w, attempt |-> attempt[w], events |-> batch[w]] \in Requests
    BY <1>0 DEF ServerTypes, Requests
  <2>. QED
    BY <1>0, <2>1, <2>2 DEF ServerTypes
<1>5. ASSUME NEW w \in Workers, NEW fate, Settle(w, fate), UNCHANGED <<env, schema, requests>>,
             wpc' = [wpc EXCEPT ![w] = "idle"] \/ wpc' = [wpc EXCEPT ![w] = "ended"]
      PROVE  ServerTypes'
  BY <1>0, <1>5 DEF Settle, ServerTypes
<1>6. ASSUME NEW w \in Workers, SaveReturns(w) PROVE ServerTypes'
  BY <1>5, <1>6 DEF SaveReturns, Goes
<1>7. ASSUME NEW w \in Workers, SaveRaises(w) PROVE ServerTypes'
  <2>1. CASE /\ Goes(w, "waiting", "sending") /\ attempt' = [attempt EXCEPT ![w] = @ + 1]
             /\ UNCHANGED <<batch, env, schema, requests>>
    BY <1>0, <2>1 DEF Goes, ServerTypes
  <2>2. CASE Goes(w, "waiting", "idle") /\ Settle(w, "dropped")
    BY <1>5, <1>7, <2>2 DEF SaveRaises, Goes
  <2>. QED
    BY <1>7, <2>1, <2>2 DEF SaveRaises
<1>8. ASSUME NEW w \in Workers, End(w) PROVE ServerTypes'
  BY <1>5, <1>8 DEF End
<1>9. ASSUME NEW r \in requests, Arrive(r) PROVE ServerTypes'
  BY <1>9 DEF Arrive, workerVars, ServerTypes
<1>. QED
  BY <1>1, <1>2, <1>3, <1>4, <1>6, <1>7, <1>8, <1>9
     DEF Next, Step, StartsUp, PostgresExecutes, ServiceExecutes

\* Every variable has its type, at every worker and server; a batch is in a
\* worker's hands while it sends and waits, and only one that waits has an answer.
THEOREM TypeCorrect == Spec => []TypeOK
<1>1. Init => ServerTypes
  BY DEF Init, ServerTypes
<1>2. IInv /\ ServerTypes /\ [Next]_vars => ServerTypes'
  BY NextServerTypes
<1>3. ASSUME IInv, ServerTypes PROVE TypeOK
  <2>1. DOMAIN rows \subseteq Keys /\ \A k \in DOMAIN rows : rows[k] \in Events
    BY <1>3 DEF IInv, FatesInv, HandedRows, Keys
  <2>2. \A w \in Workers : (batch[w] # {}) <=> (wpc[w] \in {"sending", "waiting"})
    BY <1>3 DEF IInv, HandsInv, ServerTypes
  <2>3. answered \subseteq {w \in Workers : wpc[w] = "waiting"}
    BY <1>3 DEF IInv, FatesInv, AnswerIsOfBatch, HandsInv
  <2>4. /\ kind \in {"postgres", "remote"} /\ arrivals \in [Events -> Nat]
        /\ refused \subseteq Events /\ batch \in [Workers -> SUBSET Events]
        /\ outcome \in [Events -> {"new", "handed", "saved", "dropped", "lost"}]
    BY <1>3 DEF IInv, FatesInv, RequestsHanded, BatchInHand, Fates
  <2>5. wpc \in [Workers -> {"new", "migrating", "connecting", "idle", "sending", "waiting",
                             "ended"}]
    BY <1>3 DEF IInv, HandsInv
  <2>. QED
    BY <1>3, <2>1, <2>2, <2>3, <2>4, <2>5 DEF ServerTypes, Requests, TypeOK
<1>. QED
  BY <1>1, <1>2, <1>3, InductiveInvariant, PTL DEF Spec

=============================================================================
