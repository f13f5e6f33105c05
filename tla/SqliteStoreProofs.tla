-------------------------- MODULE SqliteStoreProofs --------------------------
(* The theorems about SqliteStore and their proofs: for every set of events,   *)
(* whatever ids they repeat, for every number of attempts, every batch size    *)
(* and any number of processes, what was saved is in the file, no row of the   *)
(* file ever changes, and the store implements EventStore.                     *)
EXTENDS SqliteStore, FiniteSetTheorems, FunctionTheorems, WellFoundedInduction, TLAPS

USE StoreAssumption DEF StoreAssumption

----------------------------------------------------------------------------
(* The inductive invariant. *)

\* A table of rows, each stored under its own id and handed over before.
HandedTable(rows, fates) ==
    /\ rows \in [DOMAIN rows -> Events]
    /\ \A i \in DOMAIN rows : IdOf[rows[i]] = i /\ fates[rows[i]] # "new"

Extends(rows, old) ==
    DOMAIN old \subseteq DOMAIN rows /\ \A i \in DOMAIN old : rows[i] = old[i]

\* The connection's transaction only ever adds rows to those of the file.
ViewExtendsDisk ==
    HandedTable(disk, outcome) /\ HandedTable(view, outcome) /\ Extends(view, disk)

\* What the worker holds is what was handed over and is not settled; what it is
\* about to commit is in the transaction, what it has committed in the file.
BatchInHand ==
    /\ wpc \in WorkerPCs /\ batch \subseteq Events
    /\ outcome \in [Events -> {"new", "handed", "saved", "dropped", "lost"}]
    /\ \A e \in batch : outcome[e] = "handed"
    /\ (batch # {}) <=> (wpc \in Flushing)
    /\ wpc = "committing" => \A e \in batch : IdOf[e] \in DOMAIN view
    /\ wpc = "committed" => \A e \in batch : IdOf[e] \in DOMAIN disk

\* The attempts that are left.
AttemptsLeft ==
    /\ attempt \in 0..(Attempts - 1)
    /\ wpc = "backoff" => attempt < Attempts - 1

IInv == ViewExtendsDisk /\ BatchInHand /\ AttemptsLeft /\ SavedIsStored

----------------------------------------------------------------------------
(* The first of a set of events, and INSERT OR IGNORE. *)

LEMMA FirstIsFirst ==
    ASSUME NEW S, S \subseteq Events, S # {}
    PROVE  First(S) \in S /\ \A f \in S : First(S) <= f
<1> DEFINE Less == {p \in Nat \X Nat : p[1] < p[2]}
<1>1. IsWellFoundedOn(Less, Nat)
  BY NatLessThanWellFounded DEF OpToRel
<1>2. \A x, y \in Nat : <<y, x>> \in Less <=> y < x
  OBVIOUS
<1>. HIDE DEF Less
<1>3. PICK n \in S : \A m \in S : ~(<<m, n>> \in Less)
  BY <1>1, WFMin
<1>4. n \in Nat /\ \A m \in S : m \in Nat /\ ~(m < n)
  BY <1>2, <1>3
<1>5. \E k \in S : \A m \in S : k <= m
  BY <1>4
<1>. QED
  BY <1>5 DEF First

\* INSERT OR IGNORE of events that were handed over adds their ids, and rows of
\* theirs only, and leaves every row that was there alone.
LEMMA InsertOnlyAdds ==
    ASSUME NEW rows, NEW fates, HandedTable(rows, fates),
           NEW S, S \subseteq Events, \A e \in S : fates[e] # "new"
    PROVE  LET new == InsertOrIgnore(rows, S) IN
           /\ HandedTable(new, fates) /\ Extends(new, rows)
           /\ \A e \in S : IdOf[e] \in DOMAIN new
<1> DEFINE new == InsertOrIgnore(rows, S)
           Same(i) == {e \in S : IdOf[e] = i}
<1>1. /\ DOMAIN new = DOMAIN rows \cup {IdOf[e] : e \in S}
      /\ \A i \in DOMAIN new :
           new[i] = IF i \in DOMAIN rows THEN rows[i] ELSE First(Same(i))
  BY DEF InsertOrIgnore
<1>2. \A i \in DOMAIN new \ DOMAIN rows :
         First(Same(i)) \in Events /\ IdOf[First(Same(i))] = i
         /\ fates[First(Same(i))] # "new"
  <2>1. TAKE i \in DOMAIN new \ DOMAIN rows
  <2>2. Same(i) # {} /\ Same(i) \subseteq Events
    BY <1>1, <2>1
  <2>3. First(Same(i)) \in Same(i)
    BY <2>2, FirstIsFirst
  <2>. QED
    BY <2>3
<1>3. new \in [DOMAIN new -> Events]
  <2>1. ASSUME NEW i \in DOMAIN new PROVE new[i] \in Events
    <3> HIDE DEF new, Same
    <3>1. CASE i \in DOMAIN rows
      <4>1. new[i] = rows[i]
        BY <1>1, <2>1, <3>1
      <4>. QED
        BY <3>1, <4>1 DEF HandedTable
    <3>2. CASE i \notin DOMAIN rows
      <4>1. new[i] = First(Same(i))
        BY <1>1, <2>1, <3>2
      <4>. QED
        BY <1>2, <2>1, <3>2, <4>1
    <3>. QED
      BY <3>1, <3>2
  <2>2. new = [i \in DOMAIN new |-> new[i]]
    BY DEF InsertOrIgnore
  <2>. QED
    BY <2>1, <2>2
<1> HIDE DEF new, Same
<1>4. \A i \in DOMAIN new : IdOf[new[i]] = i /\ fates[new[i]] # "new"
  BY <1>1, <1>2 DEF HandedTable
<1>5. HandedTable(new, fates)
  BY <1>3, <1>4 DEF HandedTable
<1>6. Extends(new, rows) /\ \A e \in S : IdOf[e] \in DOMAIN new
  BY <1>1 DEF Extends
<1>. QED
  BY <1>5, <1>6 DEF new

----------------------------------------------------------------------------
LEMMA InitInv == Init => IInv
<1> SUFFICES ASSUME Init PROVE IInv
  OBVIOUS
<1>1. HandedTable(disk, outcome) /\ HandedTable(view, outcome) /\ Extends(view, disk)
  <2>1. DOMAIN disk = {} /\ disk = [i \in {} |-> 0] /\ view = disk
    BY DEF Init
  <2>2. disk \in [DOMAIN disk -> Events]
    BY <2>1
  <2>. QED
    BY <2>1, <2>2 DEF HandedTable, Extends
<1>2. BatchInHand
  BY DEF Init, BatchInHand, WorkerPCs, Flushing
<1>3. AttemptsLeft
  <2>1. attempt = 0 /\ wpc = "connecting"
    BY DEF Init
  <2>2. 0 \in 0..(Attempts - 1)
    OBVIOUS
  <2>. QED
    BY <2>1, <2>2 DEF AttemptsLeft
<1>4. SavedIsStored
  BY DEF Init, SavedIsStored
<1>. QED
  BY <1>1, <1>2, <1>3, <1>4 DEF IInv, ViewExtendsDisk

\* A table stays one when events only go from "new" to what follows.
LEMMA HandedStays ==
    ASSUME NEW rows, NEW fates, NEW later, HandedTable(rows, fates),
           \A e \in Events : fates[e] # "new" => later[e] # "new"
    PROVE  HandedTable(rows, later)
BY DEF HandedTable

\* A step outside save_batch: the file, the batch and the fates stay, the
\* transaction stays or is rolled back.
LEMMA QuietStepInv ==
    ASSUME IInv, UNCHANGED <<disk, batch, attempt, outcome>>,
           view' = view \/ view' = disk,
           \/ wpc' = wpc /\ view' = view
           \/ wpc \notin Flushing /\ wpc' \in WorkerPCs \ Flushing
    PROVE  IInv'
<1>1. ViewExtendsDisk'
  BY DEF IInv, ViewExtendsDisk, HandedTable, Extends
<1>2. BatchInHand'
  BY DEF IInv, BatchInHand, Flushing
<1>3. AttemptsLeft'
  BY DEF IInv, AttemptsLeft, Flushing
<1>4. SavedIsStored'
  BY DEF IInv, SavedIsStored
<1>. QED
  BY <1>1, <1>2, <1>3, <1>4 DEF IInv

\* The end of a flush: the batch's events get their fate and nothing else moves.
LEMMA SettleFates ==
    ASSUME BatchInHand, NEW fate \in {"saved", "dropped"}, Settle(fate)
    PROVE  /\ outcome' \in [Events -> {"new", "handed", "saved", "dropped", "lost"}]
           /\ \A e \in Events : outcome'[e] = IF e \in batch THEN fate ELSE outcome[e]
           /\ \A e \in Events : outcome[e] # "new" => outcome'[e] # "new"
           /\ batch' = {} /\ attempt' = 0 /\ wpc' = "idle"
BY DEF BatchInHand, Settle

\* save_batch raised, with the transaction in some state that still extends the
\* file: a retry, or the end of the flush.
LEMMA RaiseInv ==
    ASSUME IInv, Raise, UNCHANGED disk, wpc \in {"inserting", "committing"},
           HandedTable(view', outcome), Extends(view', disk)
    PROVE  IInv'
<1>1. CASE attempt < Attempts - 1 /\ wpc' = "backoff" /\ UNCHANGED <<batch, attempt, outcome>>
  <2>1. ViewExtendsDisk'
    BY <1>1 DEF IInv, ViewExtendsDisk
  <2>2. BatchInHand'
    BY <1>1 DEF IInv, BatchInHand, WorkerPCs, Flushing
  <2>3. AttemptsLeft'
    BY <1>1 DEF IInv, AttemptsLeft
  <2>4. SavedIsStored'
    BY <1>1 DEF IInv, SavedIsStored
  <2>. QED
    BY <2>1, <2>2, <2>3, <2>4 DEF IInv
<1>2. CASE Settle("dropped")
  <2>0. /\ outcome' \in [Events -> {"new", "handed", "saved", "dropped", "lost"}]
        /\ \A e \in Events : outcome'[e] = IF e \in batch THEN "dropped" ELSE outcome[e]
        /\ \A e \in Events : outcome[e] # "new" => outcome'[e] # "new"
        /\ batch' = {} /\ attempt' = 0 /\ wpc' = "idle"
    BY <1>2, SettleFates DEF IInv
  <2>1. ViewExtendsDisk'
    BY <2>0, HandedStays DEF IInv, ViewExtendsDisk
  <2>2. BatchInHand'
    BY <2>0 DEF BatchInHand, WorkerPCs, Flushing
  <2>3. AttemptsLeft'
    BY <2>0 DEF AttemptsLeft
  <2>4. SavedIsStored'
    BY <2>0 DEF IInv, SavedIsStored
  <2>. QED
    BY <2>1, <2>2, <2>3, <2>4 DEF IInv
<1>. QED
  BY <1>1, <1>2 DEF Raise

LEMMA NextInv ==
    ASSUME IInv, [Next]_vars
    PROVE  IInv'
<1> USE DEF WorkerGoes, storeVars, workerVars, readVars
<1>1. CASE \/ Connect \/ CreateTables \/ InitializeRaises \/ Stop \/ CloseReturns
           \/ CloseRaises \/ ForgetConnection \/ PostRead \/ ReadWithoutStore
           \/ ExecuteRead \/ FetchRow \/ ReadRaises \/ UNCHANGED vars
  <2>1. UNCHANGED <<disk, batch, attempt, outcome>> /\ (view' = view \/ view' = disk)
    BY <1>1 DEF Connect, CreateTables, InitializeRaises, Stop, CloseReturns, CloseRaises,
                ForgetConnection, PostRead, AnswerRead, ReadWithoutStore, ExecuteRead, FetchRow,
                ReadRaises, vars
  <2>2. \/ wpc' = wpc /\ view' = view
        \/ wpc \notin Flushing /\ wpc' \in WorkerPCs \ Flushing
    BY <1>1 DEF Connect, CreateTables, InitializeRaises, Stop, CloseReturns, CloseRaises,
                ForgetConnection, PostRead, AnswerRead, ReadWithoutStore, ExecuteRead, FetchRow,
                ReadRaises, vars, WorkerPCs, Flushing
  <2>. QED
    BY <2>1, <2>2, QuietStepInv
<1>2. CASE TakeBatch
  <2>1. /\ batch' \subseteq {e \in Events : outcome[e] = "new"} /\ batch' # {}
        /\ wpc = "idle" /\ wpc' = "inserting" /\ attempt' = 0
        /\ UNCHANGED <<disk, view>>
        /\ outcome' = [e \in Events |-> IF e \in batch' THEN "handed" ELSE outcome[e]]
    <3> DEFINE new == {e \in Events : outcome[e] = "new"}
    <3>1. PICK k \in 1..BatchSize : batch' = {e \in new : e < First(new) + k}
      BY <1>2 DEF TakeBatch
    <3>2. new # {} /\ new \subseteq Events
      BY <1>2 DEF TakeBatch
    <3>3. First(new) \in new
      BY <3>2, FirstIsFirst
    <3>4. First(new) < First(new) + k
      <4>1. First(new) \in Nat /\ k \in Nat /\ k >= 1
        <5>1. First(new) \in Nat
          BY <3>2, <3>3
        <5>2. k \in Nat /\ k >= 1
          BY <3>1
        <5>. QED
          BY <5>1, <5>2
      <4>. QED
        BY <4>1
    <3>5. First(new) \in batch'
      BY <3>1, <3>3, <3>4
    <3>. QED
      BY <1>2, <3>1, <3>5 DEF TakeBatch
  <2>2. /\ outcome' \in [Events -> {"new", "handed", "saved", "dropped", "lost"}]
        /\ \A e \in Events : outcome'[e] = IF e \in batch' THEN "handed" ELSE outcome[e]
    BY <2>1 DEF IInv, BatchInHand
  <2>3. \A e \in Events : outcome[e] # "new" => outcome'[e] # "new"
    BY <2>1, <2>2
  <2>4. ViewExtendsDisk'
    BY <2>1, <2>3, HandedStays DEF IInv, ViewExtendsDisk
  <2>5. BatchInHand'
    BY <2>1, <2>2 DEF BatchInHand, WorkerPCs, Flushing
  <2>6. AttemptsLeft'
    BY <2>1 DEF AttemptsLeft
  <2>7. SavedIsStored'
    BY <2>1, <2>2 DEF IInv, SavedIsStored
  <2>. QED
    BY <2>4, <2>5, <2>6, <2>7 DEF IInv
<1>3. CASE InsertReturns
  <2>1. /\ view' = InsertOrIgnore(view, batch) /\ wpc = "inserting" /\ wpc' = "committing"
        /\ UNCHANGED <<disk, batch, attempt, outcome>>
    BY <1>3 DEF InsertReturns
  <2>2. /\ HandedTable(view', outcome) /\ Extends(view', view)
        /\ \A e \in batch : IdOf[e] \in DOMAIN view'
    BY <2>1, InsertOnlyAdds DEF IInv, ViewExtendsDisk, BatchInHand
  <2>3. ViewExtendsDisk'
    BY <2>1, <2>2 DEF IInv, ViewExtendsDisk, Extends
  <2>4. BatchInHand' /\ AttemptsLeft' /\ SavedIsStored'
    BY <2>1, <2>2 DEF IInv, BatchInHand, AttemptsLeft, SavedIsStored, WorkerPCs, Flushing
  <2>. QED
    BY <2>3, <2>4 DEF IInv
<1>4. CASE InsertRaises
  <2>1. /\ wpc = "inserting" /\ Raise /\ UNCHANGED disk
        /\ \/ \E e \in batch : view' = InsertOrIgnore(view, {f \in batch : f < e})
           \/ view' = disk
    BY <1>4 DEF InsertRaises
  <2>2. HandedTable(view', outcome) /\ Extends(view', disk)
    <3>1. CASE view' = disk
      BY <3>1 DEF IInv, ViewExtendsDisk, Extends
    <3>2. CASE \E e \in batch : view' = InsertOrIgnore(view, {f \in batch : f < e})
      <4>1. PICK e \in batch : view' = InsertOrIgnore(view, {f \in batch : f < e})
        BY <3>2
      <4>2. HandedTable(view', outcome) /\ Extends(view', view)
        BY <4>1, InsertOnlyAdds DEF IInv, ViewExtendsDisk, BatchInHand
      <4>. QED
        BY <4>2 DEF IInv, ViewExtendsDisk, Extends
    <3>. QED
      BY <2>1, <3>1, <3>2
  <2>. QED
    BY <2>1, <2>2, RaiseInv
<1>5. CASE CommitReturns
  <2>1. wpc = "committed" /\ UNCHANGED <<disk, view>> /\ Settle("saved")
    BY <1>5 DEF CommitReturns
  <2>2. /\ outcome' \in [Events -> {"new", "handed", "saved", "dropped", "lost"}]
        /\ \A e \in Events : outcome'[e] = IF e \in batch THEN "saved" ELSE outcome[e]
        /\ \A e \in Events : outcome[e] # "new" => outcome'[e] # "new"
        /\ batch' = {} /\ attempt' = 0 /\ wpc' = "idle"
    BY <2>1, SettleFates DEF IInv
  <2>3. ViewExtendsDisk'
    BY <2>1, <2>2, HandedStays DEF IInv, ViewExtendsDisk
  <2>4. BatchInHand'
    BY <2>2 DEF BatchInHand, WorkerPCs, Flushing
  <2>5. AttemptsLeft'
    BY <2>2 DEF AttemptsLeft
  <2>6. SavedIsStored'
    BY <2>1, <2>2 DEF IInv, BatchInHand, SavedIsStored
  <2>. QED
    BY <2>3, <2>4, <2>5, <2>6 DEF IInv
<1>9. CASE Commit
  <2>1. /\ wpc = "committing" /\ wpc' = "committed" /\ disk' = view
        /\ UNCHANGED <<view, batch, attempt, outcome>>
    BY <1>9 DEF Commit
  <2>2. ViewExtendsDisk'
    BY <2>1 DEF IInv, ViewExtendsDisk, Extends
  <2>3. BatchInHand'
    BY <2>1 DEF IInv, BatchInHand, WorkerPCs, Flushing
  <2>4. AttemptsLeft'
    BY <2>1 DEF IInv, AttemptsLeft
  <2>5. SavedIsStored'
    BY <2>1 DEF IInv, ViewExtendsDisk, Extends, SavedIsStored
  <2>. QED
    BY <2>2, <2>3, <2>4, <2>5 DEF IInv
<1>6. CASE CommitRaises
  <2>1. wpc = "committing" /\ Raise /\ UNCHANGED disk /\ view' \in {view, disk}
    BY <1>6 DEF CommitRaises
  <2>2. HandedTable(view', outcome) /\ Extends(view', disk)
    BY <2>1 DEF IInv, ViewExtendsDisk, Extends
  <2>. QED
    BY <2>1, <2>2, RaiseInv
<1>7. CASE BackoffEnds
  <2>1. /\ wpc = "backoff" /\ wpc' = "inserting" /\ attempt' = attempt + 1
        /\ UNCHANGED <<disk, view, batch, outcome>>
    BY <1>7 DEF BackoffEnds
  <2>2. ViewExtendsDisk' /\ SavedIsStored'
    BY <2>1 DEF IInv, ViewExtendsDisk, SavedIsStored
  <2>3. BatchInHand'
    BY <2>1 DEF IInv, BatchInHand, WorkerPCs, Flushing
  <2>4. AttemptsLeft'
    BY <2>1 DEF IInv, AttemptsLeft
  <2>. QED
    BY <2>2, <2>3, <2>4 DEF IInv
<1>8. CASE Restart
  <2>1. /\ disk' = disk /\ view' = disk /\ wpc' = "connecting"
        /\ batch' = {} /\ attempt' = 0
        /\ outcome' = [e \in Events |-> IF e \in batch THEN "lost" ELSE outcome[e]]
    BY <1>8 DEF Restart
  <2>2. /\ outcome' \in [Events -> {"new", "handed", "saved", "dropped", "lost"}]
        /\ \A e \in Events : outcome'[e] = IF e \in batch THEN "lost" ELSE outcome[e]
        /\ \A e \in Events : outcome[e] # "new" => outcome'[e] # "new"
    BY <2>1 DEF IInv, BatchInHand
  <2>3. ViewExtendsDisk'
    BY <2>1, <2>2, HandedStays DEF IInv, ViewExtendsDisk, Extends
  <2>4. BatchInHand'
    BY <2>1, <2>2 DEF BatchInHand, WorkerPCs, Flushing
  <2>5. AttemptsLeft'
    BY <2>1 DEF AttemptsLeft
  <2>6. SavedIsStored'
    BY <2>1, <2>2 DEF IInv, SavedIsStored
  <2>. QED
    BY <2>3, <2>4, <2>5, <2>6 DEF IInv
<1>. QED
  BY <1>1, <1>2, <1>3, <1>4, <1>5, <1>6, <1>7, <1>8, <1>9 DEF Next

\* The transaction extends the file, what it adds was handed over, and the
\* worker holds exactly what it is about to store.
THEOREM InductiveInvariant == Spec => []IInv
BY InitInv, NextInv, PTL DEF Spec

\* An event whose save_batch returned has its id in the file, for ever: through
\* retries, half-done transactions and any number of ends of the process.
THEOREM SavedStays == Spec => []SavedIsStored
BY InductiveInvariant, PTL DEF IInv

----------------------------------------------------------------------------
(* The file only grows, and what is in it is found. *)

\* Every step of the store leaves the rows of the file as they are.
LEMMA FileOnlyGrows ==
    ASSUME IInv, [Next]_vars
    PROVE  Extends(disk', disk)
<1> USE DEF storeVars, workerVars, readVars
<1>1. disk' = disk \/ disk' = view
  BY DEF Next, vars, Connect, CreateTables, InitializeRaises, TakeBatch, InsertReturns,
         InsertRaises, Commit, CommitReturns, CommitRaises, BackoffEnds, Stop, CloseReturns,
         CloseRaises, ForgetConnection, Restart, PostRead, AnswerRead, ReadWithoutStore,
         ExecuteRead, FetchRow, ReadRaises
<1>. QED
  BY <1>1 DEF IInv, ViewExtendsDisk, Extends

\* A committed row is never changed or removed: not by a retry, not by an event
\* that repeats its id, not by the end of a process.
THEOREM CommittedRowsStay == Spec => RowsNeverChange
<1> DEFINE Keeps == \A i \in DOMAIN disk : i \in DOMAIN disk' /\ disk'[i] = disk[i]
<1>1. IInv /\ [Next]_vars => [Keeps]_vars
  <2>1. SUFFICES ASSUME IInv, [Next]_vars PROVE Keeps
    OBVIOUS
  <2>2. Extends(disk', disk)
    BY <2>1, FileOnlyGrows
  <2>. QED
    BY <2>2 DEF Extends
<1>. QED
  BY <1>1, InductiveInvariant, PTL DEF Spec, RowsNeverChange

\* What the reader knows to be saved is in the file while it waits, in a row one
\* can read; its statement finds that row.
ReadInv ==
    /\ known => \A e \in Unreadable : IdOf[e] # rid
    /\ rpc = "posted" /\ known => rid \in DOMAIN disk
    /\ rpc = "fetching" /\ known => ~(cursor \subseteq Unreadable)
    /\ ReadsFindSaved

LEMMA NextReadInv ==
    ASSUME IInv, ReadInv, [Next]_vars
    PROVE  ReadInv'
<1> USE DEF storeVars, workerVars, readVars
<1>0. Extends(disk', disk)
  BY FileOnlyGrows
<1>1. CASE UNCHANGED readVars
  BY <1>0, <1>1 DEF ReadInv, ReadsFindSaved, Extends
<1>2. CASE Restart
  BY <1>2 DEF Restart, ReadInv, ReadsFindSaved
<1>3. CASE PostRead
  <2>1. answer' = "" /\ rid' \in Ids /\ UNCHANGED disk
        /\ rpc' = "posted"
        /\ known' = (/\ \E e \in Events : IdOf[e] = rid' /\ outcome[e] = "saved"
                     /\ \A e \in Unreadable : IdOf[e] # rid')
    BY <1>3 DEF PostRead
  <2>2. known' => rid' \in DOMAIN disk' /\ \A e \in Unreadable : IdOf[e] # rid'
    BY <2>1 DEF IInv, SavedIsStored
  <2>. QED
    BY <2>1, <2>2 DEF ReadInv, ReadsFindSaved
<1>4. CASE ReadWithoutStore \/ FetchRow \/ ReadRaises
  <2>1. /\ rpc' = "idle" /\ openThen' = Ready /\ UNCHANGED <<rid, known>>
        /\ answer' = "None" /\ known => ~Ready
    <3>1. CASE ReadWithoutStore \/ ReadRaises
      BY <3>1 DEF ReadWithoutStore, ReadRaises, AnswerRead, Ready
    <3>2. CASE FetchRow
      BY <3>2 DEF FetchRow, AnswerRead, ReadInv
    <3>. QED
      BY <1>4, <3>1, <3>2
  <2>. QED
    BY <2>1 DEF ReadInv, ReadsFindSaved
<1>5. CASE ExecuteRead
  <2>1. /\ rpc = "posted" /\ rpc' = "fetching" /\ UNCHANGED <<rid, known, answer, openThen>>
        /\ cursor' = {view[i] : i \in DOMAIN view \cap {rid}}
    BY <1>5 DEF ExecuteRead
  <2>2. ASSUME known PROVE ~(cursor' \subseteq Unreadable)
    <3>1. rid \in DOMAIN view /\ IdOf[view[rid]] = rid
      BY <2>1, <2>2 DEF ReadInv, IInv, ViewExtendsDisk, HandedTable, Extends
    <3>2. view[rid] \in cursor'
      BY <2>1, <3>1
    <3>. QED
      BY <2>2, <3>1, <3>2 DEF ReadInv
  <2>. QED
    BY <2>1, <2>2 DEF ReadInv, ReadsFindSaved
<1>. QED
  BY <1>1, <1>2, <1>3, <1>4, <1>5 DEF Next, vars, Connect, CreateTables, InitializeRaises,
     TakeBatch, InsertReturns, InsertRaises, Commit, CommitReturns, CommitRaises, BackoffEnds,
     Stop, CloseReturns, CloseRaises, ForgetConnection

\* While the store is ready a read finds every event that was saved before it
\* was posted, by this process or an earlier one.
THEOREM SavedIsFound == Spec => []ReadsFindSaved
<1>1. Init => ReadInv
  BY DEF Init, ReadInv, ReadsFindSaved
<1>2. IInv /\ ReadInv /\ [Next]_vars => ReadInv'
  BY NextReadInv
<1>3. ReadInv => ReadsFindSaved
  BY DEF ReadInv
<1>. QED
  BY <1>1, <1>2, <1>3, InductiveInvariant, PTL DEF Spec

----------------------------------------------------------------------------
(* The store implements EventStore. *)

LEMMA InitRefines == Init => store!Init
BY DEF Init, store!Init

\* A step that leaves the file and the fates alone is a stutter.
LEMMA StutterRefines ==
    ASSUME UNCHANGED <<disk, outcome>>
    PROVE  [store!Next]_(store!vars)
BY DEF store!vars

\* The file stays and handed events get a fate, "saved" only if they are in it:
\* EventStore settles them.
LEMMA FateRefines ==
    ASSUME ViewExtendsDisk, BatchInHand, UNCHANGED disk,
           NEW fate \in {"saved", "dropped", "lost"},
           fate = "saved" => wpc = "committed",
           outcome' = [e \in Events |-> IF e \in batch THEN fate ELSE outcome[e]]
    PROVE  store!Settle
<1>1. batch \in SUBSET {e \in Events : outcome[e] = "handed"}
  BY DEF BatchInHand
<1>2. disk' \in [DOMAIN disk \cup {} -> Events] /\ store!Grow(disk')
  BY DEF ViewExtendsDisk, HandedTable, store!Grow
<1>3. \E S \in SUBSET {e \in Events : outcome[e] = "handed"} :
      \E given \in {"saved", "dropped", "lost"} :
        /\ given = "saved" => \A e \in S : IdOf[e] \in DOMAIN disk'
        /\ outcome' = [e \in Events |-> IF e \in S THEN given ELSE outcome[e]]
  <2>1. WITNESS batch \in SUBSET {e \in Events : outcome[e] = "handed"}
  <2>2. fate = "saved" => \A e \in batch : IdOf[e] \in DOMAIN disk'
    BY DEF BatchInHand
  <2>. QED
    BY <2>2
<1>4. {} \in SUBSET store!Ids
  OBVIOUS
<1>. QED
  BY <1>2, <1>3, <1>4 DEF store!Settle

\* The transaction becomes the file.
LEMMA CommitRefines ==
    ASSUME ViewExtendsDisk, disk' = view, UNCHANGED outcome
    PROVE  store!Settle
<1> DEFINE D == DOMAIN view \ DOMAIN disk
<1>1. D \in SUBSET store!Ids /\ DOMAIN disk \cup D = DOMAIN view
  BY DEF ViewExtendsDisk, HandedTable, Extends, store!Ids
<1>2. disk' \in [DOMAIN disk \cup D -> Events]
  BY <1>1 DEF ViewExtendsDisk, HandedTable
<1>3. store!Grow(disk')
  BY DEF ViewExtendsDisk, HandedTable, Extends, store!Grow
<1>. QED
  BY <1>1, <1>2, <1>3 DEF store!Settle

LEMMA NextRefines ==
    ASSUME IInv, [Next]_vars
    PROVE  [store!Next]_(store!vars)
<1> USE DEF storeVars, workerVars, readVars, store!Next
<1>0. ViewExtendsDisk /\ BatchInHand
  BY DEF IInv
<1>1. CASE \/ Connect \/ CreateTables \/ InitializeRaises \/ Stop \/ CloseReturns
           \/ CloseRaises \/ ForgetConnection \/ PostRead \/ ReadWithoutStore
           \/ ExecuteRead \/ FetchRow \/ ReadRaises \/ UNCHANGED vars
           \/ InsertReturns \/ BackoffEnds
  BY <1>1, StutterRefines DEF Connect, CreateTables, InitializeRaises, Stop, CloseReturns,
     CloseRaises, ForgetConnection, PostRead, AnswerRead, ReadWithoutStore, ExecuteRead,
     FetchRow, ReadRaises, vars, InsertReturns, BackoffEnds
<1>2. CASE TakeBatch
  <2>1. /\ batch' \in SUBSET {e \in Events : outcome[e] = "new"}
        /\ outcome' = [e \in Events |-> IF e \in batch' THEN "handed" ELSE outcome[e]]
        /\ UNCHANGED disk
    BY <1>2 DEF TakeBatch
  <2>. QED
    BY <2>1 DEF store!HandOver
<1>3. CASE InsertRaises \/ CommitRaises
  <2>1. Raise /\ UNCHANGED disk
    BY <1>3 DEF InsertRaises, CommitRaises
  <2>2. CASE UNCHANGED outcome
    BY <2>1, <2>2, StutterRefines
  <2>3. CASE Settle("dropped")
    BY <1>0, <2>1, <2>3, FateRefines DEF Settle
  <2>. QED
    BY <2>1, <2>2, <2>3 DEF Raise
<1>4. CASE Commit
  BY <1>0, <1>4, CommitRefines DEF Commit
<1>6. CASE CommitReturns
  BY <1>0, <1>6, FateRefines DEF CommitReturns, Settle
<1>5. CASE Restart
  BY <1>0, <1>5, FateRefines DEF Restart
<1>. QED
  BY <1>1, <1>2, <1>3, <1>4, <1>5, <1>6 DEF Next

\* The SQLite store is an EventStore: rows appear only of events that were
\* handed over, the first event with an id wins, and an event is saved only
\* once its id is in the file.
THEOREM RefinesEventStore == Spec => ImplementsEventStore
BY InitRefines, NextRefines, InductiveInvariant, PTL
   DEF Spec, ImplementsEventStore, store!Spec

----------------------------------------------------------------------------
(* Types. *)

\* What the proofs above do not need: the types of the connection and the reader.
ReaderTypes ==
    /\ schema \in BOOLEAN /\ conn \in {"none", "open", "closed"} /\ sessions \in 1..MaxSessions
    /\ rpc \in {"idle", "posted", "fetching"} /\ rid \in Ids
    /\ cursor \subseteq Events /\ answer \in {"", "row", "None", "raised"}
    /\ known \in BOOLEAN /\ openThen \in BOOLEAN

LEMMA NextReaderTypes ==
    ASSUME IInv, ReaderTypes, [Next]_vars
    PROVE  ReaderTypes'
<1> USE DEF storeVars, workerVars, readVars, WorkerGoes, Settle, Raise
<1>1. CASE UNCHANGED <<sessions, readVars>>
  <2>1. schema' \in BOOLEAN /\ conn' \in {"none", "open", "closed"}
    BY <1>1 DEF ReaderTypes, Next, vars, Connect, CreateTables, InitializeRaises, TakeBatch,
       InsertReturns, InsertRaises, Commit, CommitReturns, CommitRaises, BackoffEnds, Stop,
       CloseReturns, CloseRaises, ForgetConnection, Restart, PostRead, AnswerRead,
       ReadWithoutStore, ExecuteRead, FetchRow, ReadRaises
  <2>. QED
    BY <1>1, <2>1 DEF ReaderTypes
<1>2. CASE Restart
  <2>1. sessions' \in 1..MaxSessions
    <3>1. sessions \in 1..MaxSessions
      BY Zenon DEF ReaderTypes
    <3>2. sessions < MaxSessions /\ sessions' = sessions + 1
      BY <1>2, Zenon DEF Restart
    <3>. QED
      BY <3>1, <3>2
  <2>2. known' = FALSE /\ openThen' = FALSE
    BY <1>2 DEF Restart
  <2>3. known' \in BOOLEAN /\ openThen' \in BOOLEAN
    BY <2>2, Zenon
  <2>4. schema' \in BOOLEAN
    BY <1>2, Zenon DEF ReaderTypes, Restart
  <2>5. /\ conn' \in {"none", "open", "closed"} /\ rpc' \in {"idle", "posted", "fetching"}
        /\ rid' \in Ids /\ cursor' \subseteq Events /\ answer' \in {"", "row", "None", "raised"}
    BY <1>2 DEF ReaderTypes, Restart
  <2>. QED
    BY <2>1, <2>3, <2>4, <2>5, Zenon DEF ReaderTypes
<1>3. CASE PostRead
  <2>1. known' \in BOOLEAN
    BY <1>3, Zenon DEF PostRead
  <2>. QED
    BY <1>3, <2>1 DEF ReaderTypes, PostRead
<1>4. CASE ReadWithoutStore \/ FetchRow \/ ReadRaises
  <2>1. PICK a \in {"None", "row", "raised"} : AnswerRead(a)
    BY <1>4 DEF ReadWithoutStore, FetchRow, ReadRaises
  <2>2. openThen' \in BOOLEAN
    BY <2>1, Zenon DEF AnswerRead, Ready
  <2>. QED
    BY <2>1, <2>2 DEF ReaderTypes, AnswerRead
<1>5. CASE ExecuteRead
  <2>1. /\ cursor' = {view[i] : i \in DOMAIN view \cap {rid}} /\ rpc' = "fetching"
        /\ UNCHANGED <<schema, conn, sessions, rid, answer, known, openThen>>
    BY <1>5 DEF ExecuteRead
  <2>2. cursor' \subseteq Events
    BY <2>1 DEF IInv, ViewExtendsDisk, HandedTable
  <2>. QED
    BY <2>1, <2>2 DEF ReaderTypes
<1>. QED
  BY <1>1, <1>2, <1>3, <1>4, <1>5 DEF Next, vars, Connect, CreateTables, InitializeRaises,
     TakeBatch, InsertReturns, InsertRaises, Commit, CommitReturns, CommitRaises, BackoffEnds,
     Stop, CloseReturns, CloseRaises, ForgetConnection

\* Every variable has its type: the rows of the file and of the transaction are
\* events under their ids, and only a flush holds a batch.
THEOREM TypeCorrect == Spec => []TypeOK
<1>1. Init => ReaderTypes
  <2>1. SUFFICES ASSUME Init PROVE ReaderTypes
    OBVIOUS
  <2>2. 1 \in 1..MaxSessions
    OBVIOUS
  <2>3. schema \in BOOLEAN /\ known \in BOOLEAN /\ openThen \in BOOLEAN
    BY <2>1, Zenon DEF Init
  <2>4. /\ conn \in {"none", "open", "closed"} /\ sessions \in 1..MaxSessions
        /\ rpc \in {"idle", "posted", "fetching"} /\ rid \in Ids /\ cursor \subseteq Events
        /\ answer \in {"", "row", "None", "raised"}
    BY <2>1, <2>2 DEF Init
  <2>. QED
    BY <2>3, <2>4, Zenon DEF ReaderTypes
<1>2. IInv /\ ReaderTypes /\ [Next]_vars => ReaderTypes'
  BY NextReaderTypes
<1>3. IInv /\ ReaderTypes => TypeOK
  <2>1. ASSUME NEW rows, HandedTable(rows, outcome) PROVE IsTable(rows)
    BY <2>1 DEF HandedTable, IsTable, Ids
  <2>2. IInv => IsTable(disk) /\ IsTable(view)
    BY <2>1 DEF IInv, ViewExtendsDisk
  <2>3. IInv => /\ wpc \in WorkerPCs /\ batch \subseteq Events
                /\ attempt \in 0..(Attempts - 1)
                /\ (batch # {}) <=> (wpc \in Flushing)
                /\ outcome \in [Events -> {"new", "handed", "saved", "dropped", "lost"}]
    BY DEF IInv, BatchInHand, AttemptsLeft
  <2>. QED
    BY <2>2, <2>3, Zenon DEF ReaderTypes, TypeOK
<1>. QED
  BY <1>1, <1>2, <1>3, InductiveInvariant, PTL DEF Spec

=============================================================================
