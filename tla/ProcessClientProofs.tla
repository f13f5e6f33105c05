------------------------- MODULE ProcessClientProofs -------------------------
(* The theorems about ProcessClient and their proofs: for any number of         *)
(* threads, clients and calls.                                                  *)
EXTENDS ProcessClient, SequenceTheorems, TLAPS

USE ProcessAssumption DEF ProcessAssumption, Lives

\* A thread in a call works on what it was given: start() on the client it
\* constructed.  Calls are made while the process lives.
CallsInOrder ==
    \A t \in Threads :
      /\ pc[t] = "starting" => client[t] # 0
      /\ pc[t] # "idle" => calls # 0 /\ exit = "no"

\* The workers of the clients constructed were started, and those that are the default, or that an
\* init() returned, have their loop.
WorkersStarted ==
    /\ \A c \in Clients : worker[c] # "none" <=> c <= made
    /\ default # 0 => worker[default] # "thread"
    /\ HeldClientHasLoop

\* TypeOK without atexit, which is a sequence,
Types ==
    /\ default \in 0..made /\ made \in 0..MaxClients /\ calls \in 0..MaxCalls
    /\ worker \in [Clients -> Lives] /\ queued \in [Clients -> Nat]
    /\ pc \in [Threads -> PCs]
    /\ client \in [Threads -> 0..made] /\ held \in [Threads -> 0..made]
    /\ exit \in {"no", "running", "joining", "gone"}
    /\ parted \subseteq 1..made /\ failed \subseteq 1..made
    /\ overlap \in BOOLEAN /\ surprised \in BOOLEAN

\* and the type of atexit.
HandlersTyped == atexit \in Seq(1..made)

Core == Types /\ CallsInOrder /\ WorkersStarted
Basics == Core /\ HandlersTyped

Registered(c, handlers) == \E i \in 1..Len(handlers) : handlers[i] = c

\* Every worker whose start() returned is registered with atexit until it is
\* asked to stop.
ExitReaches ==
    /\ \A c \in 1..made :
         \/ Registered(c, atexit) \/ c \in parted
         \/ \E t \in Threads : pc[t] = "starting" /\ client[t] = c
    /\ ExitAsksEveryWorker

\* What holds in a process whose init() and shutdown() overlapped no other call:
\* they had the variable for themselves,
Alone ==
    \A t \in Threads : pc[t] \in InInit \cup InShutdown =>
      \A u \in Threads \ {t} : pc[u] \in {"idle", "reading"}

\* found in it at each read what their first look found,
VariableKept ==
    \A t \in Threads :
      /\ pc[t] \in {"constructing", "starting"} => default = 0
      /\ pc[t] \in {"returning", "checking", "stopping", "calling"} => default # 0
      /\ pc[t] \in {"joining", "clearing"} => default = 0 \/ default \in parted
      /\ pc[t] = "emitting" => client[t] = default /\ default # 0

\* and lost no client; the default is stopped only by a shutdown() that is about
\* to clear it, or at the end of the process,
NoneForgotten ==
    /\ \A c \in 1..made :
         \/ c = default \/ c \in parted
         \/ \E t \in Threads : pc[t] = "starting" /\ client[t] = c
    /\ \A t \in Threads : pc[t] = "starting" => client[t] \notin parted
    /\ default \in parted =>
         exit # "no" \/ \E t \in Threads : pc[t] \in {"joining", "clearing"}

\* so that a queue that had its last drain stays empty.
DrainedStaysEmpty ==
    \A c \in Clients : worker[c] \in {"closing", "ended", "closed"} /\ c \notin failed =>
      queued[c] = 0

InSequence ==
    ~overlap => Alone /\ VariableKept /\ NoneForgotten /\ DrainedStaysEmpty /\ ~surprised

\* A worker leaves its loop because it was asked to, or because its store failed.
StopsForAReason ==
    \A c \in Clients :
      /\ worker[c] \in {"told", "stopping", "closing"} => c \in parted
      /\ worker[c] \in {"ended", "closed"} => c \in parted \cup failed

IInv == Basics /\ ExitReaches /\ StopsForAReason /\ InSequence
----------------------------------------------------------------------------
(* The handlers of atexit, a sequence of clients. *)

LEMMA MoreClients ==
    ASSUME NEW m \in Nat, NEW n \in Nat, m <= n, NEW s \in Seq(1..m)
    PROVE  s \in Seq(1..n)
<1>1. Len(s) \in Nat /\ s \in [1..Len(s) -> 1..m]
  BY LenProperties
<1>2. s \in [1..Len(s) -> 1..n]
  BY <1>1
<1>. QED
  BY <1>1, <1>2, SeqDef

LEMMA Registering ==
    ASSUME NEW S, NEW s \in Seq(S), NEW c \in S
    PROVE  /\ Append(s, c) \in Seq(S) /\ Registered(c, Append(s, c))
           /\ \A d : Registered(d, s) => Registered(d, Append(s, c))
<1>1. /\ Append(s, c) \in Seq(S) /\ Len(s) \in Nat /\ Len(Append(s, c)) = Len(s) + 1
      /\ \A i \in 1..Len(s) : Append(s, c)[i] = s[i]
      /\ Append(s, c)[Len(s) + 1] = c
  BY AppendProperties, LenProperties
<1>2. Registered(c, Append(s, c))
  BY <1>1 DEF Registered
<1>3. ASSUME NEW d, Registered(d, s) PROVE Registered(d, Append(s, c))
  BY <1>1, <1>3 DEF Registered
<1>. QED
  BY <1>1, <1>2, <1>3

\* A handler that runs is the last one; the others stay.
LEMMA RunningTheLast ==
    ASSUME NEW S, NEW s \in Seq(S), s # <<>>
    PROVE  /\ s[Len(s)] \in S /\ SubSeq(s, 1, Len(s) - 1) \in Seq(S)
           /\ \A d : Registered(d, s) =>
                d = s[Len(s)] \/ Registered(d, SubSeq(s, 1, Len(s) - 1))
<1> DEFINE n == Len(s)
           front == SubSeq(s, 1, n - 1)
<1>1. n \in Nat /\ n # 0 /\ s \in [1..n -> S]
  BY LenProperties, EmptySeq
<1>2. /\ front \in Seq(S) /\ Len(front) = n - 1
      /\ \A i \in 1..(n - 1) : front[i] = s[i]
  BY <1>1, SubSeqProperties
<1>. HIDE DEF front
<1>3. ASSUME NEW d, Registered(d, s), d # s[n] PROVE Registered(d, front)
  <2>1. PICK i \in 1..n : s[i] = d
    BY <1>3 DEF Registered
  <2>2. i \in 1..(n - 1)
    BY <1>1, <1>3, <2>1
  <2>. QED
    BY <1>2, <2>1, <2>2 DEF Registered
<1>4. s[n] \in S
  BY <1>1
<1>. QED
  BY <1>2, <1>3, <1>4 DEF front

\* A worker that is asked to stop stays where it is, or heads for its last drain.
LEMMA Signalled ==
    ASSUME NEW c \in Clients, worker \in [Clients -> Lives], SignalStop(c)
    PROVE  /\ worker' \in [Clients -> Lives] /\ parted' = parted \cup {c}
           /\ \A d \in Clients \ {c} : worker'[d] = worker[d]
           /\ \/ worker'[c] = worker[c]
              \/ worker'[c] = "told" /\ worker[c] = "initializing"
              \/ worker'[c] = "stopping" /\ worker[c] = "up"
<1>1. PICK life \in Lives :
        /\ worker' = [worker EXCEPT ![c] = life]
        /\ \/ life = worker[c]
           \/ life = "told" /\ worker[c] = "initializing"
           \/ life = "stopping" /\ worker[c] = "up"
  <2>1. CASE worker[c] = "initializing"
    BY <2>1 DEF SignalStop
  <2>2. CASE worker[c] = "up"
    BY <2>2 DEF SignalStop
  <2>3. CASE worker[c] \notin {"initializing", "up"}
    BY <2>3 DEF SignalStop
  <2>. QED
    BY <2>1, <2>2, <2>3
<1>. QED
  BY <1>1 DEF SignalStop

----------------------------------------------------------------------------
LEMMA InitInv == Init => IInv
<1> SUFFICES ASSUME Init PROVE IInv
  OBVIOUS
<1>1. Basics
  <2>1. 1..made = {} /\ made = 0 /\ 0 \in 0..made /\ 0 \in 0..MaxClients /\ 0 \in 0..MaxCalls
    BY DEF Init
  <2>2. Types
    BY <2>1 DEF Init, Types, Clients, PCs
  <2>3. HandlersTyped
    BY EmptySeq DEF Init, HandlersTyped
  <2>. QED
    BY <2>1, <2>2, <2>3 DEF Init, Basics, Core, CallsInOrder, WorkersStarted,
       HeldClientHasLoop, Clients
<1>2. ExitReaches /\ StopsForAReason
  BY DEF Init, ExitReaches, ExitAsksEveryWorker, StopsForAReason
<1>3. InSequence
  BY DEF Init, InSequence, Alone, VariableKept, NoneForgotten, DrainedStaysEmpty,
     InInit, InShutdown
<1>. QED
  BY <1>1, <1>2, <1>3 DEF IInv

----------------------------------------------------------------------------
(* Types, and where the calls are. *)

LEMMA CoreByThread ==
    ASSUME Core, NEW t \in Threads, ThreadStep(t)
    PROVE  Core'
<1> USE DEF Core, Types, CallsInOrder, WorkersStarted, HeldClientHasLoop, shared,
        Begin, Go, Dereference, Publish, Clients, PCs, InInit, InShutdown
<1>1. CASE CallInit(t)
  BY <1>1 DEF CallInit
<1>2. CASE Construct(t)
  <2>1. /\ made' = made + 1 /\ made' \in Clients
        /\ worker' = [worker EXCEPT ![made'] = "thread"]
        /\ client' = [client EXCEPT ![t] = made']
        /\ pc[t] = "constructing" /\ pc' = [pc EXCEPT ![t] = "starting"]
        /\ UNCHANGED <<default, queued, held, calls, exit, parted, failed, overlap, surprised>>
    BY <1>2 DEF Construct
  <2>2. \A o \in 0..made : o \in 0..made'
    BY <2>1
  <2>3. worker' \in [Clients -> Lives] /\ pc' \in [Threads -> PCs]
    BY <2>1
  <2>4. client' \in [Threads -> 0..made'] /\ held' \in [Threads -> 0..made']
    BY <2>1, <2>2, SMTT(30)
  <2>5. Types'
    BY <2>1, <2>3, <2>4
  <2>6. CallsInOrder'
    BY <2>1
  <2>7. \A c \in Clients : c # made' => worker'[c] = worker[c]
    BY <2>1
  <2>8. WorkersStarted'
    BY <2>1, <2>7, SMTT(30)
  <2>. QED
    BY <2>5, <2>6, <2>8
<1>3. CASE StartReturns(t)
  <2>1. client[t] \in 1..made
    BY <1>3 DEF StartReturns
  <2>. QED
    BY <1>3, <2>1 DEF StartReturns
<1>4. CASE StartTimesOut(t)
  <2>1. client[t] \in 1..made
    BY <1>4 DEF StartTimesOut
  <2>. QED
    BY <1>4, <2>1 DEF StartTimesOut
<1>5. CASE InitReturns(t)
  BY <1>5, SMTT(30) DEF InitReturns
<1>6. CASE CallShutdown(t)
  BY <1>6 DEF CallShutdown
<1>7. CASE CheckWorker(t)
  BY <1>7 DEF CheckWorker
<1>8. CASE StopWorker(t)
  <2>1. default = 0 \/ (default \in 1..made /\ default \in Clients)
    OBVIOUS
  <2>2. /\ worker' \in [Clients -> Lives] /\ parted' \subseteq 1..made
        /\ \A c \in Clients : worker'[c] # worker[c] =>
             worker[c] \in {"initializing", "up"} /\ worker'[c] \in {"told", "stopping"}
    <3>1. CASE default = 0
      BY <1>8, <3>1 DEF StopWorker
    <3>2. CASE default # 0
      <4>1. default \in Clients /\ SignalStop(default)
        BY <1>8, <2>1, <3>2 DEF StopWorker
      <4>2. worker \in [Clients -> Lives] /\ parted \subseteq 1..made /\ default \in 1..made
        BY <2>1, <3>2
      <4>. HIDE DEF Core, Types, Clients
      <4>3. /\ worker' \in [Clients -> Lives] /\ parted' = parted \cup {default}
            /\ \A c \in Clients : worker'[c] # worker[c] =>
                 worker[c] \in {"initializing", "up"} /\ worker'[c] \in {"told", "stopping"}
        BY <4>1, <4>2, Signalled
      <4>4. parted' \subseteq 1..made
        BY <4>2, <4>3, Zenon
      <4>. QED
        BY <4>3, <4>4
    <3>. QED
      BY <3>1, <3>2
  <2>3. /\ UNCHANGED <<default, made, queued, exit, failed, held, calls>>
        /\ pc[t] = "stopping" /\ pc' = [pc EXCEPT ![t] = pc'[t]] /\ pc'[t] \in {"idle", "joining"}
        /\ client' = [client EXCEPT ![t] = default]
        /\ overlap' \in BOOLEAN /\ surprised' \in BOOLEAN
    BY <1>8 DEF StopWorker
  <2>4. \A c \in Clients : (worker'[c] = "none" <=> worker[c] = "none")
                            /\ (worker'[c] = "thread" <=> worker[c] = "thread")
    BY <2>2
  <2>5. pc' \in [Threads -> PCs] /\ client' \in [Threads -> 0..made]
    BY <2>1, <2>3, SMTT(30)
  <2>6. Types'
    BY <2>2, <2>3, <2>5
  <2>7. CallsInOrder'
    BY <2>3
  <2>8. WorkersStarted'
    BY <2>3, <2>4
  <2>. QED
    BY <2>6, <2>7, <2>8
<1>9. CASE JoinReturns(t)
  BY <1>9 DEF JoinReturns
<1>10. CASE ClearDefault(t)
  BY <1>10 DEF ClearDefault
<1>11. CASE CallChat(t)
  BY <1>11 DEF CallChat
<1>12. CASE LookUpClient(t)
  BY <1>12 DEF LookUpClient
<1>13. CASE ChatReturns(t)
  <2>1. \A c \in Clients : queued[c] + 1 \in Nat
    OBVIOUS
  <2>2. queued' \in [Clients -> Nat]
    BY <1>13, <2>1, ZenonT(30) DEF ChatReturns
  <2>. QED
    BY <1>13, <2>2 DEF ChatReturns
<1>14. CASE PostRead(t)
  BY <1>14 DEF PostRead
<1>15. CASE ReadReturns(t)
  BY <1>15 DEF ReadReturns
<1>. QED
  BY <1>1, <1>2, <1>3, <1>4, <1>5, <1>6, <1>7, <1>8, <1>9, <1>10, <1>11, <1>12, <1>13,
     <1>14, <1>15 DEF ThreadStep

LEMMA HandlersByThread ==
    ASSUME Basics, NEW t \in Threads, ThreadStep(t)
    PROVE  /\ HandlersTyped'
           /\ \A c : Registered(c, atexit) => Registered(c, atexit')
           /\ StartReturns(t) => Registered(client[t], atexit')
<1> USE DEF Basics, Core, Types, CallsInOrder, HandlersTyped
<1>1. CASE StartReturns(t)
  <2>1. client[t] \in 1..made /\ made' = made /\ atexit' = Append(atexit, client[t])
    BY <1>1 DEF StartReturns, Publish, Go
  <2>. QED
    BY <2>1, Registering
<1>2. CASE ~StartReturns(t)
  <2>1. atexit' = atexit /\ made \in Nat /\ made' \in {made, made + 1}
    BY <1>2 DEF ThreadStep, CallInit, Construct, StartTimesOut, InitReturns, CallShutdown,
       CheckWorker, StopWorker, JoinReturns, ClearDefault, CallChat, LookUpClient,
       ChatReturns, PostRead, ReadReturns, Begin, shared
  <2>2. made' \in Nat /\ made <= made'
    BY <2>1
  <2>. QED
    BY <1>2, <2>1, <2>2, MoreClients
<1>. QED
  BY <1>1, <1>2

LEMMA BasicsStep ==
    ASSUME Basics, [Next]_vars
    PROVE  Basics'
<1>1. ASSUME NEW t \in Threads, ThreadStep(t)
      PROVE  Basics'
  BY <1>1, CoreByThread, HandlersByThread DEF Basics
<1> USE DEF Basics, Core, Types, HandlersTyped, CallsInOrder, WorkersStarted,
        HeldClientHasLoop, Clients
<1>2. ASSUME NEW c \in Clients, WorkerStep(c)
      PROVE  Basics'
  <2>1. /\ UNCHANGED <<default, made, atexit, pc, client, held, calls, exit, parted>>
        /\ worker' = [worker EXCEPT ![c] = worker'[c]] /\ worker[c] # "none"
        /\ worker'[c] \in {"loop", "initializing", "up", "told", "stopping", "closing", "ended",
                            "closed"}
        /\ queued' = queued \/ queued' = [queued EXCEPT ![c] = 0]
        /\ failed' = failed \/ failed' = failed \cup {c}
        /\ UNCHANGED <<overlap, surprised>>
    BY <1>2 DEF WorkerStep, WorkerGoes, CreateLoop, CreateStopEvent, WorkerStarts, 
       InitializeRaises, Tick, FinalDrain, LoopEnds, CloseLoop, local
  <2>2. c \in 1..made
    BY <2>1
  <2>3. Types' /\ HandlersTyped'
    <3>1. worker' \in [Clients -> Lives]
      BY <2>1
    <3>2. queued' \in [Clients -> Nat]
      <4>1. 0 \in Nat /\ queued \in [Clients -> Nat]
        OBVIOUS
      <4>. QED
        BY <2>1, <4>1, ZenonT(30)
    <3>3. failed' \subseteq 1..made
      <4>1. failed \subseteq 1..made
        OBVIOUS
      <4>. HIDE DEF Core, Types
      <4>. QED
        BY <2>1, <2>2, <4>1, ZenonT(30)
    <3>. QED
      BY <2>1, <3>1, <3>2, <3>3
  <2>4. \A d \in Clients : (worker[d] # "none" <=> worker'[d] # "none")
                            /\ (worker[d] # "thread" => worker'[d] # "thread")
    BY <2>1
  <2>5. CallsInOrder'
    BY <2>1
  <2>6. UNCHANGED <<default, made, held>>
    BY <2>1
  <2>7. WorkersStarted'
    <3>1. /\ default # 0 => default \in Clients
          /\ \A t \in Threads : held[t] # 0 => held[t] \in Clients
      OBVIOUS
    <3>. HIDE DEF Types, HandlersTyped, CallsInOrder, Clients
    <3>. QED
      BY <2>4, <2>6, <3>1, SMTT(60)
  <2>. QED
    BY <2>3, <2>5, <2>7
<1>3. ASSUME Exit \/ ExitStop \/ ExitJoin \/ ProcessEnds
      PROVE  Basics'
  <2>1. /\ UNCHANGED <<default, made, queued, pc, client, held, calls, failed, overlap,
                        surprised>>
        /\ exit' \in {"running", "joining", "gone"}
        /\ exit = "no" => \A t \in Threads : pc[t] = "idle"
    BY <1>3 DEF Exit, ExitStop, ExitJoin, ProcessEnds, ExitGoes, local
  <2>2. /\ worker' \in [Clients -> Lives] /\ parted' \subseteq 1..made
        /\ HandlersTyped'
        /\ \A c \in Clients : worker'[c] # worker[c] =>
             worker[c] \in {"initializing", "up"} /\ worker'[c] \in {"told", "stopping"}
    <3>1. CASE ExitStop
      <4>1. PICK c \in 1..made : c = atexit[Len(atexit)]
        BY <3>1, RunningTheLast DEF ExitStop
      <4>2. c \in Clients
        BY <4>1
      <4>3. SignalStop(c) /\ made' = made
        BY <2>1, <3>1, <4>1 DEF ExitStop
      <4>4. HandlersTyped'
        BY <3>1, <4>3, RunningTheLast DEF ExitStop
      <4>5. worker \in [Clients -> Lives] /\ parted \subseteq 1..made
        OBVIOUS
      <4>. HIDE DEF Core, Types
      <4>6. /\ worker' \in [Clients -> Lives] /\ parted' = parted \cup {c}
            /\ \A d \in Clients : worker'[d] # worker[d] =>
                 worker[d] \in {"initializing", "up"} /\ worker'[d] \in {"told", "stopping"}
        BY <4>2, <4>3, <4>5, Signalled
      <4>7. parted' \subseteq 1..made
        BY <4>1, <4>5, <4>6, Zenon
      <4>. QED
        BY <4>4, <4>6, <4>7
    <3>2. CASE ~ExitStop
      BY <1>3, <2>1, <3>2 DEF Exit, ExitJoin, ProcessEnds
    <3>. QED
      BY <3>1, <3>2
  <2>3. Types'
    BY <2>1, <2>2
  <2>4. \A c \in Clients : (worker'[c] = "none" <=> worker[c] = "none")
                            /\ (worker'[c] = "thread" <=> worker[c] = "thread")
    BY <2>2
  <2>5. CallsInOrder'
    BY <2>1
  <2>6. WorkersStarted'
    BY <2>1, <2>4
  <2>. QED
    BY <2>2, <2>3, <2>5, <2>6
<1>4. CASE UNCHANGED vars
  BY <1>4 DEF vars, shared, local
<1>. QED
  BY <1>1, <1>2, <1>3, <1>4 DEF Next

----------------------------------------------------------------------------
(* What a step of a thread does to the clients. *)

\* Calls end before the handlers of atexit run; nothing that was registered or
\* asked to stop is taken back; a client that its thread is starting becomes the
\* default and is registered, or is given up.
LEMMA ThreadEffect ==
    ASSUME Basics, NEW t \in Threads, ThreadStep(t)
    PROVE  /\ exit = "no" /\ exit' = "no"
           /\ parted \subseteq parted'
           /\ (overlap => overlap') /\ failed' = failed
           /\ \A u \in Threads : pc[u] = "starting" =>
                \/ pc'[u] = "starting" /\ client'[u] = client[u]
                \/ Registered(client[u], atexit') /\ default' = client[u]
                \/ client[u] \in parted'
           /\ \A c \in 1..made' : c \in 1..made \/ (pc'[t] = "starting" /\ client'[t] = c)
<1>0. StartReturns(t) => Registered(client[t], atexit')
  BY HandlersByThread
<1> USE DEF Basics, Core, Types, CallsInOrder, shared, Begin, Go, Dereference, Publish, SignalStop
<1>1. CASE CallInit(t)
  BY <1>1 DEF CallInit
<1>2. CASE Construct(t)
  BY <1>2 DEF Construct
<1>3. CASE StartReturns(t)
  BY <1>0, <1>3 DEF StartReturns
<1>4. CASE StartTimesOut(t)
  BY <1>4 DEF StartTimesOut
<1>5. CASE InitReturns(t)
  BY <1>5 DEF InitReturns
<1>6. CASE CallShutdown(t)
  BY <1>6 DEF CallShutdown
<1>7. CASE CheckWorker(t)
  BY <1>7 DEF CheckWorker
<1>8. CASE StopWorker(t)
  BY <1>8 DEF StopWorker
<1>9. CASE JoinReturns(t)
  BY <1>9 DEF JoinReturns
<1>10. CASE ClearDefault(t)
  BY <1>10 DEF ClearDefault
<1>11. CASE CallChat(t)
  BY <1>11 DEF CallChat
<1>12. CASE LookUpClient(t)
  BY <1>12 DEF LookUpClient
<1>13. CASE ChatReturns(t)
  BY <1>13 DEF ChatReturns
<1>14. CASE PostRead(t)
  BY <1>14 DEF PostRead
<1>15. CASE ReadReturns(t)
  BY <1>15 DEF ReadReturns
<1>. QED
  BY <1>1, <1>2, <1>3, <1>4, <1>5, <1>6, <1>7, <1>8, <1>9, <1>10, <1>11,
     <1>12, <1>13, <1>14, <1>15 DEF ThreadStep

----------------------------------------------------------------------------
(* The end of the process. *)

LEMMA ExitReachesStep ==
    ASSUME Basics, Basics', ExitReaches, [Next]_vars
    PROVE  ExitReaches'
<1> USE DEF ExitReaches, ExitAsksEveryWorker
<1>1. ASSUME NEW t \in Threads, ThreadStep(t)
      PROVE  ExitReaches'
  <2>1. exit' = "no"
    BY <1>1, ThreadEffect
  <2>2. ASSUME NEW c \in 1..made'
        PROVE  \/ Registered(c, atexit') \/ c \in parted'
               \/ \E u \in Threads : pc'[u] = "starting" /\ client'[u] = c
    BY <1>1, <2>2, ThreadEffect, HandlersByThread
  <2>. QED
    BY <2>1, <2>2
<1>2. ASSUME NEW c \in Clients, WorkerStep(c)
      PROVE  ExitReaches'
  BY <1>2 DEF WorkerStep, WorkerGoes, CreateLoop, CreateStopEvent, WorkerStarts,
     InitializeRaises, Tick, FinalDrain, LoopEnds, CloseLoop, local
<1>3. ASSUME Exit \/ ExitStop \/ ExitJoin \/ ProcessEnds
      PROVE  ExitReaches'
  <2>1. \A t \in Threads : pc'[t] = "idle" /\ pc[t] = "idle"
    BY <1>3 DEF Exit, ProcessEnds, ExitStop, ExitJoin, ExitGoes, local, Basics, Core, CallsInOrder
  <2>2. \A c \in 1..made : Registered(c, atexit) \/ c \in parted
    BY <2>1
  <2>3. made' = made /\ atexit \in Seq(1..made)
    BY <1>3 DEF Exit, ExitStop, ExitJoin, ProcessEnds, ExitGoes, Basics, HandlersTyped
  <2>4. CASE Exit \/ ExitJoin
    BY <2>2, <2>3, <2>4 DEF Exit, ExitJoin, ExitGoes
  <2>5. CASE ProcessEnds
    <3>1. \A c : ~Registered(c, <<>>)
      BY EmptySeq DEF Registered
    <3>. QED
      BY <2>2, <2>3, <2>5, <3>1 DEF ProcessEnds, ExitGoes
  <2>6. CASE ExitStop
    <3>1. /\ exit' = "joining" /\ atexit # <<>>
          /\ parted' = parted \cup {atexit[Len(atexit)]}
          /\ atexit' = SubSeq(atexit, 1, Len(atexit) - 1)
      BY <2>6 DEF ExitStop, ExitGoes, SignalStop
    <3>2. ASSUME NEW c \in 1..made PROVE Registered(c, atexit') \/ c \in parted'
      BY <2>2, <2>3, <3>1, RunningTheLast
    <3>. QED
      BY <2>3, <3>1, <3>2
  <2>. QED
    BY <1>3, <2>4, <2>5, <2>6
<1>4. CASE UNCHANGED vars
  BY <1>4 DEF vars, shared, local
<1>. QED
  BY <1>1, <1>2, <1>3, <1>4 DEF Next

LEMMA StopsForAReasonStep ==
    ASSUME Basics, StopsForAReason, [Next]_vars
    PROVE  StopsForAReason'
<1> USE DEF StopsForAReason, Basics, Core, Types
<1>1. ASSUME NEW t \in Threads, ThreadStep(t)
      PROVE  StopsForAReason'
  <2>1. parted \subseteq parted' /\ failed' = failed
    BY <1>1, ThreadEffect
  <2>2. \/ worker' = worker
        \/ \E c \in Clients : SignalStop(c)
        \/ \E c \in Clients : worker' = [worker EXCEPT ![c] = "thread"]
    BY <1>1 DEF ThreadStep, CallInit, Construct, StartReturns, StartTimesOut, InitReturns,
       CallShutdown, CheckWorker, StopWorker, JoinReturns, ClearDefault, CallChat,
       LookUpClient, ChatReturns, PostRead, ReadReturns, Begin, Publish, shared, Clients
  <2>. QED
    BY <2>1, <2>2 DEF SignalStop
<1>2. ASSUME NEW c \in Clients, WorkerStep(c)
      PROVE  StopsForAReason'
  BY <1>2 DEF WorkerStep, WorkerGoes, CreateLoop, CreateStopEvent, WorkerStarts,
     InitializeRaises, Tick, FinalDrain, LoopEnds, CloseLoop, local
<1>3. ASSUME Exit \/ ExitStop \/ ExitJoin \/ ProcessEnds
      PROVE  StopsForAReason'
  BY <1>3 DEF Exit, ProcessEnds, ExitStop, ExitJoin, ExitGoes, SignalStop
<1>4. CASE UNCHANGED vars
  BY <1>4 DEF vars, shared
<1>. QED
  BY <1>1, <1>2, <1>3, <1>4 DEF Next

----------------------------------------------------------------------------
(* Calls one after the other. *)

LEMMA InSequenceByThread ==
    ASSUME Basics, Basics', StopsForAReason, InSequence, ~overlap', NEW t \in Threads, ThreadStep(t)
    PROVE  Alone' /\ VariableKept' /\ NoneForgotten' /\ DrainedStaysEmpty' /\ ~surprised'
<1>0. ~overlap /\ exit = "no" /\ exit' = "no"
  BY ThreadEffect
<1> USE <1>0 DEF InSequence, Alone, VariableKept, NoneForgotten, DrainedStaysEmpty,
    Basics, Core, Types, CallsInOrder, InInit, InShutdown, PCs, Busy, Clients,
    shared, Begin, Go, Dereference, Publish, SignalStop
<1>1. CASE CallInit(t)
  <2>1. /\ \A u \in Threads \ {t} : pc[u] \in {"idle", "reading"} /\ pc'[u] = pc[u]
        /\ pc[t] = "idle" /\ pc'[t] = IF default = 0 THEN "constructing" ELSE "returning"
        /\ UNCHANGED <<shared, client, exit, parted, failed, surprised>>
    BY <1>1, ZenonT(30) DEF CallInit
  <2>2. Alone' /\ VariableKept'
    BY <2>1
  <2>3. NoneForgotten'
    BY <2>1
  <2>4. DrainedStaysEmpty' /\ ~surprised'
    BY <2>1
  <2>. QED
    BY <2>2, <2>3, <2>4
<1>2. CASE Construct(t)
  BY <1>2 DEF Construct
<1>3. CASE StartReturns(t)
  BY <1>3, SMTT(30) DEF StartReturns
<1>4. CASE StartTimesOut(t)
  BY <1>4, SMTT(30) DEF StartTimesOut
<1>5. CASE InitReturns(t)
  BY <1>5 DEF InitReturns
<1>6. CASE CallShutdown(t)
  <2>1. /\ \A u \in Threads \ {t} : pc[u] \in {"idle", "reading"} /\ pc'[u] = pc[u]
        /\ pc[t] = "idle" /\ pc'[t] = IF default = 0 THEN "clearing" ELSE "checking"
        /\ UNCHANGED <<shared, client, exit, parted, failed, surprised>>
    BY <1>6, ZenonT(30) DEF CallShutdown
  <2>2. Alone' /\ VariableKept'
    BY <2>1
  <2>3. NoneForgotten'
    BY <2>1
  <2>4. DrainedStaysEmpty' /\ ~surprised'
    BY <2>1
  <2>. QED
    BY <2>2, <2>3, <2>4
<1>7. CASE CheckWorker(t)
  BY <1>7 DEF CheckWorker
<1>8. CASE StopWorker(t)
  BY <1>8 DEF StopWorker
<1>9. CASE JoinReturns(t)
  BY <1>9 DEF JoinReturns
<1>10. CASE ClearDefault(t)
  <2>1. /\ \A u \in Threads \ {t} : pc[u] \in {"idle", "reading"} /\ pc'[u] = pc[u]
        /\ pc[t] = "clearing" /\ pc'[t] = "idle" /\ default' = 0
        /\ (default = 0 \/ default \in parted)
        /\ UNCHANGED <<made, worker, queued, atexit, client, exit, parted, failed, surprised>>
    BY <1>10 DEF ClearDefault
  <2>2. Alone' /\ VariableKept'
    BY <2>1
  <2>3. NoneForgotten'
    <3>1. \A u \in Threads : pc[u] # "starting" /\ pc'[u] # "starting"
      BY <2>1
    <3>2. \A c \in 1..made : c \in parted
      BY <2>1, <3>1, SMTT(30)
    <3>. QED
      BY <2>1, <3>1, <3>2
  <2>4. DrainedStaysEmpty' /\ ~surprised'
    BY <2>1
  <2>. QED
    BY <2>2, <2>3, <2>4
<1>11. CASE CallChat(t)
  <2>1. /\ pc[t] = "idle" /\ pc' = [pc EXCEPT ![t] = IF default = 0 THEN "idle" ELSE "calling"]
        /\ UNCHANGED <<shared, client, exit, parted, failed, surprised>>
    BY <1>11 DEF CallChat
  <2>2. \A u \in Threads : pc[u] \notin InInit \cup InShutdown
    BY <1>11, <2>1 DEF CallChat
  <2>3. /\ pc'[t] = IF default = 0 THEN "idle" ELSE "calling"
        /\ \A u \in Threads \ {t} : pc'[u] = pc[u]
    BY <2>1
  <2>4. Alone'
    BY <2>2, <2>3
  <2>5. VariableKept'
    BY <2>1, <2>2, <2>3
  <2>6. NoneForgotten'
    BY <2>1, <2>2, <2>3
  <2>7. DrainedStaysEmpty' /\ ~surprised'
    BY <2>1
  <2>. QED
    BY <2>4, <2>5, <2>6, <2>7
<1>12. CASE LookUpClient(t)
  BY <1>12 DEF LookUpClient
<1>13. CASE ChatReturns(t)
  <2>1. pc[t] = "emitting" /\ client[t] = default /\ default # 0
    BY <1>13 DEF ChatReturns
  <2>2. \A u \in Threads : pc[u] \notin InInit \cup InShutdown
    BY <2>1
  <2>3. default \notin parted
    BY <2>2
  <2>4. worker[default] \in {"closing", "ended", "closed"} => default \in failed
    BY <2>1, <2>3 DEF StopsForAReason
  <2>5. /\ UNCHANGED <<default, made, worker, atexit, client, exit, parted, failed, surprised>>
        /\ \A u \in Threads \ {t} : pc'[u] = pc[u]
        /\ pc'[t] = "idle" /\ queued' = [queued EXCEPT ![default] = @ + 1]
    BY <1>13, <2>1 DEF ChatReturns
  <2>6. DrainedStaysEmpty'
    BY <2>4, <2>5
  <2>7. Alone' /\ VariableKept' /\ NoneForgotten' /\ ~surprised'
    BY <2>2, <2>5, SMTT(30)
  <2>. QED
    BY <2>6, <2>7
<1>14. CASE PostRead(t)
  BY <1>14 DEF PostRead
<1>15. CASE ReadReturns(t)
  BY <1>15 DEF ReadReturns
<1>. QED
  BY <1>1, <1>2, <1>3, <1>4, <1>5, <1>6, <1>7, <1>8, <1>9, <1>10, <1>11,
     <1>12, <1>13, <1>14, <1>15 DEF ThreadStep

LEMMA InSequenceStep ==
    ASSUME Basics, Basics', StopsForAReason, InSequence, [Next]_vars
    PROVE  InSequence'
<1> SUFFICES ASSUME ~overlap'
             PROVE  Alone' /\ VariableKept' /\ NoneForgotten' /\ DrainedStaysEmpty' /\ ~surprised'
  BY DEF InSequence
<1>1. ASSUME NEW t \in Threads, ThreadStep(t)
      PROVE  Alone' /\ VariableKept' /\ NoneForgotten' /\ DrainedStaysEmpty' /\ ~surprised'
  BY <1>1, InSequenceByThread
<1> USE DEF InSequence, Alone, VariableKept, NoneForgotten, DrainedStaysEmpty, Basics, Core, Types
<1>2. ASSUME NEW c \in Clients, WorkerStep(c)
      PROVE  Alone' /\ VariableKept' /\ NoneForgotten' /\ DrainedStaysEmpty' /\ ~surprised'
  <2>1. /\ UNCHANGED <<default, made, pc, client, exit, parted, overlap, surprised>>
        /\ failed \subseteq failed'
    BY <1>2 DEF WorkerStep, WorkerGoes, CreateLoop, CreateStopEvent, WorkerStarts,
       InitializeRaises, Tick, FinalDrain, LoopEnds, CloseLoop, local
  <2>2. DrainedStaysEmpty'
    BY <1>2, <2>1 DEF WorkerStep, WorkerGoes, CreateLoop, CreateStopEvent, WorkerStarts,
       InitializeRaises, Tick, FinalDrain, LoopEnds, CloseLoop
  <2>. QED
    BY <2>1, <2>2
<1>3. ASSUME Exit \/ ExitStop \/ ExitJoin \/ ProcessEnds
      PROVE  Alone' /\ VariableKept' /\ NoneForgotten' /\ DrainedStaysEmpty' /\ ~surprised'
  <2>1. /\ UNCHANGED <<default, made, queued, pc, client, failed, overlap, surprised>>
        /\ exit' # "no" /\ parted \subseteq parted'
        /\ \A t \in Threads : pc[t] = "idle"
    BY <1>3 DEF Exit, ProcessEnds, ExitStop, ExitJoin, ExitGoes, SignalStop, local, CallsInOrder
  <2>2. \A d \in Clients : worker'[d] \in {"closing", "ended", "closed"} => worker'[d] = worker[d]
    BY <1>3 DEF Exit, ProcessEnds, ExitStop, ExitJoin, SignalStop
  <2>3. Alone' /\ VariableKept' /\ NoneForgotten' /\ ~surprised'
    BY <2>1
  <2>4. DrainedStaysEmpty'
    BY <2>1, <2>2
  <2>. QED
    BY <2>3, <2>4
<1>4. CASE UNCHANGED vars
  BY <1>4 DEF vars, shared, local
<1>. QED
  BY <1>1, <1>2, <1>3, <1>4 DEF Next

----------------------------------------------------------------------------
THEOREM InductiveInvariant == Spec => []IInv
<1>1. IInv /\ [Next]_vars => IInv'
  BY BasicsStep, ExitReachesStep, StopsForAReasonStep, InSequenceStep DEF IInv
<1>. QED
  BY <1>1, InitInv, PTL DEF Spec

\* No client is referred to that was not constructed.
THEOREM TypeCorrect == Spec => []TypeOK
<1>1. IInv => TypeOK
  BY DEF IInv, Basics, Core, Types, HandlersTyped, TypeOK
<1>. QED
  BY <1>1, InductiveInvariant, PTL

\* A client that init() returned has its loop, whatever raced: its reads never
\* find _loop None.
THEOREM HeldClientsHaveLoops == Spec => []HeldClientHasLoop
BY InductiveInvariant, PTL DEF IInv, Basics, Core, WorkersStarted

\* A process that ends has asked every worker to stop whose start() returned,
\* the clients that racing calls forgot included.
THEOREM ExitStopsEveryWorker == Spec => []ExitAsksEveryWorker
BY InductiveInvariant, PTL DEF IInv, ExitReaches

\* Unless init() or shutdown() overlapped another call, every client is the
\* default, or was stopped, or did not start.
THEOREM ClientsAreRemembered == Spec => []NoClientForgotten
<1>1. IInv => NoClientForgotten
  BY DEF IInv, InSequence, NoneForgotten, NoClientForgotten, InInit
<1>. QED
  BY <1>1, InductiveInvariant, PTL

\* Unless init() or shutdown() overlapped another call, what a call finds in the
\* variable is there at its next read.
THEOREM NoSurprises == Spec => []NoSurpriseInSequence
<1>1. IInv => NoSurpriseInSequence
  BY DEF IInv, InSequence, NoSurpriseInSequence
<1>. QED
  BY <1>1, InductiveInvariant, PTL

\* Unless init() or shutdown() overlapped another call, no event is left in the
\* queue of a worker that ended with its store working.
THEOREM SequentialUseIsFlushed == Spec => []SequentialUseFlushes
<1>1. IInv => SequentialUseFlushes
  BY DEF IInv, InSequence, DrainedStaysEmpty, SequentialUseFlushes
<1>. QED
  BY <1>1, InductiveInvariant, PTL
=============================================================================
