------------------------------- MODULE Replay -------------------------------
(* Batch replay (replay.py, cli/replay.py): the stored events of a list of    *)
(* ids are called again by the threads of a pool, through one client that     *)
(* emits an event for each call, while the caller collects the results in the *)
(* order it submitted them.                                                   *)
(*                                                                            *)
(* Abstractions.  The contents of calls and events are those of CallContent.  *)
(* An original is a stored event with the call and the response it was built  *)
(* from; its id is its place in the file of ids, the id of the new call is    *)
(* its negation.  Latencies and the text of the diff are left out.            *)
EXTENDS CallContent, FiniteSets

CONSTANTS
    Threads,     \* max_workers
    Count,       \* bound: the ids of the batch
    Originals,   \* what may be stored: records [call, as, resp, chunks, calls]
    Overrides,   \* ReplayOverrides: [model, params, messages, tools], None if not set
    Modes,       \* the client's redaction mode
    Raised,      \* the outcome of a replay that raises (a model value)
    Others       \* what the provider may answer beside the original's response

\* What the provider may answer: a response, which is neither None nor an exception.
Responses == {o.resp : o \in Originals} \cup Others

\* The parts, put together, are s: e[k] of its elements are in the first k parts.
CutUp(s, parts) ==
    \E e \in [0..Len(parts) -> 0..Len(s)] :
      /\ e[0] = 0 /\ e[Len(parts)] = Len(s)
      /\ \A k \in DOMAIN parts :
           e[k - 1] <= e[k] /\ parts[k] = SubSeq(s, e[k - 1] + 1, e[k])

\* The last of the first n values that tells something.
LastTold(told, nothing, n) ==
    LET places == {k \in 1..n : told[k] # nothing}
    IN  IF places = {} THEN nothing ELSE told[CHOOSE k \in places : \A l \in places : l <= k]

Text(resp) == IF resp.content = None THEN <<>> ELSE resp.content

Sequence(s) == s \in Seq(Range(s))

\* A provider streams a response: its text is cut anywhere, also into no pieces.
\* The pieces of its tool calls are cut into fragments, and these are spread over
\* the chunks.  The counts and the reason come in any chunk, the last one standing.
Streams(chunks, resp, calls) ==
    /\ Sequence(chunks) /\ Sequence(Text(resp))
    /\ CutUp(Text(resp), PiecesOf(chunks))
    /\ Sequence(resp.toolCalls) /\ Sequence(calls.pieces) /\ Sequence(calls.fragments)
    /\ CutUp(calls.pieces, resp.toolCalls) /\ CutUp(calls.pieces, calls.fragments)
    /\ CutUp(calls.fragments, ToolCallsOf(chunks))
    /\ calls.fragments = <<>> <=> resp.toolCalls = <<>>
    /\ resp.finish = LastTold(ReasonOf(chunks), None, Len(chunks))
    /\ resp.usage.input = LastTold(InputOf(chunks), 0, Len(chunks))
    /\ resp.usage.output = LastTold(OutputOf(chunks), 0, Len(chunks))

ASSUME ReplayAssumption ==
    /\ Count \in Nat /\ Threads # {}
    /\ None # Raised /\ None \notin Originals /\ {None, Raised} \cap Responses = {}
    /\ \A r \in Responses : r.usage.input \in Nat /\ r.usage.output \in Nat
    /\ \A o \in Originals :
         /\ o.as \in {"response", "stream", "error"}
         /\ o.as = "stream" => Streams(o.chunks, o.resp, o.calls)
         /\ o.call.messages = [i \in DOMAIN o.call.messages |-> o.call.messages[i]]

VARIABLES
    wanted,      \* of each id the original, None if the store does not find it
    overrides, mode, sampled,
    next,        \* the executor's queue: the next event to run
    tpc, work,   \* of each thread: "idle" or "calling", and the event it runs
    sent,        \* of each event the call its replay made, or None
    future,      \* of each event: None while it is pending, Raised, or the response
    emitted,     \* history: the events the client emitted
    results      \* of the events collected so far

setup == <<wanted, overrides, mode, sampled>>
vars == <<setup, next, tpc, work, sent, future, emitted, results>>

Ids == 1..Count

\* The event the store holds of an original.
Stored(id, o) ==
    CASE o.as = "response" -> FromResponse(id, o.call, o.resp)
      [] o.as = "stream" -> FromStream(id, o.call, o.chunks)
      [] o.as = "error" -> FromError(id, o.call)

\* _replay_batch: ids that are not found are left out, the others keep their order.
Found ==
    LET ids == {i \in Ids : wanted[i] # None}
    IN  [k \in 1..Cardinality(ids) |->
           CHOOSE i \in ids : Cardinality({j \in ids : j < i}) = k - 1]

Original(i) == wanted[Found[i]]
Source(i) == Stored(Found[i], Original(i))
All == 1..Len(Found)

Init ==
    /\ wanted \in [Ids -> Originals \cup {None}]
    /\ overrides \in Overrides /\ mode \in Modes /\ sampled \in BOOLEAN
    /\ next = 1
    /\ tpc = [t \in Threads |-> "idle"] /\ work = [t \in Threads |-> 0]
    /\ sent = [i \in All |-> None] /\ future = [i \in All |-> None]
    /\ emitted = <<>> /\ results = <<>>

----------------------------------------------------------------------------
(* The replay of one event in a thread of the pool. *)

Chosen(override, recorded) == IF override # None THEN override ELSE recorded

\* Messages were captured and are still JSON.
Resolves(i) ==
    \/ overrides.messages # None
    \/ /\ Source(i).prompt # None
       /\ \A k \in DOMAIN Source(i).prompt :
            Source(i).prompt[k] = Parts \/ ~Contains(Source(i).prompt[k], "broken")

\* Mutant: a stream is replayed as a stream.
RequestAsStream(i) ==
    [model |-> Chosen(overrides.model, Source(i).model),
     messages |-> Chosen(overrides.messages, Source(i).prompt),
     params |-> Chosen(overrides.params, Source(i).params),
     tools |-> Chosen(overrides.tools, Source(i).tools), mode |-> mode]

\* replay: every override replaces what was recorded as a whole.
Request(i) ==
    [model |-> Chosen(overrides.model, Source(i).model),
     messages |-> Chosen(overrides.messages, Source(i).prompt),
     params |-> Chosen(overrides.params, Source(i).params) \ {"stream"},
     tools |-> Chosen(overrides.tools, Source(i).tools), mode |-> mode]

\* A thread takes the next event.  An event whose messages do not resolve fails
\* without a call.
Run(t) ==
    /\ tpc[t] = "idle" /\ next \in All /\ next' = next + 1
    /\ IF Resolves(next)
       THEN /\ sent' = [sent EXCEPT ![next] = Request(next)]
            /\ tpc' = [tpc EXCEPT ![t] = "calling"] /\ work' = [work EXCEPT ![t] = next]
            /\ UNCHANGED future
       ELSE /\ future' = [future EXCEPT ![next] = Raised]
            /\ UNCHANGED <<sent, tpc, work>>
    /\ UNCHANGED <<setup, emitted, results>>

Finish(t, outcome) ==
    /\ future' = [future EXCEPT ![work[t]] = outcome]
    /\ tpc' = [tpc EXCEPT ![t] = "idle"] /\ work' = [work EXCEPT ![t] = 0]
    /\ UNCHANGED <<setup, next, sent, results>>

\* The provider answers, as it did or otherwise; the client emits unless the
\* call is sampled out or its event cannot be built.
Answer(t) ==
    /\ tpc[t] = "calling"
    /\ \E resp \in {Original(work[t]).resp} \cup Others :
         /\ Finish(t, resp)
         /\ emitted' = IF sampled /\ Builds(sent[work[t]], resp.usage)
                       THEN Append(emitted, FromResponse(-work[t], sent[work[t]], resp))
                       ELSE emitted

\* Mutant: sampling applies to errors.
RaiseSampled(t) ==
    /\ tpc[t] = "calling" /\ Finish(t, Raised)
    /\ emitted' = IF sampled THEN Append(emitted, FromError(-work[t], sent[work[t]])) ELSE emitted

\* Mutant: the exception stays in the thread.
RaiseUnseen(t) ==
    /\ tpc[t] = "calling" /\ Finish(t, None)
    /\ emitted' = Append(emitted, FromError(-work[t], sent[work[t]]))

\* The call raises: its error is always emitted.
Raise(t) ==
    /\ tpc[t] = "calling" /\ Finish(t, Raised)
    /\ emitted' = Append(emitted, FromError(-work[t], sent[work[t]]))

----------------------------------------------------------------------------
(* The caller. *)

\* _extract_total_tokens: a field of its own, 0 in an answer without usage.
TokensOf(resp) == resp.usage.total

\* _compare
Compare(i, resp) ==
    [original |-> Source(i).id, error |-> FALSE, new |-> -i,
     identical |-> Source(i).response = resp.content,
     delta |-> TokensOf(resp) - Source(i).total]

Failure(i) ==
    [original |-> Source(i).id, error |-> TRUE, new |-> None, identical |-> FALSE, delta |-> 0]

\* Mutant: results are collected as they complete.
CollectCompleted ==
    \E i \in All :
      /\ future[i] # None /\ Len(results) < Len(Found)
      /\ \A k \in DOMAIN results : results[k].original # Source(i).id
      /\ results' = Append(results, IF future[i] = Raised THEN Failure(i)
                                    ELSE Compare(i, future[i]))
      /\ UNCHANGED <<setup, next, tpc, work, sent, future, emitted>>

\* future.result(), in the order of submission.
Collect ==
    LET i == Len(results) + 1
    IN  /\ i \in All /\ future[i] # None
        /\ results' = Append(results, IF future[i] = Raised THEN Failure(i)
                                      ELSE Compare(i, future[i]))
        /\ UNCHANGED <<setup, next, tpc, work, sent, future, emitted>>

\* What the command returns: 1 if there is nothing to replay or a replay failed.
ExitCode == IF Found = <<>> \/ \E i \in DOMAIN results : results[i].error THEN 1 ELSE 0

Next == (\E t \in Threads : Run(t) \/ Answer(t) \/ Raise(t)) \/ Collect

\* The provider's answers come and the caller waits for them.
Spec == Init /\ [][Next]_vars /\ WF_vars(Next)

----------------------------------------------------------------------------
(* Properties. *)

Ended == Len(results) = Len(Found)

\* Types of the pool's variables and of the events emitted.
TypeOK ==
    /\ next \in 1..(Len(Found) + 1) /\ tpc \in [Threads -> {"idle", "calling"}]
    /\ work \in [Threads -> All \cup {0}]
    /\ \A i \in DOMAIN emitted : emitted[i].total \in Nat /\ emitted[i].params \subseteq Captured

\* The i-th result is about the i-th event found, and is an error if and only if
\* its messages did not resolve or its call raised (replay_batch).  The command
\* succeeds if and only if every event it found was replayed.
ResultsInOrder ==
    /\ \A i \in DOMAIN results :
         /\ results[i].original = Found[i]
         /\ results[i].error <=> future[i] = Raised
    /\ Ended => (ExitCode = 0 <=> Found # <<>> /\ \A i \in All : future[i] # Raised)

\* Each call leaves at most one event: an error event if it raised, "regardless
\* of sampling" (client.py:331), none if its messages did not resolve.
OneEventPerReplay ==
    \A i \in All :
      LET events == {k \in DOMAIN emitted : emitted[k].id = -i}
      IN  /\ Cardinality(events) <= 1
          /\ future[i] = Raised =>
               {emitted[k].error : k \in events} = IF Resolves(i) THEN {TRUE} ELSE {}
          /\ future[i] \notin {None, Raised} /\ sampled
               /\ Builds(sent[i], future[i].usage) => {emitted[k].error : k \in events} = {FALSE}

\* A call whose contents were captured whole and whose provider counts tokens and
\* answers the same is reported identical with no difference in tokens, whether
\* it was streamed or not, and its new event costs and says the same.  Two things
\* break this: a total that is not prompt plus completion tokens, and a stream
\* of an empty text, which was stored as None.
SameCallSameResult ==
    \A i \in DOMAIN results :
      LET o == Original(i)
      IN  /\ o.as # "error" /\ o.call.mode = "full" /\ overrides = [model |-> None,
               params |-> None, messages |-> None, tools |-> None]
          /\ o.resp.usage.input # 0 /\ o.resp.usage.output # 0
          /\ o.resp.usage.total = o.resp.usage.input + o.resp.usage.output
          /\ o.as = "stream" => o.resp.content # <<>>
          /\ future[i] = o.resp
          => /\ results[i].identical /\ results[i].delta = 0
             /\ \A k \in DOMAIN emitted : emitted[k].id = -i =>
                  /\ emitted[k].cost = Source(i).cost /\ emitted[k].finish = Source(i).finish
                  /\ emitted[k].params = Source(i).params \ {"stream"}
                  /\ mode = "full" => emitted[k].prompt = Source(i).prompt

\* An event as another one, but an empty text may be None, which may change the
\* kind of output, and tool calls that were sent in fragments may be listed in
\* fragments, none of their pieces lost or out of order.
AsWhole(event, whole, o) ==
    /\ \A field \in DOMAIN whole \ {"response", "kind", "toolCalls"} : event[field] = whole[field]
    /\ IF o.resp.content = <<>> THEN event.response = None
       ELSE event.response = whole.response /\ event.kind = whole.kind
    /\ Joined(event.toolCalls) = Joined(whole.toolCalls)
    /\ o.calls.fragments = o.resp.toolCalls => event.toolCalls = whole.toolCalls

\* A streamed response leaves the event its whole leaves: tokens, price, reason,
\* prompt and parameters, a text that is not empty, and tool calls up to their
\* fragments.
StreamAsWhole ==
    \A i \in All : Original(i).as = "stream" =>
      AsWhole(Source(i), FromResponse(Found[i], Original(i).call, Original(i).resp), Original(i))

\* "Typed representation of one tool call" (lineage.py:13): what an event lists as
\* tool calls are tool calls.
ListsWholeCalls ==
    \A i \in All : Original(i).as = "stream" => Source(i).toolCalls = Original(i).resp.toolCalls

\* replay_batch returns, with a result for every event.
BatchEnds == <>Ended
=============================================================================
