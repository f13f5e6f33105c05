---------------------------- MODULE CallContent ----------------------------
(* What an event says of a call: how the client builds it from a response, a  *)
(* stream or an exception (client.py), with the redaction of its text         *)
(* (redaction.py), the token counts and the price (events/cost.py) and the    *)
(* kind of output (normalizer.py).                                            *)
(*                                                                            *)
(* Abstractions.  A text is a sequence of pieces: "word", "pii" (what the     *)
(* patterns mask), "number" (a bare number in the JSON of a message, masked   *)
(* too, which leaves no JSON).  Messages are a sequence of contents.  A token *)
(* is a piece, and so are the parts of a tool call.  A model is the sequence  *)
(* of the parts of its name, a slash among them, so that a prefix of the name *)
(* is a prefix of the parts.  Times, labels, languages and lengths are left   *)
(* out.                                                                       *)
EXTENDS Integers, Sequences, SequencesExt

CONSTANTS
    None,          \* Python's None (a model value)
    Parts,         \* the content of a multimodal message, a list (a model value)
    AutoNormalize, \* config.auto_normalize
    Prices         \* the pricing table in its order: [key, input, output]

Captured == {"temperature", "max_tokens", "stream"}  \* of _CAPTURED_PARAMETERS

----------------------------------------------------------------------------
(* Redaction. *)

Mask(text) ==
    [i \in DOMAIN text |->
        CASE text[i] = "pii" -> "masked" [] text[i] = "number" -> "broken" [] OTHER -> text[i]]

\* redaction.apply
Apply(mode, text) ==
    IF text = None \/ mode = "metadata" THEN None
    ELSE IF mode = "full" THEN text ELSE Mask(text)

\* _capture_content: json.dumps(messages), then the policy.
Prompt(mode, messages) ==
    IF messages = <<>> \/ mode = "metadata" THEN None
    ELSE [i \in DOMAIN messages |->
            IF messages[i] = Parts THEN Parts ELSE Apply(mode, messages[i])]

----------------------------------------------------------------------------
(* Tokens and price. *)

\* " ".join of the contents: a list among them raises.
Joins(messages) == \A i \in DOMAIN messages : messages[i] # Parts

Estimate(messages) == FoldLeft(LAMBDA n, text : n + Len(text), 0, messages)

\* model.split("/")[-1]
Base(model) == SubSeq(model, 1 + Max({0} \cup {i \in DOMAIN model : model[i] = "/"}), Len(model))

\* The name, the name without its provider, or the first key of the table that
\* is a prefix of that: 0 if none.
PriceRow(model) ==
    LET named(name) == {i \in DOMAIN Prices : Prices[i].key = name}
        begin == {i \in DOMAIN Prices : IsPrefix(Prices[i].key, Base(model))}
        rows == IF named(model) # {} THEN named(model)
                ELSE IF named(Base(model)) # {} THEN named(Base(model)) ELSE begin
    IN  IF rows = {} THEN 0 ELSE CHOOSE i \in rows : \A j \in rows : i <= j

Cost(model, input, output) ==
    LET row == PriceRow(model)
    IN  IF row = 0 THEN 0 ELSE input * Prices[row].input + output * Prices[row].output

----------------------------------------------------------------------------
(* Events.  usage is [input, output, total], 0 where the provider tells nothing. *)

\* A list among the contents fails the join, which normalizing always needs and
\* the token count only if the provider gives none.
Builds(call, usage) == Joins(call.messages) \/ (usage.input # 0 /\ ~AutoNormalize)

InputTokens(call, usage) ==
    IF usage.input # 0 THEN usage.input ELSE Estimate(call.messages)

OutputTokens(content, usage) ==
    IF usage.output # 0 \/ content = None THEN usage.output ELSE Len(content)

\* _normalize: text, JSON and code, told apart by parsing, are one kind.
OutputType(content, toolCalls) ==
    IF ~AutoNormalize THEN None
    ELSE IF content # None THEN "text" ELSE IF toolCalls # <<>> THEN "tool_call" ELSE None

\* _pre_call_snapshot, _capture_content, and the fields of LLMEvent.
Event(id, call, content, toolCalls, input, output, finish) ==
    [id |-> id, model |-> call.model, params |-> call.params \cap Captured,
     tools |-> call.tools, prompt |-> Prompt(call.mode, call.messages),
     response |-> Apply(call.mode, content), toolCalls |-> toolCalls,
     total |-> input + output, cost |-> Cost(call.model, input, output),
     kind |-> OutputType(content, toolCalls), finish |-> finish, error |-> FALSE]

\* _build_event_from_response
FromResponse(id, call, resp) ==
    Event(id, call, resp.content, resp.toolCalls, InputTokens(call, resp.usage),
          OutputTokens(resp.content, resp.usage), resp.finish)

\* What each chunk of a stream tells: counts, and if it has a choice also pieces
\* of text, tool calls or fragments of them, and a reason.
InputOf(chunks) == [k \in DOMAIN chunks |-> chunks[k].usage.input]
OutputOf(chunks) == [k \in DOMAIN chunks |-> chunks[k].usage.output]
PiecesOf(chunks) == [k \in DOMAIN chunks |-> IF chunks[k].choice THEN chunks[k].pieces ELSE <<>>]
ToolCallsOf(chunks) ==
    [k \in DOMAIN chunks |-> IF chunks[k].choice THEN chunks[k].toolCalls ELSE <<>>]
ReasonOf(chunks) == [k \in DOMAIN chunks |-> IF chunks[k].choice THEN chunks[k].finish ELSE None]

\* What the loop over the chunks has joined in the end,
Joined(parts) ==
    LET sofar[k \in 0..Len(parts)] == IF k = 0 THEN <<>> ELSE sofar[k - 1] \o parts[k]
    IN  sofar[Len(parts)]

\* and what it was told last.
Latest(told, nothing) ==
    LET last[k \in 0..Len(told)] ==
          IF k = 0 THEN nothing ELSE IF told[k] # nothing THEN told[k] ELSE last[k - 1]
    IN  last[Len(told)]

\* Mutant: a chunk without choices is skipped before its usage is read.
UsageOfChoices(chunks) ==
    LET told == SelectSeq(chunks, LAMBDA c : c.choice)
    IN  [input |-> Latest(InputOf(told), 0), output |-> Latest(OutputOf(told), 0)]

\* The last counts that are not zero win, each by itself.
Usage(chunks) == [input |-> Latest(InputOf(chunks), 0), output |-> Latest(OutputOf(chunks), 0)]

\* _build_event_from_stream.  call.messages is the caller's list as it is now.  A
\* text without pieces is None, and every fragment is listed as a tool call.
FromStream(id, call, chunks) ==
    LET text == Joined(PiecesOf(chunks))
        content == IF text = <<>> THEN None ELSE text
        usage == Usage(chunks)
    IN  Event(id, call, content, Joined(ToolCallsOf(chunks)), InputTokens(call, usage),
              OutputTokens(content, usage), Latest(ReasonOf(chunks), None))

\* _build_error_event
FromError(id, call) == [Event(id, call, None, <<>>, 0, 0, None) EXCEPT !.error = TRUE]
=============================================================================
