------------------------------ MODULE MCReplay ------------------------------
(* Replay for TLC: two ids, two threads, eleven kinds of originals.           *)
EXTENDS Replay

MCPrices == <<[key |-> <<"4o">>, input |-> 3, output |-> 5],
              [key |-> <<"4o", "mini">>, input |-> 1, output |-> 2]>>

Full == [model |-> <<"4o", "mini">>, messages |-> <<<<"word", "pii">>, <<"word">>>>,
         params |-> {"temperature", "timeout"}, tools |-> <<>>, mode |-> "full"]
Counted == [content |-> <<"word", "pii">>, toolCalls |-> <<>>,
            usage |-> [input |-> 4, output |-> 2, total |-> 6], finish |-> "stop"]
Uncounted == [Counted EXCEPT !.usage = [input |-> 0, output |-> 0, total |-> 0]]
Reasoned == [Counted EXCEPT !.usage.total = 9]
ToolCalls == [Counted EXCEPT !.content = None, !.finish = "tool_calls",
                             !.toolCalls = <<<<"search", "args">>, <<"search">>>>]
EmptyText == [ToolCalls EXCEPT !.content = <<>>]

\* The provider streams a text piece by piece, then lists of (fragments of) tool
\* calls, the reason; the tokens come last, in a chunk without choices.
Chunks(resp, deltas) ==
    LET chunk == [choice |-> TRUE, pieces |-> <<>>, toolCalls |-> <<>>, finish |-> None,
                  usage |-> [input |-> 0, output |-> 0, total |-> 0]]
        text == IF resp.content = None THEN <<>> ELSE resp.content
    IN  [k \in DOMAIN text |-> [chunk EXCEPT !.pieces = <<text[k]>>]]
          \o [k \in DOMAIN deltas |-> [chunk EXCEPT !.toolCalls = deltas[k]]]
          \o <<[chunk EXCEPT !.finish = resp.finish],
               [chunk EXCEPT !.choice = FALSE, !.usage = resp.usage]>>

MCOthers == {Uncounted}

Fragmented(as, call, resp, deltas) ==
    [as |-> as, call |-> call, resp |-> resp, chunks |-> Chunks(resp, deltas),
     calls |-> [pieces |-> FlattenSeq(resp.toolCalls), fragments |-> FlattenSeq(deltas)]]
Made(as, call, resp) == Fragmented(as, call, resp, <<resp.toolCalls>>)
Streamed(call) == [call EXCEPT !.params = @ \cup {"stream"}]

MCOriginals ==
    {Made("response", Full, Counted), Made("response", Full, Reasoned),
     Made("stream", Streamed(Full), Counted), Made("stream", Streamed(Full), Uncounted),
     Made("stream", Streamed(Full), EmptyText), Made("error", Full, Counted),
     Fragmented("stream", Streamed(Full), ToolCalls,
                <<<<<<"search">>>>, <<<<"args">>, <<"search">>>>>>),
     Made("stream", [Streamed(Full) EXCEPT !.mode = "redacted"], Counted),
     Made("response", [Full EXCEPT !.mode = "redacted", !.messages = <<<<"number">>>>], Counted),
     Made("response", [Full EXCEPT !.mode = "metadata",
                                   !.model = <<"openai", "/", "4o", "mini">>], Counted),
     Made("error", [Full EXCEPT !.messages = <<Parts>>, !.model = <<"o3">>], Counted)}

NoOverrides == [model |-> None, params |-> None, messages |-> None, tools |-> None]
MCOverrides == {NoOverrides,
                [NoOverrides EXCEPT !.messages = <<<<"word">>>>, !.params = {"max_tokens"}]}
=============================================================================
