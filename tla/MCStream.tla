------------------------------ MODULE MCStream ------------------------------
(* Instances of Stream for TLC.                                            *)
EXTENDS Stream, TLC

\* Every body of up to Length symbols, and some longer ones, as sent by an
\* OpenAI-type upstream: nothing in it decodes, all is forwarded.
CONSTANT Length
Bodies == UNION {[1..n -> {"cr", "lf", "data", "x"}] : n \in 0..Length}
          \cup {<<"bom", "data", "x", "lf", "lf">>, <<"event", "x", "cr", "data", "x", "data">>,
                <<"data", "x", "cr", "lf", "cr", "lf", "data", "x">>,
                <<"data", "lf", "data", "x", "cr", "cr", "data", "x", "x", "lf">>}

Text1(ev) == (IF ev[1] = "" THEN <<>> ELSE <<"event", ev[1], "lf">>)
             \o <<"data", ev[2], "lf", "lf">>
Body(evs) == FlattenSeq([k \in 1..Len(evs) |-> Text1(evs[k])])

U(p, c) == [prompt |-> p, completion |-> c]
Zero == [done |-> FALSE, usage |-> FALSE, choices |-> FALSE, u |-> NoUsage, prompt |-> 0,
         completion |-> 0, block |-> "none", index |-> 0, parts |-> <<>>, finish |-> "none"]
MCPayload ==
       "DONE" :> [Zero EXCEPT !.done = TRUE]
    @@ "text" :> [Zero EXCEPT !.choices = TRUE]
    @@ "both" :> [Zero EXCEPT !.usage = TRUE, !.choices = TRUE, !.u = U(1, 1)]
    @@ "only" :> [Zero EXCEPT !.usage = TRUE, !.u = U(1, 2)]
    @@ "start" :> [Zero EXCEPT !.prompt = 3]
    @@ "text0" :> [Zero EXCEPT !.block = "text"]
    @@ "tool1" :> [Zero EXCEPT !.block = "tool", !.index = 1]
    @@ "tool2" :> [Zero EXCEPT !.block = "tool", !.index = 2]
    @@ "stop" :> [Zero EXCEPT !.completion = 2]
    @@ "overloaded" :> Zero
    @@ "role" :> Zero
    @@ "call" :> [Zero EXCEPT !.parts = <<"text", "call">>, !.usage = TRUE, !.u = U(2, 1)]
    @@ "calls" :> [Zero EXCEPT !.parts = <<"call", "call">>]
    @@ "end" :> [Zero EXCEPT !.finish = "stop", !.usage = TRUE, !.u = U(2, 2)]
    @@ "blocked" :> [Zero EXCEPT !.finish = "blocked"]

MCSymbols == {"cr", "lf", "bom", "event", "data", "x", "message_start", "block_start", "block_delta",
              "message_delta", "message_stop", "error"} \cup DOMAIN MCPayload

OpenAIEvents == {<<"", d>> : d \in {"text", "both", "only", "DONE", "x"}}
GeminiEvents == {<<"", d>> : d \in {"role", "call", "calls", "end", "blocked", "x"}}
SeqsOf(S, n) == UNION {[1..k -> S] : k \in 0..n}

\* Anthropic messages: the blocks are announced in the order of their indices
\* and their deltas interleave; the end, an error or garbage may come early.
Begins == {<< <<"message_start", "start">> >>,
           << <<"message_start", "start">>, <<"block_start", "text0">> >>}
Middles == {<< >>, << <<"block_delta", "text0">> >>}
           \cup { << <<"block_start", "tool1">> >> \o s : s \in
                    SeqsOf({<<"block_delta", "tool1">>, <<"block_delta", "text0">>}, 1)}
           \cup { << <<"block_start", "tool1">>, <<"block_start", "tool2">> >> \o s : s \in
                    SeqsOf({<<"block_delta", "tool1">>, <<"block_delta", "tool2">>}, 2)}
Ends == {<< >>, << <<"message_delta", "stop">>, <<"message_stop", "x">> >>,
         << <<"error", "overloaded">> >>, << <<"message_delta", "x">> >>}
Messages == {b \o m \o e : b \in Begins, m \in Middles, e \in Ends}

MCStreams ==
         [kind : {"openai"}, wire : Bodies, asked : {FALSE}]
    \cup [kind : {"openai"}, wire : {Body(s) : s \in SeqsOf(OpenAIEvents, 3)}, asked : BOOLEAN]
    \cup [kind : {"gemini"}, wire : {Body(s) : s \in SeqsOf(GeminiEvents, 3)}, asked : BOOLEAN]
    \cup [kind : {"anthropic"}, wire : {Body(s) : s \in Messages}, asked : BOOLEAN]
=============================================================================
