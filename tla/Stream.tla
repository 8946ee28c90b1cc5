------------------------------- MODULE Stream -------------------------------
(***************************************************************************)
(* sse.go and the adapters' forwardStream: an upstream's event stream is   *)
(* read in pieces, split into lines and events, translated to chunks of    *)
(* the OpenAI stream, and written to the client.  One goroutine does it    *)
(* all; the upstream, the network and the client are its environment.     *)
(***************************************************************************)
EXTENDS EventText

CONSTANTS
    Symbols,   \* what a body is made of
    Streams,   \* [kind, wire, asked]: the adapter's type, what its upstream
               \* sends, and whether the client asked for a usage chunk
    Payload,   \* what a data line of one symbol decodes to; others do not
    MaxLine,   \* sseScannerMaxLineSize
    MaxEvent,  \* sseMaxEventBytes
    Overhead   \* sseDataLineOverhead

Kinds == {"openai", "anthropic", "gemini"}
Usages == [prompt : Nat, completion : Nat]

\* A payload leaves out what it does not report: then the field is zero.
Payloads ==
    [done : BOOLEAN, usage : BOOLEAN, choices : BOOLEAN, u : Usages,
     prompt : Nat, completion : Nat,
     block : {"none", "text", "tool"}, index : Nat,
     parts : Seq({"text", "call"}), finish : {"none", "stop", "blocked"}]

Decodes(ev) == Len(ev.data) = 1 /\ Len(ev.data[1]) = 1 /\ ev.data[1][1] \in DOMAIN Payload
Decoded(ev) == Payload[ev.data[1][1]]
Named(ev, name) == ev.event = <<name>> /\ Decodes(ev)

ASSUME StreamAssumption ==
    /\ MaxLine \in Nat \ {0} /\ MaxEvent \in Nat /\ Overhead \in 1..MaxEvent
    /\ Payload \in [DOMAIN Payload -> Payloads]
    /\ \A d \in DOMAIN Payload : Payload[d].done => ~Payload[d].usage
    /\ {"cr", "lf", "bom", "event", "data"} \subseteq Symbols
    /\ Streams \subseteq [kind : Kinds, wire : Seq(Symbols), asked : BOOLEAN]

OnTool(ev, name) == Named(ev, name) /\ Decoded(ev).block = "tool"

\* Anthropic announces a tool's content block before it sends parts of its input.
ASSUME ToolsAnnounced ==
    \A s \in Streams : s.kind = "anthropic" =>
        \A k \in 1..Len(Events(s.wire)) : OnTool(Events(s.wire)[k], "block_delta") =>
            \E j \in 1..(k - 1) : /\ OnTool(Events(s.wire)[j], "block_start")
                                 /\ Decoded(Events(s.wire)[j]).index = Decoded(Events(s.wire)[k]).index

VARIABLES
    wire,         \* what the upstream sends
    delivered,    \* the events that readSSE has handed to the adapter
    status,       \* open, ended or failed
    kind, asked,  \* the adapter's type; the client asked for usage
    pos,          \* symbols read of the wire
    buf,          \* the scanner's buffer
    end,          \* what Read reported last: none, eof or error
    first,        \* no line was scanned yet
    event,        \* the event field read for the current event
    data,         \* its data lines
    size,         \* dataBytes
    st,           \* the adapter's stream state
    out,          \* the chunks written to the client
    why           \* why the reading failed

reader == <<pos, buf, end, first, event, data, size>>
relay == <<st, out, why>>
vars == <<wire, kind, asked, reader, delivered, status, relay>>

NoUsage == [prompt |-> 0, completion |-> 0]

\* The state of an adapter's translation; no adapter uses all of it.
NewState == [u |-> NoUsage, ordinals |-> <<>>, next |-> 0, started |-> FALSE, called |-> FALSE]

Init ==
    /\ \E s \in Streams : kind = s.kind /\ wire = s.wire /\ asked = s.asked
    /\ pos = 0 /\ buf = <<>> /\ end = "none" /\ first = TRUE
    /\ event = <<>> /\ data = <<>> /\ size = 0
    /\ delivered = <<>> /\ status = "open" /\ why = "none"
    /\ st = NewState
    /\ out = <<>>

-----------------------------------------------------------------------------
(* The scanner.                                                            *)

NoToken == [advance |-> 0, token |-> <<>>]

\* Faulty variant: "cr" "lf" is taken for two breaks.
SplitPairs(b, atEOF) ==
    LET i == FirstBreak(b)
    IN  IF i = 0
          THEN IF atEOF THEN [advance |-> Len(b), token |-> b] ELSE NoToken
        ELSE IF b[i] = "cr" /\ i = Len(b) /\ ~atEOF
          THEN NoToken
          ELSE [advance |-> i, token |-> SubSeq(b, 1, i - 1)]
\* scanSSELines
Split(b, atEOF) ==
    LET i == FirstBreak(b)
    IN  IF i = 0
          THEN IF atEOF THEN [advance |-> Len(b), token |-> b] ELSE NoToken
        ELSE IF b[i] = "cr" /\ i = Len(b) /\ ~atEOF
          THEN NoToken
        ELSE IF b[i] = "cr" /\ i < Len(b) /\ b[i + 1] = "lf"
          THEN [advance |-> i + 1, token |-> SubSeq(b, 1, i - 1)]
          ELSE [advance |-> i, token |-> SubSeq(b, 1, i - 1)]

Token == Split(buf, end # "none")

\* The scanner reads only when its buffer holds no line and has room.
NeedsMore == status = "open" /\ Token.advance = 0 /\ end = "none"

\* Read yields symbols, the body's end or an error (the upstream breaks off, the
\* watchdog fires, the client's context ends), or symbols together with either.
Read(n, says) ==
    /\ NeedsMore /\ Len(buf) < MaxLine
    /\ n > 0 \/ says # "none"
    /\ Len(buf) + n <= MaxLine /\ pos + n <= Len(wire)
    /\ says = "eof" => pos + n = Len(wire)
    /\ buf' = buf \o SubSeq(wire, pos + 1, pos + n) /\ pos' = pos + n
    /\ end' = says
    /\ UNCHANGED <<wire, kind, asked, first, event, data, size, delivered, status, relay>>

Fails(cause) == status' = "failed" /\ why' = cause

\* Faulty variant: the limit of a line is off by one.
LineTooLongEarly ==
    /\ NeedsMore /\ Len(buf) >= MaxLine - 1
    /\ Fails("line")
    /\ UNCHANGED <<wire, kind, asked, reader, delivered, st, out>>
\* bufio.ErrTooLong
LineTooLong ==
    /\ NeedsMore /\ Len(buf) >= MaxLine
    /\ Fails("line")
    /\ UNCHANGED <<wire, kind, asked, reader, delivered, st, out>>

-----------------------------------------------------------------------------
(* The adapters: what one event does to the stream state, the chunks it    *)
(* yields, and whether it ends the stream with an error.                   *)

Chunk(type, index, from) == [type |-> type, index |-> index, from |-> from, data |-> <<>>]
Raw(type, d) == [type |-> type, index |-> 0, from |-> 0, data |-> d]
Result(state, chunks, err) == [st |-> state, chunks |-> chunks, err |-> err]

\* forwardStream of provider_openai.go: chunks are forwarded as they are, but
\* not a chunk with usage only that the client did not ask for.
IsDone(ev) == Decodes(ev) /\ Decoded(ev).done
UsageOnly(ev) == Decodes(ev) /\ Decoded(ev).usage /\ ~Decoded(ev).choices
\* Faulty variant: a usage chunk that the client did not ask for is dropped unread.
ForwardOpenAIUnread(ev) ==
    IF IsDone(ev) THEN Result(st, <<Raw("done", ev.data)>>, FALSE)
    ELSE IF UsageOnly(ev) /\ ~asked THEN Result(st, <<>>, FALSE)
    ELSE Result(IF Decodes(ev) /\ Decoded(ev).usage THEN [st EXCEPT !.u = Decoded(ev).u] ELSE st,
                <<Raw("raw", ev.data)>>, FALSE)
ForwardOpenAI(ev) ==
    IF IsDone(ev) THEN Result(st, <<Raw("done", ev.data)>>, FALSE)
    ELSE LET reports == Decodes(ev) /\ Decoded(ev).usage
             state   == IF reports THEN [st EXCEPT !.u = Decoded(ev).u] ELSE st
         IN  Result(state, IF UsageOnly(ev) /\ ~asked THEN <<>> ELSE <<Raw("raw", ev.data)>>, FALSE)

\* Faulty variant: a tool call keeps the index of its content block.
OrdinalOfBlock(i) == i
Ordinal(i) == IF i \in DOMAIN st.ordinals THEN st.ordinals[i] ELSE i
WithOrdinal(i) == [k \in DOMAIN st.ordinals \cup {i} |-> IF k = i THEN st.next ELSE st.ordinals[k]]

\* anthropicStreamState.translate, whose events are told apart by their name.
TranslateAnthropic(ev) ==
    LET name == IF Len(ev.event) = 1 THEN ev.event[1] ELSE "none"
        p    == Decoded(ev)
    IN  IF name \notin {"message_start", "block_start", "block_delta", "message_delta", "error"}
          THEN Result(st, <<>>, FALSE)
        ELSE IF ~Decodes(ev) THEN Result(st, <<>>, TRUE)
        ELSE CASE name = "message_start" ->
                    Result([st EXCEPT !.u.prompt = p.prompt], <<Chunk("role", 0, 0)>>, FALSE)
               [] name = "block_start" /\ p.block = "tool" ->
                    Result([st EXCEPT !.ordinals = WithOrdinal(p.index), !.next = @ + 1],
                           <<Chunk("tool", st.next, p.index)>>, FALSE)
               [] name = "block_delta" /\ p.block = "text" ->
                    Result(st, <<Chunk("text", 0, p.index)>>, FALSE)
               [] name = "block_delta" /\ p.block = "tool" ->
                    Result(st, <<Chunk("args", Ordinal(p.index), p.index)>>, FALSE)
               [] name = "message_delta" ->
                    Result([st EXCEPT !.u.completion = p.completion], <<Chunk("finish", 0, 0)>>, FALSE)
               [] name = "error" -> Result(st, <<Chunk("error", 0, 0)>>, TRUE)
               [] OTHER -> Result(st, <<>>, FALSE)

\* geminiFinishReason: a turn that called tools stops for their results.
FinishReason(called, finish) == IF called /\ finish = "stop" THEN "finish_calls" ELSE "finish"

\* The calls among the first n parts of a response.
CallsAmong(parts, n) == Cardinality({j \in 1..n : parts[j] = "call"})

\* geminiStreamState.translate: every event is a whole response.
TranslateGemini(ev) ==
    IF ~Decodes(ev) THEN Result(st, <<>>, TRUE)
    ELSE LET p      == Decoded(ev)
             calls  == CallsAmong(p.parts, Len(p.parts))
             called == st.called \/ calls > 0
             role   == IF st.started THEN <<>> ELSE <<Chunk("role", 0, 0)>>
             parts  == [k \in 1..Len(p.parts) |->
                          IF p.parts[k] = "call"
                            THEN LET i == st.next + CallsAmong(p.parts, k - 1) IN Chunk("tool", i, i)
                            ELSE Chunk("text", 0, 0)]
             finish == IF p.finish = "none" THEN <<>>
                       ELSE <<Chunk(FinishReason(called, p.finish), 0, 0)>>
         IN  Result([st EXCEPT !.u = IF p.usage THEN p.u ELSE @, !.started = TRUE,
                               !.called = called, !.next = @ + calls],
                    role \o parts \o finish, FALSE)

Handle(ev) ==
    CASE kind = "openai"    -> ForwardOpenAI(ev)
      [] kind = "anthropic" -> TranslateAnthropic(ev)
      [] kind = "gemini"    -> TranslateGemini(ev)

\* Chunks are written until a write fails, which ends the stream; but writeDone
\* swallows the error of its write, and nothing is written after it at once.
Writes(chunks, err, after) ==
    \E n \in 0..Len(chunks) :
        /\ out' = out \o SubSeq(chunks, 1, n)
        /\ IF n < Len(chunks) /\ chunks[n + 1].type # "done" THEN Fails("write")
           ELSE IF err THEN Fails("event")
           ELSE status' = after /\ UNCHANGED why

\* readSSE calls the adapter.
Deliver(ev) ==
    LET r == Handle(ev)
    IN  /\ delivered' = Append(delivered, ev)
        /\ st' = r.st
        /\ Writes(r.chunks, r.err, "open")

\* Faulty variant: data of several lines is written behind one field name.
WrittenUnsplit(d) ==
    <<"data">> \o FlattenSeq([k \in 1..Len(d) |-> d[k] \o <<"lf">>]) \o <<"lf">>
\* writeData: every line of the data gets its own field, a blank line ends it.
Written(d) == FlattenSeq([k \in 1..Len(d) |-> <<"data">> \o d[k] \o <<"lf">>]) \o <<"lf">>

-----------------------------------------------------------------------------
(* readSSE.                                                                *)

Pending == [event |-> event, data |-> data]
Fires == IsEvent(Pending)

Line == IF first THEN Unmarked(Token.token) ELSE Token.token

Advance ==
    /\ status = "open" /\ Token.advance > 0
    /\ buf' = SubSeq(buf, Token.advance + 1, Len(buf))
    /\ first' = FALSE

\* A blank line dispatches what has been gathered.
ScanBlank ==
    /\ Advance /\ Line = <<>>
    /\ event' = <<>> /\ data' = <<>> /\ size' = 0
    /\ IF Fires THEN Deliver(Pending) ELSE UNCHANGED <<delivered, status, relay>>
    /\ UNCHANGED <<wire, kind, asked, pos, end>>

\* Comments, ids and fields that are not known change nothing.
ScanField ==
    /\ Advance /\ Line # <<>>
    /\ event' = IF Field("event", Line) THEN Tail(Line) ELSE event
    /\ data' = IF Field("data", Line) THEN Append(data, Tail(Line)) ELSE data
    /\ size' = IF Field("data", Line) THEN size + Len(Tail(Line)) + Overhead ELSE size
    /\ IF size' > MaxEvent THEN Fails("size") ELSE UNCHANGED <<status, why>>
    /\ UNCHANGED <<wire, kind, asked, pos, end, delivered, st, out>>

Drained == status = "open" /\ Token.advance = 0

\* What an adapter writes after the last event.
UsageChunk == IF kind # "openai" /\ asked THEN <<Raw("usage", <<>>)>> ELSE <<>>
DoneChunk == IF kind # "openai" THEN <<Raw("done", <<>>)>> ELSE <<>>

\* Faulty variant: a stream that broke off is closed like one that ended.
EndOnErrorDone ==
    /\ Drained /\ end = "error"
    /\ Fails("read")
    /\ out' = out \o DoneChunk
    /\ UNCHANGED <<wire, kind, asked, reader, delivered, st>>
EndOnError ==
    /\ Drained /\ end = "error"
    /\ Fails("read")
    /\ UNCHANGED <<wire, kind, asked, reader, delivered, st, out>>

\* A clean end: readSSE's last dispatch, then the adapter's closing chunks.
EndOnEOF ==
    /\ Drained /\ end = "eof"
    /\ LET r   == IF Fires THEN Handle(Pending) ELSE Result(st, <<>>, FALSE)
           all == IF r.err THEN r.chunks ELSE r.chunks \o UsageChunk \o DoneChunk
       IN  /\ delivered' = IF Fires THEN Append(delivered, Pending) ELSE delivered
           /\ st' = r.st
           /\ Writes(all, r.err, "ended")
    /\ event' = <<>> /\ data' = <<>> /\ size' = 0
    /\ UNCHANGED <<wire, kind, asked, pos, buf, end, first>>

Next ==
    \/ \E n \in 0..MaxLine, says \in {"none", "eof", "error"} : Read(n, says)
    \/ LineTooLong
    \/ ScanBlank \/ ScanField \/ EndOnError \/ EndOnEOF

Spec == Init /\ [][Next]_vars

-----------------------------------------------------------------------------
(* Properties.                                                             *)

ES == INSTANCE EventStream WITH wire <- wire, delivered <- delivered, status <- status

\* Reading in pieces implements reading at once: the adapter is handed the
\* events of the whole body, in order and unchanged, wherever Read cuts the body
\* (between "cr" and "lf", inside a line), and a clean end hands over all of
\* them (sse.go:94-114, 139-221).
ReadsLikeWhole == ES!Spec

\* The buffer must hold a line, its break and, unless that is "lf", a symbol more
\* or, after the body's last line, room to learn that nothing follows.
LinesFit(room) ==
    LET raw == RawLines(wire)
    IN  \A k \in 1..Len(raw) :
          Len(raw[k]) + (IF Last(raw[k]) = "lf" THEN 0
                         ELSE IF k = Len(raw) THEN room ELSE 1) <= MaxLine
EventsFit ==
    \A ev \in ToSet(Events(wire)) :
        Len(FlattenSeq(ev.data)) + Len(ev.data) * Overhead <= MaxEvent

\* A body that exceeds the limits of a line or of an event is never taken for a
\* complete one, and one that keeps them is never refused for them, however it is
\* cut.  Only a last line that fills the buffer without an "lf" is taken or
\* refused by the cut: taken when its last symbols come together with the body's
\* end (sse.go:16-52, 139-142, 202-211).
LimitsAreExact ==
    /\ status = "ended" => LinesFit(0) /\ EventsFit
    /\ why = "line" => ~LinesFit(1)
    /\ why = "size" => ~EventsFit

\* The client can put tool calls together: the fragments it sees under an index
\* belong to one content block, whose call was announced before under that
\* index, also when blocks of text and of tools interleave
\* (translate_anthropic.go:969-1014, translate_gemini.go:815-841).
FragmentsTogether ==
    /\ \A i, j \in 1..Len(out) : out[i].type = "tool" /\ out[j].type = "tool" =>
          (out[i].index = out[j].index <=> i = j)
    /\ \A i \in 1..Len(out) : out[i].type = "args" =>
          \E j \in 1..(i - 1) : out[j].type = "tool" /\ out[j].index = out[i].index
                                                     /\ out[j].from = out[i].from

\* The delivered events that report usage: of the whole answer, or under a name.
Reports == {k \in 1..Len(delivered) : Decodes(delivered[k]) /\ Decoded(delivered[k]).usage}
ReportsIn(name) == {k \in 1..Len(delivered) : Named(delivered[k], name)}
LastReport(those) == Decoded(delivered[Max(those)])

\* The usage that is billed is the upstream's last report, though the client
\* did not ask for it, hung up before it was written, or the stream broke off
\* later (provider_openai.go:259-278, translate_anthropic.go:966, 1024,
\* translate_gemini.go:792-794).
BilledIsReported ==
    IF kind = "anthropic"
      THEN LET start == ReportsIn("message_start")
               delta == ReportsIn("message_delta")
           IN  /\ st.u.prompt = (IF start = {} THEN 0 ELSE LastReport(start).prompt)
               /\ st.u.completion = (IF delta = {} THEN 0 ELSE LastReport(delta).completion)
      ELSE st.u = (IF Reports = {} THEN NoUsage ELSE LastReport(Reports).u)

\* A translated stream is closed with [DONE] only when the upstream's ended and
\* every event was translated: one that broke off, or reported an error, is not
\* presented as complete, and the usage the client asked for comes right before
\* (provider_anthropic.go:205-228, provider_gemini.go:215-238).
DoneMeansWhole ==
    kind # "openai" =>
        \A i \in 1..Len(out) : out[i].type = "done" =>
            /\ i = Len(out) /\ delivered = Events(wire)
            /\ \A j \in 1..i : out[j].type # "error"
            /\ asked <=> (i > 1 /\ out[i - 1].type = "usage")

\* What a client of an OpenAI-type upstream should see of the events.
IsShown(ev) == asked \/ ~Decodes(ev) \/ Decoded(ev).done \/ ~Decoded(ev).usage \/ Decoded(ev).choices
Shown == Picked(delivered, {k \in 1..Len(delivered) : IsShown(delivered[k])})
Bytes == FlattenSeq([k \in 1..Len(out) |-> Written(out[k].data)])

DataOf(evs) == [k \in 1..Len(evs) |-> evs[k].data]

\* A client that parses what sseWriter wrote gets the upstream's data unchanged
\* and in order, data of several lines included.  No event is missing but the one
\* whose write failed the stream, and a [DONE], whose write may fail unnoticed
\* while the stream goes on or ends well (sse.go:273-359, provider_openai.go:253-271).
ClientReadsSame ==
    kind = "openai" =>
        \E kept \in SUBSET (1..Len(Shown)) :
            /\ DataOf(Events(Bytes)) = DataOf(Picked(Shown, kept))
            /\ \A k \in (1..Len(Shown)) \ kept :
                  IsDone(Shown[k]) \/ (why = "write" /\ k = Len(Shown))
=============================================================================
