----------------------------- MODULE EventText -----------------------------
(***************************************************************************)
(* The text/event-stream format.  A body is a sequence of symbols: line    *)
(* breaks "cr" and "lf", a byte-order mark "bom", field names that include *)
(* their colon, and parts of values.                                       *)
(***************************************************************************)
EXTENDS Integers, Sequences, SequencesExt, FiniteSets

IsBreak(c) == c \in {"cr", "lf"}

\* The first break of s, or 0.
FirstBreak(s) == SelectInSeq(s, IsBreak)

\* The positions that end a line; "cr" "lf" is one break.
Breaks(w) ==
    {i \in 1..Len(w) : w[i] = "lf" \/ (w[i] = "cr" /\ (i = Len(w) \/ w[i + 1] # "lf"))}

\* The members of S up to n, in order.
InOrder(S, n) ==
    LET upTo[i \in 0..n] ==
            IF i = 0 THEN <<>> ELSE IF i \in S THEN Append(upTo[i - 1], i) ELSE upTo[i - 1]
    IN  upTo[n]

\* The elements of s at the positions in S, in order.
Picked(s, S) == LET at == InOrder(S, Len(s)) IN [k \in 1..Len(at) |-> s[at[k]]]

\* The pieces of s that end at the given positions, in order.
Pieces(s, ends) ==
    [k \in 1..Len(ends) |-> SubSeq(s, IF k = 1 THEN 1 ELSE ends[k - 1] + 1, ends[k])]

\* The lines with their breaks.  What follows the last break is a line too.
RawLines(w) == Pieces(w, InOrder(Breaks(w) \cup {Len(w)}, Len(w)))

Text(line) == IF FirstBreak(line) = 0 THEN line ELSE SubSeq(line, 1, FirstBreak(line) - 1)

Field(name, line) == line # <<>> /\ Head(line) = name

\* The first line loses its byte-order mark.
Unmarked(line) == IF Field("bom", line) THEN Tail(line) ELSE line

Lines(w) ==
    LET raw == RawLines(w)
    IN  [k \in 1..Len(raw) |-> IF k = 1 THEN Unmarked(Text(raw[k])) ELSE Text(raw[k])]

\* Blank lines end blocks of lines.
Blocks(lines) == Pieces(lines, InOrder({i \in 1..Len(lines) : lines[i] = <<>>}, Len(lines)))

\* The values of one field among some lines, in order.
Values(name, lines) ==
    LET at == Picked(lines, {i \in 1..Len(lines) : Field(name, lines[i])})
    IN  [k \in 1..Len(at) |-> Tail(at[k])]

\* Of several event fields the last counts.
LastOf(names) == IF names = <<>> THEN <<>> ELSE Last(names)
EventOf(block) == [event |-> LastOf(Values("event", block)), data |-> Values("data", block)]

\* An event without data, or with a single empty data line, is none.
IsEvent(ev) == ev.data # <<>> /\ ev.data # <<<<>>>>
EventsOf(blocks) ==
    LET evs == [k \in 1..Len(blocks) |-> EventOf(blocks[k])]
    IN  Picked(evs, {k \in 1..Len(evs) : IsEvent(evs[k])})

\* The end of the body ends its last block.
Events(w) == EventsOf(Blocks(Append(Lines(w), <<>>)))

=============================================================================
