----------------------------- MODULE RespClient -----------------------------
(***************************************************************************)
(* resp.go: a pool of connection slots to one Redis server.  A call takes  *)
(* a slot, sends its commands in one write, reads one reply per command    *)
(* and returns the slot; a failed attempt closes the connection and may be *)
(* repeated once on the same slot.                                         *)
(*                                                                         *)
(* A command is <<call, attempt, index>>.  The server answers what reaches *)
(* it in order, and may still run the commands of a connection the client  *)
(* has given up.  Time is abstracted: a deadline may pass at any moment.   *)
(***************************************************************************)
EXTENDS Integers, FiniteSets, SequencesExt

CONSTANTS
    Calls,     \* pipelineEncoded calls, each made at most once
    Slots,     \* the connection slots, respConn
    NumCmds,   \* [Calls -> Nat \ {0}]: commands in the call's payload
    Mutates,   \* [Calls -> BOOLEAN]: pipelineMutates of its commands
    MaxBreaks  \* bound on connections that break, fail to dial or to write

ASSUME CallAssumption ==
    /\ NumCmds \in [Calls -> Nat \ {0}]
    /\ Mutates \in [Calls -> BOOLEAN]
ASSUME PoolAssumption == IsFiniteSet(Slots) /\ Slots # {} /\ MaxBreaks \in Nat

VARIABLES
    free,     \* the idle slots in the channel (their order is immaterial)
    conn,     \* per slot, its connection
    pc,       \* where each call is
    slot,     \* the slot a call holds
    try,      \* the attempt a call is at
    got,      \* the replies read in this attempt
    heard,    \* auxiliary: a reply byte was read in the first attempt
    applied,  \* the commands the server has run
    orphans,  \* received commands of connections that are gone
    closed,   \* Close was called
    breaks    \* connection faults so far

callVars == <<pc, slot, try, got, heard>>
vars == <<free, conn, callVars, applied, orphans, closed, breaks>>

Commands(c, t) == [i \in 1..NumCmds[c] |-> <<c, t, i>>]
Command == Calls \X (1..2) \X Nat

\* A respConn whose conn is nil, and a connection just dialled.
NoConn == [open |-> FALSE, up |-> FALSE, inq |-> << >>, outq |-> << >>]
Fresh == [open |-> TRUE, up |-> TRUE, inq |-> << >>, outq |-> << >>]

Orphaned(q) == IF q = << >> THEN orphans ELSE orphans \cup {q}

Holds(c) == pc[c] \in {"attempt", "reading"}

-----------------------------------------------------------------------------
Init ==
    /\ free = Slots
    /\ conn = [s \in Slots |-> NoConn]
    /\ pc = [c \in Calls |-> "idle"]
    /\ slot = [c \in Calls |-> CHOOSE s \in Slots : TRUE]
    /\ try = [c \in Calls |-> 1]
    /\ got = [c \in Calls |-> << >>]
    /\ heard = [c \in Calls |-> FALSE]
    /\ applied = {}
    /\ orphans = {}
    /\ closed = FALSE
    /\ breaks = 0

\* Faulty variant: the slot is used but not taken out of the channel.
TakeShared(c) ==
    /\ \E s \in free : slot' = [slot EXCEPT ![c] = s]
    /\ pc' = [pc EXCEPT ![c] = "attempt"]
    /\ UNCHANGED <<free, conn, try, got, heard, applied, orphans, closed, breaks>>

\* acquire: a slot at once or later, or the deadline passes while waiting.
Take(c) ==
    /\ \E s \in free :
          /\ free' = free \ {s}
          /\ slot' = [slot EXCEPT ![c] = s]
    /\ pc' = [pc EXCEPT ![c] = "attempt"]
    /\ UNCHANGED <<conn, try, got, heard, applied, orphans, closed, breaks>>

Acquire(c) == pc[c] = "idle" /\ Take(c)

Wait(c) ==
    /\ pc[c] = "idle" /\ free = {}
    /\ pc' = [pc EXCEPT ![c] = "waiting"]
    /\ UNCHANGED <<free, conn, slot, try, got, heard, applied, orphans, closed, breaks>>

AcquireLate(c) == pc[c] = "waiting" /\ Take(c)

\* Faulty variant: acquire has no timer.
AcquireForever(c) == FALSE /\ UNCHANGED vars
AcquireTimeout(c) ==
    /\ pc[c] = "waiting"
    /\ pc' = [pc EXCEPT ![c] = "failed"]
    /\ UNCHANGED <<free, conn, slot, try, got, heard, applied, orphans, closed, breaks>>

\* Faulty variant: a reply that has begun does not stop the retry.
RetriesBlindly(c, wrote, readAny, timeout) == ~timeout /\ try[c] = 1
\* pipelineEncoded's retry gate: what a failed attempt allows.
Retries(c, wrote, readAny, timeout) ==
    /\ ~timeout
    /\ ~(wrote /\ readAny /\ Mutates[c])
    /\ try[c] = 1

\* The attempt failed: closeConn, then one more attempt on the same slot or
\* the error, with the slot back in the pool either way.
Fail(c, wrote, readAny, timeout, q) ==
    /\ conn' = [conn EXCEPT ![slot[c]] = NoConn]
    /\ orphans' = Orphaned(q)
    /\ got' = [got EXCEPT ![c] = << >>]
    /\ heard' = [heard EXCEPT ![c] = @ \/ (try[c] = 1 /\ readAny)]
    /\ \/ /\ Retries(c, wrote, readAny, timeout)
          /\ try' = [try EXCEPT ![c] = @ + 1]
          /\ pc' = [pc EXCEPT ![c] = "attempt"]
          /\ UNCHANGED free
       \/ /\ ~Retries(c, wrote, readAny, timeout)
          /\ pc' = [pc EXCEPT ![c] = "failed"]
          /\ free' = free \cup {slot[c]}
          /\ UNCHANGED try
    /\ UNCHANGED <<slot, applied, closed>>

\* ensureConnOn: dial and hand-shake when the slot has no connection.
Dial(c) ==
    /\ pc[c] = "attempt" /\ ~conn[slot[c]].open
    /\ conn' = [conn EXCEPT ![slot[c]] = Fresh]
    /\ UNCHANGED <<free, callVars, applied, orphans, closed, breaks>>

DialFails(c) ==
    /\ pc[c] = "attempt" /\ ~conn[slot[c]].open
    /\ breaks < MaxBreaks
    /\ breaks' = breaks + 1
    /\ \E timeout \in BOOLEAN : Fail(c, FALSE, FALSE, timeout, << >>)

\* attemptEncodedOn's write.  Into a connection the server has closed it may
\* succeed all the same; the bytes are lost.
Write(c) ==
    /\ pc[c] = "attempt" /\ conn[slot[c]].open
    /\ conn' = IF conn[slot[c]].up
               THEN [conn EXCEPT ![slot[c]].inq = @ \o Commands(c, try[c])]
               ELSE conn
    /\ pc' = [pc EXCEPT ![c] = "reading"]
    /\ UNCHANGED <<free, slot, try, got, heard, applied, orphans, closed, breaks>>

\* A write that fails may have delivered the first commands of the payload.
WriteFails(c) ==
    /\ pc[c] = "attempt" /\ conn[slot[c]].open
    /\ breaks < MaxBreaks \/ ~conn[slot[c]].up
    /\ breaks' = IF conn[slot[c]].up THEN breaks + 1 ELSE breaks
    /\ \E timeout \in BOOLEAN, n \in 0..(NumCmds[c] - 1) :
          /\ conn[slot[c]].up \/ n = 0
          /\ Fail(c, FALSE, FALSE, timeout,
                  conn[slot[c]].inq \o SubSeq(Commands(c, try[c]), 1, n))

\* decodeReply of the next reply; after the last one the slot goes back.
Read(c) ==
    /\ pc[c] = "reading" /\ conn[slot[c]].outq # << >>
    /\ got' = [got EXCEPT ![c] = Append(@, Head(conn[slot[c]].outq))]
    /\ heard' = [heard EXCEPT ![c] = @ \/ try[c] = 1]
    /\ conn' = [conn EXCEPT ![slot[c]].outq = Tail(@)]
    /\ IF Len(got[c]) + 1 = NumCmds[c]
       THEN /\ pc' = [pc EXCEPT ![c] = "ok"]
            /\ free' = free \cup {slot[c]}
       ELSE UNCHANGED <<pc, free>>
    /\ UNCHANGED <<slot, try, applied, orphans, closed, breaks>>

\* Faulty variant: a timed-out connection is kept.
ReadTimeoutKeeps(c) ==
    /\ pc[c] = "reading"
    /\ pc' = [pc EXCEPT ![c] = "failed"]
    /\ free' = free \cup {slot[c]}
    /\ UNCHANGED <<conn, slot, try, got, heard, applied, orphans, closed, breaks>>

\* The deadline passes while a reply is awaited.
ReadTimeout(c) ==
    /\ pc[c] = "reading"
    /\ Fail(c, TRUE, got[c] # << >>, TRUE, conn[slot[c]].inq)
    /\ UNCHANGED breaks

\* The connection ends with replies missing, perhaps in the middle of one,
\* which exists only once the server has run the first command.
ReadFails(c) ==
    /\ pc[c] = "reading" /\ ~conn[slot[c]].up /\ conn[slot[c]].outq = << >>
    /\ \E cut \in BOOLEAN :
          /\ cut => <<c, try[c], 1>> \in applied
          /\ Fail(c, TRUE, cut \/ got[c] # << >>, FALSE, << >>)
    /\ UNCHANGED breaks

\* Close drains the idle slots; those in use come back to the channel later.
CloseClient ==
    /\ ~closed
    /\ closed' = TRUE
    /\ conn' = [s \in Slots |-> IF s \in free THEN NoConn ELSE conn[s]]
    /\ free' = {}
    /\ UNCHANGED <<callVars, applied, orphans, breaks>>

-----------------------------------------------------------------------------
(* The server.                                                             *)

Serve(s) ==
    /\ conn[s].up /\ conn[s].inq # << >>
    /\ applied' = applied \cup {Head(conn[s].inq)}
    /\ conn' = [conn EXCEPT ![s].inq = Tail(@),
                            ![s].outq = Append(@, Head(conn[s].inq))]
    /\ UNCHANGED <<free, callVars, orphans, closed, breaks>>

\* Commands received before the connection went away are run regardless.
ServeOrphan(q) ==
    /\ applied' = applied \cup {Head(q)}
    /\ orphans' = (orphans \ {q}) \cup (IF Len(q) = 1 THEN {} ELSE {Tail(q)})
    /\ UNCHANGED <<free, conn, callVars, closed, breaks>>

\* The server, or a proxy, closes the connection; replies may be lost with it.
ServerCloses(s) ==
    /\ conn[s].up
    /\ breaks < MaxBreaks
    /\ breaks' = breaks + 1
    /\ \E n \in 0..Len(conn[s].outq) :
          conn' = [conn EXCEPT ![s] = [open |-> TRUE, up |-> FALSE, inq |-> << >>,
                                       outq |-> SubSeq(@.outq, 1, n)]]
    /\ orphans' = Orphaned(conn[s].inq)
    /\ UNCHANGED <<free, callVars, applied, closed>>

ClientStep(c) ==
    \/ Acquire(c) \/ Wait(c) \/ AcquireLate(c) \/ AcquireTimeout(c)
    \/ Dial(c) \/ DialFails(c) \/ Write(c) \/ WriteFails(c)
    \/ Read(c) \/ ReadTimeout(c) \/ ReadFails(c)

Next ==
    \/ \E c \in Calls : ClientStep(c)
    \/ CloseClient
    \/ \E s \in Slots : Serve(s) \/ ServerCloses(s)
    \/ \E q \in orphans : ServeOrphan(q)

Spec == Init /\ [][Next]_vars

\* A call that was made goes on: its reads and waits end at its deadline.
FairSpec == Spec /\ \A c \in Calls : WF_vars(ClientStep(c))

-----------------------------------------------------------------------------
\* The type invariant of the module's state.
TypeOK ==
    /\ free \subseteq Slots
    /\ conn \in [Slots -> [open : BOOLEAN, up : BOOLEAN, inq : Seq(Command), outq : Seq(Command)]]
    /\ pc \in [Calls -> {"idle", "waiting", "attempt", "reading", "ok", "failed"}]
    /\ slot \in [Calls -> Slots]
    /\ try \in [Calls -> 1..2]
    /\ got \in [Calls -> Seq(Command)]
    /\ heard \in [Calls -> BOOLEAN]
    /\ applied \subseteq Command
    /\ orphans \subseteq Seq(Command)
    /\ closed \in BOOLEAN
    /\ breaks \in Nat

\* RESP is not multiplexed: the replies a successful call returns are those of
\* its own commands, in order, whatever earlier users of the connection left
\* unread.
RepliesAreOwn ==
    \A c \in Calls : pc[c] = "ok" => got[c] = Commands(c, try[c])

\* Slots are neither lost nor shared: no two calls hold the same slot, none
\* that is held is also idle, and until Close every slot is one or the other.
SlotsAccounted ==
    /\ \A c \in Calls : Holds(c) => slot[c] \notin free
    /\ \A c, d \in Calls : Holds(c) /\ Holds(d) /\ slot[c] = slot[d] => c = d
    /\ ~closed => Slots = free \cup {slot[c] : c \in {d \in Calls : Holds(d)}}

\* A mutating pipeline is applied twice only when its first attempt got no
\* answer at all (pipelineEncoded: once a reply byte was read, an INCRBY is
\* never sent again).
TwiceOnlyIfSilent ==
    \A c \in Calls : \A i \in 1..NumCmds[c] :
        Mutates[c] /\ {<<c, 1, i>>, <<c, 2, i>>} \subseteq applied => ~heard[c]

\* Every call returns by its deadline, also when all slots are taken by calls
\* that got no answer, or were drained by Close.
CallsReturn ==
    \A c \in Calls :
        pc[c] \in {"waiting", "attempt", "reading"} ~> pc[c] \in {"ok", "failed"}

=============================================================================
