-------------------------- MODULE RespClientProofs --------------------------
(***************************************************************************)
(* Proofs about RespClient, for any number of calls, slots and commands,   *)
(* and of connections that break.                                          *)
(*                                                                         *)
(* The second half is about RedisStore, whose batches are pipelines of     *)
(* this client, for any number of them, of replicas, keys and faults.      *)
(***************************************************************************)
EXTENDS RespClient, RedisStore, SequenceTheorems, WellFoundedInduction, TLAPS

-----------------------------------------------------------------------------
(* The inductive invariant.                                                *)

\* TypeOK, and that a connection that is gone left some commands behind.
TInv == TypeOK /\ << >> \notin orphans

\* Between Write and the last reply, the commands of a call are in three places
\* in turn: got has the first, then come the replies under way, then what the
\* server has still to run.
InTurn(c, t, g, cn) ==
    /\ \A k \in 1..Len(g) : g[k] = <<c, t, k>>
    /\ \A k \in 1..Len(cn.outq) : cn.outq[k] = <<c, t, Len(g) + k>>
    /\ \A k \in 1..Len(cn.inq) : cn.inq[k] = <<c, t, Len(g) + Len(cn.outq) + k>>
    /\ Len(g) < NumCmds[c] /\ Len(g) + Len(cn.outq) + Len(cn.inq) <= NumCmds[c]
    /\ cn.up => Len(g) + Len(cn.outq) + Len(cn.inq) = NumCmds[c]
    /\ ~cn.up => cn.inq = << >>

Pending(c) == InTurn(c, try[c], got[c], conn[slot[c]])

\* A connection no call is reading from has nothing under way.
Quiet(s) ==
    (\A c \in Calls : pc[c] = "reading" => slot[c] # s)
        => conn[s].inq = << >> /\ conn[s].outq = << >>

QuietConns == \A s \in Slots : Quiet(s)

\* Where a call is determines what it has received: RepliesAreOwn is the end of it.
InOrder(c) ==
    /\ pc[c] = "reading" => Pending(c)
    /\ pc[c] = "attempt" => got[c] = << >>
    /\ pc[c] \in {"idle", "waiting"} => got[c] = << >> /\ try[c] = 1
    /\ pc[c] = "ok" => got[c] = Commands(c, try[c])

CallsInOrder == \A c \in Calls : InOrder(c)

\* A command of a second attempt exists only if there was one.
SecondAttempts ==
    /\ \A x \in applied : x[2] = 2 => try[x[1]] = 2
    /\ \A q \in orphans : \A k \in 1..Len(q) : q[k][2] = 2 => try[q[k][1]] = 2

\* Once something was heard in the first attempt of a mutating call, there is no
\* second one.
HeardOnce ==
    \A c \in Calls :
        /\ pc[c] \in {"idle", "waiting", "attempt"} /\ try[c] = 1 => ~heard[c]
        /\ pc[c] = "reading" /\ try[c] = 1 /\ heard[c] => got[c] # << >>
        /\ heard[c] /\ Mutates[c] => try[c] = 1

IInv ==
    /\ TInv /\ SlotsAccounted /\ QuietConns /\ CallsInOrder
    /\ SecondAttempts /\ HeardOnce

-----------------------------------------------------------------------------
(* Types.                                                                  *)

Conn == [open : BOOLEAN, up : BOOLEAN, inq : Seq(Command), outq : Seq(Command)]

\* The commands of an attempt.
LEMMA CommandsType ==
  ASSUME NEW c \in Calls, NEW t \in 1..2
  PROVE  /\ NumCmds[c] \in Nat \ {0}
         /\ Commands(c, t) \in Seq(Command) /\ Len(Commands(c, t)) = NumCmds[c]
         /\ \A k \in 1..NumCmds[c] : Commands(c, t)[k] = <<c, t, k>>
  <1>1. NumCmds[c] \in Nat \ {0}
    BY CallAssumption
  <1>2. \A k \in 1..NumCmds[c] : <<c, t, k>> \in Command
    BY <1>1 DEF Command
  <1> QED BY <1>1, <1>2 DEF Commands

\* A prefix of them.
LEMMA PrefixType ==
  ASSUME NEW c \in Calls, NEW t \in 1..2, NEW n \in 0..(NumCmds[c] - 1)
  PROVE  /\ SubSeq(Commands(c, t), 1, n) \in Seq(Command)
         /\ Len(SubSeq(Commands(c, t), 1, n)) = n
         /\ \A k \in 1..n : SubSeq(Commands(c, t), 1, n)[k] = <<c, t, k>>
  <1> DEFINE cs == Commands(c, t)
  <1>1. NumCmds[c] \in Nat /\ n \in Int /\ n >= 0 /\ n <= NumCmds[c]
    BY CommandsType
  <1>2. ASSUME NEW k \in 1..n PROVE cs[k] = <<c, t, k>> /\ cs[k] \in Command
    <2>1. k \in Nat /\ k \in 1..NumCmds[c]
      BY <1>1
    <2>2. cs[k] = <<c, t, k>>
      BY <2>1, CommandsType
    <2> QED BY <2>1, <2>2 DEF Command
  <1> HIDE DEF cs
  <1>3. /\ SubSeq(cs, 1, n) \in Seq(Command)
        /\ Len(SubSeq(cs, 1, n)) = IF 1 <= n THEN n - 1 + 1 ELSE 0
        /\ \A k \in 1..(n - 1 + 1) : SubSeq(cs, 1, n)[k] = cs[1 + k - 1]
    BY <1>1, <1>2, SubSeqProperties
  <1> QED BY <1>1, <1>2, <1>3 DEF cs

\* The replies that arrive from a connection that breaks.
LEMMA KeptReplies ==
  ASSUME NEW o \in Seq(Command), NEW n \in 0..Len(o)
  PROVE  /\ SubSeq(o, 1, n) \in Seq(Command)
         /\ Len(SubSeq(o, 1, n)) = n
         /\ \A k \in 1..n : SubSeq(o, 1, n)[k] = o[k]
  <1>1. Len(o) \in Nat /\ n \in Int /\ n >= 0 /\ n <= Len(o)
    BY LenProperties
  <1>2. \A k \in 1..n : o[k] \in Command
    BY <1>1, ElementOfSeq
  <1>3. /\ SubSeq(o, 1, n) \in Seq(Command)
        /\ Len(SubSeq(o, 1, n)) = IF 1 <= n THEN n - 1 + 1 ELSE 0
        /\ \A k \in 1..(n - 1 + 1) : SubSeq(o, 1, n)[k] = o[1 + k - 1]
    BY <1>1, <1>2, SubSeqProperties
  <1> QED BY <1>1, <1>3

\* What Fail does, whatever it was that failed.
Failed(c, q) ==
    /\ conn' = [conn EXCEPT ![slot[c]] = NoConn]
    /\ orphans' = Orphaned(q)
    /\ got' = [got EXCEPT ![c] = << >>]
    /\ \/ /\ try[c] = 1 /\ try' = [try EXCEPT ![c] = 2]
          /\ pc' = [pc EXCEPT ![c] = "attempt"]
          /\ free' = free
       \/ /\ try' = try
          /\ pc' = [pc EXCEPT ![c] = "failed"]
          /\ free' = free \cup {slot[c]}
    /\ UNCHANGED <<slot, applied, closed>>

\* A failed attempt is followed by one more, or by the error.
LEMMA FailCases ==
  ASSUME TInv, NEW c \in Calls, NEW wrote \in BOOLEAN, NEW readAny \in BOOLEAN,
         NEW timeout \in BOOLEAN, NEW q, Fail(c, wrote, readAny, timeout, q)
  PROVE  /\ Failed(c, q)
         /\ heard' = [heard EXCEPT ![c] = @ \/ (try[c] = 1 /\ readAny)]
         /\ try' # try => ~(wrote /\ readAny /\ Mutates[c])
  BY DEF Fail, Failed, Retries, TInv, TypeOK

\* It keeps the types.
LEMMA FailType ==
  ASSUME TInv, NEW c \in Calls, NEW q \in Seq(Command), Failed(c, q),
         heard' \in [Calls -> BOOLEAN], breaks' \in Nat
  PROVE  TInv'
  <1>1. NoConn \in Conn
    BY DEF NoConn, Conn
  <1>2. slot[c] \in Slots /\ conn \in [Slots -> Conn]
    BY DEF TInv, TypeOK, Conn
  <1>3. conn' \in [Slots -> Conn]
    BY <1>1, <1>2 DEF Failed
  <1>4. orphans' \subseteq Seq(Command) /\ << >> \notin orphans'
    BY DEF Failed, Orphaned, TInv, TypeOK
  <1>5. got' \in [Calls -> Seq(Command)]
    BY DEF Failed, TInv, TypeOK
  <1>6. pc' \in [Calls -> {"idle", "waiting", "attempt", "reading", "ok", "failed"}]
    BY DEF Failed, TInv, TypeOK
  <1>7. try' \in [Calls -> 1..2]
    <2>1. 2 \in 1..2 /\ try \in [Calls -> 1..2]
      BY DEF TInv, TypeOK
    <2> QED BY <2>1 DEF Failed
  <1>8. free' \subseteq Slots
    BY <1>2 DEF Failed, TInv, TypeOK
  <1> QED BY <1>3, <1>4, <1>5, <1>6, <1>7, <1>8 DEF Failed, TInv, TypeOK, Conn

\* The four ways in which an attempt fails.
Failure(c, q, readAny) ==
    /\ Failed(c, q)
    /\ heard' = [heard EXCEPT ![c] = @ \/ (try[c] = 1 /\ readAny)]
    /\ breaks' \in Nat
    /\ try' # try => ~(readAny /\ Mutates[c])

\* Every failure but that of a read happens before anything was read.
LEMMA Failures ==
  ASSUME TInv, NEW c \in Calls, DialFails(c) \/ WriteFails(c) \/ ReadTimeout(c) \/ ReadFails(c)
  PROVE  \E q \in Seq(Command), readAny \in BOOLEAN :
            /\ Failure(c, q, readAny)
            /\ pc[c] = "attempt" => /\ readAny = FALSE
                                    /\ q = << >> \/ \E n \in 0..(NumCmds[c] - 1) :
                                          q = conn[slot[c]].inq \o SubSeq(Commands(c, try[c]), 1, n)
            /\ pc[c] = "reading" => /\ got[c] # << >> => readAny
                                    /\ q \in {<< >>, conn[slot[c]].inq}
            /\ pc[c] \in {"attempt", "reading"}
  <1>0. slot[c] \in Slots /\ conn[slot[c]] \in Conn /\ try[c] \in 1..2 /\ breaks \in Nat
    BY DEF TInv, TypeOK, Conn
  <1>e. << >> \in Seq(Command)
    OBVIOUS
  <1>1. CASE DialFails(c)
    <2>1. PICK timeout \in BOOLEAN : Fail(c, FALSE, FALSE, timeout, << >>)
      BY <1>1 DEF DialFails
    <2>2. pc[c] = "attempt" /\ breaks' \in Nat
      BY <1>1, <1>0 DEF DialFails
    <2>3. Failure(c, << >>, FALSE)
      BY <2>1, <2>2, FailCases DEF Failure
    <2> QED BY <1>e, <2>2, <2>3
  <1>2. CASE WriteFails(c)
    <2>1. PICK timeout \in BOOLEAN, n \in 0..(NumCmds[c] - 1) :
            Fail(c, FALSE, FALSE, timeout, conn[slot[c]].inq \o SubSeq(Commands(c, try[c]), 1, n))
      BY <1>2 DEF WriteFails
    <2> DEFINE q == conn[slot[c]].inq \o SubSeq(Commands(c, try[c]), 1, n)
    <2>2. pc[c] = "attempt" /\ breaks' \in Nat
      BY <1>2, <1>0 DEF WriteFails
    <2>3. q \in Seq(Command)
      BY <1>0, PrefixType DEF Conn
    <2>4. Failure(c, q, FALSE)
      BY <2>1, <2>2, FailCases DEF Failure
    <2> QED BY <2>2, <2>3, <2>4
  <1>3. CASE ReadTimeout(c)
    <2> DEFINE readAny == got[c] # << >>
               q == conn[slot[c]].inq
    <2>1. Fail(c, TRUE, readAny, TRUE, q)
      BY <1>3 DEF ReadTimeout
    <2>2. pc[c] = "reading" /\ breaks' \in Nat
      BY <1>3, <1>0 DEF ReadTimeout
    <2>3. q \in Seq(Command) /\ readAny \in BOOLEAN
      BY <1>0 DEF Conn
    <2>4. Failure(c, q, readAny)
      BY <2>1, <2>2, <2>3, FailCases DEF Failure
    <2> QED BY <2>2, <2>3, <2>4
  <1>4. CASE ReadFails(c)
    <2>1. PICK cut \in BOOLEAN : Fail(c, TRUE, cut \/ got[c] # << >>, FALSE, << >>)
      BY <1>4 DEF ReadFails
    <2> DEFINE readAny == cut \/ got[c] # << >>
    <2>2. pc[c] = "reading" /\ breaks' \in Nat
      BY <1>4, <1>0 DEF ReadFails
    <2>3. readAny \in BOOLEAN
      OBVIOUS
    <2>4. Failure(c, << >>, readAny)
      BY <2>1, <2>2, <2>3, FailCases DEF Failure
    <2> QED BY <1>e, <2>2, <2>3, <2>4
  <1> QED BY <1>1, <1>2, <1>3, <1>4

-----------------------------------------------------------------------------
\* Every step keeps the types: the calls' steps.
LEMMA TInvClient ==
  ASSUME TInv, NEW c \in Calls, ClientStep(c)
  PROVE  TInv'
  <1> USE DEF TInv
  <1>0. /\ slot[c] \in Slots /\ conn \in [Slots -> Conn] /\ conn[slot[c]] \in Conn
        /\ try[c] \in 1..2 /\ breaks \in Nat
    BY DEF TypeOK, Conn
  <1>1. CASE Acquire(c) \/ AcquireLate(c)
    BY <1>1 DEF Acquire, AcquireLate, Take, TypeOK
  <1>2. CASE Wait(c) \/ AcquireTimeout(c)
    BY <1>2 DEF Wait, AcquireTimeout, TypeOK
  <1>3. CASE Dial(c)
    <2>1. Fresh \in Conn
      BY DEF Fresh, Conn
    <2>2. conn' \in [Slots -> Conn]
      BY <1>0, <1>3, <2>1 DEF Dial
    <2> QED BY <1>3, <2>2 DEF Dial, callVars, TypeOK, Conn
  <1>4. CASE Write(c)
    <2> DEFINE q == conn[slot[c]].inq \o Commands(c, try[c])
    <2>1. q \in Seq(Command)
      BY <1>0, CommandsType DEF Conn
    <2> HIDE DEF q
    <2>2. [conn EXCEPT ![slot[c]].inq = q] \in [Slots -> Conn]
      BY <1>0, <2>1 DEF Conn
    <2>3. conn' \in [Slots -> Conn]
      BY <1>0, <1>4, <2>2 DEF Write, q
    <2> QED BY <1>4, <2>3 DEF Write, TypeOK, Conn
  <1>5. CASE Read(c)
    <2> DEFINE o == conn[slot[c]].outq
    <2>1. o \in Seq(Command) /\ o # << >>
      BY <1>0, <1>5 DEF Read, Conn
    <2>2. Head(o) \in Command /\ Tail(o) \in Seq(Command)
      BY <2>1
    <2> HIDE DEF o
    <2>3. [conn EXCEPT ![slot[c]].outq = Tail(o)] \in [Slots -> Conn]
      BY <1>0, <2>2 DEF Conn
    <2>4. conn' \in [Slots -> Conn]
      BY <1>0, <1>5, <2>3 DEF Read, o
    <2>5. got' \in [Calls -> Seq(Command)]
      BY <1>5, <2>2 DEF Read, TypeOK, o
    <2>6. heard' \in [Calls -> BOOLEAN]
      BY <1>5 DEF Read, TypeOK
    <2>7. pc' \in [Calls -> {"idle", "waiting", "attempt", "reading", "ok", "failed"}]
      BY <1>5 DEF Read, TypeOK
    <2>8. free' \subseteq Slots
      BY <1>0, <1>5 DEF Read, TypeOK
    <2> QED BY <1>5, <2>4, <2>5, <2>6, <2>7, <2>8 DEF Read, TypeOK, Conn
  <1>6. CASE DialFails(c) \/ WriteFails(c) \/ ReadTimeout(c) \/ ReadFails(c)
    <2>1. PICK q \in Seq(Command), readAny \in BOOLEAN : Failure(c, q, readAny)
      BY <1>6, Failures
    <2>2. heard' \in [Calls -> BOOLEAN]
      BY <2>1 DEF Failure, TypeOK
    <2> QED BY <2>1, <2>2, FailType DEF Failure
  <1> QED BY <1>1, <1>2, <1>3, <1>4, <1>5, <1>6 DEF ClientStep

\* And the server's, and Close.
LEMMA TInvNext ==
  ASSUME TInv, [Next]_vars
  PROVE  TInv'
  <1> USE DEF TInv
  <1>0. conn \in [Slots -> Conn] /\ breaks \in Nat
    BY DEF TypeOK, Conn
  <1>1. ASSUME NEW c \in Calls, ClientStep(c) PROVE TInv'
    BY <1>1, TInvClient
  <1>2. CASE CloseClient
    <2>1. NoConn \in Conn
      BY DEF NoConn, Conn
    <2>2. conn' \in [Slots -> Conn]
      BY <1>0, <1>2, <2>1 DEF CloseClient
    <2> QED BY <1>2, <2>2 DEF CloseClient, callVars, TypeOK, Conn
  <1>3. ASSUME NEW s \in Slots, Serve(s) PROVE TInv'
    <2> DEFINE i == conn[s].inq
               o == conn[s].outq
    <2>1. i \in Seq(Command) /\ i # << >> /\ o \in Seq(Command) /\ conn[s] \in Conn
      BY <1>0, <1>3 DEF Serve, Conn
    <2>2. Head(i) \in Command /\ Tail(i) \in Seq(Command) /\ Append(o, Head(i)) \in Seq(Command)
      BY <2>1
    <2>3. conn' = [conn EXCEPT ![s] = [@ EXCEPT !.inq = Tail(i), !.outq = Append(o, Head(i))]]
      BY <1>0, <1>3, <2>1 DEF Serve, Conn
    <2> HIDE DEF i, o
    <2>4. [conn[s] EXCEPT !.inq = Tail(i), !.outq = Append(o, Head(i))] \in Conn
      BY <2>1, <2>2 DEF Conn
    <2>5. conn' \in [Slots -> Conn]
      BY <1>0, <2>3, <2>4
    <2>6. applied' \subseteq Command
      BY <1>3, <2>2 DEF Serve, TypeOK, i
    <2> QED BY <1>3, <2>5, <2>6 DEF Serve, callVars, TypeOK, Conn
  <1>4. ASSUME NEW q \in orphans, ServeOrphan(q) PROVE TInv'
    <2>1. q \in Seq(Command) /\ q # << >>
      BY DEF TypeOK
    <2>2. Head(q) \in Command /\ Tail(q) \in Seq(Command) /\ (Len(q) # 1 => Tail(q) # << >>)
      <3>1. Head(q) \in Command /\ Tail(q) \in Seq(Command)
        BY <2>1
      <3>2. Len(Tail(q)) = Len(q) - 1 /\ Len(q) \in Nat
        BY <2>1
      <3>3. Len(<< >>) = 0
        OBVIOUS
      <3> QED BY <3>1, <3>2, <3>3
    <2>3. applied' \subseteq Command /\ orphans' \subseteq Seq(Command) /\ << >> \notin orphans'
      BY <1>4, <2>2 DEF ServeOrphan, TypeOK
    <2> QED BY <1>4, <2>3 DEF ServeOrphan, callVars, TypeOK
  <1>5. ASSUME NEW s \in Slots, ServerCloses(s) PROVE TInv'
    <2>1. PICK n \in 0..Len(conn[s].outq) :
            conn' = [conn EXCEPT ![s] = [open |-> TRUE, up |-> FALSE, inq |-> << >>,
                                         outq |-> SubSeq(@.outq, 1, n)]]
      BY <1>5 DEF ServerCloses
    <2>2. conn[s].outq \in Seq(Command) /\ conn[s].inq \in Seq(Command)
      BY <1>0 DEF Conn
    <2> DEFINE o == SubSeq(conn[s].outq, 1, n)
    <2>3. o \in Seq(Command)
      BY <2>2, KeptReplies
    <2>4. conn' = [conn EXCEPT ![s] = [open |-> TRUE, up |-> FALSE, inq |-> << >>, outq |-> o]]
      BY <1>0, <2>1
    <2> HIDE DEF o
    <2>5. conn' \in [Slots -> Conn]
      BY <1>0, <2>3, <2>4 DEF Conn
    <2>6. orphans' \subseteq Seq(Command) /\ << >> \notin orphans'
      BY <1>5, <2>2 DEF ServerCloses, Orphaned, TypeOK
    <2>7. breaks' \in Nat
      BY <1>0, <1>5 DEF ServerCloses
    <2> QED BY <1>5, <2>5, <2>6, <2>7 DEF ServerCloses, callVars, TypeOK, Conn
  <1>6. CASE UNCHANGED vars
    BY <1>6 DEF vars, callVars, TypeOK
  <1> QED BY <1>1, <1>2, <1>3, <1>4, <1>5, <1>6 DEF Next

-----------------------------------------------------------------------------
\* A step of the client leaves the slots accounted for: only Take and the end of
\* a call move one.
LEMMA SlotsNext ==
  ASSUME TInv, SlotsAccounted, [Next]_vars
  PROVE  SlotsAccounted'
  <1>t. /\ free \subseteq Slots /\ slot \in [Calls -> Slots]
        /\ pc \in [Calls -> {"idle", "waiting", "attempt", "reading", "ok", "failed"}]
    BY DEF TInv, TypeOK
  <1> DEFINE Held == {slot[d] : d \in {e \in Calls : Holds(e)}}
  <1>h. Held' = {slot'[d] : d \in {e \in Calls : Holds(e)'}}
    OBVIOUS
  \* The slot goes back.
  <1>r. ASSUME NEW c \in Calls, Holds(c), free' = free \cup {slot[c]}, UNCHANGED <<slot, closed>>,
               NEW v \in {"ok", "failed"}, pc' = [pc EXCEPT ![c] = v]
        PROVE  SlotsAccounted'
    <2>1. \A d \in Calls : Holds(d)' <=> Holds(d) /\ d # c
      BY <1>t, <1>r DEF Holds
    <2>2. Slots = free \cup Held => Slots = free' \cup Held'
      BY <1>t, <1>r, <2>1
    <2> QED BY <1>t, <1>r, <2>1, <2>2 DEF SlotsAccounted
  \* Nothing moves.
  <1>k. ASSUME UNCHANGED <<slot, closed, free>>, \A d \in Calls : Holds(d)' <=> Holds(d)
        PROVE  SlotsAccounted'
    <2>1. Held' = Held
      BY <1>k
    <2> QED BY <1>k, <2>1 DEF SlotsAccounted
  <1>1. ASSUME NEW c \in Calls, ClientStep(c) PROVE SlotsAccounted'
    <2>1. CASE Acquire(c) \/ AcquireLate(c)
      <3>1. PICK s \in free : free' = free \ {s} /\ slot' = [slot EXCEPT ![c] = s]
        BY <2>1 DEF Acquire, AcquireLate, Take
      <3>2. pc' = [pc EXCEPT ![c] = "attempt"] /\ ~Holds(c) /\ closed' = closed
        BY <2>1 DEF Acquire, AcquireLate, Take, Holds
      <3>3. \A d \in Calls : Holds(d)' <=> Holds(d) \/ d = c
        BY <1>t, <3>2 DEF Holds
      <3>4. \A d \in Calls : slot'[d] = IF d = c THEN s ELSE slot[d]
        BY <1>t, <3>1
      <3>5. Held' = Held \cup {s}
        BY <3>2, <3>3, <3>4
      <3> QED BY <1>t, <3>1, <3>2, <3>3, <3>4, <3>5 DEF SlotsAccounted
    <2>2. CASE Wait(c) \/ AcquireTimeout(c)
      BY <1>t, <1>k, <2>2 DEF Wait, AcquireTimeout, Holds
    <2>3. CASE Dial(c) \/ Write(c)
      BY <1>t, <1>k, <2>3 DEF Dial, Write, callVars, Holds
    <2>4. CASE Read(c)
      <3>1. CASE Len(got[c]) + 1 = NumCmds[c]
        BY <1>r, <2>4, <3>1 DEF Read, Holds
      <3>2. CASE Len(got[c]) + 1 # NumCmds[c]
        BY <1>k, <2>4, <3>2 DEF Read, Holds
      <3> QED BY <3>1, <3>2
    <2>5. CASE DialFails(c) \/ WriteFails(c) \/ ReadTimeout(c) \/ ReadFails(c)
      <3>1. PICK q \in Seq(Command), readAny \in BOOLEAN :
              Failure(c, q, readAny) /\ pc[c] \in {"attempt", "reading"}
        BY <2>5, Failures
      <3>2. Failed(c, q) /\ Holds(c)
        BY <3>1 DEF Failure, Holds
      <3>3. CASE pc' = [pc EXCEPT ![c] = "attempt"] /\ free' = free
        BY <1>t, <1>k, <3>2, <3>3 DEF Failed, Holds
      <3>4. CASE pc' = [pc EXCEPT ![c] = "failed"] /\ free' = free \cup {slot[c]}
        BY <1>r, <3>2, <3>4 DEF Failed
      <3> QED BY <3>2, <3>3, <3>4 DEF Failed
    <2> QED BY <1>1, <2>1, <2>2, <2>3, <2>4, <2>5 DEF ClientStep
  <1>2. CASE CloseClient
    BY <1>2 DEF CloseClient, callVars, SlotsAccounted, Holds
  <1>3. ASSUME NEW s \in Slots, Serve(s) \/ ServerCloses(s) PROVE SlotsAccounted'
    BY <1>k, <1>3 DEF Serve, ServerCloses, callVars, Holds
  <1>4. ASSUME NEW q \in orphans, ServeOrphan(q) PROVE SlotsAccounted'
    BY <1>k, <1>4 DEF ServeOrphan, callVars, Holds
  <1>5. CASE UNCHANGED vars
    BY <1>k, <1>5 DEF vars, callVars, Holds
  <1> QED BY <1>1, <1>2, <1>3, <1>4, <1>5 DEF Next

-----------------------------------------------------------------------------
(* The commands of an attempt on their way.                                *)

\* Write puts them in the queue of a quiet connection, or loses them.
LEMMA WriteInTurn ==
  ASSUME NEW c \in Calls, NEW t \in 1..2, NEW cn \in Conn, cn.inq = << >>, cn.outq = << >>
  PROVE  /\ cn.up => InTurn(c, t, << >>, [cn EXCEPT !.inq = @ \o Commands(c, t)])
         /\ ~cn.up => InTurn(c, t, << >>, cn)
  <1> DEFINE cs == Commands(c, t)
  <1>1. /\ NumCmds[c] \in Nat \ {0}
        /\ cs \in Seq(Command) /\ Len(cs) = NumCmds[c]
        /\ \A k \in 1..NumCmds[c] : cs[k] = <<c, t, k>>
    BY CommandsType
  <1>2. cn.inq \o cs = cs
    BY <1>1
  <1> HIDE DEF cs
  <1> DEFINE d == [cn EXCEPT !.inq = cs]
  <1>3. d.inq = cs /\ d.outq = << >> /\ d.up = cn.up
    BY DEF Conn
  <1>4. Len(<< >>) = 0
    OBVIOUS
  <1> HIDE DEF d
  <1>5. cn.up => InTurn(c, t, << >>, d)
    BY <1>1, <1>3, <1>4 DEF InTurn
  <1>6. ~cn.up => InTurn(c, t, << >>, cn)
    BY <1>1, <1>4 DEF InTurn
  <1> QED BY <1>2, <1>5, <1>6 DEF d, cs

\* Read moves the first reply to got; the last one completes the answer and
\* leaves the connection quiet.
LEMMA ReadInTurn ==
  ASSUME NEW c \in Calls, NEW t \in 1..2, NEW g \in Seq(Command), NEW cn \in Conn,
         InTurn(c, t, g, cn), cn.outq # << >>
  PROVE  /\ Len(g) + 1 # NumCmds[c]
              => InTurn(c, t, Append(g, Head(cn.outq)), [cn EXCEPT !.outq = Tail(@)])
         /\ Len(g) + 1 = NumCmds[c]
              => /\ Append(g, Head(cn.outq)) = Commands(c, t)
                 /\ Tail(cn.outq) = << >> /\ cn.inq = << >>
  <1> DEFINE o == cn.outq
             h == Append(g, Head(o))
             d == [cn EXCEPT !.outq = Tail(o)]
  <1>0. NumCmds[c] \in Nat /\ Len(g) \in Nat /\ cn.inq \in Seq(Command) /\ Len(cn.inq) \in Nat
    BY CommandsType DEF Conn
  <1>1. o \in Seq(Command) /\ o # << >> /\ Len(o) \in Nat \ {0}
    BY EmptySeq DEF Conn
  <1>2. /\ Head(o) = o[1] /\ Tail(o) \in Seq(Command) /\ Len(Tail(o)) = Len(o) - 1
        /\ \A k \in 1..(Len(o) - 1) : Tail(o)[k] = o[k + 1]
    BY <1>1
  <1>3. d.outq = Tail(o) /\ d.inq = cn.inq /\ d.up = cn.up
    BY DEF Conn
  <1>4. o[1] = <<c, t, Len(g) + 1>> /\ o[1] \in Command
    BY <1>1, ElementOfSeq DEF InTurn
  <1>5. /\ h \in Seq(Command) /\ Len(h) = Len(g) + 1
        /\ \A k \in 1..Len(g) : h[k] = g[k]
        /\ h[Len(g) + 1] = o[1]
    BY <1>2, <1>4
  <1>6. \A k \in 1..Len(h) : h[k] = <<c, t, k>>
    BY <1>0, <1>4, <1>5 DEF InTurn
  <1>7. \A k \in 1..Len(Tail(o)) : Tail(o)[k] = <<c, t, Len(h) + k>>
    <2> TAKE k \in 1..Len(Tail(o))
    <2>1. k + 1 \in 1..Len(o) /\ Tail(o)[k] = o[k + 1]
      BY <1>1, <1>2
    <2>2. o[k + 1] = <<c, t, Len(g) + (k + 1)>>
      BY <2>1 DEF InTurn
    <2>3. Len(g) + (k + 1) = Len(h) + k
      BY <1>0, <1>1, <1>2, <1>5
    <2> QED BY <2>1, <2>2, <2>3
  <1> DEFINE lg == Len(g)
             lo == Len(o)
             li == Len(cn.inq)
             lh == Len(h)
             lt == Len(Tail(o))
             n == NumCmds[c]
  <1>9. /\ Len(g) < NumCmds[c] /\ Len(g) + Len(o) + Len(cn.inq) <= NumCmds[c]
        /\ cn.up => Len(g) + Len(o) + Len(cn.inq) = NumCmds[c]
        /\ ~cn.up => cn.inq = << >>
    BY DEF InTurn
  <1>m. /\ lg \in Nat /\ lo \in Nat \ {0} /\ li \in Nat /\ n \in Nat
        /\ lh = lg + 1 /\ lt = lo - 1
        /\ lg < n /\ lg + lo + li <= n /\ (cn.up => lg + lo + li = n)
    BY <1>0, <1>1, <1>2, <1>5, <1>9
  <1> HIDE DEF h, d, o, lg, lo, li, lh, lt, n
  <1>n. /\ lh + lt = lg + lo /\ lh + lt + li <= n /\ (cn.up => lh + lt + li = n)
        /\ lg + 1 # n => lh < n
        /\ lg + 1 = n => lt = 0 /\ li = 0 /\ lh = n
    BY <1>m
  <1>8. \A k \in 1..Len(cn.inq) : cn.inq[k] = <<c, t, Len(h) + Len(Tail(o)) + k>>
    <2>1. \A k \in 1..Len(cn.inq) : cn.inq[k] = <<c, t, lg + lo + k>>
      BY DEF InTurn, lg, lo, o
    <2> QED BY <2>1, <1>n DEF lh, lt
  <1>10. Len(g) + 1 # NumCmds[c] => InTurn(c, t, h, d)
    <2>1. Len(g) + 1 # NumCmds[c] => Len(h) < NumCmds[c]
      BY <1>n DEF lg, lh, n
    <2>2. /\ Len(h) + Len(d.outq) + Len(d.inq) <= NumCmds[c]
          /\ d.up => Len(h) + Len(d.outq) + Len(d.inq) = NumCmds[c]
      BY <1>n, <1>3 DEF lh, lt, li, n
    <2> QED BY <1>3, <1>6, <1>7, <1>8, <1>9, <2>1, <2>2 DEF InTurn
  <1>11. ASSUME Len(g) + 1 = NumCmds[c]
         PROVE  h = Commands(c, t) /\ Tail(o) = << >> /\ cn.inq = << >>
    <2>1. Len(Tail(o)) = 0 /\ Len(cn.inq) = 0 /\ Len(h) = NumCmds[c]
      BY <1>11, <1>n DEF lg, n, lt, li, lh
    <2>2. Tail(o) = << >> /\ cn.inq = << >>
      BY <1>0, <1>2, <2>1, EmptySeq
    <2>3. \A k \in 1..Len(h) : h[k] = Commands(c, t)[k]
      BY <1>6, <2>1, CommandsType
    <2>4. Commands(c, t) \in Seq(Command) /\ Len(Commands(c, t)) = Len(h)
      BY <2>1, CommandsType
    <2> QED BY <1>5, <2>2, <2>3, <2>4, SeqEqual
  <1> QED BY <1>10, <1>11 DEF h, d, o

\* Serve moves the first command to the replies.
LEMMA ServeInTurn ==
  ASSUME NEW c \in Calls, NEW t \in 1..2, NEW g \in Seq(Command), NEW cn \in Conn,
         InTurn(c, t, g, cn), cn.inq # << >>
  PROVE  InTurn(c, t, g, [cn EXCEPT !.inq = Tail(@), !.outq = Append(@, Head(cn.inq))])
  <1> DEFINE i == cn.inq
             o == cn.outq
             p == Append(o, Head(i))
             d == [cn EXCEPT !.inq = Tail(i), !.outq = p]
  <1>0. NumCmds[c] \in Nat /\ Len(g) \in Nat /\ o \in Seq(Command) /\ Len(o) \in Nat
    BY CommandsType DEF Conn
  <1>1. i \in Seq(Command) /\ i # << >> /\ Len(i) \in Nat \ {0}
    BY EmptySeq DEF Conn
  <1>2. /\ Head(i) = i[1] /\ Tail(i) \in Seq(Command) /\ Len(Tail(i)) = Len(i) - 1
        /\ \A k \in 1..(Len(i) - 1) : Tail(i)[k] = i[k + 1]
    BY <1>1
  <1>3. d.outq = p /\ d.inq = Tail(i) /\ d.up = cn.up
    BY DEF Conn
  <1>4. i[1] = <<c, t, Len(g) + Len(o) + 1>> /\ i[1] \in Command
    BY <1>1, ElementOfSeq DEF InTurn
  <1>5. /\ p \in Seq(Command) /\ Len(p) = Len(o) + 1
        /\ \A k \in 1..Len(o) : p[k] = o[k]
        /\ p[Len(o) + 1] = i[1]
    BY <1>0, <1>2, <1>4
  <1>6. \A k \in 1..Len(p) : p[k] = <<c, t, Len(g) + k>>
    <2> TAKE k \in 1..Len(p)
    <2>1. CASE k \in 1..Len(o)
      BY <1>5, <2>1 DEF InTurn
    <2>2. CASE k = Len(o) + 1
      <3>1. Len(g) + Len(o) + 1 = Len(g) + k
        BY <1>0, <2>2
      <3> QED BY <1>4, <1>5, <2>2, <3>1
    <2> QED BY <1>0, <1>5, <2>1, <2>2
  <1>7. \A k \in 1..Len(Tail(i)) : Tail(i)[k] = <<c, t, Len(g) + Len(p) + k>>
    <2> TAKE k \in 1..Len(Tail(i))
    <2>1. k + 1 \in 1..Len(i) /\ Tail(i)[k] = i[k + 1]
      BY <1>1, <1>2
    <2>2. i[k + 1] = <<c, t, Len(g) + Len(o) + (k + 1)>>
      BY <2>1 DEF InTurn
    <2>3. Len(g) + Len(o) + (k + 1) = Len(g) + Len(p) + k
      <3>1. Len(p) = Len(o) + 1 /\ Len(o) \in Nat /\ Len(g) \in Nat /\ k \in Int
        BY <1>0, <1>5
      <3> HIDE DEF p, o
      <3> QED BY <3>1
    <2> QED BY <2>1, <2>2, <2>3
  <1>8. /\ Len(g) < NumCmds[c] /\ Len(g) + Len(o) + Len(i) <= NumCmds[c]
        /\ cn.up => Len(g) + Len(o) + Len(i) = NumCmds[c]
        /\ cn.up
    BY DEF InTurn
  <1>9. \A k \in 1..Len(g) : g[k] = <<c, t, k>>
    BY DEF InTurn
  <1> HIDE DEF d, p, i, o
  <1>10. InTurn(c, t, g, d)
    BY <1>0, <1>1, <1>2, <1>3, <1>5, <1>6, <1>7, <1>8, <1>9 DEF InTurn
  <1> QED BY <1>10 DEF d, p, i, o

\* What is left when the connection breaks is still in turn.
LEMMA BreakInTurn ==
  ASSUME NEW c \in Calls, NEW t \in 1..2, NEW g \in Seq(Command), NEW cn \in Conn,
         InTurn(c, t, g, cn), NEW n \in 0..Len(cn.outq)
  PROVE  InTurn(c, t, g, [open |-> TRUE, up |-> FALSE, inq |-> << >>, outq |-> SubSeq(cn.outq, 1, n)])
  <1> DEFINE o == SubSeq(cn.outq, 1, n)
             d == [open |-> TRUE, up |-> FALSE, inq |-> << >>, outq |-> o]
  <1>0. /\ NumCmds[c] \in Nat /\ Len(g) \in Nat
        /\ cn.outq \in Seq(Command) /\ Len(cn.outq) \in Nat /\ Len(cn.inq) \in Nat
    BY CommandsType DEF Conn
  <1>1. Len(o) = n /\ \A k \in 1..n : o[k] = cn.outq[k]
    BY <1>0, KeptReplies
  <1>2. \A k \in 1..n : o[k] = <<c, t, Len(g) + k>>
    BY <1>0, <1>1 DEF InTurn
  <1>3. d.outq = o /\ d.inq = << >> /\ d.up = FALSE /\ Len(<< >>) = 0
    OBVIOUS
  <1>4. Len(g) < NumCmds[c] /\ Len(g) + n + 0 <= NumCmds[c]
    <2>1. Len(g) < NumCmds[c] /\ Len(g) + Len(cn.outq) + Len(cn.inq) <= NumCmds[c]
      BY DEF InTurn
    <2> DEFINE lg == Len(g)
               lo == Len(cn.outq)
               li == Len(cn.inq)
    <2>2. lg \in Nat /\ lo \in Nat /\ li \in Nat /\ n \in Nat /\ n <= lo
      BY <1>0
    <2> HIDE DEF lg, lo, li
    <2>3. lg + lo + li <= NumCmds[c] => lg + n + 0 <= NumCmds[c]
      BY <1>0, <2>2
    <2> QED BY <2>1, <2>3 DEF lg, lo, li
  <1>5. \A k \in 1..Len(g) : g[k] = <<c, t, k>>
    BY DEF InTurn
  <1> HIDE DEF d, o
  <1>6. InTurn(c, t, g, d)
    BY <1>0, <1>1, <1>2, <1>3, <1>4, <1>5 DEF InTurn
  <1> QED BY <1>6 DEF d, o

-----------------------------------------------------------------------------
\* A call the step does not move, whose connection it leaves alone.
LEMMA OtherCall ==
  ASSUME NEW d \in Calls, InOrder(d),
         pc'[d] = pc[d], got'[d] = got[d], try'[d] = try[d],
         pc[d] = "reading" => slot'[d] = slot[d] /\ conn'[slot[d]] = conn[slot[d]]
  PROVE  InOrder(d)'
  BY DEF InOrder, Pending, Commands

\* A connection the step leaves alone, with the readers it had.
LEMMA OtherConn ==
  ASSUME NEW s \in Slots, Quiet(s), conn'[s] = conn[s],
         \A c \in Calls : pc[c] = "reading" /\ slot[c] = s => pc'[c] = "reading" /\ slot'[c] = s
  PROVE  Quiet(s)'
  BY DEF Quiet

\* Replies never mix: a step of a call keeps its own in order and the other
\* connections as they are.
LEMMA QueuesClient ==
  ASSUME TInv, SlotsAccounted, QuietConns, CallsInOrder, NEW c \in Calls, ClientStep(c)
  PROVE  QuietConns' /\ CallsInOrder'
  <1>t. /\ slot \in [Calls -> Slots] /\ slot[c] \in Slots
        /\ conn \in [Slots -> Conn] /\ conn[slot[c]] \in Conn
        /\ pc \in [Calls -> {"idle", "waiting", "attempt", "reading", "ok", "failed"}]
        /\ try \in [Calls -> 1..2] /\ try[c] \in 1..2
        /\ got \in [Calls -> Seq(Command)] /\ got[c] \in Seq(Command)
    BY DEF TInv, TypeOK, Conn
  <1>q. (\A s \in Slots : Quiet(s)) /\ (\A d \in Calls : InOrder(d))
    BY DEF QuietConns, CallsInOrder
  <1>o. \A d \in Calls : Holds(c) /\ pc[d] = "reading" /\ slot[d] = slot[c] => d = c
    BY DEF SlotsAccounted, Holds
  <1>1. CASE Acquire(c) \/ AcquireLate(c)
    <2>1. PICK s \in free : slot' = [slot EXCEPT ![c] = s]
      BY <1>1 DEF Acquire, AcquireLate, Take
    <2>2. /\ pc[c] \in {"idle", "waiting"} /\ pc' = [pc EXCEPT ![c] = "attempt"]
          /\ UNCHANGED <<conn, try, got>>
      BY <1>1 DEF Acquire, AcquireLate, Take
    <2>3. \A u \in Slots : Quiet(u)'
      BY <1>t, <1>q, <2>1, <2>2, OtherConn
    <2>4. \A d \in Calls \ {c} : InOrder(d)'
      BY <1>t, <1>q, <2>1, <2>2, OtherCall
    <2>5. InOrder(c)'
      BY <1>t, <1>q, <2>2 DEF InOrder
    <2> QED BY <2>3, <2>4, <2>5 DEF QuietConns, CallsInOrder
  <1>2. CASE Wait(c) \/ AcquireTimeout(c)
    <2>1. /\ pc[c] \in {"idle", "waiting"} /\ UNCHANGED <<conn, slot, try, got>>
          /\ \E v \in {"waiting", "failed"} : pc' = [pc EXCEPT ![c] = v]
      BY <1>2 DEF Wait, AcquireTimeout
    <2>2. \A u \in Slots : Quiet(u)'
      BY <1>t, <1>q, <2>1, OtherConn
    <2>3. \A d \in Calls \ {c} : InOrder(d)'
      BY <1>t, <1>q, <2>1, OtherCall
    <2>4. InOrder(c)'
      BY <1>t, <1>q, <2>1 DEF InOrder
    <2> QED BY <2>2, <2>3, <2>4 DEF QuietConns, CallsInOrder
  <1>3. CASE Dial(c)
    <2>1. pc[c] = "attempt" /\ conn' = [conn EXCEPT ![slot[c]] = Fresh] /\ UNCHANGED <<pc, slot, try, got>>
      BY <1>3 DEF Dial, callVars
    <2>2. \A u \in Slots \ {slot[c]} : Quiet(u)'
      BY <1>t, <1>q, <2>1, OtherConn
    <2>3. Quiet(slot[c])'
      BY <1>t, <2>1 DEF Quiet, Fresh
    <2>4. \A d \in Calls \ {c} : InOrder(d)'
      BY <1>t, <1>q, <1>o, <2>1, OtherCall DEF Holds
    <2>5. InOrder(c)'
      BY <1>t, <1>q, <2>1 DEF InOrder
    <2> QED BY <2>1, <2>2, <2>3, <2>4, <2>5 DEF QuietConns, CallsInOrder
  <1>4. CASE Write(c)
    <2> DEFINE cn == conn[slot[c]]
               dn == [cn EXCEPT !.inq = @ \o Commands(c, try[c])]
    <2>1. pc[c] = "attempt" /\ pc' = [pc EXCEPT ![c] = "reading"] /\ UNCHANGED <<slot, try, got>>
      BY <1>4 DEF Write
    <2>2. conn'[slot[c]] = IF cn.up THEN dn ELSE cn
      BY <1>t, <1>4 DEF Write
    <2>3. \A u \in Slots \ {slot[c]} : conn'[u] = conn[u]
      BY <1>t, <1>4 DEF Write
    <2>4. cn.inq = << >> /\ cn.outq = << >> /\ got[c] = << >>
      BY <1>t, <1>q, <1>o, <2>1 DEF Quiet, InOrder, Holds
    <2>5. InTurn(c, try[c], << >>, conn'[slot[c]])
      BY <1>t, <2>2, <2>4, WriteInTurn
    <2>6. InOrder(c)'
      BY <1>t, <2>1, <2>4, <2>5 DEF InOrder, Pending
    <2>7. \A d \in Calls \ {c} : InOrder(d)'
      BY <1>t, <1>q, <1>o, <2>1, <2>3, OtherCall DEF Holds
    <2>8. \A u \in Slots \ {slot[c]} : Quiet(u)'
      BY <1>t, <1>q, <2>1, <2>3, OtherConn
    <2>9. Quiet(slot[c])'
      BY <1>t, <2>1 DEF Quiet
    <2> QED BY <1>t, <2>1, <2>6, <2>7, <2>8, <2>9 DEF QuietConns, CallsInOrder
  <1>5. CASE Read(c)
    <2> DEFINE cn == conn[slot[c]]
               dn == [cn EXCEPT !.outq = Tail(@)]
    <2>1. /\ pc[c] = "reading" /\ cn.outq # << >> /\ UNCHANGED <<slot, try>>
          /\ got' = [got EXCEPT ![c] = Append(@, Head(cn.outq))]
          /\ IF Len(got[c]) + 1 = NumCmds[c] THEN pc' = [pc EXCEPT ![c] = "ok"] ELSE UNCHANGED pc
      BY <1>5 DEF Read
    <2>2. conn'[slot[c]] = dn
      BY <1>t, <1>5 DEF Read
    <2>3. \A u \in Slots \ {slot[c]} : conn'[u] = conn[u]
      BY <1>t, <1>5 DEF Read
    <2>4. InTurn(c, try[c], got[c], cn)
      BY <1>q, <2>1 DEF InOrder, Pending
    <2>5. /\ Len(got[c]) + 1 # NumCmds[c] => InTurn(c, try[c], Append(got[c], Head(cn.outq)), dn)
          /\ Len(got[c]) + 1 = NumCmds[c]
               => /\ Append(got[c], Head(cn.outq)) = Commands(c, try[c])
                  /\ Tail(cn.outq) = << >> /\ cn.inq = << >>
      <3>1. cn \in Conn /\ try[c] \in 1..2 /\ got[c] \in Seq(Command) /\ cn.outq # << >>
        BY <1>t, <2>1
      <3> HIDE DEF cn
      <3> QED BY <2>4, <3>1, ReadInTurn
    <2>6. got'[c] = Append(got[c], Head(cn.outq)) /\ slot'[c] = slot[c] /\ try'[c] = try[c]
      BY <1>t, <2>1
    <2>7. \A d \in Calls \ {c} : pc'[d] = pc[d] /\ got'[d] = got[d]
      BY <1>t, <2>1
    <2>8. \A d \in Calls \ {c} : InOrder(d)'
      BY <1>t, <1>q, <1>o, <2>1, <2>3, <2>7, OtherCall DEF Holds
    <2>9. \A u \in Slots \ {slot[c]} : Quiet(u)'
      BY <1>t, <1>q, <2>1, <2>3, <2>7, OtherConn
    <2>10. CASE Len(got[c]) + 1 # NumCmds[c]
      <3>1. pc' = pc
        BY <2>1, <2>10
      <3>2. InOrder(c)'
        BY <2>1, <2>2, <2>5, <2>6, <2>10, <3>1 DEF InOrder, Pending
      <3>3. Quiet(slot[c])'
        BY <2>1, <3>1 DEF Quiet
      <3> QED BY <2>1, <2>8, <2>9, <3>2, <3>3 DEF QuietConns, CallsInOrder
    <2>11. CASE Len(got[c]) + 1 = NumCmds[c]
      <3>1. pc'[c] = "ok"
        BY <1>t, <2>1, <2>11
      <3>2. InOrder(c)'
        BY <2>5, <2>6, <2>11, <3>1 DEF InOrder, Commands
      <3>3. dn.outq = << >> /\ dn.inq = << >>
        BY <1>t, <2>5, <2>11 DEF Conn
      <3>4. Quiet(slot[c])'
        BY <2>1, <2>2, <3>3 DEF Quiet
      <3> QED BY <2>1, <2>8, <2>9, <3>2, <3>4 DEF QuietConns, CallsInOrder
    <2> QED BY <2>10, <2>11
  <1>6. CASE DialFails(c) \/ WriteFails(c) \/ ReadTimeout(c) \/ ReadFails(c)
    <2>1. PICK q \in Seq(Command), readAny \in BOOLEAN :
            Failure(c, q, readAny) /\ pc[c] \in {"attempt", "reading"}
      BY <1>6, Failures
    <2>2. /\ conn' = [conn EXCEPT ![slot[c]] = NoConn] /\ got' = [got EXCEPT ![c] = << >>]
          /\ \E v \in {"attempt", "failed"} : pc' = [pc EXCEPT ![c] = v]
          /\ \A d \in Calls \ {c} : try'[d] = try[d]
          /\ slot' = slot
      BY <1>t, <2>1 DEF Failure, Failed
    <2>3. \A u \in Slots \ {slot[c]} : Quiet(u)'
      BY <1>t, <1>q, <2>2, OtherConn
    <2>4. Quiet(slot[c])'
      BY <1>t, <2>2 DEF Quiet, NoConn
    <2>5. \A d \in Calls \ {c} : InOrder(d)'
      BY <1>t, <1>q, <1>o, <2>1, <2>2, OtherCall DEF Holds
    <2>6. InOrder(c)'
      BY <1>t, <2>2 DEF InOrder
    <2> QED BY <2>2, <2>3, <2>4, <2>5, <2>6 DEF QuietConns, CallsInOrder
  <1> QED BY <1>1, <1>2, <1>3, <1>4, <1>5, <1>6 DEF ClientStep

\* Nor do the server's steps, or Close, mix them.
LEMMA QueuesNext ==
  ASSUME TInv, SlotsAccounted, QuietConns, CallsInOrder, [Next]_vars
  PROVE  QuietConns' /\ CallsInOrder'
  <1>t. /\ slot \in [Calls -> Slots] /\ conn \in [Slots -> Conn]
        /\ try \in [Calls -> 1..2] /\ got \in [Calls -> Seq(Command)]
    BY DEF TInv, TypeOK, Conn
  <1>q. (\A s \in Slots : Quiet(s)) /\ (\A d \in Calls : InOrder(d))
    BY DEF QuietConns, CallsInOrder
  <1>1. ASSUME NEW c \in Calls, ClientStep(c) PROVE QuietConns' /\ CallsInOrder'
    BY <1>1, QueuesClient
  <1>2. CASE CloseClient
    <2>1. /\ UNCHANGED <<pc, slot, try, got>>
          /\ \A s \in Slots : conn'[s] = IF s \in free THEN NoConn ELSE conn[s]
      BY <1>2 DEF CloseClient, callVars
    <2>2. \A d \in Calls : pc[d] = "reading" => slot[d] \notin free
      BY DEF SlotsAccounted, Holds
    <2>3. \A d \in Calls : InOrder(d)'
      BY <1>t, <1>q, <2>1, <2>2, OtherCall
    <2>4. \A s \in Slots \ free : Quiet(s)'
      BY <1>q, <2>1, OtherConn
    <2>5. \A s \in Slots \cap free : Quiet(s)'
      BY <2>1 DEF Quiet, NoConn
    <2> QED BY <2>3, <2>4, <2>5 DEF QuietConns, CallsInOrder
  <1>3. ASSUME NEW s \in Slots, Serve(s) PROVE QuietConns' /\ CallsInOrder'
    <2> DEFINE cn == conn[s]
               dn == [cn EXCEPT !.inq = Tail(@), !.outq = Append(@, Head(cn.inq))]
    <2>1. UNCHANGED <<pc, slot, try, got>> /\ cn.inq # << >> /\ cn \in Conn
      BY <1>t, <1>3 DEF Serve, callVars
    <2>2. conn'[s] = dn
      BY <1>t, <1>3, <2>1 DEF Serve, Conn
    <2>3. \A u \in Slots \ {s} : conn'[u] = conn[u]
      BY <1>t, <1>3 DEF Serve
    <2>4. PICK c \in Calls : pc[c] = "reading" /\ slot[c] = s
      BY <1>q, <2>1 DEF Quiet
    <2>5. InTurn(c, try[c], got[c], cn) /\ try[c] \in 1..2 /\ got[c] \in Seq(Command)
      BY <1>t, <1>q, <2>4 DEF InOrder, Pending
    <2>6. InTurn(c, try[c], got[c], dn)
      <3> HIDE DEF cn
      <3> QED BY <2>1, <2>5, ServeInTurn
    <2>7. InOrder(c)'
      BY <2>1, <2>2, <2>4, <2>6 DEF InOrder, Pending
    <2>8. \A d \in Calls \ {c} : pc[d] = "reading" => slot[d] # s
      BY <2>4 DEF SlotsAccounted, Holds
    <2>9. \A d \in Calls \ {c} : InOrder(d)'
      BY <1>t, <1>q, <2>1, <2>3, <2>8, OtherCall
    <2>10. \A u \in Slots \ {s} : Quiet(u)'
      BY <1>q, <2>1, <2>3, OtherConn
    <2>11. Quiet(s)'
      BY <2>1, <2>4 DEF Quiet
    <2> QED BY <2>7, <2>9, <2>10, <2>11 DEF QuietConns, CallsInOrder
  <1>4. ASSUME NEW s \in Slots, ServerCloses(s) PROVE QuietConns' /\ CallsInOrder'
    <2> DEFINE cn == conn[s]
    <2>1. UNCHANGED <<pc, slot, try, got>> /\ cn \in Conn
      BY <1>t, <1>4 DEF ServerCloses, callVars
    <2>2. PICK n \in 0..Len(cn.outq) :
            conn' = [conn EXCEPT ![s] = [open |-> TRUE, up |-> FALSE, inq |-> << >>,
                                         outq |-> SubSeq(cn.outq, 1, n)]]
      BY <1>t, <1>4 DEF ServerCloses
    <2> DEFINE dn == [open |-> TRUE, up |-> FALSE, inq |-> << >>, outq |-> SubSeq(cn.outq, 1, n)]
    <2>3. conn'[s] = dn /\ \A u \in Slots \ {s} : conn'[u] = conn[u]
      BY <1>t, <2>2
    <2>4. \A d \in Calls : pc[d] = "reading" /\ slot[d] = s => InOrder(d)'
      <3> TAKE d \in Calls
      <3> HAVE pc[d] = "reading" /\ slot[d] = s
      <3>1. InTurn(d, try[d], got[d], cn) /\ try[d] \in 1..2 /\ got[d] \in Seq(Command)
        BY <1>t, <1>q DEF InOrder, Pending
      <3>2. InTurn(d, try[d], got[d], dn)
        <4> HIDE DEF cn
        <4> QED BY <2>1, <3>1, BreakInTurn
      <3> HIDE DEF dn
      <3> QED BY <2>1, <2>3, <3>2 DEF InOrder, Pending
    <2>5. \A d \in Calls : ~(pc[d] = "reading" /\ slot[d] = s) => InOrder(d)'
      BY <1>t, <1>q, <2>1, <2>3, OtherCall
    <2>6. \A u \in Slots \ {s} : Quiet(u)'
      BY <1>q, <2>1, <2>3, OtherConn
    <2>7. Quiet(s)'
      <3>1. cn.outq \in Seq(Command)
        BY <2>1 DEF Conn
      <3>2. cn.outq = << >> => SubSeq(cn.outq, 1, n) = << >>
        <4>1. Len(<< >>) = 0
          OBVIOUS
        <4>2. SubSeq(cn.outq, 1, n) \in Seq(Command) /\ Len(SubSeq(cn.outq, 1, n)) = n
          BY <3>1, KeptReplies
        <4> QED BY <4>1, <4>2, EmptySeq
      <3> QED BY <1>q, <2>1, <2>3, <3>2 DEF Quiet
    <2> QED BY <2>4, <2>5, <2>6, <2>7 DEF QuietConns, CallsInOrder
  <1>5. ASSUME NEW q \in orphans, ServeOrphan(q) PROVE QuietConns' /\ CallsInOrder'
    <2>1. UNCHANGED <<conn, pc, slot, try, got>>
      BY <1>5 DEF ServeOrphan, callVars
    <2> QED BY <1>q, <2>1, OtherConn, OtherCall DEF QuietConns, CallsInOrder
  <1>6. CASE UNCHANGED vars
    <2>1. UNCHANGED <<conn, pc, slot, try, got>>
      BY <1>6 DEF vars, callVars
    <2> QED BY <1>q, <2>1, OtherConn, OtherCall DEF QuietConns, CallsInOrder
  <1> QED BY <1>1, <1>2, <1>3, <1>4, <1>5, <1>6 DEF Next

-----------------------------------------------------------------------------
(* Second attempts.                                                        *)

\* What a connection has to run belongs to the attempt that reads from it.
LEMMA QueueOwner ==
  ASSUME TInv, QuietConns, CallsInOrder, NEW s \in Slots, NEW k \in 1..Len(conn[s].inq)
  PROVE  \E c \in Calls : /\ conn[s].inq[k][1] = c /\ conn[s].inq[k][2] = try[c]
                          /\ pc[c] = "reading" /\ slot[c] = s
  <1>1. Len(<< >>) = 0
    OBVIOUS
  <1>2. conn[s].inq # << >>
    BY <1>1
  <1>3. PICK c \in Calls : pc[c] = "reading" /\ slot[c] = s
    BY <1>2 DEF QuietConns, Quiet
  <1>4. conn[s].inq[k] = <<c, try[c], Len(got[c]) + Len(conn[s].outq) + k>>
    BY <1>3 DEF CallsInOrder, InOrder, Pending, InTurn
  <1> QED BY <1>3, <1>4

\* A step never takes a second attempt back.
LEMMA TriesGrow ==
  ASSUME TInv, [Next]_vars
  PROVE  \A c \in Calls : try[c] = 2 => try'[c] = 2
  <1>t. try \in [Calls -> 1..2]
    BY DEF TInv, TypeOK
  <1>1. ASSUME NEW d \in Calls, ClientStep(d) PROVE \A c \in Calls : try[c] = 2 => try'[c] = 2
    <2>1. CASE DialFails(d) \/ WriteFails(d) \/ ReadTimeout(d) \/ ReadFails(d)
      <3>1. PICK q \in Seq(Command), readAny \in BOOLEAN : Failure(d, q, readAny)
        BY <2>1, Failures
      <3> QED BY <1>t, <3>1 DEF Failure, Failed
    <2>2. CASE ~(DialFails(d) \/ WriteFails(d) \/ ReadTimeout(d) \/ ReadFails(d))
      BY <1>1, <2>2 DEF ClientStep, Acquire, AcquireLate, Take, Wait, AcquireTimeout, Dial, Write,
                        Read, callVars
    <2> QED BY <2>1, <2>2
  <1>2. CASE UNCHANGED try
    BY <1>2
  <1> QED BY <1>1, <1>2 DEF Next, CloseClient, Serve, ServerCloses, ServeOrphan, vars, callVars

\* Commands of a second attempt exist only once it was made.
LEMMA SecondNext ==
  ASSUME TInv, QuietConns, CallsInOrder, SlotsAccounted, SecondAttempts, [Next]_vars
  PROVE  SecondAttempts'
  <1>t. /\ try \in [Calls -> 1..2] /\ slot \in [Calls -> Slots] /\ conn \in [Slots -> Conn]
        /\ applied \subseteq Command /\ orphans \subseteq Seq(Command)
    BY DEF TInv, TypeOK, Conn
  <1> DEFINE Made(x) == x[2] = 2 => try'[x[1]] = 2
  <1>o. \A x \in applied : Made(x)
    <2> TAKE x \in applied
    <2>1. x[1] \in Calls
      BY <1>t DEF Command
    <2> QED BY <2>1, TriesGrow DEF SecondAttempts
  <1>p. \A q \in orphans : \A k \in 1..Len(q) : Made(q[k])
    <2> TAKE q \in orphans
    <2> TAKE k \in 1..Len(q)
    <2>1. q[k] \in Command
      BY <1>t, ElementOfSeq
    <2>2. q[k][1] \in Calls
      BY <2>1 DEF Command
    <2> QED BY <2>2, TriesGrow DEF SecondAttempts
  <1>i. \A s \in Slots : \A k \in 1..Len(conn[s].inq) : Made(conn[s].inq[k])
    BY QueueOwner, TriesGrow
  <1>g. ASSUME \A x \in applied' : Made(x), \A q \in orphans' : \A k \in 1..Len(q) : Made(q[k])
        PROVE  SecondAttempts'
    BY <1>g DEF SecondAttempts
  <1> HIDE DEF Made
  <1>1. ASSUME NEW c \in Calls, ClientStep(c) PROVE SecondAttempts'
    <2>1. CASE DialFails(c) \/ WriteFails(c) \/ ReadTimeout(c) \/ ReadFails(c)
      <3>1. PICK q \in Seq(Command), readAny \in BOOLEAN :
            /\ Failure(c, q, readAny)
            /\ pc[c] = "attempt" => /\ readAny = FALSE
                                    /\ q = << >> \/ \E n \in 0..(NumCmds[c] - 1) :
                                          q = conn[slot[c]].inq \o SubSeq(Commands(c, try[c]), 1, n)
            /\ pc[c] = "reading" => /\ got[c] # << >> => readAny
                                    /\ q \in {<< >>, conn[slot[c]].inq}
            /\ pc[c] \in {"attempt", "reading"}
        BY <2>1, Failures
      <3>0. Len(<< >>) = 0 /\ slot[c] \in Slots /\ try[c] \in 1..2
        BY <1>t
      <3>2. \A k \in 1..Len(q) : Made(q[k])
        <4>1. CASE q = << >>
          BY <3>0, <4>1
        <4>2. CASE pc[c] = "reading" /\ q = conn[slot[c]].inq
          BY <1>i, <3>0, <4>2
        <4>3. CASE pc[c] = "attempt" /\ q # << >>
          <5>1. PICK n \in 0..(NumCmds[c] - 1) :
                  q = conn[slot[c]].inq \o SubSeq(Commands(c, try[c]), 1, n)
            BY <3>1, <4>3
          <5>2. conn[slot[c]].inq = << >>
            BY <3>0, <4>3 DEF QuietConns, Quiet, SlotsAccounted, Holds
          <5>3. /\ SubSeq(Commands(c, try[c]), 1, n) \in Seq(Command)
                /\ Len(SubSeq(Commands(c, try[c]), 1, n)) = n
                /\ \A k \in 1..n : SubSeq(Commands(c, try[c]), 1, n)[k] = <<c, try[c], k>>
            BY <3>0, PrefixType
          <5>4. q = SubSeq(Commands(c, try[c]), 1, n)
            BY <5>1, <5>2, <5>3, ConcatEmptySeq
          <5>5. \A k \in 1..Len(q) : q[k] = <<c, try[c], k>>
            BY <5>3, <5>4
          <5>6. try[c] = 2 => try'[c] = 2
            BY TriesGrow
          <5> QED BY <5>5, <5>6 DEF Made
        <4> QED BY <3>1, <4>1, <4>2, <4>3
      <3>3. applied' = applied /\ orphans' \subseteq orphans \cup {q}
        BY <3>1 DEF Failure, Failed, Orphaned
      <3> QED BY <1>g, <1>o, <1>p, <3>2, <3>3
    <2>2. CASE ~(DialFails(c) \/ WriteFails(c) \/ ReadTimeout(c) \/ ReadFails(c))
      <3>1. UNCHANGED <<applied, orphans>>
        BY <1>1, <2>2 DEF ClientStep, Acquire, AcquireLate, Take, Wait, AcquireTimeout, Dial, Write, Read
      <3> QED BY <1>g, <1>o, <1>p, <3>1
    <2> QED BY <2>1, <2>2
  <1>2. ASSUME NEW s \in Slots, Serve(s) PROVE SecondAttempts'
    <2>0. conn[s] \in Conn
      BY <1>t
    <2> DEFINE i == conn[s].inq
    <2>1. i \in Seq(Command) /\ i # << >>
      BY <1>2, <2>0 DEF Serve, Conn
    <2>2. Head(i) = i[1] /\ 1 \in 1..Len(i)
      BY <2>1
    <2>3. applied' = applied \cup {i[1]} /\ orphans' = orphans
      BY <1>2, <2>2 DEF Serve
    <2> QED BY <1>g, <1>o, <1>p, <1>i, <2>2, <2>3
  <1>3. ASSUME NEW q \in orphans, ServeOrphan(q) PROVE SecondAttempts'
    <2>1. q \in Seq(Command) /\ q # << >>
      BY <1>t DEF TInv
    <2>2. Head(q) = q[1] /\ 1 \in 1..Len(q) /\ Len(q) \in Nat
      BY <2>1
    <2>3. Len(Tail(q)) = Len(q) - 1 /\ \A k \in 1..(Len(q) - 1) : Tail(q)[k] = q[k + 1]
      BY <2>1
    <2>4. applied' = applied \cup {q[1]} /\ orphans' \subseteq orphans \cup {Tail(q)}
      BY <1>3, <2>2 DEF ServeOrphan
    <2>5. \A k \in 1..Len(Tail(q)) : Made(Tail(q)[k])
      <3> TAKE k \in 1..Len(Tail(q))
      <3>1. k + 1 \in 1..Len(q) /\ Tail(q)[k] = q[k + 1]
        BY <2>2, <2>3
      <3> QED BY <1>p, <3>1
    <2> QED BY <1>g, <1>o, <1>p, <2>2, <2>4, <2>5
  <1>4. ASSUME NEW s \in Slots, ServerCloses(s) PROVE SecondAttempts'
    <2>1. applied' = applied /\ orphans' \subseteq orphans \cup {conn[s].inq}
      BY <1>4 DEF ServerCloses, Orphaned
    <2> QED BY <1>g, <1>o, <1>p, <1>i, <2>1
  <1>5. CASE UNCHANGED <<applied, orphans>>
    BY <1>g, <1>o, <1>p, <1>5
  <1> QED BY <1>1, <1>2, <1>3, <1>4, <1>5 DEF Next, CloseClient, vars

\* What was heard in a first attempt decides whether there is a second.
LEMMA HeardNext ==
  ASSUME TInv, CallsInOrder, HeardOnce, [Next]_vars
  PROVE  HeardOnce'
  <1>t. /\ try \in [Calls -> 1..2] /\ heard \in [Calls -> BOOLEAN] /\ got \in [Calls -> Seq(Command)]
        /\ pc \in [Calls -> {"idle", "waiting", "attempt", "reading", "ok", "failed"}]
        /\ conn \in [Slots -> Conn] /\ slot \in [Calls -> Slots]
    BY DEF TInv, TypeOK, Conn
  <1> DEFINE H(c) == /\ pc[c] \in {"idle", "waiting", "attempt"} /\ try[c] = 1 => ~heard[c]
                     /\ pc[c] = "reading" /\ try[c] = 1 /\ heard[c] => got[c] # << >>
                     /\ heard[c] /\ Mutates[c] => try[c] = 1
  <1>h. \A c \in Calls : H(c)
    BY DEF HeardOnce
  <1>g. ASSUME \A c \in Calls : H(c)' PROVE HeardOnce'
    BY <1>g DEF HeardOnce
  <1>u. ASSUME UNCHANGED callVars PROVE HeardOnce'
    BY <1>u DEF HeardOnce, callVars
  <1>1. ASSUME NEW c \in Calls, ClientStep(c) PROVE HeardOnce'
    <2>1. CASE DialFails(c) \/ WriteFails(c) \/ ReadTimeout(c) \/ ReadFails(c)
      <3>1. PICK q \in Seq(Command), readAny \in BOOLEAN :
            /\ Failure(c, q, readAny)
            /\ pc[c] = "attempt" => readAny = FALSE
            /\ pc[c] = "reading" => (got[c] # << >> => readAny)
            /\ pc[c] \in {"attempt", "reading"}
        BY <2>1, Failures
      <3>2. \A d \in Calls \ {c} : H(d)'
        BY <1>t, <1>h, <3>1 DEF Failure, Failed
      <3>3. heard'[c] = (heard[c] \/ (try[c] = 1 /\ readAny))
        BY <1>t, <3>1 DEF Failure
      <3>4. \/ try[c] = 1 /\ try'[c] = 2 /\ pc'[c] = "attempt" /\ ~(readAny /\ Mutates[c])
            \/ try'[c] = try[c] /\ pc'[c] = "failed"
        BY <1>t, <3>1 DEF Failure, Failed
      <3>5. H(c)'
        <4>1. CASE try[c] = 1 /\ try'[c] = 2 /\ pc'[c] = "attempt" /\ ~(readAny /\ Mutates[c])
          <5>1. pc[c] = "attempt" => ~heard[c] /\ ~readAny
            BY <1>h, <3>1, <4>1
          <5>2. pc[c] = "reading" /\ heard[c] => readAny
            BY <1>h, <3>1, <4>1
          <5>3. ~(heard'[c] /\ Mutates[c])
            BY <3>1, <3>3, <4>1, <5>1, <5>2
          <5> QED BY <4>1, <5>3
        <4>2. CASE try'[c] = try[c] /\ pc'[c] = "failed"
          <5>1. heard'[c] /\ Mutates[c] => try[c] = 1
            BY <1>h, <3>3
          <5> QED BY <4>2, <5>1
        <4> QED BY <3>4, <4>1, <4>2
      <3> QED BY <1>g, <3>2, <3>5
    <2>2. CASE Read(c)
      <3>0. conn[slot[c]] \in Conn /\ got[c] \in Seq(Command)
        BY <1>t
      <3>1. Append(got[c], Head(conn[slot[c]].outq)) # << >>
        <4>1. conn[slot[c]].outq \in Seq(Command) /\ conn[slot[c]].outq # << >>
          BY <2>2, <3>0 DEF Read, Conn
        <4>2. Head(conn[slot[c]].outq) \in Command
          BY <4>1
        <4> QED BY <3>0, <4>2
      <3>2. got'[c] # << >> /\ try' = try /\ heard'[c] = (heard[c] \/ try[c] = 1)
        BY <1>t, <2>2, <3>1 DEF Read
      <3>3. pc'[c] \in {"ok", "reading"}
        BY <1>t, <2>2 DEF Read
      <3>4. H(c)'
        BY <1>h, <3>2, <3>3
      <3>5. \A d \in Calls \ {c} : pc'[d] = pc[d] /\ got'[d] = got[d] /\ heard'[d] = heard[d]
        BY <1>t, <2>2 DEF Read
      <3>6. \A d \in Calls \ {c} : H(d)'
        BY <1>h, <3>2, <3>5
      <3> QED BY <1>g, <3>4, <3>6
    <2>3. CASE Write(c)
      <3>1. pc[c] = "attempt" /\ pc' = [pc EXCEPT ![c] = "reading"] /\ UNCHANGED <<try, got, heard>>
        BY <2>3 DEF Write
      <3>2. \A d \in Calls : H(d)'
        BY <1>t, <1>h, <3>1
      <3> QED BY <1>g, <3>2
    <2>4. CASE Dial(c)
      BY <1>u, <2>4 DEF Dial
    <2>5. CASE Acquire(c) \/ AcquireLate(c) \/ Wait(c) \/ AcquireTimeout(c)
      <3>1. /\ pc[c] \in {"idle", "waiting"} /\ UNCHANGED <<try, got, heard>>
            /\ \E v \in {"attempt", "waiting", "failed"} : pc' = [pc EXCEPT ![c] = v]
        BY <2>5 DEF Acquire, AcquireLate, Take, Wait, AcquireTimeout
      <3>2. \A d \in Calls : H(d)'
        BY <1>t, <1>h, <3>1
      <3> QED BY <1>g, <3>2
    <2> QED BY <1>1, <2>1, <2>2, <2>3, <2>4, <2>5 DEF ClientStep
  <1> QED BY <1>1, <1>u DEF Next, CloseClient, Serve, ServerCloses, ServeOrphan, vars

-----------------------------------------------------------------------------
\* The invariant holds at the start.
LEMMA IInvInit ==
  ASSUME Init
  PROVE  IInv
  <1>0. (CHOOSE s \in Slots : TRUE) \in Slots
    BY PoolAssumption
  <1>1. NoConn \in Conn /\ NoConn.inq = << >> /\ NoConn.outq = << >>
    BY DEF NoConn, Conn
  <1>2. 1 \in 1..2 /\ 0 \in Nat /\ << >> \in Seq(Command)
    OBVIOUS
  <1>3. TInv
    <2>1. conn \in [Slots -> Conn]
      BY <1>1 DEF Init
    <2>2. slot \in [Calls -> Slots]
      BY <1>0 DEF Init
    <2>3. try \in [Calls -> 1..2] /\ got \in [Calls -> Seq(Command)] /\ breaks \in Nat
      BY <1>2 DEF Init
    <2>4. heard \in [Calls -> BOOLEAN] /\ closed \in BOOLEAN
      BY Zenon DEF Init
    <2> QED BY <2>1, <2>2, <2>3, <2>4 DEF Init, TInv, TypeOK, Conn
  <1>4. SlotsAccounted
    BY DEF Init, SlotsAccounted, Holds
  <1>5. QuietConns /\ CallsInOrder
    BY <1>1 DEF Init, QuietConns, Quiet, CallsInOrder, InOrder
  <1>6. SecondAttempts /\ HeardOnce
    BY DEF Init, SecondAttempts, HeardOnce
  <1> QED BY <1>3, <1>4, <1>5, <1>6 DEF IInv

\* And every step keeps it.
LEMMA IInvNext ==
  ASSUME IInv, [Next]_vars
  PROVE  IInv'
  BY TInvNext, SlotsNext, QueuesNext, SecondNext, HeardNext DEF IInv

\* Every reachable state has IInv.
THEOREM Invariant == Spec => []IInv
  BY IInvInit, IInvNext, PTL DEF Spec

\* The state of the pool and of its calls keeps its types.
THEOREM TypeCorrect == Spec => []TypeOK
  <1>1. IInv => TypeOK
    BY DEF IInv, TInv
  <1> QED BY <1>1, Invariant, PTL

\* acquire and release neither lose a slot nor hand one out twice.
THEOREM SlotsCorrect == Spec => []SlotsAccounted
  <1>1. IInv => SlotsAccounted
    BY DEF IInv
  <1> QED BY <1>1, Invariant, PTL

\* pipelineEncoded returns the replies to its own commands, in order, however many
\* connections broke and whatever was in flight on them.
THEOREM RepliesCorrect == Spec => []RepliesAreOwn
  <1>1. IInv => RepliesAreOwn
    BY DEF IInv, CallsInOrder, InOrder, RepliesAreOwn
  <1> QED BY <1>1, Invariant, PTL

\* The retry gate of pipelineEncoded: the server runs an increment twice only if
\* the first attempt heard nothing.
THEOREM RetryCorrect == Spec => []TwiceOnlyIfSilent
  <1>1. IInv => TwiceOnlyIfSilent
    <2> SUFFICES ASSUME IInv, NEW c \in Calls, NEW i \in 1..NumCmds[c], Mutates[c],
                        {<<c, 1, i>>, <<c, 2, i>>} \subseteq applied
                 PROVE  ~heard[c]
      BY DEF TwiceOnlyIfSilent
    <2>1. <<c, 2, i>> \in applied
      OBVIOUS
    <2>2. <<c, 2, i>>[2] = 2 /\ <<c, 2, i>>[1] = c
      OBVIOUS
    <2>3. try[c] = 2
      BY <2>1, <2>2 DEF IInv, SecondAttempts
    <2> QED BY <2>3 DEF IInv, HeardOnce
  <1> QED BY <1>1, Invariant, PTL

-----------------------------------------------------------------------------
(* The inductive invariant of the store.                                   *)

Phases == {"idle", "incr", "expire", "answered", "repair", "repaired", "done"}
Main == {"incr", "expire", "answered"}

StoreTypes ==
    /\ val \in [Keys -> Int] /\ ttl \in [Keys -> {"absent", "volatile", "immortal"}]
    /\ seen \in [Replicas -> SUBSET Keys]
    /\ at \in [Batches -> Phases] /\ pos \in [Batches -> Nat] /\ bad \in [Batches -> Nat]
    /\ send \in [Batches -> SUBSET Keys] /\ first \in [Batches -> SUBSET Keys]
    /\ conf \in [Batches -> SUBSET Keys]
    /\ overlap \in BOOLEAN
    /\ lost \in Nat /\ errors \in Nat /\ denied \in Nat /\ broken \in Nat /\ crashes \in Nat

\* Where a call is in its entries.
AtEntry ==
    \A c \in Batches :
        /\ at[c] \in {"idle", "incr", "expire"} => pos[c] \in 1..Len(Entries[c])
        /\ at[c] = "repair" => pos[c] \in Recreated(c)
        /\ bad[c] <= Len(Entries[c])

\* What was confirmed was asked for, by the commands before the current one.
ConfirmedIsSent ==
    \A c \in Batches :
        /\ at[c] = "idle" => conf[c] = {}
        /\ at[c] \in Main => conf[c] \subseteq send[c]
        /\ at[c] = "expire" => Entries[c][pos[c]] \in send[c]
        /\ at[c] \in {"incr", "expire"} => \A i \in pos[c]..Len(Entries[c]) : Entries[c][i] \notin conf[c]

LostIsZero == \A k \in Keys : ttl[k] = "absent" => val[k] = 0
ErrorsCounted == \A c \in Batches : bad[c] # 0 => errors > 0

\* While calls do not overlap, nobody else changes what the call has read.
Alone ==
    ~overlap =>
        /\ \A c, d \in InFlight : c = d
        /\ \A c \in Batches : at[c] \in Main => send[c] \cap seen[RepOf[c]] = {}
        /\ \A c \in InFlight : \A k \in conf[c] : ttl[k] # "immortal"

\* The call has recreated the key and its replies will say so.
Notices(c, k) ==
    at[c] \in Main /\ k \in FirstWrites(c) /\ \E i \in 1..Len(Entries[c]) : Entries[c][i] = k

\* The call is going to send EXPIRE for the key.
Owes(c, k) ==
    \/ at[c] = "expire" /\ Entries[c][pos[c]] = k
    \/ Notices(c, k)
    \/ at[c] = "repair" /\ \E i \in Recreated(c) : i >= pos[c] /\ Entries[c][i] = k

\* Without a fault some call owes every key without a time to live its EXPIRE.
ImmortalIsOwed ==
    faults = 0 => \A k \in Keys : ttl[k] = "immortal" => \E c \in Batches : Owes(c, k)

\* Or else a replica knows of it.
ImmortalIsKnown ==
    ~overlap /\ broken = 0 /\ errors = 0 =>
        \A k \in Keys : ttl[k] = "immortal" =>
            (\E p \in Replicas : k \notin seen[p]) \/ \E c \in Batches : Notices(c, k)

StoreInv ==
    /\ StoreTypes /\ AtEntry /\ ConfirmedIsSent
    /\ LostIsZero /\ ErrorsCounted /\ Alone
    /\ ImmortalIsOwed /\ ImmortalIsKnown

-----------------------------------------------------------------------------
(* Numbers.                                                                *)

Below == {ss \in Nat \X Nat : ss[1] < ss[2]}

\* A set of numbers that is not empty has a least element.
LEMMA LeastNumber ==
  ASSUME NEW T \in SUBSET Nat, T # {}
  PROVE  \E n \in T : \A m \in T : n <= m
  <1>1. OpToRel(<, Nat) = Below
    BY Zenon DEF OpToRel, Below
  <1>2. IsWellFoundedOn(Below, Nat)
    BY <1>1, NatLessThanWellFounded, Zenon
  <1>3. PICK n \in T : \A m \in T : ~(<<m, n>> \in Below)
    BY <1>2, WFMin
  <1>4. \A m \in T : n <= m
    <2> TAKE m \in T
    <2>1. ~(<<m, n>> \in Below) /\ m \in Nat /\ n \in Nat
      BY <1>3
    <2>2. <<m, n>>[1] = m /\ <<m, n>>[2] = n /\ <<m, n>> \in Nat \X Nat
      BY <2>1
    <2>3. ~(m < n)
      BY <2>1, <2>2 DEF Below
    <2> QED BY <2>1, <2>3
  <1> QED BY <1>4

\* Min finds it.
LEMMA MinDef ==
  ASSUME NEW T \in SUBSET Nat, T # {}
  PROVE  Min(T) \in T /\ \A m \in T : Min(T) <= m
  BY LeastNumber DEF Min

\* Induction from 0.
LEMMA NumberInduction ==
  ASSUME NEW T \in SUBSET Nat, 0 \in T, \A n \in T : n + 1 \in T
  PROVE  \A n \in Nat : n \in T
  <1> SUFFICES ASSUME Nat \ T # {} PROVE FALSE
    OBVIOUS
  <1>1. PICK n \in Nat \ T : \A m \in Nat \ T : n <= m
    BY LeastNumber
  <1>2. n # 0 /\ n - 1 \in Nat /\ ~(n <= n - 1)
    BY <1>1
  <1>3. n - 1 \in T
    BY <1>1, <1>2
  <1>4. (n - 1) + 1 = n
    BY <1>2
  <1> QED BY <1>1, <1>3, <1>4

-----------------------------------------------------------------------------
(* What a call makes of its replica's cache.                               *)

\* The cache after entry i, from the caches before.
AfterEntry(c, R, g, i) ==
    IF i = 0 THEN Cache(RepOf[c])
    ELSE LET k == Entries[c][i]
         IN  IF k \in conf[c] THEN Commit(g[i - 1], k)
             ELSE IF k \in R THEN Forget(g[i - 1], k)
             ELSE g[i - 1]

\* The recursion defines a function.
LEMMA AfterExists ==
  ASSUME NEW c, NEW R, NEW n \in Nat
  PROVE  \E f : f = [i \in 0..n |-> AfterEntry(c, R, f, i)]
  <1> DEFINE T == {m \in Nat : \E g : g = [i \in 0..m |-> AfterEntry(c, R, g, i)]}
  <1>1. 0 \in T
    <2> DEFINE g == [i \in 0..0 |-> Cache(RepOf[c])]
    <2>1. g = [i \in 0..0 |-> AfterEntry(c, R, g, i)]
      BY DEF AfterEntry
    <2> QED BY <2>1
  <1>2. ASSUME NEW m \in T PROVE m + 1 \in T
    <2>1. m \in Nat
      OBVIOUS
    <2>2. PICK g : g = [i \in 0..m |-> AfterEntry(c, R, g, i)]
      OBVIOUS
    <2> DEFINE h == [i \in 0..(m + 1) |-> IF i = m + 1 THEN AfterEntry(c, R, g, m + 1) ELSE g[i]]
    <2>3. \A i \in 0..(m + 1) : h[i] = AfterEntry(c, R, h, i)
      <3> TAKE i \in 0..(m + 1)
      <3>1. CASE i = 0
        BY <2>1, <2>2, <3>1 DEF AfterEntry
      <3>2. CASE i \in 1..m
        <4>1. i \in 0..m /\ i - 1 \in 0..(m + 1) /\ i - 1 # m + 1 /\ i # m + 1 /\ i # 0
          BY <2>1, <3>2
        <4>2. h[i] = g[i] /\ h[i - 1] = g[i - 1]
          BY <4>1
        <4>3. g[i] = AfterEntry(c, R, g, i)
          BY <2>2, <4>1
        <4> QED BY <4>1, <4>2, <4>3 DEF AfterEntry
      <3>3. CASE i = m + 1
        <4>1. i # 0 /\ i - 1 = m /\ m \in 0..(m + 1) /\ m # m + 1
          BY <2>1, <3>3
        <4>2. h[i] = AfterEntry(c, R, g, m + 1) /\ h[m] = g[m]
          BY <3>3, <4>1
        <4> QED BY <3>3, <4>1, <4>2 DEF AfterEntry
      <3> QED BY <2>1, <3>1, <3>2, <3>3
    <2>4. h = [i \in 0..(m + 1) |-> AfterEntry(c, R, h, i)]
      BY <2>3
    <2>5. m + 1 \in Nat
      BY <2>1
    <2> HIDE DEF h
    <2> QED BY <2>4, <2>5
  <1>3. n \in T
    <2> HIDE DEF T
    <2>1. T \in SUBSET Nat
      BY DEF T
    <2> QED BY <1>1, <1>2, <2>1, NumberInduction
  <1> QED BY <1>3

\* A cache is a record of its two fields.
IsCache(x) == x = [seen |-> x.seen, order |-> x.order]

\* What committing and forgetting do to the keys of a cache.
LEMMA CacheSteps ==
  ASSUME NEW x, NEW k, IsCache(x)
  PROVE  /\ IsCache(Commit(x, k)) /\ Commit(x, k).seen \subseteq x.seen \cup {k}
         /\ IsCache(Forget(x, k)) /\ Forget(x, k).seen = x.seen \ {k}
  <1>1. Forget(x, k) = [seen |-> x.seen \ {k}, order |-> x.order]
    BY DEF IsCache, Forget
  <1>2. IsCache(Forget(x, k)) /\ Forget(x, k).seen = x.seen \ {k}
    BY <1>1 DEF IsCache
  <1>3. \/ Commit(x, k) = x
        \/ \E o : Commit(x, k) = [seen |-> (x.seen \ {Head(x.order)}) \cup {k}, order |-> o]
        \/ \E o : Commit(x, k) = [seen |-> x.seen \cup {k}, order |-> o]
    BY DEF Commit
  <1>4. IsCache(Commit(x, k)) /\ Commit(x, k).seen \subseteq x.seen \cup {k}
    BY <1>3 DEF IsCache
  <1> QED BY <1>2, <1>4

\* Settling adds only keys that were confirmed, and takes out the recreated ones.
LEMMA SettledSeen ==
  ASSUME NEW c \in Batches, NEW n \in 0..Len(Entries[c]), NEW R
  PROVE  /\ Settled(c, n, R).seen \subseteq seen[RepOf[c]] \cup conf[c]
         /\ \A i \in 1..n : Entries[c][i] \in R /\ Entries[c][i] \notin conf[c] =>
               Entries[c][i] \notin Settled(c, n, R).seen
  <1> DEFINE f == CHOOSE g : g = [i \in 0..n |-> AfterEntry(c, R, g, i)]
             E == Entries[c]
             O(m) == \A i \in 1..m : E[i] \in R /\ E[i] \notin conf[c] => E[i] \notin f[m].seen
             P == {m \in Nat : m <= n => /\ IsCache(f[m]) /\ f[m].seen \subseteq seen[RepOf[c]] \cup conf[c]
                                         /\ O(m)}
  <1>0. E \in Seq(Keys) /\ Len(E) \in Nat /\ n \in Nat /\ n <= Len(E)
    BY StoreAssumption
  <1>d. \A i, j \in 1..Len(E) : E[i] = E[j] => i = j
    BY StoreAssumption
  <1>1. f = [i \in 0..n |-> AfterEntry(c, R, f, i)]
    BY <1>0, AfterExists
  <1>2. Settled(c, n, R) = f[n]
    BY DEF Settled, AfterEntry
  <1> HIDE DEF f
  <1>3. 0 \in P
    <2>1. f[0] = Cache(RepOf[c])
      BY <1>0, <1>1 DEF AfterEntry
    <2>2. IsCache(f[0]) /\ f[0].seen = seen[RepOf[c]]
      BY <2>1 DEF Cache, IsCache
    <2> QED BY <2>2
  <1>4. ASSUME NEW m \in P PROVE m + 1 \in P
    <2> DEFINE i == m + 1
               k == E[i]
               x == f[m]
               y == f[i]
    <2>1. m \in Nat /\ (m <= n => IsCache(x) /\ x.seen \subseteq seen[RepOf[c]] \cup conf[c] /\ O(m))
      OBVIOUS
    <2>2. SUFFICES ASSUME i <= n
                   PROVE  IsCache(y) /\ y.seen \subseteq seen[RepOf[c]] \cup conf[c] /\ O(i)
      BY <2>1
    <2>3. i \in 0..n /\ i # 0 /\ i - 1 = m /\ m <= n /\ i \in 1..Len(E) /\ \A j \in 1..i : j = i \/ j \in 1..m
      BY <1>0, <2>1, <2>2
    <2>4. y = IF k \in conf[c] THEN Commit(x, k) ELSE IF k \in R THEN Forget(x, k) ELSE x
      <3>1. f[i] = AfterEntry(c, R, f, i)
        BY <1>1, <2>3
      <3> QED BY <2>3, <3>1 DEF AfterEntry
    <2>5. IsCache(x) /\ x.seen \subseteq seen[RepOf[c]] \cup conf[c] /\ O(m)
      BY <2>1, <2>3
    <2>6. \A j \in 1..m : E[j] \in R /\ E[j] \notin conf[c] => E[j] \notin x.seen
      BY <2>5
    <2>s. \A j \in 1..m : E[j] # k
      <3> TAKE j \in 1..m
      <3>1. j \in 1..Len(E) /\ j # i
        BY <1>0, <2>1, <2>3
      <3> QED BY <1>d, <2>3, <3>1
    <2> HIDE DEF x, y, k, E
    <2>7. /\ IsCache(y) /\ y.seen \subseteq x.seen \cup {k}
          /\ (k \notin conf[c] => y.seen \subseteq x.seen)
          /\ (k \in R /\ k \notin conf[c] => k \notin y.seen)
      BY <2>4, <2>5, CacheSteps
    <2>8. y.seen \subseteq seen[RepOf[c]] \cup conf[c]
      BY <2>5, <2>7
    <2>9. \A j \in 1..i : E[j] \in R /\ E[j] \notin conf[c] => E[j] \notin y.seen
      <3> TAKE j \in 1..i
      <3>1. CASE j = i
        BY <2>7, <3>1 DEF k
      <3>2. CASE j \in 1..m
        BY <2>6, <2>7, <2>s, <3>2
      <3> QED BY <2>3, <3>1, <3>2
    <2> QED BY <2>7, <2>8, <2>9 DEF y
  <1>5. n \in P
    <2> HIDE DEF P
    <2>1. P \in SUBSET Nat
      BY DEF P
    <2> QED BY <1>0, <1>3, <1>4, <2>1, NumberInduction
  <1>6. n <= n
    BY <1>0
  <1> QED BY <1>2, <1>5, <1>6

-----------------------------------------------------------------------------
(* Every step keeps the parts of the invariant that concern one call.      *)

\* The constants, as the steps use them.
LEMMA EntriesType ==
  ASSUME NEW c \in Batches
  PROVE  /\ RepOf[c] \in Replicas /\ Delta[c] \in Int /\ Len(Entries[c]) \in Nat \ {0}
         /\ Entries[c] \in Seq(Keys) /\ \A i \in 1..Len(Entries[c]) : Entries[c][i] \in Keys
  BY StoreAssumption

\* The recreated entries are positions.
LEMMA RecreatedType ==
  ASSUME NEW c
  PROVE  /\ Recreated(c) \in SUBSET Nat
         /\ \A i \in Recreated(c) : i \in 1..Len(Entries[c]) /\ Entries[c][i] \in FirstWrites(c)
  <1>1. \A i \in 1..Len(Entries[c]) : i \in Nat
    OBVIOUS
  <1> QED BY <1>1 DEF Recreated

\* The processed entries are entries.
LEMMA ProcessedType ==
  ASSUME StoreInv, NEW c \in Batches
  PROVE  Processed(c) \in 0..Len(Entries[c]) /\ (errors = 0 => Processed(c) = Len(Entries[c]))
  <1>1. bad[c] \in Nat /\ bad[c] <= Len(Entries[c]) /\ Len(Entries[c]) \in Nat /\ errors \in Nat
        /\ (bad[c] # 0 => errors > 0)
    BY EntriesType DEF StoreInv, ErrorsCounted, StoreTypes, AtEntry
  <1> QED BY <1>1 DEF Processed

\* Redis runs an EXPIRE.
LEMMA ExpireRuns ==
  ASSUME StoreTypes, NEW c \in Batches, NEW k \in Keys, RunExpire(c, k)
  PROVE  /\ ttl' \in [Keys -> {"absent", "volatile", "immortal"}]
         /\ conf' \in [Batches -> SUBSET Keys] /\ denied' \in Nat /\ denied' >= denied
         /\ \A q \in Keys : ttl'[q] = "immortal" => ttl[q] = "immortal"
         /\ \A q \in Keys : ttl'[q] = "absent" => ttl[q] = "absent"
         /\ denied' = denied => ttl'[k] # "immortal"
         /\ \A d \in Batches : d # c => conf'[d] = conf[d]
         /\ conf[c] \subseteq conf'[c] /\ conf'[c] \subseteq conf[c] \cup {k}
         /\ k \in conf'[c] => k \in conf[c] \/ ttl'[k] = "volatile"
  <1>0. denied \in Nat /\ ttl \in [Keys -> {"absent", "volatile", "immortal"}]
        /\ conf \in [Batches -> SUBSET Keys]
    BY DEF StoreTypes
  <1>1. CASE /\ ttl[k] # "absent"
             /\ ttl' = [ttl EXCEPT ![k] = "volatile"]
             /\ conf' = [conf EXCEPT ![c] = @ \cup {k}]
             /\ UNCHANGED denied
    BY <1>0, <1>1
  <1>2. CASE ttl[k] = "absent" /\ UNCHANGED <<ttl, conf, denied>>
    BY <1>0, <1>2
  <1>3. CASE denied' = denied + 1 /\ UNCHANGED <<ttl, conf>>
    BY <1>0, <1>3
  <1> QED BY <1>1, <1>2, <1>3 DEF RunExpire

\* The types of a cache that was settled.
LEMMA SettledType ==
  ASSUME StoreInv, NEW c \in Batches, NEW n \in 0..Len(Entries[c]), NEW R,
         SetCache(RepOf[c], Settled(c, n, R))
  PROVE  /\ seen' \in [Replicas -> SUBSET Keys]
         /\ \A p \in Replicas : p # RepOf[c] => seen'[p] = seen[p]
         /\ seen'[RepOf[c]] = Settled(c, n, R).seen
         /\ seen'[RepOf[c]] \subseteq seen[RepOf[c]] \cup conf[c]
  <1> DEFINE s == Settled(c, n, R).seen
             p == RepOf[c]
  <1>1. p \in Replicas /\ seen \in [Replicas -> SUBSET Keys] /\ conf[c] \in SUBSET Keys
    BY EntriesType DEF StoreInv, StoreTypes
  <1>2. s \subseteq seen[p] \cup conf[c]
    BY SettledSeen DEF StoreInv
  <1>3. seen' = [seen EXCEPT ![p] = s]
    BY DEF SetCache
  <1> HIDE DEF s, p
  <1>4. s \in SUBSET Keys
    BY <1>1, <1>2
  <1>5. /\ seen' \in [Replicas -> SUBSET Keys] /\ seen'[p] = s
        /\ \A q \in Replicas : q # p => seen'[q] = seen[q]
    BY <1>1, <1>3, <1>4
  <1> QED BY <1>2, <1>5 DEF s, p

\* What concerns one call.
CallInv == StoreTypes /\ AtEntry /\ ConfirmedIsSent /\ LostIsZero /\ ErrorsCounted

\* The types of a call's state.
LEMMA CallTypes ==
  ASSUME StoreInv
  PROVE  /\ val \in [Keys -> Int] /\ ttl \in [Keys -> {"absent", "volatile", "immortal"}]
         /\ seen \in [Replicas -> SUBSET Keys]
         /\ at \in [Batches -> Phases] /\ pos \in [Batches -> Nat] /\ bad \in [Batches -> Nat]
         /\ send \in [Batches -> SUBSET Keys] /\ first \in [Batches -> SUBSET Keys]
         /\ conf \in [Batches -> SUBSET Keys]
         /\ lost \in Nat /\ errors \in Nat /\ denied \in Nat /\ broken \in Nat /\ crashes \in Nat
  BY DEF StoreInv, StoreTypes

\* A call starts.
LEMMA StartCall ==
  ASSUME StoreInv, NEW c \in Batches, Start(c)
  PROVE  CallInv'
  <1> USE CallTypes
  <1>1. /\ at[c] = "idle" /\ at' = [at EXCEPT ![c] = "incr"]
        /\ send' = [send EXCEPT ![c] = {k \in Keys : k \notin seen[RepOf[c]]}]
        /\ UNCHANGED <<val, ttl, seen, order, pos, first, conf, bad, faultVars>>
        /\ overlap' = (overlap \/ InFlight # {})
    BY DEF Start
  <1> DEFINE S == {k \in Keys : k \notin seen[RepOf[c]]}
  <1>2. S \in SUBSET Keys
    OBVIOUS
  <1> HIDE DEF S
  <1>3. /\ at' \in [Batches -> Phases] /\ send' \in [Batches -> SUBSET Keys]
        /\ at'[c] = "incr" /\ \A d \in Batches : d # c => at'[d] = at[d] /\ send'[d] = send[d]
    BY <1>1, <1>2 DEF Phases, S
  <1>4. overlap' \in BOOLEAN
    BY <1>1, Zenon
  <1>5. StoreTypes'
    BY <1>1, <1>3, <1>4 DEF StoreTypes, faultVars
  <1>6. AtEntry'
    <2> SUFFICES ASSUME NEW d \in Batches
                 PROVE  /\ at'[d] \in {"idle", "incr", "expire"} => pos'[d] \in 1..Len(Entries[d])
                        /\ at'[d] = "repair" => pos'[d] \in Recreated(d)'
                        /\ bad'[d] <= Len(Entries[d])
      BY DEF AtEntry
    <2>1. CASE d = c
      BY <1>1, <1>3, <2>1 DEF StoreInv, AtEntry
    <2>2. CASE d # c
      BY <1>1, <1>3, <2>2 DEF StoreInv, AtEntry, Recreated, FirstWrites
    <2> QED BY <2>1, <2>2
  <1>7. ConfirmedIsSent'
    BY <1>1, <1>3 DEF StoreInv, ConfirmedIsSent, Main
  <1>8. LostIsZero' /\ ErrorsCounted'
    BY <1>1 DEF StoreInv, LostIsZero, ErrorsCounted, faultVars
  <1> QED BY <1>5, <1>6, <1>7, <1>8 DEF CallInv

\* The next command of a call.
LEMMA AdvanceCall ==
  ASSUME StoreInv, NEW c \in Batches, at[c] \in {"incr", "expire"}, Advance(c, "incr")
  PROVE  /\ at' \in [Batches -> Phases] /\ pos' \in [Batches -> Nat]
         /\ \A d \in Batches : d # c => at'[d] = at[d] /\ pos'[d] = pos[d]
         /\ pos'[c] = pos[c] + 1 /\ at'[c] \in {"incr", "answered"}
         /\ at'[c] = "incr" => pos'[c] \in 1..Len(Entries[c])
  <1> USE CallTypes
  <1>1. /\ pos' = [pos EXCEPT ![c] = @ + 1]
        /\ at' = [at EXCEPT ![c] = IF pos[c] = Len(Entries[c]) THEN "answered" ELSE "incr"]
    BY DEF Advance
  <1>2. pos[c] \in 1..Len(Entries[c]) /\ Len(Entries[c]) \in Nat
    BY EntriesType DEF StoreInv, AtEntry
  <1>3. /\ at' \in [Batches -> Phases] /\ pos' \in [Batches -> Nat]
        /\ \A d \in Batches : d # c => at'[d] = at[d] /\ pos'[d] = pos[d]
        /\ pos'[c] = pos[c] + 1 /\ at'[c] = IF pos[c] = Len(Entries[c]) THEN "answered" ELSE "incr"
    BY <1>1 DEF Phases
  <1>4. pos[c] # Len(Entries[c]) => pos[c] + 1 \in 1..Len(Entries[c])
    BY <1>2
  <1> QED BY <1>3, <1>4

\* An INCRBY that Redis runs.
Increments(c, k) ==
    /\ val' \in [Keys -> Int] /\ ttl' \in [Keys -> {"absent", "volatile", "immortal"}]
    /\ \A q \in Keys : q # k => ttl'[q] = ttl[q] /\ val'[q] = val[q]
    /\ ttl'[k] # "absent"
    /\ ttl'[k] = "immortal" => ttl[k] = "immortal" \/ k \in first'[c]
    /\ first' \in [Batches -> SUBSET Keys] /\ first[c] \subseteq first'[c]
    /\ \A d \in Batches : d # c => first'[d] = first[d]
    /\ bad' = bad /\ errors' = errors

\* An INCRBY that Redis answers with an error.
Errs(c) ==
    /\ val' = val /\ ttl' = ttl /\ first' = first
    /\ bad' \in [Batches -> Nat] /\ (\A d \in Batches : bad'[d] <= Len(Entries[d]))
    /\ errors' \in Nat /\ errors' > 0

\* Where the call goes from there.
Proceeds(c, k) ==
    /\ at' \in [Batches -> Phases] /\ pos' \in [Batches -> Nat]
    /\ \A d \in Batches : d # c => at'[d] = at[d] /\ pos'[d] = pos[d]
    /\ \/ k \in send[c] /\ at'[c] = "expire" /\ pos'[c] = pos[c]
       \/ /\ k \notin send[c] /\ at'[c] \in {"incr", "answered"} /\ pos'[c] = pos[c] + 1
          /\ at'[c] = "incr" => pos'[c] \in 1..Len(Entries[c])

\* What an INCRBY does.
LEMMA IncrByEffect ==
  ASSUME StoreInv, NEW c \in Batches, IncrBy(c), NEW k, k = Entries[c][pos[c]]
  PROVE  /\ at[c] = "incr" /\ k \in Keys /\ pos[c] \in 1..Len(Entries[c])
         /\ UNCHANGED <<seen, order, send, conf, overlap, lost, denied, broken, crashes>>
         /\ Increments(c, k) \/ Errs(c)
         /\ Proceeds(c, k)
  <1> USE CallTypes
  <1> DEFINE v == val[k] + Delta[c]
  <1>1. /\ at[c] = "incr"
        /\ \/ /\ val' = [val EXCEPT ![k] = v]
              /\ ttl' = [ttl EXCEPT ![k] = IF @ = "absent" THEN "immortal" ELSE @]
              /\ first' = [first EXCEPT ![c] = IF v = Delta[c] THEN @ \cup {k} ELSE @]
              /\ UNCHANGED <<bad, errors>>
           \/ /\ errors' = errors + 1
              /\ bad' = [bad EXCEPT ![c] = IF @ = 0 THEN pos[c] ELSE @]
              /\ UNCHANGED <<val, ttl, first>>
        /\ IF k \in send[c] THEN at' = [at EXCEPT ![c] = "expire"] /\ UNCHANGED pos
           ELSE Advance(c, "incr")
        /\ UNCHANGED <<seen, order, send, conf, overlap, lost, denied, broken, crashes>>
    BY DEF IncrBy
  <1>2. pos[c] \in 1..Len(Entries[c]) /\ k \in Keys /\ Delta[c] \in Int
    BY <1>1, EntriesType DEF StoreInv, AtEntry
  <1>3. v \in Int /\ (ttl[k] = "absent" => v = Delta[c])
    <2>1. val[k] \in Int
      BY <1>2
    <2>2. ttl[k] = "absent" => val[k] = 0
      BY <1>2 DEF StoreInv, LostIsZero
    <2> QED BY <1>2, <2>1, <2>2
  <1> HIDE DEF v
  <1>5. Proceeds(c, k)
    <2>1. CASE k \in send[c]
      BY <1>1, <2>1 DEF Proceeds, Phases
    <2>2. CASE k \notin send[c]
      BY <1>1, <2>2, AdvanceCall DEF Proceeds
    <2> QED BY <2>1, <2>2
  <1>4. CASE /\ val' = [val EXCEPT ![k] = v]
             /\ ttl' = [ttl EXCEPT ![k] = IF @ = "absent" THEN "immortal" ELSE @]
             /\ first' = [first EXCEPT ![c] = IF v = Delta[c] THEN @ \cup {k} ELSE @]
             /\ UNCHANGED <<bad, errors>>
    <2>1. val' \in [Keys -> Int] /\ \A q \in Keys : q # k => val'[q] = val[q]
      BY <1>2, <1>3, <1>4
    <2>2. /\ ttl' \in [Keys -> {"absent", "volatile", "immortal"}]
          /\ \A q \in Keys : q # k => ttl'[q] = ttl[q]
          /\ ttl'[k] = IF ttl[k] = "absent" THEN "immortal" ELSE ttl[k]
      BY <1>2, <1>4
    <2>3. /\ first' \in [Batches -> SUBSET Keys] /\ (\A d \in Batches : d # c => first'[d] = first[d])
          /\ first'[c] = IF v = Delta[c] THEN first[c] \cup {k} ELSE first[c]
      BY <1>2, <1>4
    <2>4. Increments(c, k)
      BY <1>3, <1>4, <2>1, <2>2, <2>3 DEF Increments
    <2> QED BY <1>1, <1>2, <2>4, <1>5
  <1>6. CASE /\ errors' = errors + 1
             /\ bad' = [bad EXCEPT ![c] = IF @ = 0 THEN pos[c] ELSE @]
             /\ UNCHANGED <<val, ttl, first>>
    <2>1. \A d \in Batches : bad[d] <= Len(Entries[d])
      BY DEF StoreInv, AtEntry
    <2>2. pos[c] \in Nat /\ pos[c] <= Len(Entries[c])
      BY <1>2
    <2>4. errors' \in Nat /\ errors' > 0
      BY <1>6, CallTypes
    <2>5. bad' \in [Batches -> Nat] /\ \A d \in Batches : bad'[d] = bad[d] \/ (d = c /\ bad'[d] = pos[c])
      BY <1>6, <2>2, CallTypes
    <2>6. \A d \in Batches : bad'[d] <= Len(Entries[d])
      BY <2>1, <2>2, <2>5
    <2>3. Errs(c)
      BY <1>6, <2>4, <2>5, <2>6 DEF Errs
    <2> QED BY <1>1, <1>2, <2>3, <1>5
  <1> QED BY <1>1, <1>4, <1>6

\* A call's state after an INCRBY.
LEMMA IncrByCall ==
  ASSUME StoreInv, NEW c \in Batches, IncrBy(c)
  PROVE  CallInv'
  <1> USE CallTypes
  <1> DEFINE k == Entries[c][pos[c]]
  <1>1. /\ at[c] = "incr" /\ k \in Keys /\ pos[c] \in 1..Len(Entries[c])
        /\ UNCHANGED <<seen, order, send, conf, overlap, lost, denied, broken, crashes>>
        /\ Increments(c, k) \/ Errs(c)
        /\ Proceeds(c, k)
    BY IncrByEffect
  <1> HIDE DEF k
  <1>2. StoreTypes'
    <2>1. at' \in [Batches -> Phases] /\ pos' \in [Batches -> Nat]
      BY <1>1 DEF Proceeds
    <2>2. /\ val' \in [Keys -> Int] /\ ttl' \in [Keys -> {"absent", "volatile", "immortal"}]
          /\ first' \in [Batches -> SUBSET Keys] /\ bad' \in [Batches -> Nat] /\ errors' \in Nat
      BY <1>1 DEF Increments, Errs
    <2>3. overlap' \in BOOLEAN
      BY <1>1 DEF StoreInv, StoreTypes
    <2> QED BY <1>1, <2>1, <2>2, <2>3 DEF StoreTypes
  <1>3. AtEntry'
    <2> SUFFICES ASSUME NEW d \in Batches
                 PROVE  /\ at'[d] \in {"idle", "incr", "expire"} => pos'[d] \in 1..Len(Entries[d])
                        /\ at'[d] = "repair" => pos'[d] \in Recreated(d)'
                        /\ bad'[d] <= Len(Entries[d])
      BY DEF AtEntry
    <2>1. bad'[d] <= Len(Entries[d])
      BY <1>1 DEF StoreInv, AtEntry, Increments, Errs
    <2>2. CASE d = c
      BY <1>1, <2>1, <2>2 DEF Proceeds
    <2>3. CASE d # c
      <3>1. at'[d] = at[d] /\ pos'[d] = pos[d] /\ first'[d] = first[d] /\ send'[d] = send[d]
        BY <1>1, <2>3 DEF Proceeds, Increments, Errs
      <3> QED BY <2>1, <3>1 DEF StoreInv, AtEntry, Recreated, FirstWrites
    <2> QED BY <2>2, <2>3
  <1>4. ConfirmedIsSent'
    <2> SUFFICES ASSUME NEW d \in Batches
                 PROVE  /\ at'[d] = "idle" => conf[d] = {}
                        /\ at'[d] \in Main => conf[d] \subseteq send[d]
                        /\ at'[d] = "expire" => Entries[d][pos'[d]] \in send[d]
                        /\ at'[d] \in {"incr", "expire"} =>
                              \A i \in pos'[d]..Len(Entries[d]) : Entries[d][i] \notin conf[d]
      BY <1>1 DEF ConfirmedIsSent
    <2>1. CASE d = c
      <3>1. conf[c] \subseteq send[c] /\ \A i \in pos[c]..Len(Entries[c]) : Entries[c][i] \notin conf[c]
        BY <1>1 DEF StoreInv, ConfirmedIsSent, Main
      <3>2. at'[c] # "idle" /\ pos'[c] \in Nat /\ pos'[c] >= pos[c] /\ pos[c] \in Nat
        BY <1>1 DEF Proceeds
      <3>3. \A i \in pos'[c]..Len(Entries[c]) : i \in pos[c]..Len(Entries[c])
        BY <3>2
      <3>4. at'[c] = "expire" => Entries[c][pos'[c]] \in send[c]
        BY <1>1 DEF Proceeds, k
      <3> QED BY <2>1, <3>1, <3>2, <3>3, <3>4
    <2>2. CASE d # c
      BY <1>1, <2>2 DEF StoreInv, ConfirmedIsSent, Proceeds
    <2> QED BY <2>1, <2>2
  <1>5. LostIsZero' /\ ErrorsCounted'
    BY <1>1 DEF StoreInv, LostIsZero, ErrorsCounted, Increments, Errs
  <1> QED BY <1>2, <1>3, <1>4, <1>5 DEF CallInv

\* An EXPIRE of the pipeline.
LEMMA ExpireEffect ==
  ASSUME StoreInv, NEW c \in Batches, Expire(c), NEW k, k = Entries[c][pos[c]]
  PROVE  /\ at[c] = "expire" /\ k \in Keys /\ pos[c] \in 1..Len(Entries[c])
         /\ RunExpire(c, k) /\ Advance(c, "incr")
         /\ UNCHANGED <<val, seen, order, send, first, bad, overlap, lost, errors, broken, crashes>>
  BY EntriesType DEF Expire, StoreInv, AtEntry

\* A call's state after it.
LEMMA ExpireCall ==
  ASSUME StoreInv, NEW c \in Batches, Expire(c)
  PROVE  CallInv'
  <1> USE CallTypes
  <1> DEFINE k == Entries[c][pos[c]]
  <1>1. /\ at[c] = "expire" /\ k \in Keys /\ pos[c] \in 1..Len(Entries[c])
        /\ RunExpire(c, k) /\ Advance(c, "incr")
        /\ UNCHANGED <<val, seen, order, send, first, bad, overlap, lost, errors, broken, crashes>>
    BY ExpireEffect
  <1>2. /\ ttl' \in [Keys -> {"absent", "volatile", "immortal"}]
        /\ conf' \in [Batches -> SUBSET Keys] /\ denied' \in Nat
        /\ \A q \in Keys : ttl'[q] = "absent" => ttl[q] = "absent"
        /\ \A d \in Batches : d # c => conf'[d] = conf[d]
        /\ conf'[c] \subseteq conf[c] \cup {k}
    <2> HIDE DEF k
    <2> QED BY <1>1, ExpireRuns DEF StoreInv
  <1>3. /\ at' \in [Batches -> Phases] /\ pos' \in [Batches -> Nat]
        /\ \A d \in Batches : d # c => at'[d] = at[d] /\ pos'[d] = pos[d]
        /\ pos'[c] = pos[c] + 1 /\ at'[c] \in {"incr", "answered"}
        /\ at'[c] = "incr" => pos'[c] \in 1..Len(Entries[c])
    BY <1>1, AdvanceCall
  <1>4. StoreTypes'
    <2>1. overlap' \in BOOLEAN
      BY <1>1 DEF StoreInv, StoreTypes
    <2> QED BY <1>1, <1>2, <1>3, <2>1 DEF StoreTypes
  <1>5. AtEntry'
    BY <1>1, <1>3 DEF StoreInv, AtEntry, Recreated, FirstWrites
  <1>6. ConfirmedIsSent'
    <2> SUFFICES ASSUME NEW d \in Batches
                 PROVE  /\ at'[d] = "idle" => conf'[d] = {}
                        /\ at'[d] \in Main => conf'[d] \subseteq send[d]
                        /\ at'[d] = "expire" => Entries[d][pos'[d]] \in send[d]
                        /\ at'[d] \in {"incr", "expire"} =>
                              \A i \in pos'[d]..Len(Entries[d]) : Entries[d][i] \notin conf'[d]
      BY <1>1 DEF ConfirmedIsSent
    <2>1. CASE d = c
      <3>1. conf[c] \subseteq send[c] /\ \A i \in pos[c]..Len(Entries[c]) : Entries[c][i] \notin conf[c]
        BY <1>1 DEF StoreInv, ConfirmedIsSent, Main
      <3>2. k \in send[c]
        BY <1>1 DEF StoreInv, ConfirmedIsSent
      <3>3. \A i \in pos'[c]..Len(Entries[c]) : i \in pos[c]..Len(Entries[c]) /\ i # pos[c] /\ i \in 1..Len(Entries[c])
        BY <1>1, <1>3
      <3>4. \A i, j \in 1..Len(Entries[c]) : Entries[c][i] = Entries[c][j] => i = j
        BY StoreAssumption
      <3>5. \A i \in pos'[c]..Len(Entries[c]) : Entries[c][i] # k
        BY <1>1, <3>3, <3>4
      <3> HIDE DEF k
      <3> QED BY <1>2, <1>3, <2>1, <3>1, <3>2, <3>3, <3>5
    <2>2. CASE d # c
      BY <1>1, <1>2, <1>3, <2>2 DEF StoreInv, ConfirmedIsSent
    <2> QED BY <2>1, <2>2
  <1>7. LostIsZero' /\ ErrorsCounted'
    BY <1>1, <1>2 DEF StoreInv, LostIsZero, ErrorsCounted
  <1> QED BY <1>4, <1>5, <1>6, <1>7 DEF CallInv

\* The replies are in.
LEMMA SettleEffect ==
  ASSUME StoreInv, NEW c \in Batches, Settle(c)
  PROVE  /\ at[c] = "answered"
         /\ UNCHANGED <<val, ttl, send, first, bad, overlap, faultVars>>
         /\ at' \in [Batches -> Phases] /\ pos' \in [Batches -> Nat] /\ conf' \in [Batches -> SUBSET Keys]
         /\ \A d \in Batches : d # c => at'[d] = at[d] /\ pos'[d] = pos[d] /\ conf'[d] = conf[d]
         /\ conf'[c] = {} /\ at'[c] \in {"done", "repair"}
         /\ at'[c] = "repair" => pos'[c] \in Recreated(c) /\ \A i \in Recreated(c) : pos'[c] <= i
         /\ bad[c] = 0 /\ Recreated(c) # {} => at'[c] = "repair"
         /\ SetCache(RepOf[c], Settled(c, Processed(c), FirstWrites(c)))
  <1> USE CallTypes
  <1>1. /\ at[c] = "answered" /\ conf' = [conf EXCEPT ![c] = {}]
        /\ SetCache(RepOf[c], Settled(c, Processed(c), FirstWrites(c)))
        /\ IF bad[c] # 0 \/ Recreated(c) = {}
           THEN at' = [at EXCEPT ![c] = "done"] /\ UNCHANGED pos
           ELSE at' = [at EXCEPT ![c] = "repair"] /\ pos' = [pos EXCEPT ![c] = Min(Recreated(c))]
        /\ UNCHANGED <<val, ttl, send, first, bad, overlap, faultVars>>
    BY DEF Settle
  <1> DEFINE R == Recreated(c)
  <1>2. R \in SUBSET Nat
    BY RecreatedType
  <1> HIDE DEF R
  <1>3. R # {} => Min(R) \in R /\ Min(R) \in Nat /\ \A i \in R : Min(R) <= i
    BY <1>2, MinDef
  <1>4. {} \in SUBSET Keys
    OBVIOUS
  <1>5. /\ conf' \in [Batches -> SUBSET Keys] /\ conf'[c] = {} /\ \A d \in Batches : d # c => conf'[d] = conf[d]
    BY <1>1, <1>4
  <1>6. CASE bad[c] # 0 \/ R = {}
    <2>1. at' = [at EXCEPT ![c] = "done"] /\ pos' = pos
      BY <1>1, <1>6 DEF R
    <2>2. at' \in [Batches -> Phases] /\ at'[c] = "done" /\ \A d \in Batches : d # c => at'[d] = at[d]
      BY <2>1 DEF Phases
    <2> QED BY <1>1, <1>5, <1>6, <2>1, <2>2 DEF R
  <1>7. CASE ~(bad[c] # 0 \/ R = {})
    <2>1. at' = [at EXCEPT ![c] = "repair"] /\ pos' = [pos EXCEPT ![c] = Min(R)]
      BY <1>1, <1>7 DEF R
    <2>2. at' \in [Batches -> Phases] /\ at'[c] = "repair" /\ \A d \in Batches : d # c => at'[d] = at[d]
      BY <2>1 DEF Phases
    <2>3. pos' \in [Batches -> Nat] /\ pos'[c] = Min(R) /\ \A d \in Batches : d # c => pos'[d] = pos[d]
      BY <1>3, <1>7, <2>1
    <2> QED BY <1>1, <1>3, <1>5, <1>7, <2>2, <2>3 DEF R
  <1> QED BY <1>6, <1>7

\* A call's state after it.
LEMMA SettleCall ==
  ASSUME StoreInv, NEW c \in Batches, Settle(c)
  PROVE  CallInv'
  <1> USE CallTypes
  <1>1. /\ at[c] = "answered"
        /\ UNCHANGED <<val, ttl, send, first, bad, overlap, faultVars>>
        /\ at' \in [Batches -> Phases] /\ pos' \in [Batches -> Nat] /\ conf' \in [Batches -> SUBSET Keys]
        /\ \A d \in Batches : d # c => at'[d] = at[d] /\ pos'[d] = pos[d] /\ conf'[d] = conf[d]
        /\ conf'[c] = {} /\ at'[c] \in {"done", "repair"}
        /\ at'[c] = "repair" => pos'[c] \in Recreated(c)
        /\ SetCache(RepOf[c], Settled(c, Processed(c), FirstWrites(c)))
    BY SettleEffect
  <1> DEFINE n == Processed(c)
             R == FirstWrites(c)
  <1>2. n \in 0..Len(Entries[c])
    BY ProcessedType
  <1> HIDE DEF n, R
  <1>3. seen' \in [Replicas -> SUBSET Keys]
    <2>1. SetCache(RepOf[c], Settled(c, n, R))
      BY <1>1 DEF n, R
    <2> QED BY <1>2, <2>1, SettledType
  <1>4. StoreTypes'
    <2>1. overlap' \in BOOLEAN
      BY <1>1 DEF StoreInv, StoreTypes
    <2> QED BY <1>1, <1>3, <2>1 DEF StoreTypes, faultVars
  <1>5. AtEntry'
    BY <1>1 DEF StoreInv, AtEntry, Recreated, FirstWrites
  <1>6. ConfirmedIsSent'
    BY <1>1 DEF StoreInv, ConfirmedIsSent, Main
  <1>7. LostIsZero' /\ ErrorsCounted'
    BY <1>1 DEF StoreInv, LostIsZero, ErrorsCounted, faultVars
  <1> QED BY <1>4, <1>5, <1>6, <1>7 DEF CallInv

\* An EXPIRE of the repair.
LEMMA RepairEffect ==
  ASSUME StoreInv, NEW c \in Batches, Repair(c), NEW k, k = Entries[c][pos[c]]
  PROVE  /\ at[c] = "repair" /\ k \in Keys /\ RunExpire(c, k)
         /\ UNCHANGED <<val, seen, order, send, first, bad, overlap, lost, errors, broken, crashes>>
         /\ at' \in [Batches -> Phases] /\ pos' \in [Batches -> Nat]
         /\ \A d \in Batches : d # c => at'[d] = at[d] /\ pos'[d] = pos[d]
         /\ at'[c] \in {"repair", "repaired"}
         /\ at'[c] = "repair" => pos'[c] \in Recreated(c)
         /\ \A i \in Recreated(c) : i > pos[c] => at'[c] = "repair" /\ pos'[c] <= i
  <1> USE CallTypes
  <1> DEFINE R == Recreated(c)
             rest == {i \in R : i > pos[c]}
  <1>1. /\ at[c] = "repair" /\ RunExpire(c, k)
        /\ IF rest = {}
           THEN at' = [at EXCEPT ![c] = "repaired"] /\ UNCHANGED pos
           ELSE pos' = [pos EXCEPT ![c] = Min(rest)] /\ UNCHANGED at
        /\ UNCHANGED <<val, seen, order, send, first, bad, overlap, lost, errors, broken, crashes>>
    BY DEF Repair
  <1>2. R \in SUBSET Nat /\ \A i \in R : i \in 1..Len(Entries[c])
    BY RecreatedType
  <1>3. k \in Keys
    <2>1. pos[c] \in R
      BY <1>1 DEF StoreInv, AtEntry
    <2>2. pos[c] \in 1..Len(Entries[c])
      BY <1>2, <2>1
    <2> QED BY <2>2, EntriesType DEF StoreInv
  <1> HIDE DEF R
  <1>4. rest \in SUBSET Nat /\ rest \subseteq R
    BY <1>2
  <1>5. \A i \in R : i > pos[c] => i \in rest
    OBVIOUS
  <1> HIDE DEF rest
  <1>6. rest # {} => Min(rest) \in rest /\ Min(rest) \in Nat /\ \A i \in rest : Min(rest) <= i
    BY <1>4, MinDef
  <1>7. CASE rest = {}
    <2>1. at' \in [Batches -> Phases] /\ at'[c] = "repaired" /\ (\A d \in Batches : d # c => at'[d] = at[d]) /\ pos' = pos
      BY <1>1, <1>7 DEF Phases
    <2> QED BY <1>1, <1>3, <1>5, <1>7, <2>1 DEF R
  <1>8. CASE rest # {}
    <2>1. /\ pos' \in [Batches -> Nat] /\ pos'[c] = Min(rest) /\ (\A d \in Batches : d # c => pos'[d] = pos[d])
          /\ at' = at
      BY <1>1, <1>6, <1>8
    <2> QED BY <1>1, <1>3, <1>4, <1>5, <1>6, <1>8, <2>1 DEF R
  <1> QED BY <1>7, <1>8

\* A call's state after it.
LEMMA RepairCall ==
  ASSUME StoreInv, NEW c \in Batches, Repair(c)
  PROVE  CallInv'
  <1> USE CallTypes
  <1> DEFINE k == Entries[c][pos[c]]
  <1>1. /\ at[c] = "repair" /\ k \in Keys /\ RunExpire(c, k)
        /\ UNCHANGED <<val, seen, order, send, first, bad, overlap, lost, errors, broken, crashes>>
        /\ at' \in [Batches -> Phases] /\ pos' \in [Batches -> Nat]
        /\ \A d \in Batches : d # c => at'[d] = at[d] /\ pos'[d] = pos[d]
        /\ at'[c] \in {"repair", "repaired"}
        /\ at'[c] = "repair" => pos'[c] \in Recreated(c)
    BY RepairEffect
  <1> HIDE DEF k
  <1>2. /\ ttl' \in [Keys -> {"absent", "volatile", "immortal"}]
        /\ conf' \in [Batches -> SUBSET Keys] /\ denied' \in Nat
        /\ \A q \in Keys : ttl'[q] = "absent" => ttl[q] = "absent"
        /\ \A d \in Batches : d # c => conf'[d] = conf[d]
    BY <1>1, ExpireRuns DEF StoreInv
  <1>3. StoreTypes'
    <2>1. overlap' \in BOOLEAN
      BY <1>1 DEF StoreInv, StoreTypes
    <2> QED BY <1>1, <1>2, <2>1 DEF StoreTypes
  <1>4. AtEntry'
    BY <1>1 DEF StoreInv, AtEntry, Recreated, FirstWrites
  <1>5. ConfirmedIsSent'
    BY <1>1, <1>2 DEF StoreInv, ConfirmedIsSent, Main
  <1>6. LostIsZero' /\ ErrorsCounted'
    BY <1>1, <1>2 DEF StoreInv, LostIsZero, ErrorsCounted
  <1> QED BY <1>3, <1>4, <1>5, <1>6 DEF CallInv

\* Calls that are over, for the call c or for those of a replica.
Ends(D) ==
    /\ at' \in [Batches -> Phases]
    /\ \A d \in Batches : at'[d] = IF d \in D THEN "done" ELSE at[d]
    /\ UNCHANGED <<val, ttl, pos, send, first, conf, bad, overlap, lost, errors, denied>>
    /\ broken' \in Nat /\ crashes' \in Nat /\ broken' >= broken /\ crashes' >= crashes
    /\ seen' \in [Replicas -> SUBSET Keys]

\* The three ways a call ends.
LEMMA EndEffect ==
  ASSUME StoreInv
  PROVE  /\ \A c \in Batches : CommitRepairs(c) =>
               Ends({c}) /\ at[c] = "repaired" /\ broken' = broken /\ crashes' = crashes
               /\ SetCache(RepOf[c], Settled(c, Len(Entries[c]), {}))
         /\ \A c \in Batches : Break(c) => Ends({c}) /\ broken' > 0 /\ c \in InFlight
         /\ \A p \in Replicas : Crash(p) =>
               /\ Ends({c \in Batches : RepOf[c] = p /\ c \in InFlight})
               /\ crashes' > 0 /\ seen'[p] = {} /\ broken' = broken
               /\ \A q \in Replicas : q # p => seen'[q] = seen[q]
  <1> USE CallTypes
  <1>1. ASSUME NEW c \in Batches, CommitRepairs(c)
        PROVE  Ends({c}) /\ at[c] = "repaired" /\ broken' = broken /\ crashes' = crashes
               /\ SetCache(RepOf[c], Settled(c, Len(Entries[c]), {}))
    <2>1. /\ at[c] = "repaired" /\ at' = [at EXCEPT ![c] = "done"]
          /\ SetCache(RepOf[c], Settled(c, Len(Entries[c]), {}))
          /\ UNCHANGED <<val, ttl, pos, send, first, conf, bad, overlap, faultVars>>
      BY <1>1 DEF CommitRepairs
    <2> DEFINE n == Len(Entries[c])
               R == {}
    <2>2. n \in 0..Len(Entries[c])
      BY EntriesType DEF StoreInv
    <2>3. seen' \in [Replicas -> SUBSET Keys]
      <3>1. SetCache(RepOf[c], Settled(c, n, R))
        BY <2>1
      <3> HIDE DEF n, R
      <3> QED BY <2>2, <3>1, SettledType
    <2>4. at' \in [Batches -> Phases] /\ \A d \in Batches : at'[d] = IF d \in {c} THEN "done" ELSE at[d]
      BY <2>1 DEF Phases
    <2>5. Ends({c}) /\ broken' = broken /\ crashes' = crashes
      BY <2>1, <2>3, <2>4 DEF Ends, faultVars
    <2> QED BY <2>1, <2>5
  <1>2. ASSUME NEW c \in Batches, Break(c)
        PROVE  Ends({c}) /\ broken' > 0 /\ c \in InFlight
    <2>1. /\ at[c] \in {"incr", "expire", "answered", "repair", "repaired"}
          /\ broken' = broken + 1 /\ at' = [at EXCEPT ![c] = "done"]
          /\ UNCHANGED <<val, ttl, seen, order, pos, send, first, conf, bad,
                         overlap, lost, errors, denied, crashes>>
      BY <1>2 DEF Break
    <2>2. at' \in [Batches -> Phases] /\ \A d \in Batches : at'[d] = IF d \in {c} THEN "done" ELSE at[d]
      BY <2>1 DEF Phases
    <2>3. broken' \in Nat /\ broken' > 0 /\ broken' >= broken /\ crashes' >= crashes
      BY <2>1
    <2> QED BY <2>1, <2>2, <2>3 DEF Ends, InFlight
  <1>3. ASSUME NEW p \in Replicas, Crash(p)
        PROVE  /\ Ends({c \in Batches : RepOf[c] = p /\ c \in InFlight})
               /\ crashes' > 0 /\ seen'[p] = {} /\ broken' = broken
               /\ \A q \in Replicas : q # p => seen'[q] = seen[q]
    <2> DEFINE D == {c \in Batches : RepOf[c] = p /\ c \in InFlight}
    <2>1. /\ crashes' = crashes + 1 /\ seen' = [seen EXCEPT ![p] = {}]
          /\ at' = [c \in Batches |-> IF RepOf[c] = p /\ c \in InFlight THEN "done" ELSE at[c]]
          /\ UNCHANGED <<val, ttl, pos, send, first, conf, bad, overlap, lost, errors, denied, broken>>
      BY <1>3 DEF Crash, SetCache
    <2>2. at' \in [Batches -> Phases] /\ \A d \in Batches : at'[d] = IF d \in D THEN "done" ELSE at[d]
      BY <2>1 DEF Phases
    <2>3. crashes' \in Nat /\ crashes' > 0 /\ broken' >= broken /\ crashes' >= crashes
      BY <2>1
    <2>4. {} \in SUBSET Keys
      OBVIOUS
    <2>5. seen' \in [Replicas -> SUBSET Keys] /\ seen'[p] = {} /\ \A q \in Replicas : q # p => seen'[q] = seen[q]
      BY <2>1, <2>4
    <2> HIDE DEF D
    <2>6. Ends(D)
      BY <2>1, <2>2, <2>3, <2>5 DEF Ends
    <2> QED BY <2>1, <2>3, <2>5, <2>6 DEF D
  <1> QED BY <1>1, <1>2, <1>3

\* The state of calls that end.
LEMMA EndCall ==
  ASSUME StoreInv, NEW D, Ends(D)
  PROVE  CallInv'
  <1> USE CallTypes
  <1>1. \A d \in Batches : at'[d] = at[d] \/ at'[d] = "done"
    BY DEF Ends
  <1>2. StoreTypes'
    <2>1. overlap' \in BOOLEAN
      BY DEF StoreInv, StoreTypes, Ends
    <2> QED BY <2>1 DEF Ends, StoreTypes
  <1>3. AtEntry'
    BY <1>1 DEF StoreInv, AtEntry, Recreated, FirstWrites, Ends
  <1>4. ConfirmedIsSent'
    BY <1>1 DEF StoreInv, ConfirmedIsSent, Main, Ends
  <1>5. LostIsZero' /\ ErrorsCounted'
    BY DEF StoreInv, LostIsZero, ErrorsCounted, Ends
  <1> QED BY <1>2, <1>3, <1>4, <1>5 DEF CallInv

\* Redis loses a key.
LEMMA LoseEffect ==
  ASSUME StoreInv, NEW k \in Keys, LoseKey(k)
  PROVE  /\ ttl' \in [Keys -> {"absent", "volatile", "immortal"}] /\ val' \in [Keys -> Int]
         /\ \A q \in Keys : ttl'[q] = "immortal" => ttl[q] = "immortal"
         /\ \A q \in Keys : ttl'[q] = "absent" => (ttl[q] = "absent" /\ val'[q] = val[q]) \/ val'[q] = 0
         /\ lost' \in Nat
         /\ UNCHANGED <<seen, order, batchVars, overlap, errors, denied, broken, crashes>>
  <1> USE CallTypes
  <1>1. /\ ttl' = [ttl EXCEPT ![k] = "absent"] /\ val' = [val EXCEPT ![k] = 0] /\ lost' = lost + 1
        /\ UNCHANGED <<seen, order, batchVars, overlap, errors, denied, broken, crashes>>
    BY DEF LoseKey
  <1> QED BY <1>1

\* The calls' state then.
LEMMA LoseCall ==
  ASSUME StoreInv, NEW k \in Keys, LoseKey(k)
  PROVE  CallInv'
  <1> USE CallTypes
  <1>1. /\ ttl' \in [Keys -> {"absent", "volatile", "immortal"}] /\ val' \in [Keys -> Int]
        /\ \A q \in Keys : ttl'[q] = "absent" => (ttl[q] = "absent" /\ val'[q] = val[q]) \/ val'[q] = 0
        /\ lost' \in Nat
        /\ UNCHANGED <<seen, order, batchVars, overlap, errors, denied, broken, crashes>>
    BY LoseEffect
  <1>2. StoreTypes'
    <2>1. overlap' \in BOOLEAN
      BY <1>1 DEF StoreInv, StoreTypes
    <2> QED BY <1>1, <2>1 DEF StoreTypes, batchVars
  <1>3. AtEntry' /\ ConfirmedIsSent' /\ ErrorsCounted'
    BY <1>1 DEF StoreInv, AtEntry, Recreated, FirstWrites, ConfirmedIsSent, ErrorsCounted, batchVars
  <1>4. LostIsZero'
    BY <1>1 DEF StoreInv, LostIsZero
  <1> QED BY <1>2, <1>3, <1>4 DEF CallInv

-----------------------------------------------------------------------------
(* Calls that do not overlap.                                              *)

\* A step that starts no call, settles nothing and recreates no confirmed key.
LEMMA StaysAlone ==
  ASSUME StoreInv, at' \in [Batches -> Phases], overlap' = overlap, send' = send,
         \A d \in Batches : at'[d] = at[d] \/ (at[d] \notin {"idle", "done"} /\ at'[d] # "idle"),
         \A d \in Batches : at'[d] \in Main => at[d] \in Main /\ seen'[RepOf[d]] \subseteq seen[RepOf[d]],
         ~overlap => \A d \in Batches : at'[d] \notin {"idle", "done"} =>
                        \A q \in conf'[d] : ttl'[q] # "immortal"
  PROVE  Alone'
  <1> USE CallTypes
  <1> SUFFICES ASSUME ~overlap
               PROVE  /\ \A c, d \in InFlight' : c = d
                      /\ \A c \in Batches : at'[c] \in Main => send'[c] \cap seen'[RepOf[c]] = {}
                      /\ \A c \in InFlight' : \A k \in conf'[c] : ttl'[k] # "immortal"
    BY DEF Alone
  <1>1. InFlight' \subseteq InFlight /\ InFlight' = {c \in Batches : at'[c] \notin {"idle", "done"}}
    BY DEF InFlight
  <1>2. /\ \A c, d \in InFlight : c = d
        /\ \A c \in Batches : at[c] \in Main => send[c] \cap seen[RepOf[c]] = {}
    BY DEF StoreInv, Alone
  <1>3. \A c, d \in InFlight' : c = d
    BY <1>1, <1>2
  <1>4. \A c \in Batches : at'[c] \in Main => send'[c] \cap seen'[RepOf[c]] = {}
    BY <1>2
  <1>5. \A c \in InFlight' : \A k \in conf'[c] : ttl'[k] # "immortal"
    BY <1>1
  <1> QED BY <1>3, <1>4, <1>5

\* A call that is alone.
LEMMA AloneDef ==
  ASSUME StoreInv, ~overlap
  PROVE  /\ \A c, d \in Batches : at[c] \notin {"idle", "done"} /\ at[d] \notin {"idle", "done"} => c = d
         /\ \A c \in Batches : at[c] \in Main => send[c] \cap seen[RepOf[c]] = {}
         /\ \A c \in Batches : at[c] \notin {"idle", "done"} => \A k \in conf[c] : ttl[k] # "immortal"
  BY DEF StoreInv, Alone, InFlight

\* Every step keeps Alone.
LEMMA AloneNext ==
  ASSUME StoreInv, [StoreNext]_storeVars, CallInv'
  PROVE  Alone'
  <1> USE CallTypes
  <1>0. at' \in [Batches -> Phases]
    BY DEF CallInv, StoreTypes
  <1>1. ASSUME NEW c \in Batches, Start(c) PROVE Alone'
    <2>1. /\ at[c] = "idle" /\ at' = [at EXCEPT ![c] = "incr"]
          /\ send' = [send EXCEPT ![c] = {k \in Keys : k \notin seen[RepOf[c]]}]
          /\ overlap' = (overlap \/ InFlight # {}) /\ seen' = seen /\ conf' = conf /\ ttl' = ttl
      BY <1>1 DEF Start
    <2> SUFFICES ASSUME ~overlap'
                 PROVE  /\ \A d, e \in InFlight' : d = e
                        /\ \A d \in Batches : at'[d] \in Main => send'[d] \cap seen'[RepOf[d]] = {}
                        /\ \A d \in InFlight' : \A k \in conf'[d] : ttl'[k] # "immortal"
      BY DEF Alone
    <2>2. InFlight = {} /\ ~overlap
      BY <2>1
    <2>3. \A d \in Batches : d # c => at'[d] = at[d] /\ at[d] \in {"idle", "done"}
      BY <2>1, <2>2 DEF InFlight
    <2>4. InFlight' \subseteq {c}
      BY <2>3 DEF InFlight
    <2>5. conf[c] = {}
      BY <2>1 DEF StoreInv, ConfirmedIsSent
    <2>6. \A d \in Batches : at'[d] \in Main => d = c
      BY <2>3 DEF Main
    <2>7. send'[c] \cap seen'[RepOf[c]] = {}
      BY <2>1
    <2> QED BY <2>1, <2>4, <2>5, <2>6, <2>7
  <1>2. ASSUME NEW c \in Batches, IncrBy(c) PROVE Alone'
    <2> DEFINE k == Entries[c][pos[c]]
    <2>1. /\ at[c] = "incr" /\ k \in Keys /\ pos[c] \in 1..Len(Entries[c])
          /\ UNCHANGED <<seen, order, send, conf, overlap, lost, denied, broken, crashes>>
          /\ Increments(c, k) \/ Errs(c)
          /\ Proceeds(c, k)
      BY <1>2, IncrByEffect
    <2>2. k \notin conf[c]
      BY <2>1 DEF StoreInv, ConfirmedIsSent
    <2> HIDE DEF k
    <2>3. \A d \in Batches : d # c => at'[d] = at[d]
      BY <2>1 DEF Proceeds
    <2>4. at'[c] \in Main
      BY <2>1 DEF Proceeds, Main
    <2>5. \A d \in Batches : at'[d] = at[d] \/ (at[d] \notin {"idle", "done"} /\ at'[d] # "idle")
      BY <2>1, <2>3, <2>4 DEF Main
    <2>6. \A d \in Batches : at'[d] \in Main => at[d] \in Main /\ seen'[RepOf[d]] \subseteq seen[RepOf[d]]
      BY <2>1, <2>3 DEF Main
    <2>7. ASSUME ~overlap, NEW d \in Batches, at'[d] \notin {"idle", "done"}, NEW q \in conf'[d]
          PROVE  ttl'[q] # "immortal"
      <3>1. at[d] \notin {"idle", "done"}
        BY <2>1, <2>3, <2>7
      <3>2. d = c /\ \A x \in conf[c] : ttl[x] # "immortal"
        BY <2>1, <2>7, <3>1, AloneDef
      <3>3. q \in conf[c] /\ q # k /\ q \in Keys
        BY <2>1, <2>2, <2>7, <3>2
      <3> QED BY <2>1, <3>2, <3>3 DEF Increments, Errs
    <2> QED BY <1>0, <2>1, <2>5, <2>6, <2>7, StaysAlone
  <1>3. ASSUME NEW c \in Batches, Expire(c) \/ Repair(c) PROVE Alone'
    <2> DEFINE k == Entries[c][pos[c]]
    <2>1. /\ k \in Keys /\ RunExpire(c, k) /\ seen' = seen /\ send' = send /\ overlap' = overlap
          /\ at[c] \notin {"idle", "done"} /\ (at[c] = "expire" \/ at'[c] \notin Main)
          /\ at'[c] \notin {"idle", "done"} /\ \A d \in Batches : d # c => at'[d] = at[d]
      <3>1. CASE Expire(c)
        <4>1. /\ at[c] = "expire" /\ k \in Keys /\ RunExpire(c, k) /\ Advance(c, "incr")
              /\ seen' = seen /\ send' = send /\ overlap' = overlap
          BY <3>1, ExpireEffect
        <4>2. at'[c] \in {"incr", "answered"} /\ \A d \in Batches : d # c => at'[d] = at[d]
          BY <4>1, AdvanceCall
        <4> QED BY <4>1, <4>2
      <3>2. CASE Repair(c)
        <4>1. /\ at[c] = "repair" /\ k \in Keys /\ RunExpire(c, k)
              /\ seen' = seen /\ send' = send /\ overlap' = overlap
              /\ at'[c] \in {"repair", "repaired"} /\ \A d \in Batches : d # c => at'[d] = at[d]
          BY <3>2, RepairEffect
        <4> QED BY <4>1 DEF Main
      <3> QED BY <1>3, <3>1, <3>2
    <2> HIDE DEF k
    <2>2. /\ \A q \in Keys : ttl'[q] = "immortal" => ttl[q] = "immortal"
          /\ \A d \in Batches : d # c => conf'[d] = conf[d]
          /\ conf'[c] \subseteq conf[c] \cup {k}
          /\ k \in conf'[c] => k \in conf[c] \/ ttl'[k] = "volatile"
          /\ conf' \in [Batches -> SUBSET Keys]
      BY <2>1, ExpireRuns DEF StoreInv
    <2>3. ASSUME ~overlap, NEW d \in Batches, at'[d] \notin {"idle", "done"}, NEW q \in conf'[d]
          PROVE  ttl'[q] # "immortal"
      <3>1. at[d] \notin {"idle", "done"}
        BY <2>1, <2>3
      <3>2. \A x \in conf[d] : ttl[x] # "immortal"
        BY <2>3, <3>1, AloneDef
      <3>3. q \in Keys
        BY <2>2
      <3> QED BY <2>2, <3>2, <3>3
    <2>4. \A d \in Batches : at'[d] \in Main => at[d] \in Main /\ seen'[RepOf[d]] \subseteq seen[RepOf[d]]
      BY <2>1 DEF Main
    <2>5. \A d \in Batches : at'[d] = at[d] \/ (at[d] \notin {"idle", "done"} /\ at'[d] # "idle")
      BY <2>1
    <2> QED BY <1>0, <2>1, <2>3, <2>4, <2>5, StaysAlone
  <1>4. ASSUME NEW c \in Batches, Settle(c) PROVE Alone'
    <2>1. /\ at[c] = "answered" /\ ttl' = ttl /\ send' = send /\ overlap' = overlap
          /\ \A d \in Batches : d # c => at'[d] = at[d] /\ conf'[d] = conf[d]
          /\ conf'[c] = {} /\ at'[c] \in {"done", "repair"}
      BY <1>4, SettleEffect
    <2>2. CASE overlap
      BY <2>1, <2>2 DEF Alone
    <2>3. CASE ~overlap
      <3>1. \A d \in Batches : d # c => at[d] \in {"idle", "done"}
        BY <2>1, <2>3, AloneDef
      <3>2. \A d \in Batches : at'[d] \notin Main
        BY <2>1, <3>1 DEF Main
      <3>3. \A d \in Batches : at'[d] \notin {"idle", "done"} => \A q \in conf'[d] : ttl'[q] # "immortal"
        BY <2>1, <3>1
      <3>4. \A d \in Batches : at'[d] = at[d] \/ (at[d] \notin {"idle", "done"} /\ at'[d] # "idle")
        BY <2>1
      <3> QED BY <1>0, <2>1, <3>2, <3>3, <3>4, StaysAlone
    <2> QED BY <2>2, <2>3
  <1>5. ASSUME NEW c \in Batches, CommitRepairs(c) \/ Break(c) PROVE Alone'
    <2>1. Ends({c}) /\ (at[c] = "repaired" \/ at[c] \notin {"idle", "done"})
      BY <1>5, EndEffect DEF InFlight
    <2>2. at[c] \notin {"idle", "done"}
      BY <2>1
    <2>3. at'[c] = "done" /\ (\A d \in Batches : d # c => at'[d] = at[d]) /\ ttl' = ttl /\ conf' = conf
          /\ send' = send /\ overlap' = overlap
      BY <2>1 DEF Ends
    <2>4. CASE overlap
      BY <2>3, <2>4 DEF Alone
    <2>5. CASE ~overlap
      <3>1. \A d \in Batches : at'[d] \in {"idle", "done"}
        BY <2>2, <2>3, <2>5, AloneDef
      <3>2. \A d \in Batches : at'[d] \notin Main
        BY <3>1 DEF Main
      <3>3. \A d \in Batches : at'[d] = at[d] \/ (at[d] \notin {"idle", "done"} /\ at'[d] # "idle")
        BY <2>2, <2>3
      <3> QED BY <1>0, <2>3, <3>1, <3>2, <3>3, StaysAlone
    <2> QED BY <2>4, <2>5
  <1>6. ASSUME NEW p \in Replicas, Crash(p) PROVE Alone'
    <2> DEFINE D == {c \in Batches : RepOf[c] = p /\ c \in InFlight}
    <2>1. Ends(D) /\ seen'[p] = {} /\ \A q \in Replicas : q # p => seen'[q] = seen[q]
      BY <1>6, EndEffect
    <2>2. \A d \in D : at[d] \notin {"idle", "done"}
      BY DEF InFlight
    <2> HIDE DEF D
    <2>3. (\A d \in Batches : at'[d] = IF d \in D THEN "done" ELSE at[d]) /\ ttl' = ttl /\ conf' = conf
          /\ send' = send /\ overlap' = overlap
      BY <2>1 DEF Ends
    <2>4. \A d \in Batches : RepOf[d] \in Replicas
      BY EntriesType DEF StoreInv
    <2>5. \A d \in Batches : at'[d] \in Main => at[d] \in Main /\ seen'[RepOf[d]] \subseteq seen[RepOf[d]]
      BY <2>1, <2>3, <2>4 DEF Main
    <2>6. \A d \in Batches : at'[d] = at[d] \/ (at[d] \notin {"idle", "done"} /\ at'[d] # "idle")
      BY <2>2, <2>3
    <2>7. ~overlap => \A d \in Batches : at'[d] \notin {"idle", "done"} =>
                         \A q \in conf'[d] : ttl'[q] # "immortal"
      BY <2>3, AloneDef
    <2> QED BY <1>0, <2>3, <2>5, <2>6, <2>7, StaysAlone
  <1>7. ASSUME NEW k \in Keys, LoseKey(k) PROVE Alone'
    <2>1. /\ \A q \in Keys : ttl'[q] = "immortal" => ttl[q] = "immortal"
          /\ UNCHANGED <<seen, order, batchVars, overlap, errors, denied, broken, crashes>>
      BY <1>7, LoseEffect
    <2>2. at' = at /\ conf' = conf /\ send' = send /\ seen' = seen /\ overlap' = overlap
      BY <2>1 DEF batchVars
    <2>3. ASSUME ~overlap, NEW d \in Batches, at'[d] \notin {"idle", "done"}, NEW q \in conf'[d]
          PROVE  ttl'[q] # "immortal"
      <3>1. q \in Keys /\ ttl[q] # "immortal"
        BY <2>2, <2>3, AloneDef
      <3> QED BY <2>1, <3>1
    <2> QED BY <1>0, <2>2, <2>3, StaysAlone
  <1>8. CASE UNCHANGED storeVars
    BY <1>8 DEF StoreInv, Alone, InFlight, storeVars, batchVars
  <1> QED BY <1>1, <1>2, <1>3, <1>4, <1>5, <1>6, <1>7, <1>8 DEF StoreNext

-----------------------------------------------------------------------------
(* Who owes a key its EXPIRE, and who knows that it needs one.             *)

\* Every step keeps the parts of the invariant that concern one call.
LEMMA CallInvNext ==
  ASSUME StoreInv, [StoreNext]_storeVars
  PROVE  CallInv'
  <1>1. CASE \E c \in Batches : Start(c)
    BY <1>1, StartCall
  <1>2. CASE \E c \in Batches : IncrBy(c)
    BY <1>2, IncrByCall
  <1>3. CASE \E c \in Batches : Expire(c)
    BY <1>3, ExpireCall
  <1>4. CASE \E c \in Batches : Settle(c)
    BY <1>4, SettleCall
  <1>5. CASE \E c \in Batches : Repair(c)
    BY <1>5, RepairCall
  <1>6. CASE \E c \in Batches : CommitRepairs(c) \/ Break(c)
    <2>1. PICK c \in Batches : Ends({c})
      BY <1>6, EndEffect
    <2> QED
      BY <2>1, EndCall
  <1>7. CASE \E p \in Replicas : Crash(p)
    <2>1. PICK p \in Replicas : Ends({c \in Batches : RepOf[c] = p /\ c \in InFlight})
      BY <1>7, EndEffect
    <2> QED
      BY <2>1, EndCall
  <1>8. CASE \E k \in Keys : LoseKey(k)
    BY <1>8, LoseCall
  <1>9. CASE UNCHANGED storeVars
    BY <1>9 DEF StoreInv, CallInv, StoreTypes, AtEntry, ConfirmedIsSent, LostIsZero, ErrorsCounted,
                Recreated, FirstWrites, storeVars, batchVars, faultVars
  <1> QED
    BY <1>1, <1>2, <1>3, <1>4, <1>5, <1>6, <1>7, <1>8, <1>9 DEF StoreNext

\* A sum of numbers is 0 only if each of them is.
LEMMA SumIsZero ==
  ASSUME NEW a \in Nat, NEW b \in Nat, NEW c \in Nat, NEW d \in Nat, a + b + c + d = 0
  PROVE  a = 0 /\ b = 0 /\ c = 0 /\ d = 0
  OBVIOUS

\* The part of the state in which call d reads what it owes.
Keeps(d) == at'[d] = at[d] /\ pos'[d] = pos[d] /\ send'[d] = send[d] /\ first'[d] = first[d]

\* A call that does not move still notices and still owes what it did.
LEMMA OwesStays ==
  ASSUME NEW d, NEW k, Keeps(d)
  PROVE  (Owes(d, k) => Owes(d, k)') /\ (Notices(d, k) => Notices(d, k)')
  BY DEF Keeps, Owes, Notices, FirstWrites, Recreated

\* A call that is about to send EXPIRE is running its own pipeline.
LEMMA OwesWhere ==
  ASSUME NEW d, NEW k, Owes(d, k)
  PROVE  at[d] \in Main \cup {"repair"}
  BY DEF Owes, Notices, Main

\* A call that notices still does while it is in its first pipeline.
LEMMA NoticesStays ==
  ASSUME NEW d, NEW k, Notices(d, k), at'[d] \in Main, send'[d] = send[d], first[d] \subseteq first'[d]
  PROVE  Notices(d, k)'
  BY DEF Notices, FirstWrites

\* INCRBY: the call that recreates a key owes it an EXPIRE.
LEMMA IncrByOwes ==
  ASSUME StoreInv, NEW c \in Batches, IncrBy(c), errors' = 0, NEW k \in Keys, ttl'[k] = "immortal",
         ttl[k] = "immortal" => \E d \in Batches : Owes(d, k)
  PROVE  \E d \in Batches : Owes(d, k)'
  <1> DEFINE q == Entries[c][pos[c]]
  <1> HIDE DEF q
  <1>1. /\ at[c] = "incr" /\ q \in Keys /\ pos[c] \in 1..Len(Entries[c])
        /\ UNCHANGED <<seen, order, send, conf, overlap, lost, denied, broken, crashes>>
        /\ Increments(c, q) \/ Errs(c)
        /\ Proceeds(c, q)
    BY IncrByEffect DEF q
  <1>2. Increments(c, q)
    BY <1>1 DEF Errs
  <1>3. at'[c] \in Main /\ \A d \in Batches : d # c => Keeps(d)
    BY <1>1, <1>2 DEF Proceeds, Increments, Keeps, Main
  <1>4. CASE ttl[k] = "immortal"
    <2>1. PICK d \in Batches : Owes(d, k)
      BY <1>4
    <2>2. CASE d # c
      BY <1>3, <2>1, <2>2, OwesStays
    <2>3. CASE d = c
      <3>1. Notices(c, k)
        BY <1>1, <2>1, <2>3 DEF Owes
      <3>2. Notices(c, k)'
        BY <1>1, <1>2, <1>3, <3>1, NoticesStays DEF Increments
      <3> QED
        BY <3>2 DEF Owes
    <2> QED
      BY <2>2, <2>3
  <1>5. CASE ttl[k] # "immortal"
    <2>1. k = q /\ k \in first'[c]
      BY <1>2, <1>5 DEF Increments
    <2>2. CASE k \in send[c]
      <3>1. at'[c] = "expire" /\ pos'[c] = pos[c]
        BY <1>1, <2>1, <2>2 DEF Proceeds
      <3> QED
        BY <2>1, <3>1 DEF Owes, q
    <2>3. CASE k \notin send[c]
      <3>1. k \in FirstWrites(c)'
        BY <1>1, <2>1, <2>3 DEF FirstWrites
      <3>2. \E i \in 1..Len(Entries[c]) : Entries[c][i] = k
        BY <1>1, <2>1 DEF q
      <3>3. Notices(c, k)'
        BY <1>3, <3>1, <3>2 DEF Notices
      <3> QED
        BY <3>3 DEF Owes
    <2> QED
      BY <2>2, <2>3
  <1> QED
    BY <1>4, <1>5

\* EXPIRE: the key it is for is mortal, and the call keeps what else it owes.
LEMMA ExpireOwes ==
  ASSUME StoreInv, NEW c \in Batches, Expire(c), denied' = denied, NEW k \in Keys, ttl'[k] = "immortal",
         ttl[k] = "immortal" => \E d \in Batches : Owes(d, k)
  PROVE  \E d \in Batches : Owes(d, k)'
  <1> DEFINE q == Entries[c][pos[c]]
  <1> HIDE DEF q
  <1>1. /\ at[c] = "expire" /\ q \in Keys /\ RunExpire(c, q) /\ Advance(c, "incr")
        /\ UNCHANGED <<val, seen, order, send, first, bad, overlap, lost, errors, broken, crashes>>
    BY ExpireEffect DEF q
  <1>2. ttl[k] = "immortal" /\ k # q
    BY <1>1, ExpireRuns DEF StoreInv
  <1>3. at'[c] \in Main /\ \A d \in Batches : d # c => Keeps(d)
    BY <1>1, AdvanceCall DEF Keeps, Main
  <1>4. PICK d \in Batches : Owes(d, k)
    BY <1>2
  <1>5. CASE d # c
    BY <1>3, <1>4, <1>5, OwesStays
  <1>6. CASE d = c
    <2>1. Notices(c, k)
      BY <1>1, <1>2, <1>4, <1>6 DEF Owes, q
    <2>2. Notices(c, k)'
      BY <1>1, <1>3, <2>1, NoticesStays
    <2> QED
      BY <2>2 DEF Owes
  <1> QED
    BY <1>5, <1>6

\* The replies are in: what the call has noticed it now repairs.
LEMMA SettleOwes ==
  ASSUME StoreInv, NEW c \in Batches, Settle(c), errors = 0, NEW k \in Keys, NEW d \in Batches, Owes(d, k)
  PROVE  \E e \in Batches : Owes(e, k)'
  <1>1. /\ at[c] = "answered"
        /\ UNCHANGED <<val, ttl, send, first, bad, overlap, faultVars>>
        /\ \A e \in Batches : e # c => at'[e] = at[e] /\ pos'[e] = pos[e]
        /\ at'[c] = "repair" => pos'[c] \in Recreated(c) /\ \A i \in Recreated(c) : pos'[c] <= i
        /\ bad[c] = 0 /\ Recreated(c) # {} => at'[c] = "repair"
    BY SettleEffect
  <1>2. CASE d # c
    <2>1. Keeps(d)
      BY <1>1, <1>2 DEF Keeps
    <2> QED
      BY <2>1, OwesStays
  <1>3. CASE d = c
    <2>1. Notices(c, k)
      BY <1>1, <1>3 DEF Owes
    <2>2. PICK i \in Recreated(c) : Entries[c][i] = k
      BY <2>1 DEF Notices, Recreated
    <2>3. bad[c] = 0
      BY EntriesType DEF StoreInv, ErrorsCounted
    <2>4. at'[c] = "repair" /\ pos'[c] <= i /\ pos'[c] \in Nat /\ i \in Nat
      BY <1>1, <2>2, <2>3, RecreatedType
    <2>5. Recreated(c)' = Recreated(c)
      BY <1>1 DEF Recreated, FirstWrites
    <2>6. i \in Recreated(c)' /\ i >= pos'[c]
      BY <2>2, <2>4, <2>5
    <2> QED
      BY <2>2, <2>4, <2>6 DEF Owes
  <1> QED
    BY <1>2, <1>3

\* A repair: the key it is for is mortal, the later ones are still to come.
LEMMA RepairOwes ==
  ASSUME StoreInv, NEW c \in Batches, Repair(c), denied' = denied, NEW k \in Keys, ttl'[k] = "immortal",
         ttl[k] = "immortal" => \E d \in Batches : Owes(d, k)
  PROVE  \E d \in Batches : Owes(d, k)'
  <1> DEFINE q == Entries[c][pos[c]]
  <1> HIDE DEF q
  <1>1. /\ at[c] = "repair" /\ q \in Keys /\ RunExpire(c, q)
        /\ UNCHANGED <<val, seen, order, send, first, bad, overlap, lost, errors, broken, crashes>>
        /\ pos' \in [Batches -> Nat]
        /\ \A d \in Batches : d # c => at'[d] = at[d] /\ pos'[d] = pos[d]
        /\ \A i \in Recreated(c) : i > pos[c] => at'[c] = "repair" /\ pos'[c] <= i
    BY RepairEffect DEF q
  <1>2. ttl[k] = "immortal" /\ k # q
    BY <1>1, ExpireRuns DEF StoreInv
  <1>4. PICK d \in Batches : Owes(d, k)
    BY <1>2
  <1>5. CASE d # c
    <2>1. Keeps(d)
      BY <1>1, <1>5 DEF Keeps
    <2> QED
      BY <1>4, <2>1, OwesStays
  <1>6. CASE d = c
    <2>1. PICK i \in Recreated(c) : i >= pos[c] /\ Entries[c][i] = k
      BY <1>1, <1>4, <1>6 DEF Owes, Notices, Main
    <2>2. i \in Nat /\ pos[c] \in Nat /\ i # pos[c]
      BY <1>2, <2>1, RecreatedType, CallTypes DEF q
    <2>3. at'[c] = "repair" /\ pos'[c] <= i /\ pos'[c] \in Nat
      BY <1>1, <2>1, <2>2
    <2>5. Recreated(c)' = Recreated(c)
      BY <1>1 DEF Recreated, FirstWrites
    <2>6. i \in Recreated(c)' /\ i >= pos'[c]
      BY <2>1, <2>2, <2>3, <2>5
    <2> QED
      BY <2>1, <2>3, <2>6 DEF Owes
  <1> QED
    BY <1>5, <1>6

\* Without a fault somebody owes every key without a time to live its EXPIRE.
LEMMA OwedNext ==
  ASSUME StoreInv, [StoreNext]_storeVars, CallInv'
  PROVE  ImmortalIsOwed'
  <1> SUFFICES ASSUME faults' = 0, NEW k \in Keys, ttl'[k] = "immortal"
               PROVE  \E d \in Batches : Owes(d, k)'
    BY DEF ImmortalIsOwed
  <1>1. errors' = 0 /\ denied' = 0 /\ broken' = 0 /\ crashes' = 0
    <2>1. errors' \in Nat /\ denied' \in Nat /\ broken' \in Nat /\ crashes' \in Nat
      BY DEF CallInv, StoreTypes
    <2>2. errors' + denied' + broken' + crashes' = 0
      BY DEF faults
    <2> QED
      BY <2>1, <2>2, SumIsZero
  <1>2. errors \in Nat /\ denied \in Nat /\ broken \in Nat /\ crashes \in Nat
    BY CallTypes
  <1>3. errors = 0 /\ denied = 0 /\ broken = 0 /\ crashes = 0 /\ ttl[k] = "immortal" =>
            \E d \in Batches : Owes(d, k)
    BY DEF StoreInv, ImmortalIsOwed, faults
  <1>4. CASE \E c \in Batches : Start(c)
    <2>1. PICK c \in Batches : Start(c)
      BY <1>4
    <2>2. /\ at[c] = "idle" /\ UNCHANGED <<ttl, pos, first, errors, denied, broken, crashes>>
          /\ at' = [at EXCEPT ![c] = "incr"] /\ \A d : d # c => send'[d] = send[d]
      BY <2>1, CallTypes DEF Start, faultVars
    <2>3. PICK d \in Batches : Owes(d, k)
      BY <1>1, <1>3, <2>2
    <2>4. d # c
      BY <2>2, <2>3, OwesWhere DEF Main
    <2>5. Keeps(d)
      BY <2>2, <2>4, CallTypes DEF Keeps
    <2> QED
      BY <2>3, <2>5, OwesStays
  <1>5. CASE \E c \in Batches : IncrBy(c)
    <2>1. PICK c \in Batches : IncrBy(c)
      BY <1>5
    <2>2. errors = 0
      <3> DEFINE q == Entries[c][pos[c]]
      <3> HIDE DEF q
      <3>1. Increments(c, q) \/ Errs(c)
        BY <2>1, IncrByEffect DEF q
      <3> QED
        BY <1>1, <3>1 DEF Increments, Errs
    <2>3. denied' = denied /\ broken' = broken /\ crashes' = crashes
      BY <2>1 DEF IncrBy
    <2> QED
      BY <1>1, <1>3, <2>1, <2>2, <2>3, IncrByOwes
  <1>6. CASE \E c \in Batches : Expire(c)
    <2>1. PICK c \in Batches : Expire(c)
      BY <1>6
    <2>2. errors' = errors /\ broken' = broken /\ crashes' = crashes
      BY <2>1 DEF Expire
    <2>3. denied = 0
      <3> DEFINE q == Entries[c][pos[c]]
      <3> HIDE DEF q
      <3>1. RunExpire(c, q)
        BY <2>1 DEF Expire, q
      <3> QED
        BY <1>1, <1>2, <3>1 DEF RunExpire
    <2> QED
      BY <1>1, <1>3, <2>1, <2>2, <2>3, ExpireOwes
  <1>7. CASE \E c \in Batches : Settle(c)
    <2>1. PICK c \in Batches : Settle(c)
      BY <1>7
    <2>2. UNCHANGED <<ttl, errors, denied, broken, crashes>>
      BY <2>1 DEF Settle, faultVars
    <2>3. PICK d \in Batches : Owes(d, k)
      BY <1>1, <1>3, <2>2
    <2> QED
      BY <1>1, <2>1, <2>2, <2>3, SettleOwes
  <1>8. CASE \E c \in Batches : Repair(c)
    <2>1. PICK c \in Batches : Repair(c)
      BY <1>8
    <2>2. errors' = errors /\ broken' = broken /\ crashes' = crashes
      BY <2>1 DEF Repair
    <2>3. denied = 0
      <3> DEFINE q == Entries[c][pos[c]]
      <3> HIDE DEF q
      <3>1. RunExpire(c, q)
        BY <2>1 DEF Repair, q
      <3> QED
        BY <1>1, <1>2, <3>1 DEF RunExpire
    <2> QED
      BY <1>1, <1>3, <2>1, <2>2, <2>3, RepairOwes
  <1>9. CASE \E c \in Batches : CommitRepairs(c)
    <2>1. PICK c \in Batches : CommitRepairs(c)
      BY <1>9
    <2>2. at[c] = "repaired" /\ Ends({c}) /\ broken' = broken /\ crashes' = crashes
      BY <2>1, EndEffect
    <2>3. PICK d \in Batches : Owes(d, k)
      BY <1>1, <1>3, <2>2 DEF Ends
    <2>4. d # c
      BY <2>2, <2>3, OwesWhere DEF Main
    <2>5. Keeps(d)
      BY <2>2, <2>4 DEF Keeps, Ends
    <2> QED
      BY <2>3, <2>5, OwesStays
  <1>10. CASE \E c \in Batches : Break(c)
    BY <1>1, <1>10, EndEffect
  <1>11. CASE \E p \in Replicas : Crash(p)
    BY <1>1, <1>11, EndEffect
  <1>12. CASE (\E q \in Keys : LoseKey(q)) \/ UNCHANGED storeVars
    <2>1. ttl[k] = "immortal" /\ UNCHANGED <<at, pos, send, first, errors, denied, broken, crashes>>
      <3>1. CASE UNCHANGED storeVars
        BY <3>1 DEF storeVars, batchVars, faultVars
      <3>2. CASE \E q \in Keys : LoseKey(q)
        BY <3>2, LoseEffect DEF batchVars
      <3> QED
        BY <1>12, <3>1, <3>2
    <2>2. PICK d \in Batches : Owes(d, k)
      BY <1>1, <1>3, <2>1
    <2>3. Keeps(d)
      BY <2>1 DEF Keeps
    <2> QED
      BY <2>2, <2>3, OwesStays
  <1> QED
    BY <1>4, <1>5, <1>6, <1>7, <1>8, <1>9, <1>10, <1>11, <1>12 DEF StoreNext

\* A replica or a call that knows of the key.
Knows(k) == (\E p \in Replicas : k \notin seen[p]) \/ \E c \in Batches : Notices(c, k)

\* What a call settles: the key that some call has noticed is forgotten.
LEMMA SettleKnows ==
  ASSUME StoreInv, NEW c \in Batches, Settle(c), ~overlap, errors = 0,
         NEW k \in Keys, ttl[k] = "immortal", Knows(k)
  PROVE  Knows(k)'
  <1> DEFINE p == RepOf[c]
             n == Processed(c)
             FW == FirstWrites(c)
  <1>1. /\ at[c] = "answered" /\ UNCHANGED <<send, first>>
        /\ \A e \in Batches : e # c => at'[e] = at[e] /\ pos'[e] = pos[e]
        /\ SetCache(p, Settled(c, n, FW))
    BY SettleEffect
  <1>2. p \in Replicas /\ n \in 0..Len(Entries[c]) /\ n = Len(Entries[c])
    BY EntriesType, ProcessedType DEF StoreInv
  <1>3. k \notin conf[c]
    BY <1>1, AloneDef
  <1>4. /\ \A r \in Replicas : r # p => seen'[r] = seen[r]
        /\ seen'[p] = Settled(c, n, FW).seen /\ seen'[p] \subseteq seen[p] \cup conf[c]
    <2> HIDE DEF n, FW
    <2> QED
      BY <1>1, <1>2, SettledType
  <1>5. CASE \E r \in Replicas : k \notin seen[r]
    <2>1. PICK r \in Replicas : k \notin seen[r]
      BY <1>5
    <2>2. k \notin seen'[r]
      BY <1>3, <1>4, <2>1
    <2> QED
      BY <2>2 DEF Knows
  <1>6. CASE \E d \in Batches : Notices(d, k)
    <2>1. PICK d \in Batches : Notices(d, k)
      BY <1>6
    <2>2. d = c
      BY <1>1, <2>1, AloneDef DEF Notices, Main
    <2>3. PICK i \in 1..Len(Entries[c]) : Entries[c][i] = k
      BY <2>1, <2>2 DEF Notices
    <2>4. k \in FW
      BY <2>1, <2>2 DEF Notices
    <2>5. k \notin Settled(c, n, FW).seen
      <3> HIDE DEF n, FW
      <3> QED
        BY <1>2, <1>3, <2>3, <2>4, SettledSeen
    <2> QED
      BY <1>2, <1>4, <2>5 DEF Knows
  <1> QED
    BY <1>5, <1>6 DEF Knows

\* A call that recreates a key leaves somebody who knows.
LEMMA IncrByKnows ==
  ASSUME StoreInv, NEW c \in Batches, IncrBy(c), ~overlap, errors' = 0, NEW k \in Keys, ttl'[k] = "immortal",
         ttl[k] = "immortal" => Knows(k)
  PROVE  Knows(k)'
  <1> DEFINE q == Entries[c][pos[c]]
  <1> HIDE DEF q
  <1>1. /\ at[c] = "incr" /\ q \in Keys /\ pos[c] \in 1..Len(Entries[c])
        /\ UNCHANGED <<seen, send>>
        /\ Increments(c, q) \/ Errs(c)
        /\ Proceeds(c, q)
    BY IncrByEffect DEF q
  <1>2. Increments(c, q)
    BY <1>1 DEF Errs
  <1>3. at'[c] \in Main /\ \A d \in Batches : d # c => Keeps(d)
    BY <1>1, <1>2 DEF Proceeds, Increments, Keeps, Main
  <1>4. CASE \E r \in Replicas : k \notin seen[r]
    BY <1>1, <1>4 DEF Knows
  <1>5. CASE \E d \in Batches : Notices(d, k)
    <2>1. PICK d \in Batches : Notices(d, k)
      BY <1>5
    <2>2. Notices(d, k)'
      BY <1>1, <1>2, <1>3, <2>1, NoticesStays, OwesStays DEF Increments
    <2> QED
      BY <2>2 DEF Knows
  <1>6. CASE ttl[k] # "immortal"
    <2>1. k = q /\ k \in first'[c]
      BY <1>2, <1>6 DEF Increments
    <2>2. CASE k \in send[c]
      <3>1. k \notin seen[RepOf[c]] /\ RepOf[c] \in Replicas
        BY <1>1, <2>2, AloneDef, EntriesType DEF Main, StoreInv
      <3> QED
        BY <1>1, <3>1 DEF Knows
    <2>3. CASE k \notin send[c]
      <3>1. k \in FirstWrites(c)'
        BY <1>1, <2>1, <2>3 DEF FirstWrites
      <3>2. \E i \in 1..Len(Entries[c]) : Entries[c][i] = k
        BY <1>1, <2>1 DEF q
      <3>3. Notices(c, k)'
        BY <1>3, <3>1, <3>2 DEF Notices
      <3> QED
        BY <3>3 DEF Knows
    <2> QED
      BY <2>2, <2>3
  <1> QED
    BY <1>4, <1>5, <1>6 DEF Knows

\* A step that leaves the caches alone and keeps every call that notices.
LEMMA KnowsStays ==
  ASSUME NEW k, Knows(k), \A p \in Replicas : k \notin seen[p] => k \notin seen'[p],
         \A d \in Batches : Notices(d, k) => Notices(d, k)'
  PROVE  Knows(k)'
  BY DEF Knows

\* While calls do not overlap and replies arrive, somebody knows of every key
\* without a time to live.
LEMMA KnownNext ==
  ASSUME StoreInv, [StoreNext]_storeVars, CallInv'
  PROVE  ImmortalIsKnown'
  <1> SUFFICES ASSUME ~overlap', broken' = 0, errors' = 0, NEW k \in Keys, ttl'[k] = "immortal"
               PROVE  Knows(k)'
    BY DEF ImmortalIsKnown, Knows
  <1>2. errors \in Nat /\ broken \in Nat
    BY CallTypes
  <1>3. ~overlap /\ broken = 0 /\ errors = 0 /\ ttl[k] = "immortal" => Knows(k)
    BY DEF StoreInv, ImmortalIsKnown, Knows
  <1>4. CASE \E c \in Batches : Start(c)
    <2>1. PICK c \in Batches : Start(c)
      BY <1>4
    <2>2. /\ at[c] = "idle" /\ UNCHANGED <<ttl, pos, first, errors, broken, seen>>
          /\ at' = [at EXCEPT ![c] = "incr"] /\ \A d : d # c => send'[d] = send[d]
      BY <2>1, CallTypes DEF Start, faultVars
    <2>3. ~overlap
      BY <2>1 DEF Start
    <2>4. Knows(k)
      BY <1>3, <2>2, <2>3
    <2>5. ASSUME NEW d \in Batches, Notices(d, k)
          PROVE  Notices(d, k)'
      <3>1. d # c
        BY <2>2, <2>5 DEF Notices, Main
      <3>2. Keeps(d)
        BY <2>2, <3>1, CallTypes DEF Keeps
      <3> QED
        BY <2>5, <3>2, OwesStays
    <2> QED
      BY <2>2, <2>4, <2>5, KnowsStays
  <1>5. CASE \E c \in Batches : IncrBy(c)
    <2>1. PICK c \in Batches : IncrBy(c)
      BY <1>5
    <2>2. errors = 0
      <3> DEFINE q == Entries[c][pos[c]]
      <3> HIDE DEF q
      <3>1. Increments(c, q) \/ Errs(c)
        BY <2>1, IncrByEffect DEF q
      <3> QED
        BY <3>1 DEF Increments, Errs
    <2>3. ~overlap /\ broken' = broken
      BY <2>1 DEF IncrBy
    <2> QED
      BY <1>3, <2>1, <2>2, <2>3, IncrByKnows
  <1>6. CASE \E c \in Batches : Expire(c)
    <2>1. PICK c \in Batches : Expire(c)
      BY <1>6
    <2> DEFINE q == Entries[c][pos[c]]
    <2> HIDE DEF q
    <2>2. /\ at[c] = "expire" /\ q \in Keys /\ RunExpire(c, q) /\ Advance(c, "incr")
          /\ UNCHANGED <<seen, send, first, overlap, errors, broken>>
      BY <2>1, ExpireEffect DEF q
    <2>3. ttl[k] = "immortal"
      BY <2>2, ExpireRuns DEF StoreInv
    <2>4. Knows(k)
      BY <1>3, <2>2, <2>3
    <2>5. at'[c] \in Main /\ \A d \in Batches : d # c => Keeps(d)
      BY <2>2, AdvanceCall DEF Keeps, Main
    <2>6. \A d \in Batches : Notices(d, k) => Notices(d, k)'
      BY <2>2, <2>5, OwesStays, NoticesStays
    <2> QED
      BY <2>2, <2>4, <2>6, KnowsStays
  <1>7. CASE \E c \in Batches : Settle(c)
    <2>1. PICK c \in Batches : Settle(c)
      BY <1>7
    <2>2. UNCHANGED <<ttl, overlap, errors, broken>>
      BY <2>1 DEF Settle, faultVars
    <2>3. ~overlap /\ errors = 0 /\ ttl[k] = "immortal" /\ Knows(k)
      BY <1>3, <2>2
    <2> QED
      BY <2>1, <2>3, SettleKnows
  <1>8. CASE \E c \in Batches : Repair(c)
    <2>1. PICK c \in Batches : Repair(c)
      BY <1>8
    <2> DEFINE q == Entries[c][pos[c]]
    <2> HIDE DEF q
    <2>2. /\ at[c] = "repair" /\ q \in Keys /\ RunExpire(c, q)
          /\ UNCHANGED <<seen, send, first, overlap, errors, broken>>
          /\ \A d \in Batches : d # c => at'[d] = at[d] /\ pos'[d] = pos[d]
      BY <2>1, RepairEffect DEF q
    <2>3. ttl[k] = "immortal"
      BY <2>2, ExpireRuns DEF StoreInv
    <2>4. Knows(k)
      BY <1>3, <2>2, <2>3
    <2>5. ASSUME NEW d \in Batches, Notices(d, k)
          PROVE  Notices(d, k)'
      <3>1. d # c
        BY <2>2, <2>5 DEF Notices, Main
      <3>2. Keeps(d)
        BY <2>2, <3>1 DEF Keeps
      <3> QED
        BY <2>5, <3>2, OwesStays
    <2> QED
      BY <2>2, <2>4, <2>5, KnowsStays
  <1>9. CASE \E c \in Batches : CommitRepairs(c)
    <2>1. PICK c \in Batches : CommitRepairs(c)
      BY <1>9
    <2> DEFINE n == Len(Entries[c])
    <2>2. /\ at[c] = "repaired" /\ Ends({c}) /\ broken' = broken
          /\ SetCache(RepOf[c], Settled(c, n, {}))
      BY <2>1, EndEffect
    <2>3. UNCHANGED <<ttl, overlap, errors, pos, send, first>> /\ ~overlap
      BY <2>2 DEF Ends
    <2>4. Knows(k) /\ ttl[k] = "immortal"
      BY <1>3, <2>2, <2>3
    <2>5. k \notin conf[c]
      BY <2>2, <2>3, <2>4, AloneDef
    <2>6. n \in 0..Len(Entries[c])
      BY EntriesType DEF StoreInv
    <2>7. /\ \A r \in Replicas : r # RepOf[c] => seen'[r] = seen[r]
          /\ seen'[RepOf[c]] \subseteq seen[RepOf[c]] \cup conf[c]
      <3> HIDE DEF n
      <3> DEFINE none == {}
      <3> HIDE DEF none
      <3>1. SetCache(RepOf[c], Settled(c, n, none))
        BY <2>2 DEF none
      <3> QED
        BY <2>6, <3>1, SettledType
    <2>8. ASSUME NEW d \in Batches, Notices(d, k)
          PROVE  Notices(d, k)'
      <3>1. d # c
        BY <2>2, <2>8 DEF Notices, Main
      <3>2. Keeps(d)
        BY <2>2, <2>3, <3>1 DEF Keeps, Ends
      <3> QED
        BY <2>8, <3>2, OwesStays
    <2>9. \A p \in Replicas : k \notin seen[p] => k \notin seen'[p]
      BY <2>5, <2>7
    <2> QED
      BY <2>4, <2>8, <2>9, KnowsStays
  <1>10. CASE \E c \in Batches : Break(c)
    BY <1>10, EndEffect
  <1>11. CASE \E p \in Replicas : Crash(p)
    <2>1. PICK p \in Replicas : Crash(p)
      BY <1>11
    <2>2. seen'[p] = {}
      BY <2>1, EndEffect
    <2> QED
      BY <2>2 DEF Knows
  <1>12. CASE (\E q \in Keys : LoseKey(q)) \/ UNCHANGED storeVars
    <2>1. ttl[k] = "immortal" /\ UNCHANGED <<seen, overlap, at, pos, send, first, errors, broken>>
      <3>1. CASE UNCHANGED storeVars
        BY <3>1 DEF storeVars, batchVars, faultVars
      <3>2. CASE \E q \in Keys : LoseKey(q)
        BY <3>2, LoseEffect DEF batchVars
      <3> QED
        BY <1>12, <3>1, <3>2
    <2>2. Knows(k)
      BY <1>3, <2>1
    <2>3. \A d \in Batches : Keeps(d)
      BY <2>1 DEF Keeps
    <2> QED
      BY <2>1, <2>2, <2>3, OwesStays, KnowsStays
  <1> QED
    BY <1>4, <1>5, <1>6, <1>7, <1>8, <1>9, <1>10, <1>11, <1>12 DEF StoreNext

-----------------------------------------------------------------------------
\* The store starts with no counter and no call.
LEMMA StoreInvInit ==
  ASSUME StoreInit
  PROVE  StoreInv
  <1>1. StoreTypes
    <2>1. overlap \in BOOLEAN
      BY Zenon DEF StoreInit
    <2> QED
      BY <2>1 DEF StoreInit, StoreTypes, Phases
  <1>2. AtEntry /\ ConfirmedIsSent
    BY EntriesType DEF StoreInit, AtEntry, ConfirmedIsSent, Main
  <1>3. LostIsZero /\ ErrorsCounted
    BY DEF StoreInit, LostIsZero, ErrorsCounted
  <1>4. Alone
    BY DEF StoreInit, Alone, InFlight, Main
  <1>5. ImmortalIsOwed /\ ImmortalIsKnown
    BY DEF StoreInit, ImmortalIsOwed, ImmortalIsKnown
  <1> QED
    BY <1>1, <1>2, <1>3, <1>4, <1>5 DEF StoreInv

\* Every step keeps the invariant.
LEMMA StoreInvNext ==
  ASSUME StoreInv, [StoreNext]_storeVars
  PROVE  StoreInv'
  <1>1. CallInv'
    BY CallInvNext
  <1>2. Alone' /\ ImmortalIsOwed' /\ ImmortalIsKnown'
    BY <1>1, AloneNext, OwedNext, KnownNext
  <1> QED
    BY <1>1, <1>2 DEF StoreInv, CallInv

\* A call that owes an EXPIRE, or has noticed that one is needed, is running.
LEMMA QuietOwesNothing ==
  ASSUME StoreInv, InFlight = {}, NEW k, NEW c \in Batches
  PROVE  ~Owes(c, k) /\ ~Notices(c, k)
  <1>1. at[c] \in {"idle", "done"}
    BY DEF InFlight
  <1> QED
    BY <1>1, OwesWhere DEF Notices, Main

\* Counters get their time to live: repairRecreatedExpires and the cache of
\* confirmed EXPIREs leave none without one when no call is running, unless a
\* fault came in between, and then a replica is left that will send it.
THEOREM CountersExpire == StoreSpec => []QuietMeansMortal
  <1>1. StoreInit => StoreInv
    BY StoreInvInit
  <1>2. StoreInv /\ [StoreNext]_storeVars => StoreInv'
    BY StoreInvNext
  <1>3. StoreInv => QuietMeansMortal
    <2> SUFFICES ASSUME StoreInv, InFlight = {}, NEW k \in Keys, ttl[k] = "immortal"
                 PROVE  /\ faults > 0
                        /\ ~overlap /\ broken = 0 /\ errors = 0 => \E p \in Replicas : k \notin seen[p]
      BY DEF QuietMeansMortal
    <2>1. faults # 0
      BY QuietOwesNothing DEF StoreInv, ImmortalIsOwed
    <2>2. faults \in Nat
      BY CallTypes DEF faults
    <2>3. ~overlap /\ broken = 0 /\ errors = 0 => \E p \in Replicas : k \notin seen[p]
      BY QuietOwesNothing DEF StoreInv, ImmortalIsKnown
    <2> QED
      BY <2>1, <2>2, <2>3
  <1> QED
    BY <1>1, <1>2, <1>3, PTL DEF StoreSpec

=============================================================================
