------------------------------ MODULE Watchdog ------------------------------
(***************************************************************************)
(* watchdogBody of timeout.go: a response body whose timer cancels the     *)
(* upstream request when no byte has been read for Timeout.  The caller    *)
(* reads, works (it may block on its client) and closes in one goroutine;  *)
(* every expiry of the timer runs fire in a goroutine of its own.          *)
(***************************************************************************)
EXTENDS Integers, FiniteSets

CONSTANTS
    Timeout,    \* requestTimeout, in ticks
    MaxChunks,  \* bound on the chunks the upstream sends
    MaxFires    \* bound on the expiries of the timer

ASSUME WatchdogAssumption == Timeout \in Nat \ {0} /\ MaxChunks \in Nat /\ MaxFires \in Nat \ {0}

VARIABLES
    timer,     \* ticks left, or Off
    silence,   \* history: ticks since the last byte was read or the wrap
    fires,     \* per expiry, where its fire goroutine is
    done,      \* Read has seen EOF
    timedOut,  \* a fire goroutine got past its check of done
    canceled,  \* the request's context is canceled
    gone,      \* the client has left: the parent context is canceled
    pc,        \* where the caller's goroutine is
    got,       \* what the wrapped Read returned
    answer,    \* what Read last returned to the caller
    chunks,    \* chunks read so far
    recorded,  \* calls of onTimeout
    sample     \* the latency sample that Close reported

readVars == <<got, answer, chunks>>
watchVars == <<timer, silence, fires, done, timedOut, canceled, gone, pc, readVars,
               recorded, sample>>

Off == -1
Results == {"data", "empty", "eof", "canceled", "error"}

\* newWatchdogBody: armed as soon as the headers have arrived.
WatchInit ==
    /\ timer = Timeout /\ silence = 0
    /\ fires = [i \in 1..MaxFires |-> "none"]
    /\ done = FALSE /\ timedOut = FALSE /\ canceled = FALSE /\ gone = FALSE
    /\ pc = "work" /\ got = "none" /\ answer = "none" /\ chunks = 0
    /\ recorded = 0 /\ sample = "none"

-----------------------------------------------------------------------------
(* Time and the fire goroutines.                                           *)

Tick ==
    /\ timer # 0
    /\ timer' = IF timer = Off THEN Off ELSE timer - 1
    /\ silence' = IF silence < Timeout THEN silence + 1 ELSE silence
    /\ timer # Off \/ silence < Timeout
    /\ UNCHANGED <<fires, done, timedOut, canceled, gone, pc, readVars, recorded, sample>>

\* time.AfterFunc: the timer expires and starts a goroutine that Stop can no
\* longer take back.
Expire(i) ==
    /\ timer = 0
    /\ fires[i] = "none"
    /\ \A j \in 1..(i - 1) : fires[j] # "none"
    /\ timer' = Off
    /\ fires' = [fires EXCEPT ![i] = "check"]
    /\ UNCHANGED <<silence, done, timedOut, canceled, gone, pc, readVars, recorded, sample>>

Check(i) ==
    /\ fires[i] = "check"
    /\ fires' = [fires EXCEPT ![i] = IF done THEN "over" ELSE "mark"]
    /\ UNCHANGED <<timer, silence, done, timedOut, canceled, gone, pc, readVars, recorded, sample>>

\* Faulty variant: cancel without saying why.
MarkLate(i) ==
    /\ fires[i] = "mark"
    /\ canceled' = TRUE
    /\ fires' = [fires EXCEPT ![i] = "cancel"]
    /\ UNCHANGED <<timer, silence, done, timedOut, gone, pc, readVars, recorded, sample>>

\* timedOut first, then cancel: the Read that cancel unblocks must find it.
Mark(i) ==
    /\ fires[i] = "mark"
    /\ timedOut' = TRUE
    /\ fires' = [fires EXCEPT ![i] = "cancel"]
    /\ UNCHANGED <<timer, silence, done, canceled, gone, pc, readVars, recorded, sample>>

Cancel(i) ==
    /\ fires[i] = "cancel"
    /\ canceled' = TRUE
    /\ fires' = [fires EXCEPT ![i] = "record"]
    /\ UNCHANGED <<timer, silence, done, timedOut, gone, pc, readVars, recorded, sample>>

Record(i) ==
    /\ fires[i] = "record"
    /\ recorded' = recorded + 1
    /\ fires' = [fires EXCEPT ![i] = "over"]
    /\ UNCHANGED <<timer, silence, done, timedOut, canceled, gone, pc, readVars, sample>>

Fire(i) == Expire(i) \/ Check(i) \/ Mark(i) \/ Cancel(i) \/ Record(i)

\* The client disconnects.
ClientLeaves ==
    /\ ~gone
    /\ gone' = TRUE
    /\ canceled' = TRUE
    /\ UNCHANGED <<timer, silence, fires, done, timedOut, pc, readVars, recorded, sample>>

-----------------------------------------------------------------------------
(* The caller's goroutine.                                                 *)

BeginRead ==
    /\ pc = "work"
    /\ answer \notin {"eof", "canceled", "error", "timeout"}
    /\ pc' = "reading"
    /\ UNCHANGED <<timer, silence, fires, done, timedOut, canceled, gone, readVars, recorded, sample>>

\* The wrapped Read returns.  A canceled context unblocks it; bytes or an EOF
\* that are already there may still be returned.
Return(res) ==
    /\ pc = "reading"
    /\ res = "canceled" => canceled
    /\ res = "empty" => ~canceled
    /\ res = "data" => chunks < MaxChunks
    /\ got' = res
    /\ chunks' = chunks + (IF res = "data" THEN 1 ELSE 0)
    /\ silence' = IF res = "data" THEN 0 ELSE silence
    /\ pc' = CASE res = "eof" -> "finish"
               [] res \in {"canceled", "error"} -> "fail"
               [] OTHER -> "reset"
    /\ UNCHANGED <<timer, fires, done, timedOut, canceled, gone, answer, recorded, sample>>

\* EOF: done first, then Stop.
Finish ==
    /\ pc = "finish"
    /\ done' = TRUE
    /\ pc' = "stop"
    /\ UNCHANGED <<timer, silence, fires, timedOut, canceled, gone, readVars, recorded, sample>>

StopTimer ==
    /\ pc = "stop"
    /\ timer' = Off
    /\ pc' = "fail"
    /\ UNCHANGED <<silence, fires, done, timedOut, canceled, gone, readVars, recorded, sample>>

\* Any error, EOF included, becomes the timeout once timedOut is set.
Fail ==
    /\ pc = "fail"
    /\ answer' = IF timedOut THEN "timeout" ELSE got
    /\ pc' = "work"
    /\ UNCHANGED <<timer, silence, fires, done, timedOut, canceled, gone, got, chunks, recorded, sample>>

\* Faulty variant: a read of no bytes re-arms the timer too.
RearmsAlways == TRUE

\* Faulty variant: no read re-arms the timer.
RearmsNever == FALSE

\* Only a read that delivered something re-arms the timer.
Rearms == got = "data"

Reset ==
    /\ pc = "reset"
    /\ timer' = IF Rearms THEN Timeout ELSE timer
    /\ answer' = got
    /\ pc' = "work"
    /\ UNCHANGED <<silence, fires, done, timedOut, canceled, gone, got, chunks, recorded, sample>>

\* Close, after the last read or early: stop, cancel, one latency sample.
Close ==
    /\ pc = "work"
    /\ pc' = "closed"
    /\ timer' = Off
    /\ canceled' = TRUE
    /\ sample' = IF chunks > 0 THEN "ttfb" ELSE "plain"
    /\ UNCHANGED <<silence, fires, done, timedOut, gone, readVars, recorded>>

Caller == Finish \/ StopTimer \/ Fail \/ Reset \/ BeginRead

WatchNext ==
    \/ Tick \/ ClientLeaves
    \/ \E i \in 1..MaxFires : Fire(i)
    \/ \E res \in Results : Return(res)
    \/ Caller \/ Close

WatchSpec == WatchInit /\ [][WatchNext]_watchVars

\* Timers run, goroutines are scheduled, the transport honours cancellation,
\* and a caller closes the body once Read has failed.  The upstream owes
\* nothing.
FairSpec ==
    /\ WatchSpec
    /\ WF_watchVars(Tick)
    /\ \A i \in 1..MaxFires : WF_watchVars(Fire(i))
    /\ WF_watchVars(Caller)
    /\ WF_watchVars(Return("canceled"))
    /\ WF_watchVars(Close /\ answer \in {"eof", "canceled", "error", "timeout"})

-----------------------------------------------------------------------------
\* Type invariant of the watchdog; with it, every body reports its latency
\* exactly when it is closed, however its reading ended.
WatchTypeOK ==
    /\ timer \in Off..Timeout /\ silence \in 0..Timeout
    /\ fires \in [1..MaxFires -> {"none", "check", "mark", "cancel", "record", "over"}]
    /\ {done, timedOut, canceled, gone} \subseteq BOOLEAN
    /\ pc \in {"work", "reading", "finish", "stop", "fail", "reset", "closed"}
    /\ got \in Results \cup {"none"}
    /\ answer \in Results \cup {"none", "timeout"}
    /\ chunks \in 0..MaxChunks
    /\ recorded \in 0..MaxFires
    /\ sample \in {"none", "ttfb", "plain"} /\ (sample = "none" <=> pc # "closed")

\* The request is never held for ever, and nothing is left behind: whatever the
\* upstream does or does not send, the caller gets its error and closes, because a
\* read of no bytes does not count as progress (finding F6 in Read's comment); and
\* a closed body has no armed timer, and its context is canceled.
AlwaysCloses == <>(pc = "closed") /\ [](pc = "closed" => timer = Off /\ canceled)

\* A cancellation by the watchdog is never reported as the client's, and a
\* client that leaves is not reported as a timeout unless the watchdog ran
\* out as well.
BlameIsRight ==
    /\ answer = "canceled" => gone
    /\ answer = "timeout" => \E i \in 1..MaxFires : fires[i] \in {"cancel", "record", "over"}

\* Only silence ends a stream, never its total duration: outside the window in
\* which a Read has its bytes and has not yet re-armed the timer, the timer
\* runs out only when nothing was read for Timeout.
OnlySilenceFires == timer = 0 /\ pc # "reset" => silence = Timeout

=============================================================================
