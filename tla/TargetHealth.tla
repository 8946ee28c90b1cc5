---------------------------- MODULE TargetHealth ----------------------------
(***************************************************************************)
(* target_health.go: the health of MCP servers and A2A agents as traffic   *)
(* and probes see it, and the sweep that probes all targets when a poll of *)
(* a listing, the dashboard or the metrics finds the interval elapsed.     *)
(* mcp_a2a.go: the proxy routes, which count and record the traffic.       *)
(***************************************************************************)
EXTENDS Integers, FiniteSets, Functions

CONSTANTS
    Targets,      \* configured MCP servers and agents
    Agents,       \* the agents among them, probed by their card
    Legacy,       \* servers of the legacy SSE transport, probed with a GET
    Stateful,     \* servers that may tell a session id to an initialize
    Pollers,      \* requests to routes that call maybeSweepTargetHealth
    Threshold,    \* targetHealth.failureThreshold
    Interval,     \* targetHealth.probeInterval, in ticks
    FanOut,       \* mcpFederatedFanoutConcurrency
    MaxClock,     \* bound on the clock
    MaxProxied    \* bound on the proxied requests

ASSUME HealthAssumption ==
    /\ IsFiniteSet(Targets)
    /\ Agents \subseteq Targets /\ Legacy \subseteq Targets \ Agents
    /\ Stateful \subseteq Targets \ (Agents \cup Legacy)
    /\ Threshold \in Nat \ {0} /\ Interval \in Nat \ {0} /\ FanOut \in Nat \ {0}
    /\ MaxClock \in Nat /\ MaxProxied \in Nat

VARIABLES
    entries,   \* targetHealthTracker.entries
    clock,     \* now, from 1: a last sweep of 0 means none
    lastSweep, \* targetHealthLastSweepUnixNano
    sweeping,  \* targetHealthSweeping
    poll,      \* per poller: where its request, later its sweep, is
    probe,     \* per poller and target: where the probe of its sweep is
    open,      \* sessions that an initialize opened at a backend, for whom, and
               \* whether the gateway kept the id it was told
    proxied    \* requests counted per target

sweepVars == <<clock, lastSweep, sweeping, poll, probe>>
healthVars == <<entries, sweepVars, open, proxied>>

NoEntry == [observed |-> FALSE, everOK |-> FALSE, failures |-> 0]

HealthInit ==
    /\ entries = [t \in Targets |-> NoEntry]
    /\ clock = 1 /\ lastSweep = 0 /\ sweeping = FALSE
    /\ poll = [p \in Pollers |-> "new"]
    /\ probe = [p \in Pollers |-> [t \in Targets |-> "none"]]
    /\ open = {}
    /\ proxied = [t \in Targets |-> 0]

-----------------------------------------------------------------------------
(* The tracker.                                                            *)

\* record: one observation, under the tracker's mutex.
Record(t, ok) ==
    entries' = [entries EXCEPT ![t] =
        [observed |-> TRUE, everOK |-> @.everOK \/ ok,
         failures |-> IF ok THEN 0 ELSE @.failures + 1]]

\* stateForLocked, read through snapshot.
StateOf(t) ==
    CASE ~entries[t].observed              -> "unknown"
      [] entries[t].failures >= Threshold  -> "unhealthy"
      [] ~entries[t].everOK                -> "unknown"
      [] OTHER                             -> "healthy"

-----------------------------------------------------------------------------
(* The sweep.                                                              *)

Tick ==
    /\ clock < MaxClock
    /\ clock' = clock + 1
    /\ UNCHANGED <<entries, lastSweep, sweeping, poll, probe, open, proxied>>

IntervalElapsed == lastSweep = 0 \/ clock - lastSweep >= Interval

\* The first look at the interval, without a lock.
Poll(p) ==
    /\ poll[p] = "new"
    /\ poll' = [poll EXCEPT ![p] = IF IntervalElapsed THEN "due" ELSE "done"]
    /\ UNCHANGED <<entries, clock, lastSweep, sweeping, probe, open, proxied>>

\* The compare-and-swap is lost: another sweep runs.
LoseSweep(p) ==
    /\ poll[p] = "due" /\ sweeping
    /\ poll' = [poll EXCEPT ![p] = "done"]
    /\ UNCHANGED <<entries, clock, lastSweep, sweeping, probe, open, proxied>>

\* It is won, but the second look finds that a whole sweep came in between.
BackOut(p) ==
    /\ poll[p] = "due" /\ ~sweeping /\ ~IntervalElapsed
    /\ poll' = [poll EXCEPT ![p] = "done"]
    /\ UNCHANGED <<entries, clock, lastSweep, sweeping, probe, open, proxied>>

\* Faulty variant: no second look at the interval after the compare-and-swap.
StartSweepUnchecked(p) ==
    /\ poll[p] = "due" /\ ~sweeping
    /\ sweeping' = TRUE /\ lastSweep' = clock
    /\ poll' = [poll EXCEPT ![p] = "sweeping"]
    /\ probe' = [probe EXCEPT ![p] = [t \in Targets |-> "wait"]]
    /\ UNCHANGED <<entries, clock, open, proxied>>
StartSweep(p) ==
    /\ poll[p] = "due" /\ ~sweeping /\ IntervalElapsed
    /\ sweeping' = TRUE /\ lastSweep' = clock
    /\ poll' = [poll EXCEPT ![p] = "sweeping"]
    /\ probe' = [probe EXCEPT ![p] = [t \in Targets |-> "wait"]]
    /\ UNCHANGED <<entries, clock, open, proxied>>

Probing(p) == {t \in Targets : probe[p][t] \in {"probing", "close"}}

AcquireProbe(p, t) ==
    /\ probe[p][t] = "wait"
    /\ Cardinality(Probing(p)) < FanOut
    /\ probe' = [probe EXCEPT ![p][t] = "probing"]
    /\ UNCHANGED <<entries, clock, lastSweep, sweeping, poll, open, proxied>>

Opened(who, t, id) == open \cup {<<who, t, id>>}

\* probeMCPTarget of a server that answers initialize with a session: the
\* session is closed, in a context of its own, before the result is recorded.
ProbeSession(p, t) ==
    /\ probe[p][t] = "probing" /\ t \in Stateful
    /\ open' = Opened(p, t, "kept")
    /\ probe' = [probe EXCEPT ![p][t] = "close"]
    /\ UNCHANGED <<entries, clock, lastSweep, sweeping, poll, proxied>>

\* Any other result: an error, a timeout, a JSON-RPC error or, of an agent
\* card or a legacy endpoint, a status; below 500 the target counts as up.
ProbeResult(p, t, ok) ==
    /\ probe[p][t] = "probing"
    /\ probe' = [probe EXCEPT ![p][t] = "done"]
    /\ Record(t, ok)
    /\ UNCHANGED <<clock, lastSweep, sweeping, poll, open, proxied>>

\* mcpBackendHandshake fails although the response told a session id: its status
\* is no success, its body breaks off, is too large or no JSON-RPC, or it is a
\* JSON-RPC error.  The id is dropped and the session stays.
ProbeLosesSession(p, t) ==
    /\ probe[p][t] = "probing" /\ t \in Stateful
    /\ open' = Opened(p, t, "lost")
    /\ probe' = [probe EXCEPT ![p][t] = "done"]
    /\ Record(t, FALSE)
    /\ UNCHANGED <<clock, lastSweep, sweeping, poll, proxied>>

\* The DELETE is sent; what becomes of it is not looked at.
ProbeClose(p, t) ==
    /\ probe[p][t] = "close"
    /\ open' = open \ {<<p, t, "kept">>}
    /\ probe' = [probe EXCEPT ![p][t] = "done"]
    /\ Record(t, TRUE)
    /\ UNCHANGED <<clock, lastSweep, sweeping, poll, proxied>>

\* A probe that panics is recovered and records nothing.
ProbePanics(p, t) ==
    /\ probe[p][t] = "probing"
    /\ probe' = [probe EXCEPT ![p][t] = "done"]
    /\ UNCHANGED <<entries, clock, lastSweep, sweeping, poll, open, proxied>>

\* wg.Wait returned; the deferred store clears the flag.
EndSweep(p) ==
    /\ poll[p] = "sweeping"
    /\ \A t \in Targets : probe[p][t] = "done"
    /\ sweeping' = FALSE
    /\ poll' = [poll EXCEPT ![p] = "done"]
    /\ UNCHANGED <<entries, clock, lastSweep, probe, open, proxied>>

-----------------------------------------------------------------------------
(* Traffic.                                                                *)

AllProxied == FoldFunction(+, 0, proxied)

\* handleTargetProxy of an admitted request: counted before it is sent, and
\* recorded after it unless the client canceled it.
ProxyTarget(t, result) ==
    /\ AllProxied < MaxProxied
    /\ proxied' = [proxied EXCEPT ![t] = @ + 1]
    /\ IF result = "canceled"
         THEN UNCHANGED entries
         ELSE Record(t, result = "below500")
    /\ UNCHANGED <<sweepVars, open>>

HealthNext ==
    \/ Tick
    \/ \E p \in Pollers :
         \/ Poll(p) \/ LoseSweep(p) \/ BackOut(p) \/ StartSweep(p) \/ EndSweep(p)
         \/ \E t \in Targets :
              \/ AcquireProbe(p, t) \/ ProbeSession(p, t) \/ ProbeClose(p, t)
              \/ ProbeLosesSession(p, t) \/ ProbePanics(p, t)
              \/ \E ok \in BOOLEAN : ProbeResult(p, t, ok)
    \/ \E t \in Targets, result \in {"below500", "5xx", "failed", "canceled"} :
         ProxyTarget(t, result)

-----------------------------------------------------------------------------
(* Properties.                                                             *)

Running(p) == poll[p] = "sweeping"

\* Sweeps never overlap and start at least an interval apart, though polls read
\* the interval before they win the flag (target_health.go:401-422).
SweepsApart ==
    [][\A p \in Pollers : ~Running(p) /\ Running(p)' =>
          /\ \A q \in Pollers : ~Running(q)
          /\ lastSweep = 0 \/ clock - lastSweep >= Interval]_healthVars
=============================================================================
