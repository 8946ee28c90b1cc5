-------------------------- MODULE FederationProofs --------------------------
(***************************************************************************)
(* Proofs about Federation and TargetHealth, for any number of requests,   *)
(* servers and polls, with federated requests and sweeps interleaved.      *)
(***************************************************************************)
EXTENDS Federation, FiniteSetTheorems, WellFoundedInduction, TLAPS

-----------------------------------------------------------------------------
(* The inductive invariant.                                                *)

Entry == [observed : BOOLEAN, everOK : BOOLEAN, failures : Nat]
ProbePlaces == {"none", "wait", "probing", "close", "done"}
Sessions == (Requests \cup Pollers) \X Targets \X {"kept", "lost"}

HealthTypes ==
    /\ entries \in [Targets -> Entry]
    /\ clock \in Nat /\ lastSweep \in Nat /\ sweeping \in BOOLEAN
    /\ poll \in [Pollers -> {"new", "due", "sweeping", "done"}]
    /\ probe \in [Pollers -> [Targets -> ProbePlaces]]
    /\ open \subseteq Sessions
    /\ proxied \in [Targets -> Nat]

\* The flag is set while a sweep runs, and one sweep runs at a time.
OneSweep ==
    /\ \A p \in Pollers : Running(p) => sweeping
    /\ \A p, q \in Pollers : Running(p) /\ Running(q) => p = q

\* A poll has probes only while its sweep runs.
ProbesOf(p) ==
    /\ poll[p] \in {"new", "due"} => \A t \in Targets : probe[p][t] = "none"
    /\ poll[p] = "done" => \A t \in Targets : probe[p][t] \in {"none", "done"}
    /\ \A t \in Targets : <<p, t, "kept">> \in open => probe[p][t] = "close"

HealthInv == HealthTypes /\ OneSweep /\ \A p \in Pollers : ProbesOf(p)

Places == {"none", "sem", "gate", "bare", "init", "retry", "close", "return", "done"}
Results == {"none", "result", "failed", "rpcError", "large", "canceled"}
Replies == Results \cup {"http400", "sessionError", "expired"}
Job == [at : Places, pages : Nat, first : Results, out : Results]
Answers == Results \cup {"refused", "local", "unknown tool", "unreachable", "listed",
                         "too large", "upstream error"}

FederatedTypes ==
    /\ state \in [Requests -> {"new", "listing", "calling", "done"}]
    /\ ctx \in [Requests -> {"live", "expired", "canceled"}]
    /\ job \in [Requests -> [Servers -> Job]]
    /\ tools \in [Requests -> [Servers -> SUBSET Seq(STRING)]]
    /\ merged \in [Requests -> Seq(Servers)] /\ replied \in [Requests -> Replies]
    /\ failed \in [Requests -> SUBSET Servers] /\ dialed \in [Requests -> SUBSET Servers]
    /\ called \in [Requests -> Seq(STRING)] /\ ran \in [Requests -> Nat]
    /\ answer \in [Requests -> Answers]
    /\ sem \in [Requests -> Int] /\ gate \in Int

\* Which jobs a request has: a listing one per allowed server, a call one at all.
Jobs(r) ==
    /\ state[r] = "new" => \A s \in Servers : job[r][s].at = "none"
    /\ state[r] = "done" => \A s \in Servers : job[r][s].at \in {"none", "done"}
    /\ state[r] = "listing" =>
         \A s \in Servers : job[r][s].at # "none" => s \in AllowedNames(r)
    /\ state[r] = "calling" =>
         /\ \A s \in Servers : job[r][s].at \notin {"sem", "gate"}
         /\ \A s, t \in Servers : job[r][s].at # "none" /\ job[r][t].at # "none" => s = t

\* A call that has not been sent has not run its tool; one that may be sent again
\* was refused, and ran it at most once.
Refused == {"http400", "sessionError"}
RunsOf(r) ==
    /\ state[r] \in {"new", "listing"} => ran[r] = 0
    /\ state[r] = "calling" => \A s \in Servers :
         /\ job[r][s].at = "bare" => ran[r] = 0
         /\ job[r][s].at \in {"init", "retry"} => ran[r] <= 1 /\ replied[r] \in Refused
    /\ ran[r] <= 1 \/ (ran[r] = 2 /\ replied[r] \in Refused)

\* A session is open between the handshake and its close.
SessionsOf(r) ==
    \A s \in Targets : <<r, s, "kept">> \in open => s \in Servers /\ job[r][s].at \in {"retry", "close"}

\* The goroutines that hold a slot of the gateway's semaphore.
AtGate == {"bare", "init", "retry", "close", "return"}
AtSem == AtGate \cup {"gate"}
GateHolders == {x \in Requests \X Servers : state[x[1]] = "listing" /\ job[x[1]][x[2]].at \in AtGate}

SlotsOf(r) == IsFiniteSet(Holding(r)) /\ sem[r] = Cardinality(Holding(r))
GateSlots == IsFiniteSet(GateHolders) /\ gate = Cardinality(GateHolders)

FederatedInv ==
    /\ FederatedTypes
    /\ \A r \in Requests : Jobs(r) /\ RunsOf(r) /\ SessionsOf(r) /\ SlotsOf(r)
    /\ GateSlots

IInv == HealthInv /\ FederatedInv

-----------------------------------------------------------------------------
(* The sweep.                                                              *)

\* Observations of a target.
LEMMA RecordType ==
  ASSUME entries \in [Targets -> Entry], NEW t \in Targets, NEW ok \in BOOLEAN, Record(t, ok)
  PROVE  entries' \in [Targets -> Entry]
  <1>1. entries[t] \in Entry /\ entries[t].everOK \in BOOLEAN /\ entries[t].failures \in Nat
    BY DEF Entry
  <1> DEFINE n == IF ok THEN 0 ELSE entries[t].failures + 1
             e == entries[t].everOK \/ ok
  <1>2. n \in Nat
    BY <1>1
  <1>3. e \in BOOLEAN /\ TRUE \in BOOLEAN
    BY Zenon
  <1>4. entries' = [entries EXCEPT ![t] = [observed |-> TRUE, everOK |-> e, failures |-> n]]
    BY DEF Record
  <1> HIDE DEF n, e
  <1>5. [observed |-> TRUE, everOK |-> e, failures |-> n] \in Entry
    BY <1>2, <1>3 DEF Entry
  <1> QED BY <1>4, <1>5

\* A poll the step leaves alone.
LEMMA OtherPoll ==
  ASSUME NEW p \in Pollers, ProbesOf(p), poll'[p] = poll[p], probe'[p] = probe[p],
         \A t \in Targets : <<p, t, "kept">> \in open' => <<p, t, "kept">> \in open
  PROVE  ProbesOf(p)'
  BY DEF ProbesOf

\* A step of traffic.
LEMMA HealthFrame ==
  ASSUME HealthInv, UNCHANGED sweepVars, entries' \in [Targets -> Entry],
         proxied' \in [Targets -> Nat], open' \subseteq Sessions,
         \A p \in Pollers, t \in Targets : <<p, t, "kept">> \in open' => <<p, t, "kept">> \in open
  PROVE  HealthInv'
  <1>1. HealthTypes' /\ OneSweep'
    BY DEF HealthInv, HealthTypes, OneSweep, Running, sweepVars
  <1>2. \A p \in Pollers : ProbesOf(p)'
    BY OtherPoll DEF HealthInv, sweepVars
  <1> QED BY <1>1, <1>2 DEF HealthInv

\* The probe of one target moves within a running sweep.
LEMMA ProbeMoves ==
  ASSUME HealthInv, NEW p \in Pollers, NEW t \in Targets, NEW x \in ProbePlaces,
         probe[p][t] \notin {"none", "done"}, probe' = [probe EXCEPT ![p][t] = x],
         UNCHANGED <<clock, lastSweep, sweeping, poll>>, x # "none",
         entries' \in [Targets -> Entry], proxied' \in [Targets -> Nat],
         open' \subseteq Sessions,
         \A q \in Pollers, u \in Targets : <<q, u, "kept">> \in open' =>
            (<<q, u, "kept">> \in open /\ (q # p \/ u # t)) \/ (q = p /\ u = t /\ x = "close")
  PROVE  HealthInv'
  <1>1. probe \in [Pollers -> [Targets -> ProbePlaces]] /\ ProbesOf(p) /\ poll[p] \in {"new", "due", "sweeping", "done"}
    BY DEF HealthInv, HealthTypes
  <1>2. /\ probe'[p] = [probe[p] EXCEPT ![t] = x] /\ probe' \in [Pollers -> [Targets -> ProbePlaces]]
        /\ \A q \in Pollers \ {p} : probe'[q] = probe[q]
        /\ probe'[p][t] = x /\ \A u \in Targets \ {t} : probe'[p][u] = probe[p][u]
    BY <1>1
  <1>3. HealthTypes' /\ OneSweep'
    BY <1>2 DEF HealthInv, HealthTypes, OneSweep, Running
  <1>4. poll[p] = "sweeping"
    BY <1>1 DEF ProbesOf
  <1>5. ProbesOf(p)'
    BY <1>1, <1>2, <1>4 DEF ProbesOf
  <1>6. \A q \in Pollers \ {p} : ProbesOf(q)'
    BY <1>2, OtherPoll DEF HealthInv
  <1> QED BY <1>3, <1>5, <1>6 DEF HealthInv

\* A poll ends, or goes on to the compare-and-swap, without a sweep.
LEMMA PollMoves ==
  ASSUME HealthInv, NEW p \in Pollers, NEW x \in {"due", "done"}, poll[p] \in {"new", "due"},
         poll' = [poll EXCEPT ![p] = x],
         UNCHANGED <<entries, clock, lastSweep, sweeping, probe, open, proxied>>
  PROVE  HealthInv'
  <1>1. /\ poll' \in [Pollers -> {"new", "due", "sweeping", "done"}] /\ poll'[p] = x
        /\ \A q \in Pollers \ {p} : poll'[q] = poll[q]
    BY DEF HealthInv, HealthTypes
  <1>2. HealthTypes' /\ OneSweep'
    BY <1>1 DEF HealthInv, HealthTypes, OneSweep, Running
  <1>3. ProbesOf(p)'
    BY <1>1 DEF HealthInv, ProbesOf
  <1>4. \A q \in Pollers \ {p} : ProbesOf(q)'
    BY <1>1, OtherPoll DEF HealthInv
  <1> QED BY <1>2, <1>3, <1>4 DEF HealthInv

\* Every step of the sweep and of the proxy routes.
LEMMA HealthStep ==
  ASSUME HealthInv, HealthNext
  PROVE  HealthInv'
  <1>0. HealthTypes /\ OneSweep /\ \A p \in Pollers : ProbesOf(p)
    BY DEF HealthInv
  <1>1. ASSUME Tick PROVE HealthInv'
    <2>1. HealthTypes' /\ OneSweep'
      BY <1>0, <1>1 DEF HealthTypes, OneSweep, Running, Tick
    <2>2. \A p \in Pollers : ProbesOf(p)'
      BY <1>0, <1>1, OtherPoll DEF Tick
    <2> QED BY <2>1, <2>2 DEF HealthInv
  <1>2. ASSUME NEW p \in Pollers, Poll(p) PROVE HealthInv'
    BY <1>2, PollMoves DEF Poll
  <1>3. ASSUME NEW p \in Pollers, LoseSweep(p) PROVE HealthInv'
    BY <1>3, PollMoves DEF LoseSweep
  <1>4. ASSUME NEW p \in Pollers, BackOut(p) PROVE HealthInv'
    BY <1>4, PollMoves DEF BackOut
  <1>5. ASSUME NEW p \in Pollers, StartSweep(p) PROVE HealthInv'
    <2>1. /\ poll[p] = "due" /\ ~sweeping /\ sweeping' = TRUE /\ lastSweep' = clock
          /\ poll' = [poll EXCEPT ![p] = "sweeping"]
          /\ probe' = [probe EXCEPT ![p] = [t \in Targets |-> "wait"]]
          /\ UNCHANGED <<entries, clock, open, proxied>>
      BY <1>5 DEF StartSweep
    <2>2. /\ poll'[p] = "sweeping" /\ \A q \in Pollers \ {p} : poll'[q] = poll[q] /\ probe'[q] = probe[q]
          /\ poll' \in [Pollers -> {"new", "due", "sweeping", "done"}]
          /\ probe' \in [Pollers -> [Targets -> ProbePlaces]]
      BY <1>0, <2>1 DEF HealthTypes, ProbePlaces
    <2>3. sweeping' \in BOOLEAN
      BY <2>1, Zenon
    <2>4. HealthTypes'
      BY <1>0, <2>1, <2>2, <2>3 DEF HealthTypes
    <2>5. OneSweep'
      BY <1>0, <2>1, <2>2 DEF OneSweep, Running
    <2>6. ProbesOf(p)'
      BY <1>0, <2>1, <2>2 DEF ProbesOf
    <2>7. \A q \in Pollers \ {p} : ProbesOf(q)'
      BY <1>0, <2>1, <2>2, OtherPoll
    <2> QED BY <2>4, <2>5, <2>6, <2>7 DEF HealthInv
  <1>6. ASSUME NEW p \in Pollers, EndSweep(p) PROVE HealthInv'
    <2>1. /\ poll[p] = "sweeping" /\ sweeping' = FALSE /\ poll' = [poll EXCEPT ![p] = "done"]
          /\ \A t \in Targets : probe[p][t] = "done"
          /\ UNCHANGED <<entries, clock, lastSweep, probe, open, proxied>>
      BY <1>6 DEF EndSweep
    <2>2. /\ poll'[p] = "done" /\ \A q \in Pollers \ {p} : poll'[q] = poll[q]
          /\ poll' \in [Pollers -> {"new", "due", "sweeping", "done"}]
      BY <1>0, <2>1 DEF HealthTypes
    <2>3. sweeping' \in BOOLEAN
      BY <2>1, Zenon
    <2>4. HealthTypes'
      BY <1>0, <2>1, <2>2, <2>3 DEF HealthTypes
    <2>5. OneSweep'
      BY <1>0, <2>1, <2>2 DEF OneSweep, Running
    <2>6. ProbesOf(p)'
      BY <1>0, <2>1, <2>2 DEF ProbesOf
    <2>7. \A q \in Pollers \ {p} : ProbesOf(q)'
      BY <1>0, <2>1, <2>2, OtherPoll
    <2> QED BY <2>4, <2>5, <2>6, <2>7 DEF HealthInv
  <1>7. ASSUME NEW p \in Pollers, NEW t \in Targets, AcquireProbe(p, t) PROVE HealthInv'
    <2>1. "probing" \in ProbePlaces
      BY DEF ProbePlaces
    <2>2. \A u \in Targets : <<p, u, "kept">> \in open => probe[p][u] = "close"
      BY <1>0 DEF ProbesOf
    <2> QED BY <1>0, <1>7, <2>1, <2>2, ProbeMoves DEF AcquireProbe, HealthTypes
  <1>8. ASSUME NEW p \in Pollers, NEW t \in Targets, ProbeSession(p, t) PROVE HealthInv'
    <2>1. "close" \in ProbePlaces
      BY DEF ProbePlaces
    <2>2. open' \subseteq Sessions /\ open' = open \cup {<<p, t, "kept">>}
      BY <1>0, <1>8 DEF ProbeSession, HealthTypes, Opened, Sessions
    <2>3. \A u \in Targets : <<p, u, "kept">> \in open => probe[p][u] = "close"
      BY <1>0 DEF ProbesOf
    <2> QED BY <1>0, <1>8, <2>1, <2>2, <2>3, ProbeMoves DEF ProbeSession, HealthTypes
  <1>9. ASSUME NEW p \in Pollers, NEW t \in Targets, ProbeClose(p, t) PROVE HealthInv'
    <2>1. "done" \in ProbePlaces
      BY DEF ProbePlaces
    <2>2. entries' \in [Targets -> Entry]
      <3>1. TRUE \in BOOLEAN
        BY Zenon
      <3> QED BY <1>0, <1>9, <3>1, RecordType DEF ProbeClose, HealthTypes
    <2> QED BY <1>0, <1>9, <2>1, <2>2, ProbeMoves DEF ProbeClose, HealthTypes
  <1>10. ASSUME NEW p \in Pollers, NEW t \in Targets, ProbePanics(p, t) PROVE HealthInv'
    <2>1. "done" \in ProbePlaces
      BY DEF ProbePlaces
    <2>2. \A u \in Targets : <<p, u, "kept">> \in open => probe[p][u] = "close"
      BY <1>0 DEF ProbesOf
    <2> QED BY <1>0, <1>10, <2>1, <2>2, ProbeMoves DEF ProbePanics, HealthTypes
  <1>11. ASSUME NEW p \in Pollers, NEW t \in Targets, NEW ok \in BOOLEAN, ProbeResult(p, t, ok)
         PROVE  HealthInv'
    <2>1. "done" \in ProbePlaces
      BY DEF ProbePlaces
    <2>2. entries' \in [Targets -> Entry]
      BY <1>0, <1>11, RecordType DEF ProbeResult, HealthTypes
    <2>3. \A u \in Targets : <<p, u, "kept">> \in open => probe[p][u] = "close"
      BY <1>0 DEF ProbesOf
    <2> QED BY <1>0, <1>11, <2>1, <2>2, <2>3, ProbeMoves DEF ProbeResult, HealthTypes
  <1>13. ASSUME NEW p \in Pollers, NEW t \in Targets, ProbeLosesSession(p, t) PROVE HealthInv'
    <2>1. "done" \in ProbePlaces
      BY DEF ProbePlaces
    <2>2. entries' \in [Targets -> Entry]
      <3>1. FALSE \in BOOLEAN
        BY Zenon
      <3> QED BY <1>0, <1>13, <3>1, RecordType DEF ProbeLosesSession, HealthTypes
    <2>3. open' \subseteq Sessions /\ open' = open \cup {<<p, t, "lost">>}
      BY <1>0, <1>13 DEF ProbeLosesSession, HealthTypes, Opened, Sessions
    <2>4. \A u \in Targets : <<p, u, "kept">> \in open => probe[p][u] = "close"
      BY <1>0 DEF ProbesOf
    <2> QED BY <1>0, <1>13, <2>1, <2>2, <2>3, <2>4, ProbeMoves DEF ProbeLosesSession, HealthTypes
  <1>12. ASSUME NEW t \in Targets, NEW result \in {"below500", "5xx", "failed", "canceled"},
                ProxyTarget(t, result)
         PROVE  HealthInv'
    <2>1. proxied' \in [Targets -> Nat]
      BY <1>0, <1>12 DEF ProxyTarget, HealthTypes
    <2>2. PICK ok \in BOOLEAN : ok = (result = "below500")
      BY Zenon
    <2>3. entries' \in [Targets -> Entry]
      <3>1. entries' = entries \/ Record(t, result = "below500")
        BY <1>12 DEF ProxyTarget
      <3>2. entries' = entries \/ Record(t, ok)
        BY <2>2, <3>1, Zenon
      <3>3. entries \in [Targets -> Entry]
        BY <1>0 DEF HealthTypes
      <3> QED BY <3>2, <3>3, RecordType
    <2> QED BY <1>0, <1>12, <2>1, <2>3, HealthFrame DEF ProxyTarget, HealthTypes
  <1> QED BY <1>1, <1>2, <1>3, <1>4, <1>5, <1>6, <1>7, <1>8, <1>9, <1>10, <1>11, <1>12, <1>13 DEF HealthNext

-----------------------------------------------------------------------------
(* Semaphores.                                                             *)

\* One job moves to j.
LEMMA JobMoves ==
  ASSUME FederatedTypes, NEW r \in Requests, NEW s \in Servers, NEW j \in Job,
         job' = [job EXCEPT ![r][s] = j]
  PROVE  /\ job' \in [Requests -> [Servers -> Job]] /\ job'[r][s] = j
         /\ \A u \in Servers \ {s} : job'[r][u] = job[r][u]
         /\ \A d \in Requests \ {r} : job'[d] = job[d]
  BY DEF FederatedTypes

\* It holds slots by where it is.
LEMMA HoldingMoves ==
  ASSUME FederatedTypes, NEW r \in Requests, NEW s \in Servers, NEW j \in Job,
         job' = [job EXCEPT ![r][s] = j], state' = state
  PROVE  /\ \A d \in Requests \ {r} : Holding(d)' = Holding(d)
         /\ s \in Holding(r) <=> state[r] = "listing" /\ job[r][s].at \in AtSem
         /\ Holding(r)' = IF state[r] = "listing" /\ j.at \in AtSem THEN Holding(r) \cup {s}
                          ELSE Holding(r) \ {s}
         /\ <<r, s>> \in GateHolders <=> state[r] = "listing" /\ job[r][s].at \in AtGate
         /\ GateHolders' = IF state[r] = "listing" /\ j.at \in AtGate THEN GateHolders \cup {<<r, s>>}
                           ELSE GateHolders \ {<<r, s>>}
  <1>1. /\ job'[r][s] = j /\ \A u \in Servers \ {s} : job'[r][u] = job[r][u]
        /\ \A d \in Requests \ {r} : job'[d] = job[d]
    BY JobMoves
  <1>2. \A d \in Requests \ {r} : Holding(d)' = Holding(d)
    BY <1>1 DEF Holding
  <1>3. s \in Holding(r) <=> state[r] = "listing" /\ job[r][s].at \in AtSem
    BY DEF Holding, AtSem, AtGate
  <1>4. Holding(r)' = IF state[r] = "listing" /\ j.at \in AtSem THEN Holding(r) \cup {s}
                      ELSE Holding(r) \ {s}
    BY <1>1 DEF Holding, AtSem, AtGate
  <1>5. <<r, s>> \in GateHolders <=> state[r] = "listing" /\ job[r][s].at \in AtGate
    BY DEF GateHolders
  <1>6. GateHolders' = IF state[r] = "listing" /\ j.at \in AtGate THEN GateHolders \cup {<<r, s>>}
                       ELSE GateHolders \ {<<r, s>>}
    <2>1. \A x \in Requests \X Servers : x # <<r, s>> => job'[x[1]][x[2]] = job[x[1]][x[2]]
      BY <1>1
    <2>2. \A x \in Requests \X Servers : x # <<r, s>> => (x \in GateHolders' <=> x \in GateHolders)
      BY <2>1 DEF GateHolders
    <2>3. <<r, s>> \in GateHolders' <=> state[r] = "listing" /\ j.at \in AtGate
      BY <1>1 DEF GateHolders
    <2>4. GateHolders \subseteq Requests \X Servers /\ GateHolders' \subseteq Requests \X Servers
      BY DEF GateHolders
    <2> QED BY <2>2, <2>3, <2>4
  <1> QED BY <1>2, <1>3, <1>4, <1>5, <1>6

\* A slot of the request's semaphore is kept, taken or given back with the move.
LEMMA SemMoves ==
  ASSUME FederatedInv, NEW r \in Requests, NEW s \in Servers, NEW j \in Job,
         job' = [job EXCEPT ![r][s] = j], state' = state,
         \/ sem' = sem /\ (state[r] = "listing" => (job[r][s].at \in AtSem <=> j.at \in AtSem))
         \/ /\ sem' = [sem EXCEPT ![r] = @ + 1] /\ state[r] = "listing"
            /\ job[r][s].at \notin AtSem /\ j.at \in AtSem
         \/ /\ sem' = [sem EXCEPT ![r] = @ - 1] /\ state[r] = "listing"
            /\ job[r][s].at \in AtSem /\ j.at \notin AtSem
  PROVE  sem' \in [Requests -> Int] /\ \A d \in Requests : SlotsOf(d)'
  <1>0. FederatedTypes /\ sem \in [Requests -> Int] /\ \A d \in Requests : SlotsOf(d)
    BY DEF FederatedInv, FederatedTypes
  <1>1. /\ \A d \in Requests \ {r} : Holding(d)' = Holding(d)
        /\ s \in Holding(r) <=> state[r] = "listing" /\ job[r][s].at \in AtSem
        /\ Holding(r)' = IF state[r] = "listing" /\ j.at \in AtSem THEN Holding(r) \cup {s}
                         ELSE Holding(r) \ {s}
    BY <1>0, HoldingMoves
  <1>2. sem' \in [Requests -> Int] /\ \A d \in Requests \ {r} : sem'[d] = sem[d]
    BY <1>0
  <1>3. \A d \in Requests \ {r} : SlotsOf(d)'
    BY <1>0, <1>1, <1>2 DEF SlotsOf
  <1>4. IsFiniteSet(Holding(r)) /\ sem[r] = Cardinality(Holding(r)) /\ sem[r] \in Int
    BY <1>0 DEF SlotsOf
  <1>5. CASE sem' = sem /\ (state[r] = "listing" => (job[r][s].at \in AtSem <=> j.at \in AtSem))
    <2>1. Holding(r)' = Holding(r)
      BY <1>1, <1>5
    <2> QED BY <1>2, <1>3, <1>4, <1>5, <2>1 DEF SlotsOf
  <1>6. CASE sem' = [sem EXCEPT ![r] = @ + 1] /\ state[r] = "listing" /\ job[r][s].at \notin AtSem /\ j.at \in AtSem
    <2>1. s \notin Holding(r) /\ Holding(r)' = Holding(r) \cup {s} /\ sem'[r] = sem[r] + 1
      BY <1>0, <1>1, <1>6
    <2>2. IsFiniteSet(Holding(r) \cup {s}) /\ Cardinality(Holding(r) \cup {s}) = Cardinality(Holding(r)) + 1
      BY <1>4, <2>1, FS_AddElement
    <2>3. SlotsOf(r)'
      BY <1>4, <2>1, <2>2 DEF SlotsOf
    <2> QED BY <1>2, <1>3, <2>3
  <1>7. CASE sem' = [sem EXCEPT ![r] = @ - 1] /\ state[r] = "listing" /\ job[r][s].at \in AtSem /\ j.at \notin AtSem
    <2>1. s \in Holding(r) /\ Holding(r)' = Holding(r) \ {s} /\ sem'[r] = sem[r] - 1
      BY <1>0, <1>1, <1>7
    <2>2. IsFiniteSet(Holding(r) \ {s}) /\ Cardinality(Holding(r) \ {s}) = Cardinality(Holding(r)) - 1
      BY <1>4, <2>1, FS_RemoveElement
    <2>3. SlotsOf(r)'
      BY <1>4, <2>1, <2>2 DEF SlotsOf
    <2> QED BY <1>2, <1>3, <2>3
  <1> QED BY <1>5, <1>6, <1>7

\* The same for the gateway's semaphore.
LEMMA GateMoves ==
  ASSUME FederatedInv, NEW r \in Requests, NEW s \in Servers, NEW j \in Job,
         job' = [job EXCEPT ![r][s] = j], state' = state,
         \/ gate' = gate /\ (state[r] = "listing" => (job[r][s].at \in AtGate <=> j.at \in AtGate))
         \/ /\ gate' = gate + 1 /\ state[r] = "listing"
            /\ job[r][s].at \notin AtGate /\ j.at \in AtGate
         \/ /\ gate' = gate - 1 /\ state[r] = "listing"
            /\ job[r][s].at \in AtGate /\ j.at \notin AtGate
  PROVE  gate' \in Int /\ GateSlots'
  <1>0. FederatedTypes /\ gate \in Int
    BY DEF FederatedInv, FederatedTypes
  <1>1. /\ <<r, s>> \in GateHolders <=> state[r] = "listing" /\ job[r][s].at \in AtGate
        /\ GateHolders' = IF state[r] = "listing" /\ j.at \in AtGate THEN GateHolders \cup {<<r, s>>}
                          ELSE GateHolders \ {<<r, s>>}
    BY <1>0, HoldingMoves
  <1>2. IsFiniteSet(GateHolders) /\ gate = Cardinality(GateHolders)
    BY DEF FederatedInv, GateSlots
  <1>3. CASE gate' = gate /\ (state[r] = "listing" => (job[r][s].at \in AtGate <=> j.at \in AtGate))
    <2>1. GateHolders' = GateHolders
      BY <1>1, <1>3
    <2> QED BY <1>0, <1>2, <1>3, <2>1 DEF GateSlots
  <1>4. CASE gate' = gate + 1 /\ state[r] = "listing" /\ job[r][s].at \notin AtGate /\ j.at \in AtGate
    <2>1. <<r, s>> \notin GateHolders /\ GateHolders' = GateHolders \cup {<<r, s>>}
      BY <1>1, <1>4
    <2>2. /\ IsFiniteSet(GateHolders \cup {<<r, s>>})
          /\ Cardinality(GateHolders \cup {<<r, s>>}) = Cardinality(GateHolders) + 1
      BY <1>2, <2>1, FS_AddElement
    <2> QED BY <1>0, <1>2, <1>4, <2>1, <2>2 DEF GateSlots
  <1>5. CASE gate' = gate - 1 /\ state[r] = "listing" /\ job[r][s].at \in AtGate /\ j.at \notin AtGate
    <2>1. <<r, s>> \in GateHolders /\ GateHolders' = GateHolders \ {<<r, s>>}
      BY <1>1, <1>5
    <2>2. /\ IsFiniteSet(GateHolders \ {<<r, s>>})
          /\ Cardinality(GateHolders \ {<<r, s>>}) = Cardinality(GateHolders) - 1
      BY <1>2, <2>1, FS_RemoveElement
    <2> QED BY <1>0, <1>2, <1>5, <2>1, <2>2 DEF GateSlots
  <1> QED BY <1>3, <1>4, <1>5

-----------------------------------------------------------------------------
(* One job of a request.                                                   *)

\* With the move of a job to j its tool has run n times, and a session is open only
\* where the job has one.
RunsFollow(r, s, j, n) ==
    /\ state[r] = "listing" => n = 0
    /\ state[r] = "calling" =>
         \/ /\ job[r][s].at = "bare" /\ j.at # "bare"
            /\ j.at \in {"init", "retry"} => replied'[r] \in Refused
         \/ job[r][s].at = "init" /\ n = 0 /\ j.at # "bare" /\ replied' = replied
         \/ job[r][s].at = "retry" /\ j.at \notin {"bare", "init", "retry"} /\ replied' = replied
         \/ n = 0 /\ j.at \notin {"bare", "init", "retry"} /\ replied' = replied
RepliesFollow(r) ==
    replied' \in [Requests -> Replies] /\ \A d \in Requests \ {r} : replied'[d] = replied[d]
SessionsFollow(r, s, j) ==
    \A d \in Requests, u \in Targets : <<d, u, "kept">> \in open' =>
        \/ <<d, u, "kept">> \in open /\ (d # r \/ u # s)
        \/ d = r /\ u = s /\ j.at \in {"retry", "close"}

\* A job moves while its request runs: n more runs of its tool, sessions opened and
\* closed by where it goes.
LEMMA JobStep ==
  ASSUME FederatedInv, NEW r \in Requests, NEW s \in Servers, NEW j \in Job, NEW n \in {0, 1},
         job' = [job EXCEPT ![r][s] = j], state' = state,
         job[r][s].at \notin {"none", "done"}, j.at # "none",
         state[r] = "calling" => j.at \notin {"sem", "gate"},
         ran' = [ran EXCEPT ![r] = @ + n],
         RunsFollow(r, s, j, n), RepliesFollow(r),
         SessionsFollow(r, s, j)
  PROVE  \A d \in Requests : Jobs(d)' /\ RunsOf(d)' /\ SessionsOf(d)'
  <1>0. FederatedTypes /\ \A d \in Requests : Jobs(d) /\ RunsOf(d) /\ SessionsOf(d)
    BY DEF FederatedInv
  <1>1. /\ job'[r][s] = j /\ \A u \in Servers \ {s} : job'[r][u] = job[r][u]
        /\ \A d \in Requests \ {r} : job'[d] = job[d]
    BY <1>0, JobMoves
  <1>2. /\ ran \in [Requests -> Nat] /\ ran[r] \in Nat /\ ran'[r] = ran[r] + n
        /\ \A d \in Requests \ {r} : ran'[d] = ran[d]
    BY <1>0 DEF FederatedTypes
  <1>3. state[r] \in {"listing", "calling"}
    <2>1. state[r] \in {"new", "listing", "calling", "done"}
      BY <1>0 DEF FederatedTypes
    <2>2. state[r] # "new" /\ state[r] # "done"
      BY <1>0 DEF Jobs
    <2> QED BY <2>1, <2>2
  <1>4. \A d \in Requests \ {r} : Jobs(d)' /\ RunsOf(d)' /\ SessionsOf(d)'
    <2> TAKE d \in Requests \ {r}
    <2>1. Jobs(d)'
      BY <1>0, <1>1 DEF Jobs, AllowedNames
    <2>2. RunsOf(d)'
      BY <1>0, <1>1, <1>2 DEF RunsOf, RepliesFollow
    <2>3. SessionsOf(d)'
      BY <1>0, <1>1 DEF SessionsOf, SessionsFollow
    <2> QED BY <2>1, <2>2, <2>3
  <1>5. Jobs(r)'
    <2>1. CASE state[r] = "listing"
      <3>1. \A u \in Servers : job'[r][u].at # "none" => u \in AllowedNames(r)
        BY <1>0, <1>1, <2>1 DEF Jobs
      <3> QED BY <2>1, <3>1 DEF Jobs, AllowedNames
    <2>2. CASE state[r] = "calling"
      <3>1. \A u \in Servers : job'[r][u].at \notin {"sem", "gate"}
        BY <1>0, <1>1, <2>2 DEF Jobs
      <3>2. \A u \in Servers : job'[r][u].at # "none" => u = s
        BY <1>0, <1>1, <2>2 DEF Jobs
      <3> QED BY <2>2, <3>1, <3>2 DEF Jobs
    <2> QED BY <1>3, <2>1, <2>2
  <1>6. RunsOf(r)'
    <2>1. CASE state[r] = "listing"
      BY <1>0, <1>2, <2>1 DEF RunsOf, RunsFollow
    <2>2. CASE state[r] = "calling"
      <3>1. \A u \in Servers : job'[r][u].at # "none" => u = s
        BY <1>0, <1>1, <2>2 DEF Jobs
      <3>2. /\ job[r][s].at = "bare" => ran[r] = 0
            /\ job[r][s].at \in {"init", "retry"} => ran[r] <= 1 /\ replied[r] \in Refused
            /\ ran[r] <= 1 \/ (ran[r] = 2 /\ replied[r] \in Refused)
        BY <1>0, <2>2 DEF RunsOf
      <3>3. /\ ran'[r] <= 1 \/ (ran'[r] = 2 /\ replied'[r] \in Refused)
            /\ j.at \in {"init", "retry"} => ran'[r] <= 1 /\ replied'[r] \in Refused
            /\ j.at # "bare"
        BY <1>2, <2>2, <3>2 DEF RunsFollow
      <3>4. \A u \in Servers :
              /\ job'[r][u].at = "bare" => ran'[r] = 0
              /\ job'[r][u].at \in {"init", "retry"} => ran'[r] <= 1 /\ replied'[r] \in Refused
        BY <1>1, <3>1, <3>3
      <3> QED BY <2>2, <3>3, <3>4 DEF RunsOf
    <2> QED BY <1>3, <2>1, <2>2
  <1>7. SessionsOf(r)'
    BY <1>0, <1>1 DEF SessionsOf, SessionsFollow
  <1> QED BY <1>4, <1>5, <1>6, <1>7

\* The types that no step of a job disturbs.
LEMMA JobTypes ==
  ASSUME FederatedInv, NEW r \in Requests, NEW s \in Servers, NEW j \in Job, NEW n \in {0, 1},
         job' = [job EXCEPT ![r][s] = j], ran' = [ran EXCEPT ![r] = @ + n],
         UNCHANGED <<state, ctx, called, answer>>, sem' \in [Requests -> Int], gate' \in Int,
         tools' \in [Requests -> [Servers -> SUBSET Seq(STRING)]],
         merged' \in [Requests -> Seq(Servers)], replied' \in [Requests -> Replies],
         failed' \in [Requests -> SUBSET Servers], dialed' \in [Requests -> SUBSET Servers]
  PROVE  FederatedTypes'
  <1>0. FederatedTypes
    BY DEF FederatedInv
  <1>1. job' \in [Requests -> [Servers -> Job]]
    BY <1>0, JobMoves
  <1>2. ran' \in [Requests -> Nat]
    BY <1>0 DEF FederatedTypes
  <1> QED BY <1>0, <1>1, <1>2 DEF FederatedTypes

\* A goroutine or call that does nothing but move: no run, no slot, no session.
LEMMA MoveOnly ==
  ASSUME FederatedInv, NEW r \in Requests, NEW s \in Servers, NEW j \in Job, NEW n \in {0, 1},
         job' = [job EXCEPT ![r][s] = j], ran' = [ran EXCEPT ![r] = @ + n],
         job[r][s].at \in AtGate, j.at \in AtGate,
         RunsFollow(r, s, j, n), RepliesFollow(r),
         UNCHANGED <<state, ctx, merged, failed, dialed, sem, gate, called, answer>>,
         tools' \in [Requests -> [Servers -> SUBSET Seq(STRING)]],
         SessionsFollow(r, s, j)
  PROVE  FederatedInv'
  <1>1. sem' \in [Requests -> Int] /\ \A d \in Requests : SlotsOf(d)'
    BY SemMoves DEF AtSem
  <1>2. gate' \in Int /\ GateSlots'
    BY GateMoves
  <1>3. FederatedTypes'
    BY <1>1, <1>2, JobTypes DEF FederatedInv, FederatedTypes, RepliesFollow
  <1>4. \A d \in Requests : Jobs(d)' /\ RunsOf(d)' /\ SessionsOf(d)'
    <2>1. job[r][s].at \notin {"none", "done"} /\ j.at # "none" /\ j.at \notin {"sem", "gate"}
      BY DEF AtGate
    <2>2. state' = state
      OBVIOUS
    <2> QED BY <2>1, <2>2, JobStep
  <1> QED BY <1>1, <1>2, <1>3, <1>4 DEF FederatedInv

\* A job that goes to x.
LEMMA JobAt ==
  ASSUME NEW j \in Job, NEW x \in Places
  PROVE  [j EXCEPT !.at = x] \in Job /\ [j EXCEPT !.at = x].at = x
  BY DEF Job

\* What holds of a job that runs.
LEMMA JobFacts ==
  ASSUME FederatedInv, NEW r \in Requests, NEW s \in Servers, job[r][s].at \notin {"none", "done"}
  PROVE  /\ job \in [Requests -> [Servers -> Job]] /\ job[r][s] \in Job
         /\ state[r] \in {"listing", "calling"}
         /\ job[r][s].at \in {"sem", "gate"} => state[r] = "listing"
         /\ ran \in [Requests -> Nat] /\ s \in Targets
  <1>1. FederatedTypes /\ Jobs(r)
    BY DEF FederatedInv
  <1>2. state[r] \in {"new", "listing", "calling", "done"} /\ job[r][s] \in Job
    BY <1>1 DEF FederatedTypes
  <1>3. state[r] # "new" /\ state[r] # "done" /\ (job[r][s].at \in {"sem", "gate"} => state[r] # "calling")
    BY <1>1 DEF Jobs
  <1> QED BY <1>1, <1>2, <1>3 DEF FederatedTypes, Servers

\* No run of the tool.
LEMMA NoRun ==
  ASSUME FederatedInv, NEW r \in Requests, ran' = ran, replied' = replied
  PROVE  ran' = [ran EXCEPT ![r] = @ + 0] /\ RepliesFollow(r)
  BY DEF FederatedInv, FederatedTypes, RepliesFollow

\* No session opened or closed.
LEMMA SameSessions ==
  ASSUME FederatedInv, NEW r \in Requests, NEW s \in Servers, NEW j \in Job, open' = open,
         job[r][s].at \notin {"retry", "close"} \/ j.at \in {"retry", "close"}
  PROVE  SessionsFollow(r, s, j)
  BY DEF FederatedInv, SessionsOf, SessionsFollow

\* A slot of the request's own semaphore is taken.
LEMMA AcquireSemStep ==
  ASSUME FederatedInv, NEW r \in Requests, NEW s \in Servers, AcquireSem(r, s)
  PROVE  FederatedInv'
  <1> DEFINE j == [job[r][s] EXCEPT !.at = "gate"]
  <1>0. /\ job[r][s].at = "sem" /\ sem' = [sem EXCEPT ![r] = @ + 1]
        /\ UNCHANGED <<state, ctx, tools, merged, failed, dialed, gate, called, replied, ran, answer, open>>
    BY DEF AcquireSem, healthVars
  <1>1. job[r][s] \in Job /\ state[r] = "listing" /\ job \in [Requests -> [Servers -> Job]]
    BY <1>0, JobFacts
  <1>2. "gate" \in Places
    BY DEF Places
  <1>3. j \in Job /\ j.at = "gate"
    BY <1>1, <1>2, JobAt
  <1>4. job' = [job EXCEPT ![r][s] = j]
    BY DEF AcquireSem
  <1> HIDE DEF j
  <1>5. "gate" \in AtSem /\ "sem" \notin AtSem /\ "gate" \notin AtGate /\ "sem" \notin AtGate
    BY DEF AtSem, AtGate
  <1>6. sem' \in [Requests -> Int] /\ \A d \in Requests : SlotsOf(d)'
    BY <1>0, <1>1, <1>3, <1>4, <1>5, SemMoves
  <1>7. gate' \in Int /\ GateSlots'
    BY <1>0, <1>1, <1>3, <1>4, <1>5, GateMoves
  <1>8. ran' = [ran EXCEPT ![r] = @ + 0] /\ RepliesFollow(r)
    BY <1>0, NoRun
  <1>9. FederatedTypes'
    BY <1>0, <1>3, <1>4, <1>6, <1>7, <1>8, JobTypes DEF FederatedInv, FederatedTypes
  <1>10. RunsFollow(r, s, j, 0)
    BY <1>1 DEF RunsFollow
  <1>11. SessionsFollow(r, s, j)
    BY <1>0, <1>3, SameSessions
  <1>12. \A d \in Requests : Jobs(d)' /\ RunsOf(d)' /\ SessionsOf(d)'
    BY <1>0, <1>1, <1>3, <1>4, <1>8, <1>10, <1>11, JobStep
  <1> QED BY <1>6, <1>7, <1>9, <1>12 DEF FederatedInv

\* A slot of the gateway's semaphore is taken too.
LEMMA AcquireGateStep ==
  ASSUME FederatedInv, NEW r \in Requests, NEW s \in Servers, AcquireGate(r, s)
  PROVE  FederatedInv'
  <1> DEFINE j == [job[r][s] EXCEPT !.at = "bare"]
  <1>0. /\ job[r][s].at = "gate" /\ gate' = gate + 1 /\ dialed' = [dialed EXCEPT ![r] = @ \cup {s}]
        /\ UNCHANGED <<state, ctx, tools, merged, failed, sem, called, replied, ran, answer, open>>
    BY DEF AcquireGate, healthVars
  <1>1. job[r][s] \in Job /\ state[r] = "listing" /\ job \in [Requests -> [Servers -> Job]]
    BY <1>0, JobFacts
  <1>2. "bare" \in Places
    BY DEF Places
  <1>3. j \in Job /\ j.at = "bare"
    BY <1>1, <1>2, JobAt
  <1>4. job' = [job EXCEPT ![r][s] = j]
    BY DEF AcquireGate
  <1> HIDE DEF j
  <1>5. "gate" \in AtSem /\ "bare" \in AtSem /\ "gate" \notin AtGate /\ "bare" \in AtGate
    BY DEF AtSem, AtGate
  <1>6. sem' \in [Requests -> Int] /\ \A d \in Requests : SlotsOf(d)'
    BY <1>0, <1>1, <1>3, <1>4, <1>5, SemMoves
  <1>7. gate' \in Int /\ GateSlots'
    BY <1>0, <1>1, <1>3, <1>4, <1>5, GateMoves
  <1>8. ran' = [ran EXCEPT ![r] = @ + 0] /\ RepliesFollow(r)
    BY <1>0, NoRun
  <1>9. dialed' \in [Requests -> SUBSET Servers]
    BY <1>0 DEF FederatedInv, FederatedTypes
  <1>10. FederatedTypes'
    BY <1>0, <1>3, <1>4, <1>6, <1>7, <1>8, <1>9, JobTypes DEF FederatedInv, FederatedTypes
  <1>11. RunsFollow(r, s, j, 0)
    BY <1>1 DEF RunsFollow
  <1>12. SessionsFollow(r, s, j)
    BY <1>0, <1>3, SameSessions
  <1>13. \A d \in Requests : Jobs(d)' /\ RunsOf(d)' /\ SessionsOf(d)'
    BY <1>0, <1>1, <1>3, <1>4, <1>8, <1>11, <1>12, JobStep
  <1> QED BY <1>6, <1>7, <1>10, <1>13 DEF FederatedInv

\* The context ends before both are taken.
LEMMA StarveStep ==
  ASSUME FederatedInv, NEW r \in Requests, NEW s \in Servers, Starve(r, s)
  PROVE  FederatedInv'
  <1> DEFINE j == [job[r][s] EXCEPT !.at = "done"]
  <1>0. /\ job[r][s].at \in {"sem", "gate"} /\ failed' = [failed EXCEPT ![r] = @ \cup {s}]
        /\ sem' = IF job[r][s].at = "gate" THEN [sem EXCEPT ![r] = @ - 1] ELSE sem
        /\ UNCHANGED <<state, ctx, tools, merged, dialed, gate, called, replied, ran, answer, open>>
    BY DEF Starve, healthVars
  <1>1. job[r][s] \in Job /\ state[r] = "listing" /\ job \in [Requests -> [Servers -> Job]]
    BY <1>0, JobFacts
  <1>2. "done" \in Places
    BY DEF Places
  <1>3. j \in Job /\ j.at = "done"
    BY <1>1, <1>2, JobAt
  <1>4. job' = [job EXCEPT ![r][s] = j]
    BY DEF Starve
  <1> HIDE DEF j
  <1>5. /\ "gate" \in AtSem /\ "sem" \notin AtSem /\ "done" \notin AtSem
        /\ "gate" \notin AtGate /\ "sem" \notin AtGate /\ "done" \notin AtGate
    BY DEF AtSem, AtGate
  <1>6. sem' \in [Requests -> Int] /\ \A d \in Requests : SlotsOf(d)'
    <2>1. CASE job[r][s].at = "gate"
      BY <1>0, <1>1, <1>3, <1>4, <1>5, <2>1, SemMoves
    <2>2. CASE job[r][s].at = "sem"
      BY <1>0, <1>1, <1>3, <1>4, <1>5, <2>2, SemMoves
    <2> QED BY <1>0, <2>1, <2>2
  <1>7. gate' \in Int /\ GateSlots'
    BY <1>0, <1>1, <1>3, <1>4, <1>5, GateMoves
  <1>8. ran' = [ran EXCEPT ![r] = @ + 0] /\ RepliesFollow(r)
    BY <1>0, NoRun
  <1>9. failed' \in [Requests -> SUBSET Servers]
    BY <1>0 DEF FederatedInv, FederatedTypes
  <1>10. FederatedTypes'
    BY <1>0, <1>3, <1>4, <1>6, <1>7, <1>8, <1>9, JobTypes DEF FederatedInv, FederatedTypes
  <1>11. RunsFollow(r, s, j, 0)
    BY <1>1 DEF RunsFollow
  <1>12. SessionsFollow(r, s, j)
    BY <1>0, <1>3, SameSessions
  <1>13. \A d \in Requests : Jobs(d)' /\ RunsOf(d)' /\ SessionsOf(d)'
    BY <1>0, <1>1, <1>3, <1>4, <1>8, <1>11, <1>12, JobStep
  <1> QED BY <1>6, <1>7, <1>10, <1>13 DEF FederatedInv

\* What a call to a backend comes to.
LEMMA ReturnedType ==
  ASSUME FederatedInv, NEW r \in Requests, NEW o \in Outcomes(r)
  PROVE  Returned(o) \in Results /\ o \in Replies
  <1>1. ctx[r] \in {"live", "expired", "canceled"}
    BY DEF FederatedInv, FederatedTypes
  <1>2. o \in {"expired", "canceled", "result", "failed", "rpcError", "http400", "large", "sessionError"}
    BY <1>1 DEF Outcomes, Refusals
  <1> QED BY <1>2 DEF Returned, Results, Replies

\* The call without a session.
LEMMA BareStep ==
  ASSUME FederatedInv, NEW r \in Requests, NEW s \in Servers, Bare(r, s)
  PROVE  FederatedInv'
  <1>0. /\ job[r][s].at = "bare"
        /\ UNCHANGED <<state, ctx, tools, merged, failed, dialed, sem, gate, called, answer, open>>
    BY DEF Bare, healthVars
  <1>1. job[r][s] \in Job /\ state[r] \in {"listing", "calling"} /\ job \in [Requests -> [Servers -> Job]]
    BY <1>0, JobFacts
  <1>2. PICK o \in Outcomes(r), n \in {0, 1} :
          /\ n \in Runs(r, o) /\ ran' = [ran EXCEPT ![r] = @ + n]
          /\ replied' = IF state[r] = "calling" THEN [replied EXCEPT ![r] = o] ELSE replied
          /\ job' = [job EXCEPT ![r][s] =
               IF SessionRequired(r, o) THEN [@ EXCEPT !.at = "init", !.first = Returned(o)]
                                        ELSE [@ EXCEPT !.at = "return", !.out = Returned(o)]]
    BY DEF Bare
  <1> DEFINE j == IF SessionRequired(r, o) THEN [job[r][s] EXCEPT !.at = "init", !.first = Returned(o)]
                  ELSE [job[r][s] EXCEPT !.at = "return", !.out = Returned(o)]
  <1>3. Returned(o) \in Results
    BY ReturnedType
  <1>4. "init" \in Places /\ "return" \in Places
    BY DEF Places
  <1>5. j \in Job /\ j.at = IF SessionRequired(r, o) THEN "init" ELSE "return"
    BY <1>1, <1>3, <1>4 DEF Job
  <1>6. job' = [job EXCEPT ![r][s] = j]
    BY <1>2
  <1> HIDE DEF j
  <1>7. RunsFollow(r, s, j, n)
    <2>1. state[r] = "listing" => n = 0
      BY <1>2 DEF Runs
    <2>2. state[r] = "calling" => replied'[r] = o
      BY <1>2 DEF FederatedInv, FederatedTypes
    <2>3. state[r] = "calling" /\ SessionRequired(r, o) => o \in Refused
      BY DEF SessionRequired, Refused
    <2> QED BY <1>0, <1>5, <2>1, <2>2, <2>3 DEF RunsFollow
  <1>11. RepliesFollow(r)
    <2>1. o \in Replies
      BY ReturnedType
    <2> QED BY <1>2, <2>1 DEF FederatedInv, FederatedTypes, RepliesFollow
  <1>8. SessionsFollow(r, s, j)
    BY <1>0, <1>5, SameSessions
  <1>9. job[r][s].at \in AtGate /\ j.at \in AtGate
    BY <1>0, <1>5 DEF AtGate
  <1>10. tools' \in [Requests -> [Servers -> SUBSET Seq(STRING)]]
    BY <1>0 DEF FederatedInv, FederatedTypes
  <1> QED BY <1>0, <1>2, <1>5, <1>6, <1>7, <1>8, <1>9, <1>10, <1>11, MoveOnly

\* No session the gateway knows of: the first outcome stands.
LEMMA FirstStandsStep ==
  ASSUME FederatedInv, NEW r \in Requests, NEW s \in Servers, job[r][s].at = "init", FirstStands(r, s),
         UNCHANGED <<state, ctx, tools, merged, failed, dialed, sem, gate, called, replied, ran, answer>>,
         \A d \in Requests, u \in Targets : <<d, u, "kept">> \in open' => <<d, u, "kept">> \in open
  PROVE  FederatedInv'
  <1> DEFINE j == [job[r][s] EXCEPT !.at = "return", !.out = job[r][s].first, !.first = "none"]
  <1>1. job[r][s] \in Job /\ state[r] \in {"listing", "calling"} /\ job \in [Requests -> [Servers -> Job]]
    BY JobFacts
  <1>2. "return" \in Places /\ "none" \in Results
    BY DEF Places, Results
  <1>3. j \in Job /\ j.at = "return"
    BY <1>1, <1>2 DEF Job
  <1>4. job' = [job EXCEPT ![r][s] = j]
    BY DEF FirstStands
  <1> HIDE DEF j
  <1>5. RunsFollow(r, s, j, 0)
    BY <1>3 DEF RunsFollow
  <1>6. SessionsFollow(r, s, j)
    BY <1>3 DEF FederatedInv, SessionsOf, SessionsFollow
  <1>7. job[r][s].at \in AtGate /\ j.at \in AtGate
    BY <1>3 DEF AtGate
  <1>8. tools' \in [Requests -> [Servers -> SUBSET Seq(STRING)]]
    BY DEF FederatedInv, FederatedTypes
  <1>9. ran' = [ran EXCEPT ![r] = @ + 0] /\ RepliesFollow(r)
    BY NoRun
  <1> QED BY <1>3, <1>4, <1>5, <1>6, <1>7, <1>8, <1>9, MoveOnly

\* The handshake fails, and may leave a session behind whose id is dropped.
LEMMA HandshakeFailsStep ==
  ASSUME FederatedInv, NEW r \in Requests, NEW s \in Servers,
         HandshakeFails(r, s) \/ HandshakeLosesSession(r, s)
  PROVE  /\ FederatedInv' /\ UNCHANGED <<entries, sweepVars, proxied>>
         /\ open' \subseteq open \cup {<<r, s, "lost">>}
  <1>1. /\ job[r][s].at = "init" /\ FirstStands(r, s)
        /\ UNCHANGED <<state, ctx, tools, merged, failed, dialed, sem, gate, called, replied, ran, answer>>
        /\ UNCHANGED <<entries, sweepVars, proxied>>
    BY DEF HandshakeFails, HandshakeLosesSession, healthVars
  <1>2. open' \subseteq open \cup {<<r, s, "lost">>}
    BY DEF HandshakeFails, HandshakeLosesSession, healthVars, Opened
  <1>3. \A d, u : <<d, u, "kept">> \in open' => <<d, u, "kept">> \in open
    BY <1>2
  <1> QED BY <1>1, <1>2, <1>3, FirstStandsStep

\* A session, or an initialize that was answered without one.
LEMMA HandshakeStep ==
  ASSUME FederatedInv, NEW r \in Requests, NEW s \in Servers, Handshake(r, s)
  PROVE  FederatedInv' /\ UNCHANGED <<entries, sweepVars, proxied>> /\ open' \subseteq open \cup {<<r, s, "kept">>}
  <1> DEFINE j == [job[r][s] EXCEPT !.at = "retry", !.first = "none"]
  <1>0. /\ job[r][s].at = "init"
        /\ UNCHANGED <<state, ctx, tools, merged, failed, dialed, sem, gate, called, replied, ran, answer>>
        /\ UNCHANGED <<entries, sweepVars, proxied>>
    BY DEF Handshake
  <1>1. job[r][s] \in Job /\ state[r] \in {"listing", "calling"} /\ job \in [Requests -> [Servers -> Job]]
    BY <1>0, JobFacts
  <1>2. "retry" \in Places /\ "none" \in Results
    BY DEF Places, Results
  <1>3. j \in Job /\ j.at = "retry"
    BY <1>1, <1>2 DEF Job
  <1>4. job' = [job EXCEPT ![r][s] = j]
    BY <1>1 DEF Handshake
  <1> HIDE DEF j
  <1>5. RunsFollow(r, s, j, 0)
    BY <1>0, <1>3 DEF RunsFollow
  <1>6. open' \subseteq open \cup {<<r, s, "kept">>}
    BY DEF Handshake, Opened
  <1>7. SessionsFollow(r, s, j)
    BY <1>3, <1>6 DEF SessionsFollow
  <1>8. job[r][s].at \in AtGate /\ j.at \in AtGate
    BY <1>0, <1>3 DEF AtGate
  <1>9. tools' \in [Requests -> [Servers -> SUBSET Seq(STRING)]]
    BY <1>0 DEF FederatedInv, FederatedTypes
  <1>10. ran' = [ran EXCEPT ![r] = @ + 0] /\ RepliesFollow(r)
    BY <1>0, NoRun
  <1> QED BY <1>0, <1>3, <1>4, <1>5, <1>6, <1>7, <1>8, <1>9, <1>10, MoveOnly

\* The call within the session.
LEMMA RetryStep ==
  ASSUME FederatedInv, NEW r \in Requests, NEW s \in Servers, Retry(r, s)
  PROVE  FederatedInv'
  <1>0. /\ job[r][s].at = "retry"
        /\ UNCHANGED <<state, ctx, tools, merged, failed, dialed, sem, gate, called, replied, answer, open>>
    BY DEF Retry, healthVars
  <1>1. job[r][s] \in Job /\ state[r] \in {"listing", "calling"} /\ job \in [Requests -> [Servers -> Job]]
    BY <1>0, JobFacts
  <1> DEFINE x == IF <<r, s, "kept">> \in open THEN "close" ELSE "return"
  <1>2. PICK o \in Outcomes(r), n \in {0, 1} :
          /\ n \in Runs(r, o) /\ ran' = [ran EXCEPT ![r] = @ + n]
          /\ job' = [job EXCEPT ![r][s].out = Returned(o), ![r][s].at = x]
    BY DEF Retry
  <1>3. x \in {"close", "return"} /\ x \in Places /\ (<<r, s, "kept">> \in open => x = "close")
    BY DEF Places
  <1> HIDE DEF x
  <1> DEFINE j == [job[r][s] EXCEPT !.out = Returned(o), !.at = x]
  <1>4. Returned(o) \in Results
    BY ReturnedType
  <1>5. j \in Job /\ j.at = x
    BY <1>1, <1>3, <1>4 DEF Job
  <1>6. job' = [job EXCEPT ![r][s] = j]
    BY <1>1, <1>2
  <1> HIDE DEF j
  <1>7. RunsFollow(r, s, j, n)
    <2>1. state[r] = "listing" => n = 0
      BY <1>2 DEF Runs
    <2> QED BY <1>0, <1>3, <1>5, <2>1 DEF RunsFollow
  <1>8. SessionsFollow(r, s, j)
    BY <1>0, <1>3, <1>5 DEF SessionsFollow
  <1>9. job[r][s].at \in AtGate /\ j.at \in AtGate
    BY <1>0, <1>3, <1>5 DEF AtGate
  <1>10. tools' \in [Requests -> [Servers -> SUBSET Seq(STRING)]]
    BY <1>0 DEF FederatedInv, FederatedTypes
  <1>11. RepliesFollow(r)
    BY <1>0 DEF FederatedInv, FederatedTypes, RepliesFollow
  <1> QED BY <1>0, <1>2, <1>5, <1>6, <1>7, <1>8, <1>9, <1>10, <1>11, MoveOnly

\* The session is closed.
LEMMA CloseSessionStep ==
  ASSUME FederatedInv, NEW r \in Requests, NEW s \in Servers, CloseSession(r, s)
  PROVE  FederatedInv' /\ UNCHANGED <<entries, sweepVars, proxied>> /\ open' \subseteq open
  <1> DEFINE j == [job[r][s] EXCEPT !.at = "return"]
  <1>0. /\ job[r][s].at = "close" /\ open' = open \ {<<r, s, "kept">>}
        /\ UNCHANGED <<state, ctx, tools, merged, failed, dialed, sem, gate, called, replied, ran, answer>>
        /\ UNCHANGED <<entries, sweepVars, proxied>>
    BY DEF CloseSession
  <1>1. job[r][s] \in Job /\ state[r] \in {"listing", "calling"} /\ job \in [Requests -> [Servers -> Job]]
    BY <1>0, JobFacts
  <1>2. "return" \in Places
    BY DEF Places
  <1>3. j \in Job /\ j.at = "return"
    BY <1>1, <1>2, JobAt
  <1>4. job' = [job EXCEPT ![r][s] = j]
    BY DEF CloseSession
  <1> HIDE DEF j
  <1>5. RunsFollow(r, s, j, 0)
    BY <1>0, <1>3 DEF RunsFollow
  <1>6. SessionsFollow(r, s, j)
    BY <1>0 DEF SessionsFollow
  <1>7. job[r][s].at \in AtGate /\ j.at \in AtGate
    BY <1>0, <1>3 DEF AtGate
  <1>8. tools' \in [Requests -> [Servers -> SUBSET Seq(STRING)]]
    BY <1>0 DEF FederatedInv, FederatedTypes
  <1>9. ran' = [ran EXCEPT ![r] = @ + 0] /\ RepliesFollow(r)
    BY <1>0, NoRun
  <1> QED BY <1>0, <1>3, <1>4, <1>5, <1>6, <1>7, <1>8, <1>9, MoveOnly

\* The tools of a page.
LEMMA PageType ==
  ASSUME FederatedInv, NEW r \in Requests, NEW s \in Servers, NEW page \in SUBSET Offers[s],
         tools' = [tools EXCEPT ![r][s] = @ \cup page]
  PROVE  tools' \in [Requests -> [Servers -> SUBSET Seq(STRING)]]
  <1>1. tools \in [Requests -> [Servers -> SUBSET Seq(STRING)]]
    BY DEF FederatedInv, FederatedTypes
  <1>2. tools[r][s] \cup page \in SUBSET Seq(STRING)
    BY <1>1, FederationAssumption
  <1> QED BY <1>1, <1>2

\* A page with a cursor: the next one is asked for.
LEMMA NextPageStep ==
  ASSUME FederatedInv, NEW r \in Requests, NEW s \in Servers, NextPage(r, s)
  PROVE  FederatedInv'
  <1> DEFINE j == [NoJob EXCEPT !.at = "bare", !.pages = job[r][s].pages + 1]
  <1>0. /\ job[r][s].at = "return" /\ state[r] = "listing"
        /\ UNCHANGED <<state, ctx, merged, failed, dialed, sem, gate, called, replied, ran, answer, open>>
    BY DEF NextPage, healthVars
  <1>1. job[r][s] \in Job /\ job \in [Requests -> [Servers -> Job]]
    BY <1>0, JobFacts
  <1>2. "bare" \in Places /\ "none" \in Results /\ job[r][s].pages + 1 \in Nat
    BY <1>1 DEF Places, Results, Job
  <1>3. j \in Job /\ j.at = "bare"
    BY <1>2 DEF Job, NoJob
  <1>4. job' = [job EXCEPT ![r][s] = j]
    BY DEF NextPage
  <1> HIDE DEF j
  <1>5. RunsFollow(r, s, j, 0)
    BY <1>0 DEF RunsFollow
  <1>6. SessionsFollow(r, s, j)
    BY <1>0, <1>3, SameSessions
  <1>7. job[r][s].at \in AtGate /\ j.at \in AtGate
    BY <1>0, <1>3 DEF AtGate
  <1>8. tools' \in [Requests -> [Servers -> SUBSET Seq(STRING)]]
    BY PageType DEF NextPage
  <1>9. ran' = [ran EXCEPT ![r] = @ + 0] /\ RepliesFollow(r)
    BY <1>0, NoRun
  <1> QED BY <1>0, <1>3, <1>4, <1>5, <1>6, <1>7, <1>8, <1>9, MoveOnly

\* A goroutine of a listing ends: it gives back both slots.
LEMMA LeaveStep ==
  ASSUME FederatedInv, NEW r \in Requests, NEW s \in Servers, Leave(r, s),
         state[r] = "listing", job[r][s].at \in {"bare", "return"},
         UNCHANGED <<state, ctx, dialed, called, replied, ran, answer, open>>,
         tools' \in [Requests -> [Servers -> SUBSET Seq(STRING)]],
         merged' \in [Requests -> Seq(Servers)], failed' \in [Requests -> SUBSET Servers]
  PROVE  FederatedInv'
  <1> DEFINE j == [NoJob EXCEPT !.at = "done"]
  <1>0. sem' = [sem EXCEPT ![r] = @ - 1] /\ gate' = gate - 1
    BY DEF Leave
  <1>1. job[r][s] \in Job /\ job \in [Requests -> [Servers -> Job]]
    BY JobFacts
  <1>2. "done" \in Places /\ "none" \in Results /\ 0 \in Nat
    BY DEF Places, Results
  <1>3. j \in Job /\ j.at = "done"
    BY <1>2 DEF Job, NoJob
  <1>4. job' = [job EXCEPT ![r][s] = j]
    BY DEF Leave
  <1> HIDE DEF j
  <1>5. "done" \notin AtSem /\ "done" \notin AtGate /\ job[r][s].at \in AtSem /\ job[r][s].at \in AtGate
    BY DEF AtSem, AtGate
  <1>6. sem' \in [Requests -> Int] /\ \A d \in Requests : SlotsOf(d)'
    BY <1>0, <1>3, <1>4, <1>5, SemMoves
  <1>7. gate' \in Int /\ GateSlots'
    BY <1>0, <1>3, <1>4, <1>5, GateMoves
  <1>8. ran' = [ran EXCEPT ![r] = @ + 0] /\ RepliesFollow(r)
    BY NoRun
  <1>9. FederatedTypes'
    BY <1>3, <1>4, <1>6, <1>7, <1>8, JobTypes DEF FederatedInv, FederatedTypes
  <1>10. RunsFollow(r, s, j, 0)
    BY DEF RunsFollow
  <1>11. SessionsFollow(r, s, j)
    BY <1>3, SameSessions
  <1>12. job[r][s].at \notin {"none", "done"}
    OBVIOUS
  <1>13. \A d \in Requests : Jobs(d)' /\ RunsOf(d)' /\ SessionsOf(d)'
    BY <1>3, <1>4, <1>8, <1>10, <1>11, <1>12, JobStep
  <1> QED BY <1>6, <1>7, <1>9, <1>13 DEF FederatedInv

-----------------------------------------------------------------------------
(* The server a name is routed to.                                         *)

Less == {ss \in Nat \X Nat : ss[1] < ss[2]}

\* A set of numbers that is not empty has a least element.
LEMMA LeastNumber ==
  ASSUME NEW T \in SUBSET Nat, T # {}
  PROVE  \E n \in T : \A m \in T : n <= m
  <1>1. OpToRel(<, Nat) = Less
    BY Zenon DEF OpToRel, Less
  <1>2. IsWellFoundedOn(Less, Nat)
    BY <1>1, NatLessThanWellFounded, Zenon
  <1>3. PICK n \in T : \A m \in T : ~(<<m, n>> \in Less)
    BY <1>2, WFMin
  <1>4. \A m \in T : n <= m
    <2> TAKE m \in T
    <2>1. ~(<<m, n>> \in Less) /\ m \in Nat /\ n \in Nat
      BY <1>3
    <2>2. <<m, n>>[1] = m /\ <<m, n>>[2] = n /\ <<m, n>> \in Nat \X Nat
      BY <2>1
    <2>3. ~(m < n)
      BY <2>1, <2>2 DEF Less
    <2> QED BY <2>1, <2>3
  <1> QED BY <1>4

\* resolveFederatedTool: of the servers whose name is a prefix there is a longest.
LEMMA RoutedFacts ==
  ASSUME NEW name \in Seq(STRING), NEW names \in SUBSET Servers, PrefixServers(name, names) # {}
  PROVE  Routed(name, names) \in PrefixServers(name, names)
  <1> DEFINE S == PrefixServers(name, names)
             m == Len(name)
             T == {m - Len(Name[s]) : s \in S}
  <1>1. m \in Nat /\ \A s \in Servers : Len(Name[s]) \in Nat
    BY FederationAssumption
  <1>2. \A s \in S : s \in Servers /\ Len(Name[s]) <= m
    BY DEF PrefixServers, IsStrictPrefix, IsPrefix
  <1> HIDE DEF S, m
  <1>3. \A s \in S : m - Len(Name[s]) \in Nat
    BY <1>1, <1>2
  <1>4. T \in SUBSET Nat /\ T # {}
    BY <1>3 DEF S
  <1>5. PICK n \in T : \A k \in T : n <= k
    BY <1>4, LeastNumber
  <1>6. PICK s \in S : n = m - Len(Name[s])
    BY <1>5
  <1>7. \A t \in S : Len(Name[t]) <= Len(Name[s])
    <2> TAKE t \in S
    <2>1. m - Len(Name[s]) <= m - Len(Name[t])
      BY <1>5, <1>6
    <2>2. Len(Name[s]) \in Nat /\ Len(Name[t]) \in Nat
      BY <1>1, <1>2
    <2> QED BY <1>1, <2>1, <2>2
  <1>8. Longest(S) \in S
    BY <1>7 DEF Longest
  <1> QED BY <1>8 DEF Routed, S

-----------------------------------------------------------------------------
(* The request.                                                            *)

\* A request begins or ends: it holds no slot and no session before or after.
LEMMA RequestStep ==
  ASSUME FederatedInv, NEW r \in Requests, NEW x \in {"listing", "calling", "done"},
         state' = [state EXCEPT ![r] = x], job' \in [Requests -> [Servers -> Job]],
         \A d \in Requests \ {r} : job'[d] = job[d],
         state[r] = "listing" => \A s \in Servers : job[r][s].at \notin AtSem,
         x = "listing" => \A s \in Servers : job'[r][s].at \notin AtSem,
         \A s \in Servers : job[r][s].at \notin {"retry", "close"},
         Jobs(r)', RunsOf(r)', called' \in [Requests -> Seq(STRING)],
         answer' \in [Requests -> Answers],
         UNCHANGED <<ctx, tools, merged, failed, dialed, sem, gate, replied, ran, open>>
  PROVE  FederatedInv'
  <1>0. FederatedTypes /\ GateSlots /\ \A d \in Requests : Jobs(d) /\ RunsOf(d) /\ SessionsOf(d) /\ SlotsOf(d)
    BY DEF FederatedInv
  <1>1. state'[r] = x /\ \A d \in Requests \ {r} : state'[d] = state[d]
    BY <1>0 DEF FederatedTypes
  <1>2. FederatedTypes'
    BY <1>0 DEF FederatedTypes
  <1>3. SessionsOf(r)'
    BY <1>0 DEF SessionsOf
  <1>4. \A d \in Requests \ {r} : Jobs(d)' /\ RunsOf(d)' /\ SessionsOf(d)'
    <2> TAKE d \in Requests \ {r}
    <2>1. job'[d] = job[d] /\ state'[d] = state[d]
      BY <1>1
    <2>2. Jobs(d)'
      BY <1>0, <2>1 DEF Jobs, AllowedNames
    <2>3. RunsOf(d)'
      BY <1>0, <2>1 DEF RunsOf
    <2>4. SessionsOf(d)'
      BY <1>0, <2>1 DEF SessionsOf
    <2> QED BY <2>2, <2>3, <2>4
  <1>5. \A d \in Requests : SlotsOf(d)'
    <2>1. Holding(r) = {} /\ Holding(r)' = {}
      BY <1>1 DEF Holding, AtSem, AtGate
    <2>2. \A d \in Requests \ {r} : Holding(d)' = Holding(d)
      BY <1>1 DEF Holding
    <2>3. \A d \in Requests : Holding(d)' = Holding(d)
      BY <2>1, <2>2
    <2> QED BY <1>0, <2>3 DEF SlotsOf
  <1>6. GateSlots'
    <2>1. \A s \in Servers : <<r, s>> \notin GateHolders /\ <<r, s>> \notin GateHolders'
      BY <1>1 DEF GateHolders, AtSem
    <2>2. \A d \in Requests \ {r}, s \in Servers : <<d, s>> \in GateHolders' <=> <<d, s>> \in GateHolders
      BY <1>1 DEF GateHolders
    <2>3. GateHolders' = GateHolders
      <3>1. GateHolders \subseteq Requests \X Servers /\ GateHolders' \subseteq Requests \X Servers
        BY DEF GateHolders
      <3>2. \A y \in Requests \X Servers : y = <<y[1], y[2]>> /\ y[1] \in Requests /\ y[2] \in Servers
        OBVIOUS
      <3>3. \A y \in Requests \X Servers : y \in GateHolders' <=> y \in GateHolders
        BY <2>1, <2>2, <3>2
      <3> QED BY <3>1, <3>3
    <2> QED BY <1>0, <2>3 DEF GateSlots
  <1> QED BY <1>2, <1>3, <1>4, <1>5, <1>6 DEF FederatedInv

\* A request that needs no backend.
LEMMA LocalStep ==
  ASSUME FederatedInv, NEW r \in Requests, NEW a \in Answers, state[r] = "new", Done(r, a),
         called' \in [Requests -> Seq(STRING)],
         UNCHANGED <<ctx, job, tools, merged, failed, dialed, sem, gate, replied, ran, open>>
  PROVE  FederatedInv'
  <1>0. FederatedTypes /\ Jobs(r) /\ RunsOf(r)
    BY DEF FederatedInv
  <1>1. \A s \in Servers : job[r][s].at = "none"
    BY <1>0 DEF Jobs
  <1>2. state' = [state EXCEPT ![r] = "done"] /\ state'[r] = "done"
    BY <1>0 DEF Done, FederatedTypes
  <1>3. Jobs(r)' /\ RunsOf(r)'
    BY <1>0, <1>1, <1>2 DEF Jobs, RunsOf
  <1>4. answer' \in [Requests -> Answers] /\ job' \in [Requests -> [Servers -> Job]]
    BY <1>0 DEF FederatedTypes, Done
  <1>5. \A s \in Servers : job[r][s].at \notin {"retry", "close"}
    BY <1>1
  <1> QED BY <1>2, <1>3, <1>4, <1>5, RequestStep

\* A listing starts a goroutine for each allowed server.
LEMMA BeginListStep ==
  ASSUME FederatedInv, NEW r \in Requests, BeginList(r)
  PROVE  FederatedInv'
  <1>0. FederatedTypes /\ Jobs(r) /\ RunsOf(r)
    BY DEF FederatedInv
  <1> DEFINE f == [s \in Servers |-> IF s \in AllowedNames(r) THEN [NoJob EXCEPT !.at = "sem"] ELSE NoJob]
  <1>1. /\ state[r] = "new" /\ state' = [state EXCEPT ![r] = "listing"] /\ job' = [job EXCEPT ![r] = f]
        /\ UNCHANGED <<ctx, tools, merged, failed, dialed, sem, gate, called, replied, ran, answer, open>>
    BY DEF BeginList, healthVars
  <1>2. NoJob \in Job /\ [NoJob EXCEPT !.at = "sem"] \in Job /\ [NoJob EXCEPT !.at = "sem"].at = "sem" /\ NoJob.at = "none"
    <2>1. "none" \in Places /\ "sem" \in Places /\ "none" \in Results /\ 0 \in Nat
      BY DEF Places, Results
    <2> QED BY <2>1 DEF NoJob, Job
  <1>3. f \in [Servers -> Job] /\ \A s \in Servers : f[s].at = IF s \in AllowedNames(r) THEN "sem" ELSE "none"
    BY <1>2
  <1> HIDE DEF f
  <1>4. /\ job' \in [Requests -> [Servers -> Job]] /\ job'[r] = f
        /\ \A d \in Requests \ {r} : job'[d] = job[d]
    BY <1>0, <1>1, <1>3 DEF FederatedTypes
  <1>5. state'[r] = "listing"
    BY <1>0, <1>1 DEF FederatedTypes
  <1>6. Jobs(r)'
    <2>1. \A s \in Servers : job'[r][s].at # "none" => s \in AllowedNames(r)
      BY <1>3, <1>4
    <2> QED BY <1>5, <2>1 DEF Jobs, AllowedNames
  <1>7. RunsOf(r)'
    BY <1>0, <1>1, <1>5 DEF RunsOf
  <1>8. \A s \in Servers : job'[r][s].at \notin AtSem
    BY <1>3, <1>4 DEF AtSem, AtGate
  <1>9. \A s \in Servers : job[r][s].at \notin {"retry", "close"}
    BY <1>0, <1>1 DEF Jobs
  <1>10. called' \in [Requests -> Seq(STRING)] /\ answer' \in [Requests -> Answers]
    BY <1>0, <1>1 DEF FederatedTypes
  <1> QED BY <1>1, <1>4, <1>6, <1>7, <1>8, <1>9, <1>10, RequestStep

\* A call goes to one server, or to none.
LEMMA BeginCallStep ==
  ASSUME FederatedInv, NEW r \in Requests, NEW name \in Calls, BeginCall(r, name)
  PROVE  FederatedInv'
  <1>0. FederatedTypes /\ Jobs(r) /\ RunsOf(r)
    BY DEF FederatedInv
  <1>1. /\ state[r] = "new" /\ called' = [called EXCEPT ![r] = name]
        /\ UNCHANGED <<ctx, tools, merged, failed, dialed, sem, gate, replied, ran, open>>
    BY DEF BeginCall, healthVars
  <1>2. name \in Seq(STRING) /\ AllowedNames(r) \in SUBSET Servers
    BY FederationAssumption DEF AllowedNames
  <1>3. called' \in [Requests -> Seq(STRING)]
    BY <1>0, <1>1, <1>2 DEF FederatedTypes
  <1>4. \A s \in Servers : job[r][s].at = "none"
    BY <1>0, <1>1 DEF Jobs
  <1>5. CASE PrefixServers(name, AllowedNames(r)) = {}
    <2>1. Done(r, "unknown tool") /\ UNCHANGED job
      BY <1>5 DEF BeginCall
    <2>2. "unknown tool" \in Answers
      BY DEF Answers
    <2> QED BY <1>1, <1>3, <2>1, <2>2, LocalStep
  <1>6. CASE PrefixServers(name, AllowedNames(r)) # {}
    <2>1. PICK s \in Servers : s = Routed(name, AllowedNames(r))
      <3>1. Routed(name, AllowedNames(r)) \in PrefixServers(name, AllowedNames(r))
        BY <1>2, <1>6, RoutedFacts
      <3> QED BY <1>2, <3>1 DEF PrefixServers
    <2>2. state' = [state EXCEPT ![r] = "calling"] /\ job' = [job EXCEPT ![r][s].at = "bare"] /\ UNCHANGED answer
      BY <1>6, <2>1 DEF BeginCall
    <2> DEFINE j == [job[r][s] EXCEPT !.at = "bare"]
    <2>3. job' = [job EXCEPT ![r][s] = j]
      BY <2>2
    <2>4. j \in Job /\ j.at = "bare"
      <3>1. job[r][s] \in Job /\ "bare" \in Places
        BY <1>0 DEF FederatedTypes, Places
      <3> QED BY <3>1, JobAt
    <2> HIDE DEF j
    <2>5. /\ job' \in [Requests -> [Servers -> Job]] /\ job'[r][s] = j
          /\ \A u \in Servers \ {s} : job'[r][u] = job[r][u]
          /\ \A d \in Requests \ {r} : job'[d] = job[d]
      BY <1>0, <2>3, <2>4, JobMoves
    <2>6. state'[r] = "calling"
      BY <1>0, <2>2 DEF FederatedTypes
    <2>7. Jobs(r)'
      <3>1. \A u \in Servers : job'[r][u].at # "none" => u = s
        BY <1>4, <2>5
      <3>2. \A u \in Servers : job'[r][u].at \notin {"sem", "gate"}
        BY <1>4, <2>4, <2>5
      <3> QED BY <2>6, <3>1, <3>2 DEF Jobs
    <2>8. RunsOf(r)'
      <3>1. ran'[r] = 0
        BY <1>0, <1>1 DEF RunsOf
      <3>2. \A u \in Servers : job'[r][u].at \notin {"init", "retry"}
        BY <1>4, <2>4, <2>5
      <3> QED BY <2>6, <3>1, <3>2 DEF RunsOf
    <2>9. \A u \in Servers : job[r][u].at \notin {"retry", "close"}
      BY <1>4
    <2>10. answer' \in [Requests -> Answers]
      BY <1>0, <2>2 DEF FederatedTypes
    <2> QED BY <1>1, <1>3, <2>2, <2>5, <2>7, <2>8, <2>9, <2>10, RequestStep
  <1> QED BY <1>5, <1>6

\* All goroutines of a listing have ended.
LEMMA AnswerListStep ==
  ASSUME FederatedInv, NEW r \in Requests, AnswerList(r)
  PROVE  FederatedInv'
  <1>0. FederatedTypes /\ Jobs(r) /\ RunsOf(r)
    BY DEF FederatedInv
  <1>1. /\ state[r] = "listing" /\ \A s \in AllowedNames(r) : job[r][s].at = "done"
        /\ UNCHANGED <<ctx, job, tools, merged, failed, dialed, sem, gate, called, replied, ran, open>>
    BY DEF AnswerList
  <1>2. PICK a \in {"unreachable", "listed"} : Done(r, a)
    BY DEF AnswerList
  <1>3. \A s \in Servers : job[r][s].at \in {"none", "done"}
    BY <1>0, <1>1 DEF Jobs
  <1>4. state' = [state EXCEPT ![r] = "done"] /\ state'[r] = "done"
    BY <1>0, <1>2 DEF Done, FederatedTypes
  <1>5. Jobs(r)' /\ RunsOf(r)'
    BY <1>0, <1>1, <1>3, <1>4 DEF Jobs, RunsOf
  <1>6. a \in Answers
    BY DEF Answers
  <1>7. /\ answer' \in [Requests -> Answers] /\ job' \in [Requests -> [Servers -> Job]]
        /\ called' \in [Requests -> Seq(STRING)]
    BY <1>0, <1>1, <1>2, <1>6 DEF FederatedTypes, Done
  <1>8. \A s \in Servers : job[r][s].at \notin {"retry", "close"} /\ job[r][s].at \notin AtSem
    BY <1>3 DEF AtSem, AtGate
  <1> QED BY <1>1, <1>4, <1>5, <1>7, <1>8, RequestStep

\* The call has returned.
LEMMA AnswerCallStep ==
  ASSUME FederatedInv, NEW r \in Requests, NEW s \in Servers, AnswerCall(r, s)
  PROVE  FederatedInv'
  <1>0. FederatedTypes /\ Jobs(r) /\ RunsOf(r)
    BY DEF FederatedInv
  <1>1. /\ state[r] = "calling" /\ job[r][s].at = "return"
        /\ UNCHANGED <<ctx, tools, merged, failed, dialed, sem, gate, called, replied, ran, open>>
    BY DEF AnswerCall
  <1> DEFINE j == [job[r][s] EXCEPT !.at = "done"]
  <1>2. job[r][s] \in Job
    BY <1>0 DEF FederatedTypes
  <1>3. j \in Job /\ j.at = "done" /\ job' = [job EXCEPT ![r][s] = j]
    <2>1. "done" \in Places
      BY DEF Places
    <2>2. j \in Job /\ j.at = "done"
      BY <1>2, <2>1, JobAt
    <2> QED BY <2>2 DEF AnswerCall
  <1> HIDE DEF j
  <1>4. /\ job' \in [Requests -> [Servers -> Job]] /\ job'[r][s] = j
        /\ \A u \in Servers \ {s} : job'[r][u] = job[r][u]
        /\ \A d \in Requests \ {r} : job'[d] = job[d]
    BY <1>0, <1>3, JobMoves
  <1>5. \A u \in Servers : u # s => job[r][u].at = "none"
    BY <1>0, <1>1 DEF Jobs
  <1>6. PICK a \in Answers : Done(r, a)
    <2>1. job[r][s].out \in Answers /\ "too large" \in Answers /\ "upstream error" \in Answers
      BY <1>2 DEF Job, Answers
    <2> QED BY <2>1 DEF AnswerCall
  <1>7. state' = [state EXCEPT ![r] = "done"] /\ state'[r] = "done"
    BY <1>0, <1>6 DEF Done, FederatedTypes
  <1>8. \A u \in Servers : job'[r][u].at \in {"none", "done"}
    BY <1>3, <1>4, <1>5
  <1>9. Jobs(r)' /\ RunsOf(r)'
    BY <1>0, <1>1, <1>7, <1>8 DEF Jobs, RunsOf
  <1>10. answer' \in [Requests -> Answers] /\ called' \in [Requests -> Seq(STRING)]
    BY <1>0, <1>1, <1>6 DEF FederatedTypes, Done
  <1>11. \A u \in Servers : job[r][u].at \notin {"retry", "close"}
    BY <1>1, <1>5
  <1> QED BY <1>1, <1>4, <1>7, <1>9, <1>10, <1>11, RequestStep

\* A step that moves no request; sessions of requests may only go.
LEMMA FederatedFrame ==
  ASSUME FederatedInv, ctx' \in [Requests -> {"live", "expired", "canceled"}],
         UNCHANGED <<state, job, tools, merged, failed, dialed, sem, gate, called, replied, ran, answer>>,
         \A d \in Requests, u \in Targets : <<d, u, "kept">> \in open' => <<d, u, "kept">> \in open
  PROVE  FederatedInv'
  <1>1. FederatedTypes'
    BY DEF FederatedInv, FederatedTypes
  <1>2. GateSlots'
    BY DEF FederatedInv, GateSlots, GateHolders
  <1>3. \A d \in Requests : Jobs(d)' /\ RunsOf(d)' /\ SlotsOf(d)'
    <2> TAKE d \in Requests
    <2>1. Jobs(d)'
      BY DEF FederatedInv, Jobs, AllowedNames
    <2>2. RunsOf(d)'
      BY DEF FederatedInv, RunsOf
    <2>3. SlotsOf(d)'
      BY DEF FederatedInv, SlotsOf, Holding
    <2> QED BY <2>1, <2>2, <2>3
  <1>4. \A d \in Requests : SessionsOf(d)'
    BY DEF FederatedInv, SessionsOf
  <1> QED BY <1>1, <1>2, <1>3, <1>4 DEF FederatedInv

\* The step of one job.
LEMMA StepInv ==
  ASSUME FederatedInv, NEW r \in Requests, NEW s \in Servers, Step(r, s)
  PROVE  FederatedInv'
  <1>0. /\ tools \in [Requests -> [Servers -> SUBSET Seq(STRING)]]
        /\ failed \in [Requests -> SUBSET Servers] /\ merged \in [Requests -> Seq(Servers)]
    BY DEF FederatedInv, FederatedTypes
  <1>a. ASSUME merged' = [merged EXCEPT ![r] = Append(@, s)] PROVE merged' \in [Requests -> Seq(Servers)]
    BY <1>0, <1>a
  <1>1. CASE AcquireSem(r, s)
    BY <1>1, AcquireSemStep
  <1>2. CASE AcquireGate(r, s)
    BY <1>2, AcquireGateStep
  <1>3. CASE Starve(r, s)
    BY <1>3, StarveStep
  <1>4. CASE Bare(r, s)
    BY <1>4, BareStep
  <1>5. CASE HandshakeFails(r, s) \/ HandshakeLosesSession(r, s)
    BY <1>5, HandshakeFailsStep
  <1>6. CASE Handshake(r, s)
    BY <1>6, HandshakeStep
  <1>7. CASE Retry(r, s)
    BY <1>7, RetryStep
  <1>8. CASE CloseSession(r, s)
    BY <1>8, CloseSessionStep
  <1>9. CASE NextPage(r, s)
    BY <1>9, NextPageStep
  <1>10. CASE LastPage(r, s)
    <2>1. tools' \in [Requests -> [Servers -> SUBSET Seq(STRING)]]
      BY <1>10, PageType DEF LastPage
    <2>2. merged' \in [Requests -> Seq(Servers)]
      BY <1>a, <1>10 DEF LastPage
    <2> QED BY <1>0, <1>10, <2>1, <2>2, LeaveStep DEF LastPage
  <1>11. CASE PageFails(r, s)
    <2>1. failed' \in [Requests -> SUBSET Servers]
      <3>1. failed' = [failed EXCEPT ![r] = @ \cup {s}] \/ failed' = failed
        BY <1>11 DEF PageFails
      <3>2. failed[r] \cup {s} \in SUBSET Servers
        BY <1>0
      <3> QED BY <1>0, <3>1, <3>2
    <2>2. merged' \in [Requests -> Seq(Servers)]
      BY <1>0, <1>a, <1>11 DEF PageFails
    <2> QED BY <1>0, <1>11, <2>1, <2>2, LeaveStep DEF PageFails
  <1>12. CASE WorkerPanics(r, s)
    <2>1. failed' \in [Requests -> SUBSET Servers]
      BY <1>0, <1>12 DEF WorkerPanics
    <2>2. tools' \in [Requests -> [Servers -> SUBSET Seq(STRING)]]
      <3>1. {} \in SUBSET Seq(STRING)
        OBVIOUS
      <3> QED BY <1>0, <1>12, <3>1 DEF WorkerPanics
    <2> QED BY <1>0, <1>12, <2>1, <2>2, LeaveStep DEF WorkerPanics, healthVars
  <1>13. CASE AnswerCall(r, s)
    BY <1>13, AnswerCallStep
  <1> QED BY <1>1, <1>2, <1>3, <1>4, <1>5, <1>6, <1>7, <1>8, <1>9, <1>10, <1>11, <1>12, <1>13 DEF Step

\* Every step of a federated request.
LEMMA FederatedStep ==
  ASSUME FederatedInv, FederatedNext
  PROVE  FederatedInv'
  <1>0. called \in [Requests -> Seq(STRING)] /\ ctx \in [Requests -> {"live", "expired", "canceled"}]
    BY DEF FederatedInv, FederatedTypes
  <1>1. ASSUME NEW r \in Requests, Refuse(r) PROVE FederatedInv'
    <2>1. "refused" \in Answers
      BY DEF Answers
    <2> QED BY <1>0, <1>1, <2>1, LocalStep DEF Refuse, healthVars
  <1>2. ASSUME NEW r \in Requests, AnswerLocally(r) PROVE FederatedInv'
    <2>1. "local" \in Answers
      BY DEF Answers
    <2> QED BY <1>0, <1>2, <2>1, LocalStep DEF AnswerLocally, healthVars
  <1>3. ASSUME NEW r \in Requests, BeginList(r) PROVE FederatedInv'
    BY <1>3, BeginListStep
  <1>4. ASSUME NEW r \in Requests, Expire(r) PROVE FederatedInv'
    BY <1>0, <1>4, FederatedFrame DEF Expire, healthVars
  <1>5. ASSUME NEW r \in Requests, Hangup(r) PROVE FederatedInv'
    BY <1>0, <1>5, FederatedFrame DEF Hangup, healthVars
  <1>6. ASSUME NEW r \in Requests, AnswerList(r) PROVE FederatedInv'
    BY <1>6, AnswerListStep
  <1>7. ASSUME NEW r \in Requests, NEW name \in Calls, BeginCall(r, name) PROVE FederatedInv'
    BY <1>7, BeginCallStep
  <1>8. ASSUME NEW r \in Requests, NEW s \in Servers, Step(r, s) PROVE FederatedInv'
    BY <1>8, StepInv
  <1> QED BY <1>1, <1>2, <1>3, <1>4, <1>5, <1>6, <1>7, <1>8 DEF FederatedNext

\* What a federated request leaves of the health tracker and the sweeps.
LEMMA FederatedHealth ==
  ASSUME HealthInv, FederatedInv, FederatedNext
  PROVE  HealthInv' /\ UNCHANGED sweepVars
  <1>0. /\ entries \in [Targets -> Entry] /\ proxied \in [Targets -> Nat]
        /\ open \subseteq Sessions
    BY DEF HealthInv, HealthTypes
  <1>a. ASSUME UNCHANGED healthVars PROVE HealthInv' /\ UNCHANGED sweepVars
    BY <1>0, <1>a, HealthFrame DEF healthVars
  <1>b. ASSUME NEW s \in Servers, NEW o, RecordCall(s, o) PROVE entries' \in [Targets -> Entry]
    <2>1. s \in Targets
      BY DEF Servers
    <2>2. PICK ok \in BOOLEAN : ok = ~TransportError(o)
      BY Zenon
    <2>3. entries' = entries \/ Record(s, ~TransportError(o))
      BY <1>b DEF RecordCall
    <2>4. entries' = entries \/ Record(s, ok)
      BY <2>2, <2>3, Zenon
    <2> QED BY <1>0, <2>1, <2>4, RecordType
  <1>1. ASSUME NEW r \in Requests, AnswerList(r) PROVE HealthInv' /\ UNCHANGED sweepVars
    <2>1. proxied' \in [Targets -> Nat]
      <3>1. \A t \in Targets : proxied[t] + (IF t \in dialed[r] THEN 1 ELSE 0) \in Nat
        BY <1>0
      <3>2. proxied' = [t \in Targets |-> proxied[t] + (IF t \in dialed[r] THEN 1 ELSE 0)]
        BY <1>1 DEF AnswerList
      <3> QED BY <3>1, <3>2
    <2> QED BY <1>0, <1>1, <2>1, HealthFrame DEF AnswerList
  <1>2. ASSUME NEW r \in Requests, NEW s \in Servers, Handshake(r, s)
        PROVE  HealthInv' /\ UNCHANGED sweepVars
    <2>1. UNCHANGED <<entries, sweepVars, proxied>> /\ open' \subseteq open \cup {<<r, s, "kept">>}
      BY <1>2, HandshakeStep
    <2>2. open' \subseteq Sessions
      BY <1>0, <2>1 DEF Servers, Sessions
    <2>3. \A p \in Pollers, t \in Targets : <<p, t, "kept">> \in open' => <<p, t, "kept">> \in open
      BY <2>1, FederationAssumption
    <2> QED BY <1>0, <2>1, <2>2, <2>3, HealthFrame
  <1>8. ASSUME NEW r \in Requests, NEW s \in Servers,
               HandshakeFails(r, s) \/ HandshakeLosesSession(r, s)
        PROVE  HealthInv' /\ UNCHANGED sweepVars
    <2>1. UNCHANGED <<entries, sweepVars, proxied>> /\ open' \subseteq open \cup {<<r, s, "lost">>}
      BY <1>8, HandshakeFailsStep
    <2>2. open' \subseteq Sessions
      BY <1>0, <2>1 DEF Servers, Sessions
    <2>3. \A p \in Pollers, t \in Targets : <<p, t, "kept">> \in open' => <<p, t, "kept">> \in open
      BY <2>1
    <2> QED BY <1>0, <2>1, <2>2, <2>3, HealthFrame
  <1>3. ASSUME NEW r \in Requests, NEW s \in Servers, CloseSession(r, s)
        PROVE  HealthInv' /\ UNCHANGED sweepVars
    <2>1. UNCHANGED <<entries, sweepVars, proxied>> /\ open' \subseteq open
      BY <1>3, CloseSessionStep
    <2> QED BY <1>0, <2>1, HealthFrame
  <1>4. ASSUME NEW r \in Requests, NEW s \in Servers, LastPage(r, s) \/ PageFails(r, s)
        PROVE  HealthInv' /\ UNCHANGED sweepVars
    <2>1. entries' \in [Targets -> Entry] /\ UNCHANGED <<sweepVars, open, proxied>>
      BY <1>4, <1>b DEF LastPage, PageFails
    <2> QED BY <1>0, <2>1, HealthFrame
  <1>5. ASSUME NEW r \in Requests, NEW s \in Servers, AnswerCall(r, s)
        PROVE  HealthInv' /\ UNCHANGED sweepVars
    <2>1. entries' \in [Targets -> Entry] /\ UNCHANGED <<sweepVars, open>>
      BY <1>5, <1>b DEF AnswerCall
    <2>2. proxied' \in [Targets -> Nat]
      <3>1. s \in Targets /\ proxied[s] + 1 \in Nat
        BY <1>0 DEF Servers
      <3>2. proxied' = [proxied EXCEPT ![s] = @ + 1]
        BY <1>5 DEF AnswerCall
      <3> QED BY <1>0, <3>1, <3>2
    <2> QED BY <1>0, <2>1, <2>2, HealthFrame
  <1>6. ASSUME NEW r \in Requests, NEW s \in Servers, Step(r, s)
        PROVE  HealthInv' /\ UNCHANGED sweepVars
    <2>1. CASE \/ AcquireSem(r, s) \/ AcquireGate(r, s) \/ Starve(r, s) \/ Bare(r, s)
               \/ Retry(r, s) \/ NextPage(r, s) \/ WorkerPanics(r, s)
      <3>1. UNCHANGED healthVars
        BY <2>1 DEF AcquireSem, AcquireGate, Starve, Bare, Retry, NextPage, WorkerPanics
      <3> QED BY <1>a, <3>1
    <2> QED BY <1>2, <1>3, <1>4, <1>5, <1>6, <1>8, <2>1 DEF Step
  <1>7. ASSUME NEW r \in Requests,
               \/ Refuse(r) \/ AnswerLocally(r) \/ BeginList(r) \/ Expire(r) \/ Hangup(r)
               \/ \E name \in Calls : BeginCall(r, name)
        PROVE  HealthInv' /\ UNCHANGED sweepVars
    <2>1. UNCHANGED healthVars
      BY <1>7 DEF Refuse, AnswerLocally, BeginList, Expire, Hangup, BeginCall
    <2> QED BY <1>a, <2>1
  <1> QED BY <1>1, <1>6, <1>7 DEF FederatedNext

\* The sweeps open and close no session of a request.
LEMMA HealthSessions ==
  ASSUME HealthNext
  PROVE  \A d \in Requests, u \in Targets : <<d, u, "kept">> \in open' => <<d, u, "kept">> \in open
  <1>1. ASSUME NEW p \in Pollers, NEW t \in Targets, ProbeSession(p, t) \/ ProbeLosesSession(p, t)
        PROVE  \A d \in Requests, u \in Targets : <<d, u, "kept">> \in open' => <<d, u, "kept">> \in open
    <2>1. PICK id \in {"kept", "lost"} : open' = open \cup {<<p, t, id>>}
      BY <1>1 DEF ProbeSession, ProbeLosesSession, Opened
    <2>2. p \notin Requests
      BY FederationAssumption
    <2> QED BY <2>1, <2>2
  <1>2. ASSUME open' \subseteq open
        PROVE  \A d \in Requests, u \in Targets : <<d, u, "kept">> \in open' => <<d, u, "kept">> \in open
    BY <1>2
  <1>3. ASSUME NEW p \in Pollers,
               Poll(p) \/ LoseSweep(p) \/ BackOut(p) \/ StartSweep(p) \/ EndSweep(p)
        PROVE  open' \subseteq open
    BY <1>3 DEF Poll, LoseSweep, BackOut, StartSweep, EndSweep
  <1>4. ASSUME NEW p \in Pollers, NEW t \in Targets,
               \/ AcquireProbe(p, t) \/ ProbeClose(p, t) \/ ProbePanics(p, t)
               \/ \E ok \in BOOLEAN : ProbeResult(p, t, ok)
        PROVE  open' \subseteq open
    BY <1>4 DEF AcquireProbe, ProbeClose, ProbePanics, ProbeResult
  <1>5. ASSUME Tick \/ \E t \in Targets, result \in {"below500", "5xx", "failed", "canceled"} : ProxyTarget(t, result)
        PROVE  open' \subseteq open
    BY <1>5 DEF Tick, ProxyTarget
  <1> QED BY <1>1, <1>2, <1>3, <1>4, <1>5 DEF HealthNext

-----------------------------------------------------------------------------
(* The theorems.                                                           *)

\* The invariant holds initially.
LEMMA IInvInit == Init => IInv
  <1> SUFFICES ASSUME Init PROVE IInv
    OBVIOUS
  <1> USE DEF Init, HealthInit
  <1>1. HealthInv
    <2>1. NoEntry \in Entry
      <3>1. FALSE \in BOOLEAN
        BY Zenon
      <3> QED BY <3>1 DEF NoEntry, Entry
    <2>2. sweeping \in BOOLEAN
      BY Zenon
    <2>3. HealthTypes
      BY <2>1, <2>2 DEF HealthTypes, ProbePlaces
    <2>4. OneSweep
      BY DEF OneSweep, Running
    <2>5. \A p \in Pollers : ProbesOf(p)
      BY DEF ProbesOf
    <2> QED BY <2>3, <2>4, <2>5 DEF HealthInv
  <1>2. NoJob \in Job /\ NoJob.at = "none"
    <2>1. "none" \in Places /\ "none" \in Results
      BY DEF Places, Results
    <2> QED BY <2>1 DEF NoJob, Job
  <1>3. FederatedTypes
    <2>1. job \in [Requests -> [Servers -> Job]]
      BY <1>2
    <2>2. tools \in [Requests -> [Servers -> SUBSET Seq(STRING)]] /\ called \in [Requests -> Seq(STRING)]
      OBVIOUS
    <2>3. answer \in [Requests -> Answers]
      <3>1. "none" \in Answers
        BY DEF Answers, Results
      <3> QED BY <3>1
    <2>4. merged \in [Requests -> Seq(Servers)] /\ replied \in [Requests -> Replies]
      BY DEF Replies, Results
    <2> QED BY <2>1, <2>2, <2>3, <2>4 DEF FederatedTypes
  <1>4. \A r \in Requests : Jobs(r) /\ RunsOf(r) /\ SessionsOf(r) /\ SlotsOf(r)
    <2> TAKE r \in Requests
    <2>1. Jobs(r)
      BY <1>2 DEF Jobs
    <2>2. RunsOf(r) /\ SessionsOf(r)
      BY DEF RunsOf, SessionsOf
    <2>3. Holding(r) = {}
      BY DEF Holding
    <2>4. SlotsOf(r)
      BY <2>3, FS_EmptySet DEF SlotsOf
    <2> QED BY <2>1, <2>2, <2>4
  <1>5. GateSlots
    <2>1. GateHolders = {}
      BY DEF GateHolders
    <2> QED BY <2>1, FS_EmptySet DEF GateSlots
  <1> QED BY <1>1, <1>3, <1>4, <1>5 DEF IInv, FederatedInv

\* Every step keeps the invariant.
LEMMA IInvNext == IInv /\ [Next]_vars => IInv'
  <1> SUFFICES ASSUME IInv, [Next]_vars PROVE IInv'
    OBVIOUS
  <1>0. HealthInv /\ FederatedInv
    BY DEF IInv
  <1>1. CASE FederatedNext
    BY <1>0, <1>1, FederatedStep, FederatedHealth DEF IInv
  <1>2. ctx \in [Requests -> {"live", "expired", "canceled"}]
    BY <1>0 DEF FederatedInv, FederatedTypes
  <1>3. CASE HealthNext /\ UNCHANGED fedVars
    <2>1. HealthInv'
      BY <1>0, <1>3, HealthStep
    <2>2. FederatedInv'
      BY <1>0, <1>2, <1>3, HealthSessions, FederatedFrame DEF fedVars
    <2> QED BY <2>1, <2>2 DEF IInv
  <1>4. CASE UNCHANGED vars
    <2>1. UNCHANGED <<fedVars, entries, sweepVars, open, proxied>>
      BY <1>4 DEF vars, healthVars
    <2>2. HealthInv'
      BY <1>0, <2>1, HealthFrame DEF HealthInv, HealthTypes
    <2>3. FederatedInv'
      BY <1>0, <1>2, <2>1, FederatedFrame DEF fedVars
    <2> QED BY <2>2, <2>3 DEF IInv
  <1> QED BY <1>1, <1>3, <1>4 DEF Next

\* The inductive invariant: which jobs a request has, where each is, what it holds.
THEOREM Invariant == Spec => []IInv
  BY IInvInit, IInvNext, PTL DEF Spec

\* mcpBackendCall: a tool runs a second time only after an answer that mcpSessionRequiredSignal
\* takes for a missing session, and never a third time, for any number of servers and requests.
THEOREM RunCorrect == Spec => []TwiceOnlyIfRefused
  <1>1. IInv => TwiceOnlyIfRefused
    <2> SUFFICES ASSUME IInv, NEW r \in Requests
                 PROVE  ran[r] <= 2 /\ (ran[r] = 2 => replied[r] \in {"http400", "sessionError"})
      BY DEF TwiceOnlyIfRefused
    <2>1. RunsOf(r) /\ ran[r] \in Nat
      BY DEF IInv, FederatedInv, FederatedTypes
    <2> QED BY <2>1 DEF RunsOf, Refused
  <1> QED BY Invariant, <1>1, PTL

\* The two semaphores of the fan-out are held by running goroutines and by nothing
\* else, for any number of listings and servers and any limits.
THEOREM SlotsCorrect == Spec => []SlotsHeld
  <1>1. IInv => SlotsHeld
    <2> SUFFICES ASSUME IInv PROVE SlotsHeld
      OBVIOUS
    <2>1. \A r \in Requests : sem[r] = Cardinality(Holding(r))
      BY DEF IInv, FederatedInv, SlotsOf
    <2>2. job \in [Requests -> [Servers -> Job]]
      BY DEF IInv, FederatedInv, FederatedTypes
    <2>3. \A r \in Requests, s \in Servers : s \in HoldingGate(r) <=> <<r, s>> \in GateHolders
      BY DEF HoldingGate, Holding, GateHolders, AtGate
    <2>4. \A r \in Requests : HoldingGate(r) \subseteq Servers
      BY DEF HoldingGate, Holding
    <2>5. GateHolders \subseteq Requests \X Servers
      BY DEF GateHolders
    <2>6. UNION {{r} \X HoldingGate(r) : r \in Requests} = GateHolders
      <3>1. ASSUME NEW x \in GateHolders PROVE x \in UNION {{r} \X HoldingGate(r) : r \in Requests}
        <4>1. PICK r \in Requests, s \in Servers : x = <<r, s>>
          BY <2>5
        <4>2. s \in HoldingGate(r)
          BY <2>3, <4>1
        <4> QED BY <4>1, <4>2
      <3>2. ASSUME NEW r \in Requests, NEW x \in {r} \X HoldingGate(r) PROVE x \in GateHolders
        <4>1. PICK s \in HoldingGate(r) : x = <<r, s>>
          OBVIOUS
        <4> QED BY <2>3, <2>4, <4>1
      <3> QED BY <3>1, <3>2
    <2> QED BY <2>1, <2>6 DEF IInv, FederatedInv, GateSlots, SlotsHeld
  <1> QED BY Invariant, <1>1, PTL

\* No session outlives the request or the sweep that an initialize opened it for, except
\* one whose id the failing handshake dropped.
THEOREM SessionsCorrect == Spec => []SessionsClosed
  <1>1. IInv => SessionsClosed
    <2> SUFFICES ASSUME IInv, NEW x \in open,
                        \/ x[1] \in Requests /\ state[x[1]] = "done"
                        \/ x[1] \in Pollers /\ poll[x[1]] = "done",
                        x[3] # "lost"
                 PROVE  FALSE
      BY DEF SessionsClosed
    <2>1. x = <<x[1], x[2], "kept">> /\ x[2] \in Targets
      BY DEF IInv, HealthInv, HealthTypes, Sessions
    <2>2. ASSUME x[1] \in Requests, state[x[1]] = "done" PROVE FALSE
      <3>1. x[2] \in Servers /\ job[x[1]][x[2]].at \in {"retry", "close"}
        BY <2>1, <2>2 DEF IInv, FederatedInv, SessionsOf
      <3> QED BY <2>2, <3>1 DEF IInv, FederatedInv, Jobs
    <2>3. ASSUME x[1] \in Pollers, poll[x[1]] = "done" PROVE FALSE
      <3>1. ProbesOf(x[1]) /\ <<x[1], x[2], "kept">> \in open
        BY <2>1, <2>3 DEF IInv, HealthInv
      <3>2. probe[x[1]][x[2]] = "close"
        BY <2>1, <3>1 DEF ProbesOf
      <3> QED BY <2>1, <2>3, <3>1, <3>2 DEF ProbesOf
    <2> QED BY <2>2, <2>3
  <1> QED BY Invariant, <1>1, PTL

\* maybeSweepTargetHealth: sweeps never overlap and start an interval apart, for any
\* number of polls.
THEOREM SweepsCorrect == Spec => SweepsApart
  <1>1. ASSUME IInv, [Next]_vars
        PROVE  [\A p \in Pollers : ~Running(p) /\ Running(p)' =>
                   /\ \A q \in Pollers : ~Running(q)
                   /\ lastSweep = 0 \/ clock - lastSweep >= Interval]_healthVars
    <2> SUFFICES ASSUME NEW p \in Pollers, ~Running(p), Running(p)'
                 PROVE  /\ \A q \in Pollers : ~Running(q)
                        /\ lastSweep = 0 \/ clock - lastSweep >= Interval
      OBVIOUS
    <2>0. HealthInv /\ FederatedInv /\ poll \in [Pollers -> {"new", "due", "sweeping", "done"}] /\ OneSweep
      BY <1>1 DEF IInv, HealthInv, HealthTypes
    <2>1. poll' # poll
      BY DEF Running
    <2>2. HealthNext
      BY <1>1, <2>0, <2>1, FederatedHealth DEF Next, vars, healthVars, sweepVars
    <2>3. StartSweep(p)
      <3>1. ASSUME NEW q \in Pollers, Poll(q) \/ LoseSweep(q) \/ BackOut(q) \/ EndSweep(q) PROVE FALSE
        BY <2>0, <3>1 DEF Poll, LoseSweep, BackOut, EndSweep, Running
      <3>2. ASSUME NEW q \in Pollers, StartSweep(q) PROVE q = p
        BY <2>0, <3>2 DEF StartSweep, Running
      <3>3. ASSUME NEW q \in Pollers, NEW t \in Targets,
                   \/ AcquireProbe(q, t) \/ ProbeSession(q, t) \/ ProbeClose(q, t) \/ ProbePanics(q, t)
                   \/ ProbeLosesSession(q, t)
                   \/ \E ok \in BOOLEAN : ProbeResult(q, t, ok)
            PROVE  FALSE
        BY <2>1, <3>3 DEF AcquireProbe, ProbeSession, ProbeClose, ProbePanics, ProbeLosesSession, ProbeResult
      <3>4. ~Tick
        BY <2>1 DEF Tick
      <3>5. ASSUME NEW t \in Targets, NEW result, ProxyTarget(t, result) PROVE FALSE
        BY <2>1, <3>5 DEF ProxyTarget, sweepVars
      <3> QED BY <2>2, <3>1, <3>2, <3>3, <3>4, <3>5 DEF HealthNext
    <2> QED BY <2>0, <2>3 DEF StartSweep, IntervalElapsed, OneSweep
  <1> QED BY Invariant, <1>1, PTL DEF Spec, SweepsApart

=============================================================================
