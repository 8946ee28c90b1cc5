------------------------------ MODULE Limiter ------------------------------
(***************************************************************************)
(* Admission control of limits.go: checkAndCount, settleRejection and      *)
(* accountWith, run by concurrent requests on several replicas against one *)
(* configured Redis store and one in-process fallback store per replica.   *)
(*                                                                         *)
(* A store call is a batch of entries that the store applies one at a time *)
(* (the memory store locks per key, a Redis pipeline is not a transaction),*)
(* so the entries of concurrent requests interleave.  A batch may fail     *)
(* after any prefix of it was applied, and the connection layer may send   *)
(* it a second time when no byte of its reply was read.                    *)
(***************************************************************************)
EXTENDS Integers, Sequences, FiniteSets, FiniteSetsExt

CONSTANTS
    Requests,      \* the requests that may arrive, each at most once
    Replicas,      \* the gateway processes
    Scopes,        \* users, groups and the total scope
    Total,         \* withTotalScope's scope, which has no limits
    LimitScopes,   \* [Requests -> Seq(Scopes)]: buildLimitScopes, user first
    RepOf,         \* [Requests -> Replicas]: the replica that serves a request
    ReqLimit,      \* [Scopes -> [{"min","day"} -> Nat]], 0 = unlimited
    BudgetLimit,   \* [Scopes -> [1..4 -> Nat]], 0 = no budget
    WindowLen,     \* [Windows -> Nat \ {0}]: minutes per window
    Reported,      \* the usages an upstream may report
    MaxUsage,      \* maxUsageTokensPerRequest, maxCostMicrosPerRequest
    Configured,    \* TRUE when limits.redis is configured
    FailOpen,      \* limits.failOpen
    StatsAdmin,    \* the dashboard keeps hourly rejection counters
    Resends,       \* TRUE when a lost reply may make respClient send twice
    MaxTime,       \* bound on the clock
    MaxFaults,     \* bound on the number of failed store calls
    MaxConcurrent  \* bound on the requests in flight at one time

Redis == "redis"
StoreDown == "store_down"
Windows == {"min", "hour", "day", "month"}
BatchPhases == {"check", "settle", "account"}
Metrics == {"req", "rej", "tok", "cost"}

ASSUME RequestsFinite == IsFiniteSet(Requests)
ASSUME ReplicaAssumption ==
    Redis \notin Replicas /\ StoreDown \notin Replicas /\ RepOf \in [Requests -> Replicas]
ASSUME ScopeAssumption ==
    /\ Total \in Scopes /\ StoreDown \notin Scopes
    /\ LimitScopes \in [Requests -> Seq(Scopes)]
    /\ \A r \in Requests : \A i, j \in 1..Len(LimitScopes[r]) :
          /\ LimitScopes[r][i] # Total
          /\ LimitScopes[r][i] = LimitScopes[r][j] => i = j
ASSUME LimitAssumption ==
    /\ ReqLimit \in [Scopes -> [{"min", "day"} -> Nat]]
    /\ BudgetLimit \in [Scopes -> [1..4 -> Nat]]
    /\ WindowLen \in [Windows -> Nat \ {0}]
ASSUME UsageAssumption ==
    /\ Reported \subseteq [tok : Int, cost : Int]
    /\ MaxUsage \in Nat
ASSUME SwitchAssumption ==
    /\ Configured \in BOOLEAN /\ FailOpen \in BOOLEAN
    /\ StatsAdmin \in BOOLEAN /\ Resends \in BOOLEAN
ASSUME BoundAssumption ==
    MaxTime \in Nat /\ MaxFaults \in Nat /\ MaxConcurrent \in Nat \ {0}

VARIABLES
    now,        \* the clock, in minutes
    pc,         \* where each request is
    at,         \* the instant checkAndCount captured, per request
    acctAt,     \* the instant accountWith captured, per request
    st,         \* the store the current batch runs against
    pos,        \* index of the next entry of the current batch
    resent,     \* whether the current batch was already sent twice
    over,       \* positions of the check batch whose reply is over its limit
    viol,       \* index of the violated scope, 0 if none
    use,        \* the usage accounted for a served request
    count,      \* per store, the counters that exist (an absent one reads 0)
    latched,    \* per replica, whether its store-down latch is set
    rejections, \* the in-process rejection counters, per <<replica, scope>>
    faults,     \* number of store failures so far
    charged     \* auxiliary: the <<store, key>> charges of each request

reqVars == <<pc, at, acctAt, st, pos, resent, over, viol, use>>
vars == <<now, reqVars, count, latched, rejections, faults, charged>>

Stores == Replicas \cup {Redis}

-----------------------------------------------------------------------------
(* Keys and batches.                                                       *)

\* bucketFor/windowKeyForBucket: a counter lives in one bucket of one window.
Key(metric, sc, w, t) == <<metric, sc, w, t \div WindowLen[w]>>

Keys == Metrics \X Scopes \X Windows \X Nat

\* withTotalScope(buildLimitScopes(u, grp)).
ScopesFor(r) == Append(LimitScopes[r], Total)

NumScopes(r) == Len(LimitScopes[r]) + 1

checkAndCountKeysPerScope == 3
EntryWindow == <<"min", "day", "hour">>

\* Entry i of checkAndCount: req:min, req:day, req:hour of each scope in order.
EntryScope(i) == ((i - 1) \div checkAndCountKeysPerScope) + 1
EntryWindowOf(i) == EntryWindow[((i - 1) % checkAndCountKeysPerScope) + 1]
NumEntries(r) == checkAndCountKeysPerScope * NumScopes(r)
ReqKey(r, i, t) ==
    Key("req", ScopesFor(r)[EntryScope(i)], EntryWindowOf(i), t)

\* settleRejection: take back the increments of the scopes other than the
\* violated one, under the keys captured at admission, and count the rejection
\* against the violated scope and the total.
NumUndo(r) == NumEntries(r) - checkAndCountKeysPerScope
\* Faulty variant: the violated scope is taken for the last one.
UndoIndexFirst(r, i) == i
UndoIndex(r, i) ==
    IF i <= checkAndCountKeysPerScope * (viol[r] - 1)
    THEN i ELSE i + checkAndCountKeysPerScope
NumRej == IF StatsAdmin THEN 4 ELSE 2
RejKey(r, i) ==
    Key("rej", IF i % 2 = 1 THEN ScopesFor(r)[viol[r]] ELSE Total,
        IF i <= 2 THEN "day" ELSE "hour", at[r])

Plausible(u) == IF u > MaxUsage \/ u < 0 THEN 0 ELSE u

UsageWindow == <<"hour", "day", "month">>
UsagePerScope(r) == IF use[r].tok # 0 /\ use[r].cost # 0 THEN 6 ELSE 3
UsageMetric(r, i) ==
    IF use[r].tok = 0 THEN "cost"
    ELSE IF use[r].cost = 0 \/ (i - 1) % 6 < 3 THEN "tok" ELSE "cost"

\* The increments of each phase's batch.
CheckEntry(r, i) == [key |-> ReqKey(r, i, at[r]), delta |-> 1]
\* Faulty variant: the compensation recomputes its buckets when it runs.
SettleEntryNow(r, i) ==
    IF i <= NumUndo(r)
    THEN [key |-> ReqKey(r, UndoIndex(r, i), now), delta |-> -1]
    ELSE [key |-> RejKey(r, i - NumUndo(r)), delta |-> 1]
SettleEntry(r, i) ==
    IF i <= NumUndo(r)
    THEN [key |-> ReqKey(r, UndoIndex(r, i), at[r]), delta |-> -1]
    ELSE [key |-> RejKey(r, i - NumUndo(r)), delta |-> 1]
AccountEntry(r, i) ==
    [key |-> Key(UsageMetric(r, i), ScopesFor(r)[((i - 1) \div UsagePerScope(r)) + 1],
                 UsageWindow[((i - 1) % 3) + 1], acctAt[r]),
     delta |-> use[r][UsageMetric(r, i)]]

\* Every increment of a check is followed, in the same round trip, by the
\* budget reads, scope by scope.
BatchLen(r) ==
    IF pc[r] = "check" THEN NumEntries(r) + NumScopes(r)
    ELSE IF pc[r] = "settle" THEN NumUndo(r) + NumRej
    ELSE UsagePerScope(r) * NumScopes(r)
Entry(r) ==
    IF pc[r] = "check" THEN CheckEntry(r, pos[r])
    ELSE IF pc[r] = "settle" THEN SettleEntry(r, pos[r])
    ELSE AccountEntry(r, pos[r])

-----------------------------------------------------------------------------
(* Stores.                                                                 *)

\* memoryStore.get, GET: an absent counter reads 0.
Get(f, k) == IF k \in DOMAIN f THEN f[k] ELSE 0

\* memoryStore.applyIncr, INCRBY.
Incr(f, k, d) ==
    [x \in DOMAIN f \cup {k} |-> IF x = k THEN Get(f, k) + d ELSE f[x]]

\* storeIncrAndGetMulti/storeIncrMulti: the store a new batch of replica p
\* goes to, or StoreDown when the latch is set and the policy fails closed.
\* Faulty variant: the latch always fails closed.
StoreForClosed(p) ==
    IF ~Configured THEN p ELSE IF ~latched[p] THEN Redis ELSE StoreDown
StoreFor(p) ==
    IF ~Configured THEN p
    ELSE IF ~latched[p] THEN Redis
    ELSE IF FailOpen THEN p
    ELSE StoreDown

\* requestLimitViolation: the count just read back is over the limit of the
\* entry's scope and window (the hourly counter is never limited).
\* Faulty variant: the request's own increment is not counted.
OverRequestLimitBefore(r, i, v) ==
    /\ EntryWindowOf(i) # "hour"
    /\ LET limit == ReqLimit[ScopesFor(r)[EntryScope(i)]][EntryWindowOf(i)]
       IN  limit > 0 /\ v - 1 > limit
OverRequestLimit(r, i, v) ==
    /\ EntryWindowOf(i) # "hour"
    /\ LET limit == ReqLimit[ScopesFor(r)[EntryScope(i)]][EntryWindowOf(i)]
       IN  limit > 0 /\ v > limit

\* buildBudgetProbes and the budget loop of checkAndCount: some budget of the
\* scope is already used up.  Usage only grows within a bucket and each budget
\* is compared on its own, so reading one scope's budgets together reaches
\* every verdict that reading them one by one does.
Budget == << <<"tok", "day">>, <<"tok", "month">>,
             <<"cost", "day">>, <<"cost", "month">> >>
\* Faulty variant: a budget that is exactly used up still admits.
OverBudgetStrict(f, sc, t) ==
    \E b \in 1..4 :
        /\ BudgetLimit[sc][b] > 0
        /\ Get(f, Key(Budget[b][1], sc, Budget[b][2], t)) > BudgetLimit[sc][b]
OverBudget(f, sc, t) ==
    \E b \in 1..4 :
        /\ BudgetLimit[sc][b] > 0
        /\ Get(f, Key(Budget[b][1], sc, Budget[b][2], t)) >= BudgetLimit[sc][b]

\* The scope a position of the check batch belongs to.
PosScope(r, i) == IF i <= NumEntries(r) THEN EntryScope(i) ELSE i - NumEntries(r)

InFlight == {r \in Requests : pc[r] \notin {"idle", "done", "rejected", "refused"}}

-----------------------------------------------------------------------------
Init ==
    /\ now = 0
    /\ pc = [r \in Requests |-> "idle"]
    /\ at = [r \in Requests |-> 0]
    /\ acctAt = [r \in Requests |-> 0]
    /\ st = [r \in Requests |-> RepOf[r]]
    /\ pos = [r \in Requests |-> 1]
    /\ resent = [r \in Requests |-> FALSE]
    /\ over = [r \in Requests |-> {}]
    /\ viol = [r \in Requests |-> 0]
    /\ use = [r \in Requests |-> [tok |-> 0, cost |-> 0]]
    /\ count = [s \in Stores |-> [k \in {} |-> 0]]
    /\ latched = [p \in Replicas |-> FALSE]
    /\ rejections = [px \in Replicas \X (Scopes \cup {StoreDown}) |-> 0]
    /\ faults = 0
    /\ charged = [r \in Requests |-> {}]

\* What a phase turns into when its store call fails: checkAndCount returns
\* storeDownViolation, settleRejection only logs, accountWith drops the usage.
AfterFailure == [check |-> "refused", settle |-> "rejected", account |-> "done"]

\* rejectionCounter.increment, in the serving replica's own memory.
NoteRejection(r, x) ==
    rejections' = [rejections EXCEPT ![<<RepOf[r], x>>] = @ + 1]

\* Begin a store call of the given phase.
Begin(r, phase) ==
    LET s == StoreFor(RepOf[r])
    IN  /\ pc' = [pc EXCEPT ![r] = IF s = StoreDown THEN AfterFailure[phase] ELSE phase]
        /\ st' = [st EXCEPT ![r] = s]
        /\ pos' = [pos EXCEPT ![r] = 1]
        /\ resent' = [resent EXCEPT ![r] = FALSE]

\* checkAndCount, up to its store call: capture the instant, pick the store.
Arrive(r) ==
    /\ pc[r] = "idle"
    /\ Cardinality(InFlight) < MaxConcurrent
    /\ at' = [at EXCEPT ![r] = now]
    /\ Begin(r, "check")
    /\ IF StoreFor(RepOf[r]) = StoreDown
       THEN NoteRejection(r, StoreDown)
       ELSE UNCHANGED rejections
    /\ UNCHANGED <<now, acctAt, over, viol, use, count, latched, faults, charged>>

\* The store applies the next increment of the batch.  Only the check's
\* replies are looked at.
IsIncrement(r) ==
    /\ pc[r] \in BatchPhases
    /\ pos[r] <= IF pc[r] = "check" THEN NumEntries(r) ELSE BatchLen(r)

Charge(r, e) ==
    IF pc[r] = "check" THEN charged[r] \cup {<<st[r], e.key>>}
    ELSE IF pc[r] = "settle" /\ pos[r] <= NumUndo(r) THEN charged[r] \ {<<st[r], e.key>>}
    ELSE charged[r]

Apply(r) ==
    /\ IsIncrement(r)
    /\ LET e == Entry(r)
           v == Get(count[st[r]], e.key) + e.delta
       IN  /\ count' = [count EXCEPT ![st[r]] = Incr(@, e.key, e.delta)]
           /\ over' = IF pc[r] = "check" /\ OverRequestLimit(r, pos[r], v)
                      THEN [over EXCEPT ![r] = @ \cup {pos[r]}] ELSE over
           /\ charged' = [charged EXCEPT ![r] = Charge(r, e)]
    /\ pos' = [pos EXCEPT ![r] = @ + 1]
    /\ UNCHANGED <<now, pc, at, acctAt, st, resent, viol, use, latched, rejections, faults>>

\* The store answers the budget reads of the check's next scope.
ReadBudgets(r) ==
    /\ pc[r] = "check" /\ pos[r] > NumEntries(r) /\ pos[r] <= BatchLen(r)
    /\ over' = IF OverBudget(count[st[r]], ScopesFor(r)[pos[r] - NumEntries(r)], at[r])
               THEN [over EXCEPT ![r] = @ \cup {pos[r]}] ELSE over
    /\ pos' = [pos EXCEPT ![r] = @ + 1]
    /\ UNCHANGED <<now, pc, at, acctAt, st, resent, viol, use, count, latched,
                   rejections, faults, charged>>

\* respClient.pipelineEncoded: the connection broke before any byte of the
\* reply was read, and the identical batch is sent once more.
Resend(r) ==
    /\ Resends
    /\ pc[r] \in BatchPhases /\ st[r] = Redis
    /\ pos[r] > 1 /\ ~resent[r]
    /\ pos' = [pos EXCEPT ![r] = 1]
    /\ resent' = [resent EXCEPT ![r] = TRUE]
    /\ over' = IF pc[r] = "check" THEN [over EXCEPT ![r] = {}] ELSE over
    /\ UNCHANGED <<now, pc, at, acctAt, st, viol, use, count, latched, rejections,
                   faults, charged>>

\* The configured store's call fails after some prefix of the batch was
\* applied: recordStoreFailure latches, then the fail policy decides.
StoreFails(r) ==
    /\ pc[r] \in BatchPhases /\ st[r] = Redis
    /\ faults < MaxFaults
    /\ faults' = faults + 1
    /\ latched' = [latched EXCEPT ![RepOf[r]] = TRUE]
    /\ \/ /\ FailOpen
          /\ st' = [st EXCEPT ![r] = RepOf[r]]
          /\ pos' = [pos EXCEPT ![r] = 1]
          /\ over' = IF pc[r] = "check" THEN [over EXCEPT ![r] = {}] ELSE over
          /\ UNCHANGED <<pc, rejections>>
       \/ /\ ~FailOpen
          /\ pc' = [pc EXCEPT ![r] = AfterFailure[pc[r]]]
          /\ IF pc[r] = "check" THEN NoteRejection(r, StoreDown) ELSE UNCHANGED rejections
          /\ UNCHANGED <<st, pos, over>>
    /\ UNCHANGED <<now, at, acctAt, resent, viol, use, count, charged>>

\* Scope i of r is over one of its limits.
Violates(r, i) == \E p \in over[r] : PosScope(r, p) = i

\* checkAndCount after its store call: admit, or reject on the first scope in
\* order that is over a limit and start the compensation.
Admit(r) ==
    /\ pc[r] = "check" /\ pos[r] > BatchLen(r)
    /\ \A i \in 1..NumScopes(r) : ~Violates(r, i)
    /\ pc' = [pc EXCEPT ![r] = "upstream"]
    /\ UNCHANGED <<now, at, acctAt, st, pos, resent, over, viol, use, count, latched,
                   rejections, faults, charged>>

Reject(r) ==
    /\ pc[r] = "check" /\ pos[r] > BatchLen(r)
    /\ \E i \in 1..NumScopes(r) :
          /\ Violates(r, i)
          /\ \A j \in 1..(i - 1) : ~Violates(r, j)
          /\ viol' = [viol EXCEPT ![r] = i]
          /\ NoteRejection(r, ScopesFor(r)[i])
    /\ Begin(r, "settle")
    /\ UNCHANGED <<now, at, acctAt, over, use, count, latched, faults, charged>>

\* The settling batch was answered.
Settled(r) ==
    /\ pc[r] = "settle" /\ pos[r] > BatchLen(r)
    /\ pc' = [pc EXCEPT ![r] = "rejected"]
    /\ UNCHANGED <<now, at, acctAt, st, pos, resent, over, viol, use, count, latched,
                   rejections, faults, charged>>

\* accountWith, once the upstream's usage is known, at an instant of its own.
Account(r) ==
    /\ pc[r] = "upstream"
    /\ \E u \in Reported :
          use' = [use EXCEPT ![r] = [tok |-> Plausible(u.tok), cost |-> Plausible(u.cost)]]
    /\ acctAt' = [acctAt EXCEPT ![r] = now]
    /\ IF use'[r] = [tok |-> 0, cost |-> 0]
       THEN /\ pc' = [pc EXCEPT ![r] = "done"]
            /\ UNCHANGED <<st, pos, resent>>
       ELSE Begin(r, "account")
    /\ UNCHANGED <<now, at, over, viol, count, latched, rejections, faults, charged>>

\* The accounting batch was answered.
Accounted(r) ==
    /\ pc[r] = "account" /\ pos[r] > BatchLen(r)
    /\ pc' = [pc EXCEPT ![r] = "done"]
    /\ UNCHANGED <<now, at, acctAt, st, pos, resent, over, viol, use, count, latched,
                   rejections, faults, charged>>

\* storeDownLatchFor has passed since the last failure of replica p.
LatchExpires(p) ==
    /\ latched[p]
    /\ latched' = [latched EXCEPT ![p] = FALSE]
    /\ UNCHANGED <<now, reqVars, count, rejections, faults, charged>>

Tick ==
    /\ now < MaxTime
    /\ now' = now + 1
    /\ UNCHANGED <<reqVars, count, latched, rejections, faults, charged>>

Step(r) == Apply(r) \/ ReadBudgets(r) \/ Admit(r) \/ Reject(r) \/ Settled(r) \/ Accounted(r)

Next ==
    \/ \E r \in Requests :
          \/ Arrive(r) \/ Apply(r) \/ ReadBudgets(r) \/ Resend(r) \/ StoreFails(r) \/ Admit(r)
          \/ Reject(r) \/ Settled(r) \/ Account(r) \/ Accounted(r)
    \/ \E p \in Replicas : LatchExpires(p)
    \/ Tick

Spec == Init /\ [][Next]_vars

\* A goroutine that runs a store call keeps running it; arrivals, upstream
\* answers and the clock owe nothing.
FairSpec == Spec /\ \A r \in Requests : WF_vars(Step(r))

-----------------------------------------------------------------------------
(* Properties.                                                             *)

Phases == BatchPhases \cup {"idle", "upstream", "done", "rejected", "refused"}

\* The type invariant of the module's state.
TypeOK ==
    /\ now \in Nat /\ faults \in Nat
    /\ pc \in [Requests -> Phases]
    /\ at \in [Requests -> Nat] /\ acctAt \in [Requests -> Nat]
    /\ st \in [Requests -> Stores \cup {StoreDown}]
    /\ pos \in [Requests -> Nat \ {0}]
    /\ resent \in [Requests -> BOOLEAN]
    /\ over \in [Requests -> SUBSET Nat]
    /\ viol \in [Requests -> Nat]
    /\ use \in [Requests -> [tok : Nat, cost : Nat]]
    /\ DOMAIN count = Stores
    /\ \A s \in Stores : DOMAIN count[s] \subseteq Keys
                         /\ \A k \in DOMAIN count[s] : count[s][k] \in Int
    /\ latched \in [Replicas -> BOOLEAN]
    /\ rejections \in [Replicas \X (Scopes \cup {StoreDown}) -> Nat]
    /\ charged \in [Requests -> SUBSET (Stores \X Keys)]

Admitted == {r \in Requests : pc[r] \in {"upstream", "account", "done"}}

\* The store that has the whole say over r when no call ever changes stores.
Home(r) == IF Configured THEN Redis ELSE RepOf[r]

ReqKeys(r) == {ReqKey(r, i, at[r]) : i \in 1..NumEntries(r)}

\* Request limits hold under concurrency: within one bucket of a window, the
\* requests that checkAndCount admitted against one store never outnumber the
\* scope's limit, however their increments, evaluations and compensations
\* interleave, across bucket changes and failed-closed store calls.
AdmittedWithinLimit ==
    \A s \in Stores, sc \in Scopes, w \in {"min", "day"} :
        ReqLimit[sc][w] > 0 =>
            \A b \in {at[r] \div WindowLen[w] : r \in Admitted} :
                Cardinality({r \in Admitted :
                    Home(r) = s /\ <<"req", sc, w, b>> \in ReqKeys(r)}) <= ReqLimit[sc][w]

\* Counters are "never under-counted" (redis_store.go incrMulti): a store's
\* request counter is at least the number of admitted requests it charged.
NeverUnderCounts ==
    \A s \in Stores : \A k \in DOMAIN count[s] :
        k[1] = "req" =>
            count[s][k] >= Cardinality({r \in Admitted : <<s, k>> \in charged[r]})

\* settleRejection leaves nothing behind: once no request is in flight, and no
\* store call ever failed, every request counter is exactly the admitted
\* requests of its scope plus the requests that scope itself rejected.  A
\* request rejected by a user's own limit never eats into the group's.
RejectionsLeaveOthersAlone ==
    (InFlight = {} /\ faults = 0) =>
        \A s \in Stores : \A k \in DOMAIN count[s] :
            k[1] = "req" =>
                count[s][k] = Cardinality({r \in Requests :
                    /\ Home(r) = s /\ k \in ReqKeys(r)
                    /\ \/ r \in Admitted
                       \/ pc[r] = "rejected" /\ ScopesFor(r)[viol[r]] = k[2]})

\* Budgets overshoot by no more than the requests in flight could add: the
\* usage in a budget's bucket stays below its limit plus MaxConcurrent times
\* the largest plausible usage, although usage is only written after the
\* upstream answers (README.md, "the overshoot is bounded by the number of
\* concurrent requests").
BudgetOvershootBounded ==
    \A s \in Stores : \A k \in DOMAIN count[s] : \A j \in 1..4 :
        (/\ <<k[1], k[3]>> = Budget[j]
         /\ BudgetLimit[k[2]][j] > 0)
            => count[s][k] < BudgetLimit[k[2]][j] + MaxConcurrent * MaxUsage

\* Every request that enters admission is admitted or rejected by a limit, and a
\* rejected one has its compensation attempted; it is turned away because of the
\* store only with failOpen off.
AdmissionDecides ==
    /\ \A r \in Requests : pc[r] \in {"check", "settle"} ~> pc[r] \notin {"check", "settle"}
    /\ [](FailOpen => \A r \in Requests : pc[r] # "refused")

=============================================================================
