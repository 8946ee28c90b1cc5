------------------------------ MODULE Failover ------------------------------
(***************************************************************************)
(* runMeteredCall of routes_unified.go: one client request tries the       *)
(* providers that serve its model, in an order that depends on the         *)
(* request-path health (failover.go), the discovery health and the prices, *)
(* until one has written to the client or none is left.  Each try is a     *)
(* call under the retry policy of retry.go.                                *)
(*                                                                         *)
(* Requests run concurrently and share the health states and the response  *)
(* cache.  All cacheable requests carry the same body, so a provider has   *)
(* one cache entry.  What an upstream does is a choice of the environment. *)
(***************************************************************************)
EXTENDS Integers, FiniteSets, Sequences

CONSTANTS
    Requests,         \* client requests, each at most once
    Providers,        \* configured providers
    Gateway,          \* the gateway as the author of an error answer
    Pool,             \* [Requests -> Seq(Providers)]: resolveWithCandidates
    Price,            \* per provider: if its price is known, the price, and if
                      \* the operator has declared the model free
    Enabled,          \* failover.enabled
    MaxAttempts,      \* failover.maxAttempts
    Tries,            \* retryPolicy.totalTries
    Threshold,        \* requestBreakerFailureThreshold
    OpenDuration,     \* requestBreakerOpenDuration
    MaxOpenDuration,  \* requestBreakerMaxOpenDuration
    Cacheable,        \* the requests whose response may be cached
    Budgeted,         \* the requests refused when a model has no price
    MaxTime           \* bound on the clock

ASSUME PoolAssumption ==
    /\ Gateway \notin Providers
    /\ Pool \in [Requests -> Seq(Providers)]
    /\ \A r \in Requests : Len(Pool[r]) > 0
    /\ \A r \in Requests : \A i, j \in 1..Len(Pool[r]) : Pool[r][i] = Pool[r][j] => i = j
ASSUME PriceAssumption == Price \in [Providers -> [known : BOOLEAN, free : BOOLEAN, in : Nat, out : Nat]]
ASSUME ConfigAssumption ==
    /\ Enabled \in BOOLEAN
    /\ MaxAttempts \in Nat \ {0} /\ Tries \in Nat \ {0} /\ Threshold \in Nat \ {0}
    /\ OpenDuration \in Nat \ {0} /\ MaxOpenDuration \in Nat
    /\ OpenDuration <= MaxOpenDuration
    /\ Cacheable \subseteq Requests /\ Budgeted \subseteq Requests
    /\ MaxTime \in Nat

VARIABLES
    now,       \* the clock
    health,    \* per provider, its requestHealthState
    shunned,   \* the providers whose discovery breaker is open
    cache,     \* the providers with a cached response to this body
    pc,        \* where each request is
    list,      \* its candidates, in the order they are tried
    idx,       \* index of the candidate at hand
    raw,       \* upstream calls made for this candidate
    gone,      \* the client has gone away
    wrote,     \* who has written a response header to the client
    failedAt,  \* auxiliary: the candidates that failed this request
    blame      \* auxiliary: per provider, the requests whose failure counts

reqVars == <<pc, list, idx, raw, gone, wrote, failedAt>>
vars == <<now, health, shunned, cache, reqVars, blame>>

-----------------------------------------------------------------------------
(* Request-path health.                                                    *)

Closed == [open |-> FALSE, fails |-> 0, backoff |-> 0, until |-> 0]

\* requestHealthTracker.record of a failure: within an open window it changes
\* nothing, after it the window doubles, and the Threshold-th in a row opens.
RecordFailure(h, t) ==
    IF h.open /\ t < h.until THEN h
    ELSE IF h.open
    THEN LET b == IF 2 * h.backoff > MaxOpenDuration THEN MaxOpenDuration ELSE 2 * h.backoff
         IN  [h EXCEPT !.backoff = b, !.until = t + b]
    ELSE IF h.fails + 1 >= Threshold
    THEN [open |-> TRUE, fails |-> h.fails + 1, backoff |-> OpenDuration,
          until |-> t + OpenDuration]
    ELSE [h EXCEPT !.fails = @ + 1]

Healthy(p) == ~health[p].open \/ now >= health[p].until

\* What one candidate's call comes to, after its retries.
Outcomes == {"ok", "transient", "denied", "broken", "http400", "unrelated", "canceled"}

\* failoverEligible: 429, 5xx and transport errors; other 4xx and deadlines;
\* a response that broke off.  A 400, a client that left, a request that could
\* not be built and a translation error are not the provider's failure.
FailoverEligible(o) == o \in {"transient", "denied", "broken"}

\* requestHealthOutcome: which outcomes say something about the provider.
Records(o) == o \in {"ok", "http400"} \/ FailoverEligible(o)

\* runMeteredCall's use of it for provider p and request r.
RecordOutcome(r, p, o) ==
    IF Enabled /\ Records(o)
    THEN /\ health' = [health EXCEPT ![p] = IF FailoverEligible(o) THEN RecordFailure(@, now)
                                            ELSE Closed]
         /\ blame' = [blame EXCEPT ![p] = IF FailoverEligible(o) THEN @ \cup {r} ELSE {}]
    ELSE UNCHANGED <<health, blame>>

-----------------------------------------------------------------------------
(* The candidates of a request.                                            *)

\* The elements of s that are in keep, in their order.
Filter(s, keep) ==
    LET f[i \in 0..Len(s)] ==
            IF i = 0 THEN << >> ELSE IF s[i] \in keep THEN Append(f[i - 1], s[i]) ELSE f[i - 1]
    IN  f[Len(s)]

\* orderedFailoverCandidates: request-path health excludes, unless it would
\* exclude everyone; discovery health only moves a provider to the end.
Ordered(pool) ==
    IF ~Enabled \/ Len(pool) = 1 THEN <<Head(pool)>>
    ELSE LET sound == Filter(pool, {p \in Providers : Healthy(p)})
             healthy == IF sound = << >> THEN pool ELSE sound
         IN  Filter(healthy, Providers \ shunned) \o Filter(healthy, shunned)

\* candidateCostAllowed.
CostAllowed(p, q) ==
    IF Price[p].known
    THEN Price[q].known /\ Price[q].in <= Price[p].in /\ Price[q].out <= Price[p].out
    ELSE Price[q].known => Price[q].in = 0 /\ Price[q].out = 0

\* filterCandidatesByCost: against the first candidate of the list.
ByCost(cands) ==
    IF Len(cands) < 2 THEN cands
    ELSE <<Head(cands)>> \o Filter(Tail(cands), {q \in Providers : CostAllowed(Head(cands), q)})

\* capFailoverCandidates.
Cap(cands) == SubSeq(cands, 1, IF Len(cands) > MaxAttempts THEN MaxAttempts ELSE Len(cands))

\* Faulty variant: the cost guard looks at the resolved provider, not at the first
\* one tried.
CandidatesByPrimary(r) == Cap(Ordered(ByCost(Pool[r])))
Candidates(r) == Cap(ByCost(Ordered(Pool[r])))

-----------------------------------------------------------------------------
Init ==
    /\ now = 0
    /\ health = [p \in Providers |-> Closed]
    /\ shunned = {}
    /\ cache = {}
    /\ pc = [r \in Requests |-> "idle"]
    /\ list = [r \in Requests |-> << >>]
    /\ idx = [r \in Requests |-> 1]
    /\ raw = [r \in Requests |-> 0]
    /\ gone = [r \in Requests |-> FALSE]
    /\ wrote = [r \in Requests |-> << >>]
    /\ failedAt = [r \in Requests |-> {}]
    /\ blame = [p \in Providers |-> {}]

Cand(r) == list[r][idx[r]]

\* An answer reaches the client from p.
Commit(r, p) == wrote' = [wrote EXCEPT ![r] = Append(@, p)]
Finish(r) == pc' = [pc EXCEPT ![r] = "done"]

\* The health states are read here and not again for this request.
Route(r) ==
    /\ pc[r] = "idle"
    /\ list' = [list EXCEPT ![r] = Candidates(r)]
    /\ pc' = [pc EXCEPT ![r] = IF Candidates(r) = << >> THEN "done" ELSE "next"]
    /\ UNCHANGED <<now, health, shunned, cache, idx, raw, gone, wrote, failedAt, blame>>

\* The client has left before a further candidate: the last error is the end.
GiveUp(r) ==
    /\ pc[r] = "next" /\ idx[r] > 1 /\ gone[r]
    /\ Commit(r, Gateway) /\ Finish(r)
    /\ UNCHANGED <<now, health, shunned, cache, list, idx, raw, gone, failedAt, blame>>

\* The loop goes on with the candidate at hand.
Goes(r) == pc[r] = "next" /\ (idx[r] = 1 \/ ~gone[r])

\* The candidate's own cache entry answers.  A lookup may also miss an entry
\* that exists: the cache's latch is set or Redis does not answer.
CacheHit(r) ==
    /\ Goes(r)
    /\ r \in Cacheable /\ Cand(r) \in cache
    /\ Commit(r, Cand(r)) /\ Finish(r)
    /\ UNCHANGED <<now, health, shunned, cache, list, idx, raw, gone, failedAt, blame>>

\* priceKnown also takes a model that is declared free.
Unpriced(r) == r \in Budgeted /\ ~Price[Cand(r)].known /\ ~Price[Cand(r)].free

\* 402: the candidate has no price and a cost budget applies.
RefuseUnpriced(r) ==
    /\ Goes(r)
    /\ Unpriced(r)
    /\ Commit(r, Gateway) /\ Finish(r)
    /\ UNCHANGED <<now, health, shunned, cache, list, idx, raw, gone, failedAt, blame>>

Call(r) ==
    /\ Goes(r)
    /\ ~Unpriced(r)
    /\ pc' = [pc EXCEPT ![r] = "call"]
    /\ raw' = [raw EXCEPT ![r] = 1]
    /\ UNCHANGED <<now, health, shunned, cache, list, idx, gone, wrote, failedAt, blame>>

\* Faulty variant: every upstream attempt is recorded against the provider.
RetryRecorded(r) ==
    /\ pc[r] = "call" /\ raw[r] < Tries /\ ~gone[r]
    /\ raw' = [raw EXCEPT ![r] = @ + 1]
    /\ RecordOutcome(r, Cand(r), "transient")
    /\ UNCHANGED <<now, shunned, cache, pc, list, idx, gone, wrote, failedAt>>

\* retryPolicy.do: a transient failure with tries left waits and calls again.
Retry(r) ==
    /\ pc[r] = "call" /\ raw[r] < Tries /\ ~gone[r]
    /\ raw' = [raw EXCEPT ![r] = @ + 1]
    /\ UNCHANGED <<now, health, shunned, cache, pc, list, idx, gone, wrote, failedAt, blame>>

\* What the call may come to: a transient failure is final after the last try,
\* and a response is written only once the provider has answered with one.
Possible(r, o, w) ==
    /\ o = "transient" => raw[r] = Tries
    /\ o = "canceled" => gone[r]
    /\ o = "ok" => w
    /\ o \in {"transient", "denied", "http400"} => ~w

\* Faulty variant: a response that broke off is tried elsewhere.
MoveOnAlways(r, o, w) == idx[r] < Len(list[r]) /\ FailoverEligible(o)

\* A failed candidate is followed by the next one.
MoveOn(r, o, w) == ~w /\ idx[r] < Len(list[r]) /\ FailoverEligible(o)

\* The call returns outcome o, having written (w) to the client or not: record
\* its health, cache a complete response, then end or move on.
Return(r, o, w) ==
    /\ pc[r] = "call"
    /\ Possible(r, o, w)
    /\ RecordOutcome(r, Cand(r), o)
    /\ failedAt' = IF FailoverEligible(o) THEN [failedAt EXCEPT ![r] = @ \cup {Cand(r)}]
                   ELSE failedAt
    /\ \/ UNCHANGED cache   \* not cacheable, too large, not 200, or latched
       \/ o = "ok" /\ r \in Cacheable /\ cache' = cache \cup {Cand(r)}
    /\ wrote' = IF w THEN [wrote EXCEPT ![r] = Append(@, Cand(r))]
                ELSE IF MoveOn(r, o, w) \/ o = "canceled" THEN wrote
                ELSE [wrote EXCEPT ![r] = Append(@, Gateway)]
    /\ IF MoveOn(r, o, w)
       THEN /\ pc' = [pc EXCEPT ![r] = "next"]
            /\ idx' = [idx EXCEPT ![r] = @ + 1]
       ELSE Finish(r) /\ UNCHANGED idx
    /\ raw' = [raw EXCEPT ![r] = 0]
    /\ UNCHANGED <<now, shunned, list, gone>>

\* The environment: clients leave, cache entries expire, discovery breakers
\* open and close, time passes.
Leave(r) ==
    /\ pc[r] \in {"next", "call"} /\ ~gone[r]
    /\ gone' = [gone EXCEPT ![r] = TRUE]
    /\ UNCHANGED <<now, health, shunned, cache, pc, list, idx, raw, wrote, failedAt, blame>>

CacheExpires(p) ==
    /\ p \in cache
    /\ cache' = cache \ {p}
    /\ UNCHANGED <<now, health, shunned, reqVars, blame>>

Discovery(p) ==
    /\ shunned' = IF p \in shunned THEN shunned \ {p} ELSE shunned \cup {p}
    /\ UNCHANGED <<now, health, cache, reqVars, blame>>

Tick ==
    /\ now < MaxTime
    /\ now' = now + 1
    /\ UNCHANGED <<health, shunned, cache, reqVars, blame>>

Next ==
    \/ \E r \in Requests :
          \/ Route(r) \/ GiveUp(r) \/ CacheHit(r) \/ RefuseUnpriced(r) \/ Call(r)
          \/ Retry(r) \/ Leave(r)
          \/ \E o \in Outcomes, w \in BOOLEAN : Return(r, o, w)
    \/ \E p \in Providers : CacheExpires(p) \/ Discovery(p)
    \/ Tick

Spec == Init /\ [][Next]_vars

-----------------------------------------------------------------------------
\* The type invariant of the module's state.
TypeOK ==
    /\ now \in Nat
    /\ health \in [Providers -> [open : BOOLEAN, fails : Nat, backoff : Nat, until : Nat]]
    /\ shunned \subseteq Providers /\ cache \subseteq Providers
    /\ pc \in [Requests -> {"idle", "next", "call", "done"}]
    /\ list \in [Requests -> Seq(Providers)]
    /\ idx \in [Requests -> Nat \ {0}]
    /\ raw \in [Requests -> 0..Tries]
    /\ gone \in [Requests -> BOOLEAN]
    /\ wrote \in [Requests -> Seq(Providers \cup {Gateway})]
    /\ failedAt \in [Requests -> SUBSET Providers]
    /\ blame \in [Providers -> SUBSET Requests]

\* A client gets exactly one response: no provider's bytes follow another's or
\* an error's, and only a client that left may get none, whichever providers
\* are thought unhealthy (README.md, "Never mid-stream").  It comes, from upstream
\* or from a cache entry, from a provider that was reached only because every
\* candidate before it failed this very request (README.md, "Caching").
OneAnswer ==
    \A r \in Requests :
        /\ Len(wrote[r]) <= 1
        /\ pc[r] = "done" /\ ~gone[r] => Len(wrote[r]) = 1
        /\ wrote[r] # << >> /\ wrote[r][1] # Gateway =>
             \A j \in 1..(idx[r] - 1) : list[r][j] \in failedAt[r]

\* The cost guard: no candidate that is tried costs more than the first one
\* tried, on input or output, however health reordered the list.
NeverDearer ==
    \A r \in Requests : pc[r] # "idle" /\ list[r] # << >> =>
        \A j \in 2..idx[r] : CostAllowed(list[r][1], list[r][j])

\* The breaker counts logical requests: it is open only after Threshold
\* different requests failed at the provider since it last succeeded, never
\* because one request was retried.
BreakerCountsRequests ==
    \A p \in Providers : health[p].open => Cardinality(blame[p]) >= Threshold

=============================================================================
