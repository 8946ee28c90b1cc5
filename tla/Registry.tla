------------------------------ MODULE Registry ------------------------------
(***************************************************************************)
(* Model discovery of registry.go: per provider, the set of discovered     *)
(* models with its metadata, a circuit breaker over discovery, refreshes   *)
(* started by requests (maybeRefresh) and the one retry after a failed     *)
(* warm fill, and the cache of encoded model listings (modelsJSON) that a  *)
(* generation counter invalidates.                                         *)
(*                                                                         *)
(* The synchronous warm fill of newGateway has run in the initial states.  *)
(***************************************************************************)
EXTENDS Integers, FiniteSets

CONSTANTS
    Providers,    \* providers with discovery enabled
    Models,       \* model ids an upstream may list
    Versions,     \* states of a provider's model metadata
    Readers,      \* modelsJSON calls for one group, each at most once
    Interval,     \* discovery interval
    Threshold,    \* breakerThreshold
    OpenBase,     \* breakerOpenBase
    OpenMax,      \* breakerOpenMax
    MaxTime,      \* bound on the clock
    MaxRefreshes  \* bound on the refreshes that are started

ASSUME RegistryAssumption ==
    /\ IsFiniteSet(Providers) /\ Versions \subseteq Nat /\ Versions # {}
    /\ Interval \in Nat \ {0} /\ Threshold \in Nat \ {0}
    /\ OpenBase \in Nat \ {0} /\ OpenMax \in Nat /\ OpenBase <= OpenMax
    /\ MaxTime \in Nat /\ MaxRefreshes \in Nat

VARIABLES
    now,     \* the clock
    known,   \* per provider, the discovered models
    meta,    \* per provider, the captured metadata
    brk,     \* per provider, its breaker
    last,    \* per provider, lastRefresh
    flying,  \* per provider, inFlight
    armed,   \* the providers whose warm-fill retry timer has not fired
    work,    \* per <<provider, kind>>, where the refreshing goroutine is
    found,   \* per <<provider, kind>>, what listModels returned
    ending,  \* goroutines that have released their provider, but not moved gen
    gen,     \* modelsGen
    entry,   \* the group's modelsCache entry
    rd,      \* per reader, where it is
    rgen,    \* per reader, the generation it loaded
    body,    \* per reader, the listing built so far
    unread,  \* per reader, the parts of the listing still to be read
    runs     \* refreshes started so far

stateVars == <<known, meta, brk, last, flying>>
workVars == <<armed, work, found, ending, runs>>
readVars == <<entry, rd, rgen, body, unread>>
vars == <<now, stateVars, workVars, gen, readVars>>

Kinds == {"refresh", "retry"}
Jobs == Providers \X Kinds

\* What listModels returns: an answer, an error or a cancellation.
Answer(ids) == [out |-> "ok", ids |-> ids]
Failed == [out |-> "failed", ids |-> {}]
Canceled == [out |-> "canceled", ids |-> {}]

\* A listing depends on each provider's models and on their metadata; knownIDs
\* and contextFor read them under the provider's lock, one at a time.
Parts == Providers \X {"models", "meta"}
Nothing == [models |-> {}, meta |-> 0]
Current == [x \in Parts |-> IF x[2] = "models"
                            THEN [Nothing EXCEPT !.models = known[x[1]]]
                            ELSE [Nothing EXCEPT !.meta = meta[x[1]]]]

-----------------------------------------------------------------------------
(* The discovery breaker.                                                  *)

Closed == [health |-> "closed", fails |-> 0, backoff |-> 0, until |-> 0]

\* openBreakerLocked.
Opened(b, t, escalate) ==
    LET want == IF escalate /\ b.backoff > 0 THEN 2 * b.backoff ELSE OpenBase
        wait == IF want > OpenMax THEN OpenMax ELSE want
    IN  [b EXCEPT !.health = "open", !.backoff = wait, !.until = t + wait]

\* recordHealthLocked: cancellation is neutral, but a canceled probe goes back
\* to open; a probe closes or escalates; Threshold failures in a row open.
RecordHealth(b, t, result) ==
    IF result = "canceled"
    THEN [b EXCEPT !.health = IF @ = "halfOpen" THEN "open" ELSE @]
    ELSE IF b.health = "halfOpen"
    THEN IF result = "failed" THEN Opened(b, t, TRUE) ELSE Closed
    ELSE IF result = "ok" THEN Closed
    ELSE LET c == [b EXCEPT !.fails = @ + 1]
         IN  IF c.fails >= Threshold THEN Opened(c, t, FALSE) ELSE c

\* Faulty variant: an empty answer replaces what is known.
AcceptedAny(p, a) == a.out = "ok"

\* finishRefresh: an answer counts unless it would erase every known model.
Accepted(p, a) == a.out = "ok" /\ (a.ids # {} \/ known[p] = {})

\* providerState.finishRefresh: stale models are kept on failure.
FinishRefresh(p, a) ==
    /\ flying' = [flying EXCEPT ![p] = FALSE]
    /\ last' = [last EXCEPT ![p] = now]
    /\ known' = IF Accepted(p, a) THEN [known EXCEPT ![p] = a.ids] ELSE known
    /\ brk' = [brk EXCEPT ![p] =
                  RecordHealth(@, now, IF a.out = "ok" /\ ~Accepted(p, a)
                                       THEN "failed" ELSE a.out)]

-----------------------------------------------------------------------------
\* newGateway has called warmFill: for each provider it found some models, or
\* failed (or was canceled, without a retry); metadata is captured either way.
WarmFilled(p) ==
    \/ known[p] \in SUBSET Models /\ brk[p] = Closed /\ p \notin armed
    \/ /\ known[p] = {} /\ p \in armed
       /\ brk[p] = RecordHealth(Closed, 0, "failed")
    \/ known[p] = {} /\ brk[p] = Closed /\ p \notin armed

Init ==
    /\ now = 0
    /\ known \in [Providers -> SUBSET Models]
    /\ meta \in [Providers -> Versions]
    /\ brk \in [Providers -> {Closed, RecordHealth(Closed, 0, "failed")}]
    /\ armed \in SUBSET Providers
    /\ \A p \in Providers : WarmFilled(p)
    /\ last = [p \in Providers |-> 0]
    /\ flying = [p \in Providers |-> FALSE]
    /\ work = [j \in Jobs |-> "idle"]
    /\ found = [j \in Jobs |-> Failed]
    /\ ending = 0
    /\ gen = 0
    /\ entry = [gen |-> -1, body |-> [x \in Parts |-> Nothing]]
    /\ rd = [r \in Readers |-> "idle"]
    /\ rgen = [r \in Readers |-> 0]
    /\ body = [r \in Readers |-> [x \in Parts |-> Nothing]]
    /\ unread = [r \in Readers |-> Parts]
    /\ runs = 0

\* tryBeginRefresh, from maybeRefresh on a request: the goroutine starts.
TryBeginRefresh(p) ==
    /\ ~flying[p]
    /\ now - last[p] >= Interval
    /\ brk[p].health = "open" => now >= brk[p].until
    /\ runs < MaxRefreshes
    /\ runs' = runs + 1
    /\ brk' = [brk EXCEPT ![p].health = IF @ = "open" THEN "halfOpen" ELSE @]
    /\ flying' = [flying EXCEPT ![p] = TRUE]
    /\ work' = [work EXCEPT ![<<p, "refresh">>] = "list"]
    /\ UNCHANGED <<now, known, meta, last, armed, found, ending, gen, readVars>>

\* Faulty variant: the retry does not look whether a refresh is in flight.
RetryAllowedAnyway(p) == last[p] <= 0

\* tryBeginWarmFillRetry: nothing in flight and nothing finished since.
RetryAllowed(p) == ~flying[p] /\ last[p] <= 0

\* The retry timer fires: it runs at most once, or not at all.
WarmFillRetry(p) ==
    /\ p \in armed
    /\ armed' = armed \ {p}
    /\ IF RetryAllowed(p)
       THEN /\ flying' = [flying EXCEPT ![p] = TRUE]
            /\ work' = [work EXCEPT ![<<p, "retry">>] = "list"]
       ELSE UNCHANGED <<flying, work>>
    /\ UNCHANGED <<now, known, meta, brk, last, found, ending, runs, gen, readVars>>

\* listModels answers, fails, panics or is canceled.  The retry captures
\* metadata only after an answer, a refresh always.
ListModels(j) ==
    /\ work[j] = "list"
    /\ \E a \in {Answer(ids) : ids \in SUBSET Models} \cup {Failed, Canceled} :
          /\ found' = [found EXCEPT ![j] = a]
          /\ work' = [work EXCEPT ![j] =
                         IF j[2] = "retry" /\ a.out # "ok"
                         THEN "finish" ELSE "meta"]
    /\ UNCHANGED <<now, stateVars, armed, ending, runs, gen, readVars>>

\* captureModelMetadata: best effort, its failure changes nothing.
CaptureMetadata(j) ==
    /\ work[j] = "meta"
    /\ \E v \in Versions : meta' = [meta EXCEPT ![j[1]] = v]
    /\ work' = [work EXCEPT ![j] = "finish"]
    /\ UNCHANGED <<now, known, brk, last, flying, armed, found, ending, runs, gen, readVars>>

\* modelRegistry.finishRefresh: the provider's state first, under its lock,
\* then the generation.  In between another refresh may begin.
Finish(j) ==
    /\ work[j] = "finish"
    /\ FinishRefresh(j[1], found[j])
    /\ work' = [work EXCEPT ![j] = "idle"]
    /\ found' = [found EXCEPT ![j] = Failed]
    /\ ending' = ending + 1
    /\ UNCHANGED <<now, meta, armed, runs, gen, readVars>>

\* The generation moves after every attempt: a failed one may have captured
\* new metadata.
Bump ==
    /\ ending > 0
    /\ ending' = ending - 1
    /\ gen' = gen + 1
    /\ UNCHANGED <<now, stateVars, armed, work, found, runs, readVars>>

-----------------------------------------------------------------------------
(* modelsJSON.                                                             *)

\* Load the generation, then look for an entry of it.
Load(r) ==
    /\ rd[r] = "idle"
    /\ rgen' = [rgen EXCEPT ![r] = gen]
    /\ rd' = [rd EXCEPT ![r] = "look"]
    /\ UNCHANGED <<now, stateVars, workVars, gen, entry, body, unread>>

Look(r) ==
    /\ rd[r] = "look"
    /\ rd' = [rd EXCEPT ![r] = IF entry.gen = rgen[r] THEN "done" ELSE "build"]
    /\ UNCHANGED <<now, stateVars, workVars, gen, entry, rgen, body, unread>>

\* listFor reads every provider's models first, then the metadata.
Build(r) ==
    /\ rd[r] = "build"
    /\ \E x \in unread[r] :
          /\ x[2] = "meta" => \A y \in unread[r] : y[2] = "meta"
          /\ body' = [body EXCEPT ![r][x] = Current[x]]
          /\ unread' = [unread EXCEPT ![r] = @ \ {x}]
          /\ rd' = [rd EXCEPT ![r] = IF unread[r] = {x} THEN "store" ELSE @]
    /\ UNCHANGED <<now, stateVars, workVars, gen, entry, rgen>>

\* Faulty variant: the listing is stored under the generation of the moment.
StoreLate(r) ==
    /\ rd[r] = "store"
    /\ entry' = [gen |-> gen, body |-> body[r]]
    /\ rd' = [rd EXCEPT ![r] = "done"]
    /\ body' = [body EXCEPT ![r] = [x \in Parts |-> Nothing]]
    /\ UNCHANGED <<now, stateVars, workVars, gen, rgen, unread>>

\* The listing is stored under the generation loaded first.
Store(r) ==
    /\ rd[r] = "store"
    /\ entry' = [gen |-> rgen[r], body |-> body[r]]
    /\ rd' = [rd EXCEPT ![r] = "done"]
    /\ body' = [body EXCEPT ![r] = [x \in Parts |-> Nothing]]
    /\ UNCHANGED <<now, stateVars, workVars, gen, rgen, unread>>

Tick ==
    /\ now < MaxTime
    /\ now' = now + 1
    /\ UNCHANGED <<stateVars, workVars, gen, readVars>>

Next ==
    \/ \E p \in Providers : TryBeginRefresh(p) \/ WarmFillRetry(p)
    \/ \E j \in Jobs : ListModels(j) \/ CaptureMetadata(j) \/ Finish(j)
    \/ \E r \in Readers : Load(r) \/ Look(r) \/ Build(r) \/ Store(r)
    \/ Bump \/ Tick

Spec == Init /\ [][Next]_vars

-----------------------------------------------------------------------------
\* Type invariant of the registry's state; with it, the escalating backoff of
\* openBreakerLocked stays within breakerOpenMax.
TypeOK ==
    /\ now \in Nat
    /\ known \in [Providers -> SUBSET Models]
    /\ meta \in [Providers -> Versions]
    /\ brk \in [Providers -> [health : {"closed", "open", "halfOpen"},
                              fails : Nat, backoff : 0..OpenMax, until : Nat]]
    /\ last \in [Providers -> Nat]
    /\ flying \in [Providers -> BOOLEAN]
    /\ armed \subseteq Providers
    /\ work \in [Jobs -> {"idle", "list", "meta", "finish"}]
    /\ ending \in Nat /\ gen \in Nat
    /\ rd \in [Readers -> {"idle", "look", "build", "store", "done"}]
    /\ rgen \in [Readers -> Nat]
    /\ runs \in Nat

Fetching(j) == work[j] \in {"list", "meta", "finish"}

\* What a provider's state says is under way is under way.  At most one goroutine,
\* a refresh or the warm-fill retry, fetches from a provider, and inFlight is set
\* exactly while one does, also after a panic or a cancellation; and a half-open
\* breaker has its probe running, so a broken provider counts as healthy for no
\* longer than one probe takes (recordHealthLocked).
OneFetchPerProvider ==
    \A p \in Providers :
        /\ flying[p] <=> \E k \in Kinds : Fetching(<<p, k>>)
        /\ ~(Fetching(<<p, "refresh">>) /\ Fetching(<<p, "retry">>))
        /\ brk[p].health = "halfOpen" => Fetching(<<p, "refresh">>)

\* A listing served from the cache is current: once no refresh is under way,
\* an entry of the current generation holds what the providers' states say,
\* however the reader's walk interleaved with refreshes.
CachedListingCurrent ==
    (entry.gen = gen /\ ending = 0 /\ \A j \in Jobs : work[j] = "idle")
        => entry.body = Current

\* Stale while error: no failed, canceled or empty discovery takes a
\* provider's last models away.
ModelsSurvive ==
    [][\A p \in Providers : known[p] # {} => known'[p] # {}]_vars

=============================================================================
