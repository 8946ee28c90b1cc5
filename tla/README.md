# A verification of traefik-llmgateway

TLA+ models of the gateway's stateful core, TLC configurations that check them
on small instances, and TLAPS proofs, for every value of the constants, of every
safety property that the passing runs check, the refinement of event streams
included. Every definition is translated from the Go source; the `map` in
`PROJECT.json` gives the lines each one stands for.

1. [The system](#1-the-system)
2. [Modules and the code](#2-modules-and-the-code)
3. [Runs and what they show](#3-runs-and-what-they-show)
4. [Bounds, fairness, abstractions](#4-bounds-fairness-abstractions)
5. [Proofs](#5-proofs)
6. [Disagreements between the code and its comments](#6-disagreements-between-the-code-and-its-comments)
7. [Plan](#7-plan)
8. [What is not modelled](#8-what-is-not-modelled)

## 1. The system

The gateway authenticates a client by API key, decides whether its user and
groups may send another request, picks a provider that serves the model, calls
it, translates and streams the answer, and accounts the tokens and the cost. It
runs as a Traefik plugin or as a server of its own, usually in several replicas
that share one Redis. Every request has its own goroutine; background
goroutines only exist where a request, a timer or startup spawned them, as the
plugin form has no lifecycle hook.

| Component | State | Operations | Hard because | Correct when |
|---|---|---|---|---|
| Admission limiter (`limits.go`) | counters per scope, metric and time bucket; the store-down latch; rejection counters | `checkAndCount`, `settleRejection`, `accountWith` | replicas update shared counters entry by entry; a rejected request takes its counts back in a second call; the store may fail in the middle; usage is known only after the fact | no scope admits more than its limit; counters never fall below the truth; rejections leave no trace elsewhere; the overshoot of a budget is bounded |
| Redis counter store (`redis_store.go`) | counters with a TTL in Redis; per replica a bounded cache of keys whose EXPIRE was confirmed | `incrMulti`, `incrAndGetMulti`, `repairRecreatedExpires` | Redis loses keys, and the caches of all replicas are stale at once | no counter stays without a TTL |
| RESP client (`resp.go`) | a channel of connection slots | `acquire`, dial, write, read, retry, `Close` | late replies, deadlines, broken connections, retries of what was done already | replies belong to their call; slots are not lost; every call returns |
| Unified request path (`routes_unified.go`, `failover.go`, `retry.go`) | request-path health per provider, response cache | `runMeteredCall`, `requestHealthTracker`, `retryPolicy.do` | health changes while a request works through its candidates; clients leave; part of an answer is written already | one answer per client, only after real failures, never dearer |
| Model discovery (`registry.go`) | models and metadata per provider, breaker, generation, listing cache | `tryBeginRefresh`, `finishRefresh`, `retryWarmFill`, `modelsJSON` | refreshes, the warm-fill retry and readers interleave; probes are canceled | listings are current; one fetch at a time; models survive failures |
| User store (`auth.go`, `users_file.go`) | users by key digest, last mtime | `maybeReload`, `replaceFileUsers`, `identify` | the operator writes the file at any moment; many requests try to reload | one key per user; no write is lost for ever |
| Streaming watchdog (`timeout.go`) | a timer, `done`, `timedOut`, a context | `fire`, `Read`, `Close` | timer goroutines race with the reader | silence, and only silence, ends a stream; nothing is left behind |
| Response cache (`cache.go`) | entries in Redis, a latch | `lookup`, `store` | expiry, outages | a hit is an answer the same provider gave |
| Names and grants (`registry.go`, `auth.go`) | none: functions of the catalogue and the caller | `resolve`, `listFor`, `failoverCandidates`, `allowsPassthroughPathForProvider` | aliases, bare names and prefixed names overlap; a caller has several grants | a listed name resolves to what it is listed as; grants never mix |
| MCP federation (`mcp_federation.go`) | none between requests; sessions and semaphores within them | `mcpBackendCall`, `mcpFederatedToolsList`, `mcpFederatedToolsCall` | fan-out with two semaphores and a deadline; a session asked for after the call | the listing shows what the servers list, as the one a call reaches describes it; a tool runs again only after a refusal; sessions and slots are given back |
| Target health (`target_health.go`, `mcp_a2a.go`) | consecutive failures per target, sweep flag | `record`, `maybeSweepTargetHealth` | probes and traffic report in any order; polls race for the sweep | one sweep at a time, an interval apart |
| Passthrough and media routes (`routes_passthrough.go`, `routes_media.go`) | the copy budget, body-admission slots | `handlePassthrough`, `proxyUpstream`, the media handlers | concurrent reservations, copies that break off, stall or panic | budget and slots are returned on every path; what was used is billed |
| Concurrency learner (`concurrency.go`) | in-flight and learned limit per provider | `begin`, `observe`, `limit` | overload is seen after other calls came and went | in-flight is exact; an overload leaves a limit |
| Event streams (`sse.go`, `provider_*.go`, `translate_*.go`) | per stream: buffer, pending event, translation state | `readSSE`, `forwardStream`, `translate`, `writeData` | reads cut the body anywhere; streams break off; clients hang up | the events of the whole body, in order; complete only if complete |
| Event log (`events.go`) | a ring per replica, a list in Redis | `recordEvent`, `push`, `read` | throttling, outages | the newest events, bounded |
| Standalone server (`cmd/gateway/main.go`) | readiness | `run` | signals at any moment | drains, then closes |

How they interact: `ServeHTTP` calls `maybeReload`, `identify`, `maybeRefresh`
and dispatches on the path. `runMeteredCall` and the proxies call
`checkAndCount` before and `accountWith` after the upstream call. The limiter,
the cache and the event log share one RESP client. The registry's breaker
(discovery health) and the tracker of `failover.go` (request health) together
order the candidates. The media routes and `runMeteredCall` resolve names in the
registry with the caller's grants; passthrough requests check the grants
themselves. Federated calls, proxied requests and probes report to one health
tracker. Adapters stream through `sse.go` under the watchdog. Whole-payload
translation, metrics and the admin pages convert payloads or read what the others
keep.

The list `hazards` in `PROJECT.json` names, line by line, what in this code is
hard to test, and the properties aimed at it.

## 2. Modules and the code

Each component module declares its parameters as CONSTANTS with named
assumptions, has one action per step that other goroutines can observe, and
states its properties at its end. `MC<Module>` gives the constants of the runs
their values. A definition commented "Faulty variant" changes the one below it
the way a plausible mistake would; `PROJECT.json` lists them as mutants, one for
each property of each passing run, which TLC must find violated under it.

**Limiter.** A request runs a batch of entries against one store: the
configured Redis, or its replica's in-process store. `Arrive` begins
`checkAndCount`, and `Apply` applies one entry, so that batches interleave as
they do in the memory store, which locks per entry, and in Redis, where a
pipeline is not a transaction. `ReadBudgets` is the read half of
`incrAndGetMulti`. `Admit` or `Reject` is the evaluation in scope order;
`Reject` begins the settlement in the same step, whose entries give back the
charges of the scopes that did not reject and raise the rejection counters.
`Account` takes what an upstream reports through the plausibility clamps and
writes it. `StoreFails` fails a call after any prefix and sets the latch, which
`LatchExpires` clears; `Resend` is the client's second attempt. The two token
metrics of the code, tokin and tokout, are one metric `tok`. Window lengths are
constants in ticks of a minute; the month, of variable length in the code, is
one of them.

**RedisStore.** A batch is one call of `incrMulti` or `incrAndGetMulti`. Counters
have a value and a TTL state (absent, volatile, immortal). `Start` decides which EXPIREs a call sends, `IncrBy` and `Expire` are
the server's steps, `Settle` the handling of the replies under the mutex,
`Repair` and `CommitRepairs` the second pipeline. `LoseKey` is expiry, eviction
or a restart of Redis; `Break` a lost connection; `Crash` a restart of a replica.
A call has at least one entry (`incrMulti` returns early without) and no two for one
key: `limits.go` builds an entry per scope, metric and window, which are parts of
the key. `Settled` is the loop of `settleExpireBatch` over the processed entries, as
a recursive function.

**RespClient.** A command is a triple of call, attempt and index, so that a
reply says what it answers. `Serve` runs the next command of a connection, and
`ServeOrphan` one that a connection delivered before it ended. Deadlines may
pass at any moment (`AcquireTimeout`, `ReadTimeout`).

**Failover.** `Route` builds the candidate list as the code does (health order,
cost guard, cap); `CacheHit`, `RefuseUnpriced`, `Call`, `Retry`, `Return` and
`GiveUp` are the passes of the loop. An upstream's outcome is one of the classes
that `failoverEligible` and `requestHealthOutcome` tell apart. `Filter`, the loops
that keep some candidates in their order, is a recursive function. `Leave` cancels
the client's context, `Discovery` changes the registry's verdict, and `Tick`
moves the clock of the breaker.

**Registry.** A refresh or warm-fill retry is a goroutine per provider and kind
that lists (`ListModels`), captures metadata (`CaptureMetadata`) and finishes
(`Finish`), which clears `inFlight` before the goroutine bumps the generation
(`Bump`): the next refresh of the provider may start in between, so `ending` counts
the goroutines that have yet to bump. A reader loads the generation, looks into
the cache, walks the providers and stores. The synchronous warm fill
of `newGateway` is in the initial states.

**AuthStore.** `Enter` is the rate check and the try-lock; `Stat`, `Load` and
`Replace` are the parts of `maybeReload` between which the file may be written
or removed.

**Watchdog.** The caller's goroutine alternates between work and `Read`, whose
statements are steps (`BeginRead`, `Return`, `Finish`, `StopTimer`, `Fail`,
`Reset`); each expiry runs `fire` in its own goroutine, also statement by
statement (`Check`, `Mark`, `Cancel`, `Record`).

**TargetHealth.** `Poll`, `LoseSweep`, `BackOut` and `StartSweep` are the parts
of `maybeSweepTargetHealth` around its compare-and-swap; probes run under the
sweep's semaphore and end in a result, a session to close, or a panic. A server of
`Stateful` may tell a session id to an initialize that the prober then takes for
failed (`ProbeLosesSession`): the id is dropped, and the session stays open at the
server.
`ProxyTarget` is an admitted request through the proxies.

**Federation** extends TargetHealth, whose tracker it reports to. A tools/list
has a goroutine per server (`AcquireSem`, `AcquireGate`, `Starve`, pages); both
it and a tools/call run `mcpBackendCall` (`Bare`, `Handshake`, `Retry`,
`CloseSession`). A `select` with both cases ready takes either. Names are
sequences of the parts between underscores. Whether a backend has run the tool of a
call is its own affair (`Runs`): it has if it answers with a result, it may have
whatever else it answers, and `replied` remembers what it answered first.
`HandshakeLosesSession` is an initialize with a session id and a body that is
unreadable, too large or an error. `merged` is the order in which the goroutines'
results come; `Survivor` sorts the entries of a name by server, takes the first and
looks for the routed one, as the loop does.

**EventText, EventStream, Stream.** EventText defines the events of a whole
body; EventStream is the abstract specification, which hands them over one by
one; Stream is `readSSE` with its scanner, the three adapters' `forwardStream`
and the translations. `Read(n, says)` returns n symbols, if any, together with
nothing, the end of the body or an error, as Go's bodies do; a buffer that is full
when no end came with it is a line too long. Each write to the client may fail, whole
and independently of the others (`Writes`): it fails the stream, except that of a
[DONE], whose error `writeDone` swallows. `ReadsLikeWhole` says that Stream implements EventStream,
with the body, the events handed over and the status as they are. Symbols stand
for bytes: line breaks, a byte-order mark, field names and parts of values;
`Symbols` is the set of them, any set that has the ones `readSSE` looks for.
EventText takes a body apart by positions: the positions that end a line, the
lines that end a block, the fields of a block.

**Access, Catalogue, Passthrough.** Access has the grants of `auth.go`, Catalogue
the resolution and the listing of names of `registry.go` and the candidates of
`failover.go`, both as operators over a caller and a catalogue; patterns are the
sets they match. The loops of `registry.go` over the sorted providers that stop at
the first hit are sets and `First`, which takes the first of a set in that order. Passthrough has the requests: `Arrive` to `Send` are
`handlePassthrough` up to the exchange, `Respond`, `Piece` and the ends of the
copy are `proxyUpstream`, `Account` and `Finish` what follows; the media requests
take a body-admission slot, resolve a name and call, perhaps several times. Both drive the concurrency
learner (`Begin`, `EndUpstream`, `Observe`). How much of a copy the usage scanner
can read is a choice over what it can find in it. `copied` says how much of a
response was read when `io.Copy` returned: part of it, all of it, or all of it and
all was sent. A JSON copy is read if it holds every byte of a response that was read
to its end; whether the copy says so itself (`truncated`) is what is checked.

## 3. Runs and what they show

| Run | Properties | What it shows |
|---|---|---|
| LimiterAdmission | AdmittedWithinLimit, NeverUnderCounts, RejectionsLeaveOthersAlone, BudgetOvershootBounded | Three requests of one user, two of them also of her group, on two replicas and across a minute boundary, with a store call that fails after any prefix of its batch: no interleaving exceeds a limit, a rejected request leaves exactly its own trace, and a budget overshoots by no more than the requests in flight can spend, whatever an upstream reports. |
| LimiterFailOpen | AdmissionDecides | An outage refuses nobody, and each admission comes to a decision, also when a batch is sent twice. |
| LimiterFailOpenUnderCounts | NeverUnderCounts (violated) | See section 6. |
| RedisStoreExpiry | QuietMeansMortal | Calls on two replicas, three at a time, while Redis loses keys twice and one fault strikes. Without the fault every counter has a TTL once the calls have returned; with a refused EXPIRE or a restart, a counter without one is a counter whose next increment sends EXPIRE, as long as calls do not overlap. |
| RespClientPool | RepliesAreOwn, SlotsAccounted, TwiceOnlyIfSilent, CallsReturn | Three calls on two slots with a breaking connection, deadlines and Close at any moment: a late reply is never read by the next call, slots are neither lost nor shared, and all calls return. |
| FailoverRoute | OneAnswer, NeverDearer, BreakerCountsRequests | Three concurrent requests with retries over two providers, one of them without a price, at a breaker threshold of two: one answer each, only after real failures of the providers before, never a dearer one, and a breaker that opens on the failures of different requests only. |
| RegistryDiscovery | OneFetchPerProvider, CachedListingCurrent, ModelsSurvive | Two readers of the listing against three refreshes and the warm-fill retry, through open, half-open and escalated states of the breaker. |
| AuthStoreReload | OneKeyPerUser, NeverBackwards, Converges | Two requests reload while the file is written and removed: the last acceptable file is eventually in force. |
| WatchdogBody | BlameIsRight, OnlySilenceFires, AlwaysCloses | Every way a body can be read, stalled, abandoned or canceled. |
| FederationTools | ListingIsExact, TwiceOnlyIfRefused, SlotsHeld, SessionsClosed, ListsAreAnswered, SweepsApart | Two federated requests compete for the slots of the fan-out while backends answer, refuse, stay silent or panic and clients hang up; two polls race for the sweep. |
| StreamRelay | ReadsLikeWhole, LimitsAreExact, FragmentsTogether, BilledIsReported, DoneMeansWhole, ClientReadsSame | Every body of six symbols and several hundred streams of the three kinds of upstream, cut and broken off anywhere: Stream implements EventStream, and the client gets what the upstream sent, in a form it can put together. |
| PassthroughTraffic | NamesAgree, GrantsNeverMix, ResourcesReturned, UsedIsBilled, BudgetSeesCost, OverloadIsRemembered | All pairs of small groups with and without a personal grant against every passthrough request; all catalogues of two providers and two models with aliases against all callers; two concurrent responses, each longer than the cap of a copy, under a budget that does not fit two copies; media requests under one slot. |

Most runs say `CHECK_DEADLOCK FALSE`: requests, calls and readers come at most
once, so the models stop when all are done. AuthStoreReload checks for
deadlock.

## 4. Bounds, fairness, abstractions

Bounds are named constants that appear in guards (`MaxTime`, `MaxFaults`,
`MaxConcurrent`, `MaxBreaks`, `MaxLost`, ...). They are chosen so that the
interesting case happens at least once:

- Limiter: three requests against limits of two for the user and one for the
  group, so that either rejects and the other's count is taken back; two ticks,
  so that a minute bucket changes while a request is in flight; one failed call;
  a budget that one answer uses up, so that two more requests could overspend.
  Two requests are in flight at a time; the proofs hold for any number.
- RedisStore: four calls, two replicas and two losses: a key can be lost, be
  recreated on one replica and be lost again while the other's reply is still
  on its way. One call carries a decrement, whose reply differs from the one an
  increment gets.
- RespClient: three calls on two slots, so that a slot is used again after a
  failure, and one break; timeouts are not bounded.
- Failover: three requests and two providers are enough to open both breakers at
  a threshold of two under a running request and to leave a third request without
  a healthy candidate; one provider without a price makes the cost guard and the
  budget of the third request decide.
- Registry: one provider and two readers. Providers share only the generation
  and the listing, and the reader walks a provider in two parts, models and
  metadata, between which a refresh may finish.
- AuthStore: three writes, so that one falls into a reload and another follows it.
- Watchdog: two chunks and three expiries; every expiry after the first needs a
  chunk that re-armed the timer, so `MaxFires = MaxChunks + 1` loses nothing.

- Federation: servers `a` and `a_b`, both of which can list `a_b_x` and the latter
  of which has sessions, and one of the legacy transport; two slots of a request's semaphore and one of the
  gateway's, so that goroutines of both requests wait for the latter, and probes of
  a sweep for the former; two pages. Health sweeps and federated requests share only the
  tracker, whose calls are atomic and which neither reads, so a behaviour of the
  run has either the ones or the others.
- Stream: lines of four symbols and events of three, so that bodies of six exceed
  either limit, also with a last line of exactly the limit; up to three events of an OpenAI-type or Gemini stream, and Anthropic messages with
  a text and two tool blocks whose deltas interleave.
- Passthrough: two responses of up to three bytes in pieces of one or two, with a cap
  of two on each copy and a budget of three for both, so that a copy is cut by its cap
  and by the budget; four media requests on one slot, so that an overload is
  seen with up to four in flight under a ceiling of three. Requests with
  all kinds of grants or names run alone, as they share nothing with others.

Fairness, where a run checks liveness:

- Limiter `FairSpec`: weak fairness of the steps of a running store call, which
  has a deadline in `resp.go`. Arrivals, upstream answers and the clock owe
  nothing.
- RespClient `FairSpec`: weak fairness of a call's own steps. Its waits for a
  slot and for replies end at deadlines; the server owes nothing.
- AuthStore `FairSpec`: requests keep arriving and each runs to its end. Reloads
  are driven by requests alone, so without traffic nothing converges, which is
  the code's design.
- Federation `Fairness`: deadlines expire, goroutines run, and calls under an
  ended context return, as does the close of a session, which has a context of its
  own. A backend owes no answer before the deadline.
- Watchdog `FairSpec`: timers run, goroutines are scheduled, the HTTP transport
  ends a read whose context is canceled, and the caller closes the body after an
  error. The upstream and the client owe nothing.

Abstractions a reader should know of: keys, models, users and payloads are model
values; errors are the classes the code tells apart; AuthStore assumes that each
write of the users file has an mtime it never had before (the code compares
mtimes for equality and cannot see another write otherwise).

## 5. Proofs

Eight modules `<Component>Proofs` extend a component and prove its properties for
every value of the constants that satisfies the component's ASSUMEs, which TLC
evaluates in each run. Two of them extend a second component, which works closely
with the first and is named apart from it: RespClientProofs also has the proofs about
RedisStore, whose batches are pipelines of the client, and StreamProofs those about
Watchdog, the body that a stream is read from.

Sets of requests, calls, readers and callers need not be
finite except where the ASSUMEs say so. Each component has the same shape: an
invariant (`IInv`, `StoreInv`, `WatchInv`), of named parts; one lemma per part and
kind of step, under it one case per action; that the initial states have it and
every step keeps it; and a theorem per property. Stream has one such invariant for
the reader and, on top of it, one per property. Nearly all of the properties are not
inductive, as they speak of the
end of an operation and not of its middle; what the invariants add is below.
Action properties follow from the same invariants.

| Module | Theorems |
|---|---|
| LimiterProofs | `TypeCorrect`, `AdmissionSafe` (AdmittedWithinLimit), `CountersSound` (NeverUnderCounts), `RejectionsCorrect` (RejectionsLeaveOthersAlone), `OvershootCorrect` (BudgetOvershootBounded) |
| RespClientProofs | `TypeCorrect`, `SlotsCorrect` (SlotsAccounted), `RepliesCorrect` (RepliesAreOwn), `RetryCorrect` (TwiceOnlyIfSilent); of RedisStore: `CountersExpire` (QuietMeansMortal) |
| FailoverProofs | `TypeCorrect`, `AnswerCorrect` (OneAnswer), `CostCorrect` (NeverDearer), `BreakerCorrect` (BreakerCountsRequests) |
| RegistryProofs | `TypeCorrect`, `OneFetchCorrect` (OneFetchPerProvider), `CachedListingCorrect` (CachedListingCurrent), `ModelsSurviveErrors` (ModelsSurvive) |
| AuthStoreProofs | `TypeCorrect`, `OneKeyCorrect` (OneKeyPerUser), `NeverBackwardsCorrect` (NeverBackwards), `SkipCorrect` (a safety half of Converges) |
| StreamProofs | `ReaderTracks`, `PiecesReadLikeWhole` (ReadsLikeWhole), `LimitsDependOnTheBody` (LimitsAreExact), `BillsTheLastReport` (BilledIsReported), `FragmentsBelongTogether` (FragmentsTogether), `DoneIsWhole` (DoneMeansWhole), `ClientsReadTheSame` (ClientReadsSame); of Watchdog: `WatchTypeCorrect`, `BlameCorrect` (BlameIsRight), `SilenceCorrect` (OnlySilenceFires), `CloseReleases` (a safety half of AlwaysCloses) |
| FederationProofs | `RunCorrect` (TwiceOnlyIfRefused), `SlotsCorrect` (SlotsHeld), `SessionsCorrect` (SessionsClosed), `SweepsCorrect` (SweepsApart) |
| PassthroughProofs | `ResourcesCorrect` (ResourcesReturned), `BillCorrect` (UsedIsBilled), `OverloadCorrect` (OverloadIsRemembered), `BudgetCorrect` (BudgetSeesCost), `NamesCorrect` (NamesAgree), `GrantsCorrect` (GrantsNeverMix) |

**Limiter.** All but `TypeCorrect` assume `Plain`,
`~Resends /\ (Configured => ~FailOpen)`: batches are not sent twice, and the
fallback store does not stand in for Redis. `CountersSound` is false without
either half (section 6). `IInv` has

- `TInv`: types, a running batch has a store, and a settlement has a violating scope;
- `AtHome`: a request's batches run against one and the same store, which is
  what `Plain` buys;
- `ChargesOf`: which counters a request has charged, by where in its batch it is
  (an entry is charged exactly when the position has passed it; a settlement has
  returned exactly the entries it has passed; an admitted request holds all);
- `Ledger`: each request counter equals the number of requests that hold a
  charge of it;
- `Within`: at most `limit` of the holders of a counter read a value within its
  limit.

By `Ledger` an increment returns the number of holders including the request
itself. If that is within the limit, so are all holders, and hence all low ones;
if it is above, the request is not low. Decrements only remove holders. An
admitted request has read low values of all its keys, so the admitted ones of a
bucket are among its low holders.

`RejectionsCorrect` needs the charges exactly, which failed calls blur, so its
invariant `Exact` holds while `faults = 0`: what a request has charged is the set of
entries before its position, less the ones its settlement has given back, and
what a settlement gives back are all entries but those of the violated scope.

`OvershootCorrect` needs to know who can still add to a budget's counter.
`Pending(s, k)` are the requests that have read the counter below its limit, or
were admitted before its bucket began, and have not yet added to it; `BInv` says
that the counter plus `MaxUsage` for each of them is below the limit plus
`MaxUsage` for each of `MaxConcurrent`. Adding moves a request's usage from the
one part of the sum to the other, and a request joins `Pending` only at a moment
when the counter is below its limit: because it has just read it (`ReadBudgets`),
or because its bucket lies in the future and is empty (`FutureEmpty`). That needs
the clock (`Clock`: no instant is later than now), the clamp (`UseBound`) and that
no batch of `accountWith` has two entries on one counter.

**RespClient.** While a call reads, its commands are in three places in turn
(`InTurn`): the replies it has, the replies under way, and what the server has
still to run. A connection that nobody reads from is silent (`QuietConns`), which
is what makes the next call on it safe. `SecondAttempts` and `HeardOnce` tie
what the server has applied to the attempt that a call is in.

**RedisStore.** `StoreInv` answers two questions about a key without a time to live.
Without a fault, who will send its EXPIRE (`ImmortalIsOwed`)? The call that
recreated it: it is about to, as the key is among those it sends EXPIRE for; or
its replies will tell it (`Notices`: the reply equalled the delta, and no EXPIRE
was sent); or it is repairing and has yet to come to the entry (`Owes`). `Settle`
turns the second into the third, as the first of the repairs is at or before every
recreated entry. With a refused EXPIRE or a restart, but
without overlapping calls, lost replies or error replies, who knows of the key
(`ImmortalIsKnown`)? Either a replica that has it not in its cache, or a call that
notices. That no replica comes to believe in it again is `Alone`: a
confirmed key has a time to live, or is lost, as long as its call is running,
because no other call is and none has two entries for one key (the second INCRBY
could recreate the key after its EXPIRE was confirmed; `ConfirmedIsSent`). What
`Settled` does to a cache is proved over the positions of the entries: it adds only
confirmed keys and takes out all that were noticed.

**Failover.** A request's list is a part of its pool without repetition, no
element dearer than the first (`InList`); all before its index have failed
(`Answered`); and a breaker has counted different requests, each of which has
moved past the provider (`Blamed`). That `Filter` keeps order, members and
distinctness is proved by induction over a set of numbers (see Stream).

**Registry.** A listing that a reader has built in a generation is that of the
moment, unless the generation has moved or a goroutine is about to move it
(`UpToDate`, `Dirty`), part by part while it is built and as a whole once it is
in the cache.

**AuthStore.** `reloadMu` is a mutex, versions only go forward from the mtime
remembered to the version installed to the file (`Installed`), and so does what a
reload has in hand (`ReloadsInHand`).

**Stream.** The definitions of EventText are over whole bodies; what is proved about
them says how lines, blocks, fields, events and their sizes grow with a line more
(`BlocksNext`, `ValuesNext`, `EventsOfNext`, `ReadBlank`, `ReadField`), and what
`scanSSELines` finds in a part of a body is a line of the whole (`SplitLine`,
`SplitNothing`). The reader's invariant `RInv` is that of `Tracks`: some number of
lines has been taken, the buffer is what was read beyond them, and the events
handed over and the event being gathered are those of these lines. After a failed
read the last piece may be the beginning of a line (`AfterTear`), which is never
followed by another. The refinement follows, with the
identity as its mapping: a step that hands over an event is a step of EventStream,
the last one ends it, every other one stutters or fails it.

On top of that, for each property an invariant of what has been written or
billed so far. `LineInv` and `SizeInv`: every line taken, and every event gathered
or handed over, fits; one that does not fit is never taken, and what exceeds the
limit in a prefix of the body exceeds it in the body. A line that ends with the body
has one symbol more of room, which a read that brings the end with it can use. `Billed`: the usage is that of
the last report among the events handed over. `FragInv`: the calls
written have the indices below `next`, each once (`Tools`); a block with a number
was announced to the client under it, and every block that the upstream has
announced has one (`Numbered`). `DoneInv`: nothing that closes a stream was written
while it is open.
`SentInv`: the chunks written are the events shown, in order, without some [DONE]s
and the event whose write failed the stream, and their lines have no breaks in them; parsing what `writeData` makes of such a line gives the line
(`PutField`, `PutBlank`, `AnswerRead`).

The assumptions of Stream are what these upstreams do: a payload that says [DONE]
reports no usage, as it is not JSON; Anthropic announces a tool's content block
before it sends deltas for it (`ToolsAnnounced`; without, the translation falls back
to the block's own index, and `FragmentsTogether` is false); and a data line's
overhead is within the limit of an event. Only
`FragmentsTogether` uses the second.

Inductions over data are over a set of numbers: the library's induction theorems
have an operator parameter, but that a set of numbers has a least element has none
(`LeastElement`, `SetInduction`), and for a recursive function such a set is enough
to show that the recursion defines it (`UpToExists`, `JoinedExists`,
`AfterExists`).

**Watchdog.** A cancellation and a result of Read have a cause that got as far
as it must have (`CancelExplained`, `ResultExplained`), and the timer has been
running for no longer than the silence (`TimerFollowsSilence`).

**Federation.** Proved for sweeps and federated requests interleaved, which the
run keeps apart. `HealthInv`: one sweep at a time, which has its probes;
`FederatedInv`: which jobs a request has by its state, how often the tool of a call
can have run by where its job is and what the first attempt was answered (`RunsOf`),
sessions that are not lost belong to jobs between handshake and close (`SessionsOf`),
and both semaphores count the goroutines that are past them.

**Passthrough.** What is known of one request is a relation `Fit` between the
parts of its state, whatever the others do (a copy holds what it has reserved,
at most its cap, and every byte of the response unless it says that it was cut); the shared budget, the in-flight
counts and the slots are cardinalities of what the requests hold (bytes reserved
by a copy are pairs of the copy and a number), and every step moves one request.
`NamesCorrect` and `GrantsCorrect` rest on lemmas about Access and Catalogue for
every caller, catalogue and name: with several grants the winner of a bare name is
covered as a whole, with one there is nothing to mix.

Only model-checked:

- liveness under fairness (`AdmissionDecides`, `CallsReturn`, `Converges`,
  `AlwaysCloses`, `ListsAreAnswered`), which the prover does not reach; the safety
  halves `SkipCorrect` and `CloseReleases` are proved;
- `ListingIsExact`, as what sorting leaves is an induction over the sorted sequence;
- `FailOpen` and `Resends` for the properties of the limiter, where
  `LimiterFailOpen` checks what remains true.

## 6. Disagreements between the code and its comments

**LimiterFailOpenUnderCounts** is a run that TLC ends with a counterexample;
`findings` in `PROJECT.json` quotes the lines. With `failOpen` the compensation of
a rejected request can reach another store than its increments did, and takes from
the requests that store admitted.

The models show more, without a run of their own:

- A key that was recreated by an INCRBY whose reply was lost stays without a TTL:
  `incrMulti` returns at `redis_store.go:389` before it settles, while the comment
  at `redis_store.go:133-134` bounds the window "to at most one skipped cycle".
  `QuietMeansMortal` therefore excludes broken pipelines.
- `fire` may pass its check of `done` (`timeout.go:282`) before Read sees EOF, and
  still records a failure, which `timeout.go:183-190` says cannot happen. It needs
  an expiry within a few instructions.
- A name that the server does not list to which tools/call sends it is still shown if
  a server with a shorter name lists it. The comment at `mcp_federation.go:1486-1499`
  says that the routed server is always among those that list the name, and that
  tools/list can never advertise what tools/call does not reach. The last conjunct of
  `ListingIsExact` is therefore about tools that the routed server lists too.
- A tools/call that has run its tool runs it again if the backend answers it with
  400, 404 or an error whose text contains "session" (`mcp_federation.go:926-938`):
  such an answer is taken for the request to open a session. `TwiceOnlyIfRefused`
  says that this is the only way.
- An initialize that is answered with a session id and with a body that is
  unreadable, too large or an error is a failure, and its id is dropped
  (`mcp_federation.go:811-817`, `target_health.go:512-519`): nobody closes that
  session. `SessionsClosed` excludes exactly these sessions.
- A last line of exactly the maximal length without a line feed is taken if its last
  bytes come together with the end of the body, and is too long if the end comes
  with a read of its own (`sse.go:139-142`, `bufio.Scanner`). The first and the second
  conjunct of `LimitsAreExact` leave one symbol between them for this, and TLC reaches
  both outcomes.
- `writeDone` swallows the error of its write (`sse.go:350-359`), so a stream can end
  as complete though its client never got the [DONE]; `ClientReadsSame` allows it.
- A goroutine of the fan-out may still acquire a slot and dial after the deadline,
  as Go's `select` takes either of two ready cases; the comment at
  `mcp_federation.go:1267-1278` says that a server parked there when the context
  expires is never dialed.
- A model whose name is also an alias that the caller cannot use is listed
  (`registry.go:1935-1939`), but resolving the name looks at the alias and denies
  it. `NamesAgree` excludes exactly this case, and fails without the exception.

Three smaller observations. With `Resends = TRUE` the
limiter's counters fall below the admitted requests as well, as a compensation
batch that is sent twice counts its decrements twice; the comment at
`redis_store.go:353-355` considers increments only. The comment at
`resp.go:275-283` says that a pipeline without any reply byte was not applied,
while `redis_store.go:355-359` accepts that it may have been. And `Read` re-arms a
timer that has fired when its bytes came at that moment, so `fire` can run twice
for one body, though `timeout.go:266` says that it runs once. That a slow client
can trip the watchdog is documented in the repository's README.

## 7. Plan

In this order; what is done is marked.

1. Limiter with proofs, RedisStore, RespClient, Failover, Registry, AuthStore,
   Watchdog: done.
2. Access and Catalogue, Federation with TargetHealth, Passthrough with the
   media routes and the concurrency learner, Stream with its abstract
   specification EventStream: done.
3. Proofs of the safety properties of all of them, and that Stream implements
   EventStream: done.
4. The latch and size cap of the response cache, the event log, the statistics of
   the limiter, the orderly shutdown of the standalone server.
5. Conversions against reference definitions: pricing, the RESP codec, the
   histogram quantile.

## 8. What is not modelled

Translation of whole requests and responses, HTTP header rules, metrics
rendering, the admin pages, configuration parsing and logging convert data or show
state that others keep; their outcomes are inputs of the models. The byte-level
scanners (glob patterns, the model of a JSON body, usage in an event stream,
multipart bodies, RESP replies) are abstracted to what they find. The event log,
the statistics counters and the shutdown of the standalone server have state and
are left for later. Generated tables (prices, assets) and vendored code are left
out. `PROJECT.json` lists each
component with its status and the reason.
