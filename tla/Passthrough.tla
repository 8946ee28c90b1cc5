---------------------------- MODULE Passthrough ----------------------------
(***************************************************************************)
(* routes_passthrough.go, routes_media.go and concurrency.go: requests     *)
(* that are relayed to a provider as they are.  What they share is the     *)
(* budget of bytes that copies of responses may take, the slots for        *)
(* decoding bodies, and what is known of each provider's concurrency.      *)
(***************************************************************************)
EXTENDS Catalogue

CONSTANTS
    Requests,   \* requests, each at most once
    Media,      \* the ones to a media route
    Asks,       \* per request: what it may be.  To a passthrough route, the
                \* caller, provider, path, body and if a cost budget applies to
                \* the caller; a body is the model it is seen to name, if it is
                \* cut by the window that is looked at, and if it has bytes.  To
                \* a media route, the caller, the catalogue and the model's name
    Models,     \* names of models
    Priced,     \* the models with a known price
    TeeLimit,   \* maxAccountingTeeTotalBytes
    TeeCap,     \* maxAccountingTeeBytes
    MaxLength,  \* bound on the bytes of a response
    Slots,      \* capacity of bodyAdmission
    Ceiling,    \* learnedCeiling
    Regrow      \* successesPerRegrow

ASSUME RelayAssumption ==
    /\ Media \subseteq Requests /\ Priced \subseteq Models
    /\ TeeLimit \in Nat /\ TeeCap \in Nat /\ Slots \in Nat \ {0}
    /\ Ceiling \in Nat \ {0, 1} /\ Regrow \in Nat \ {0}
ASSUME AskAssumption ==
    /\ \A r \in Requests \ Media : \A a \in Asks[r] :
         IsCaller(a.caller) /\ a.provider \in Providers /\ a.body.bytes \in BOOLEAN
    /\ \A r \in Media : \A a \in Asks[r] :
         IsCaller(a.caller) /\ IsCatalogue(a.catalogue) /\ a.name \in Names

VARIABLES
    at,        \* per request: where it is
    ask,       \* per request: what it is
    resp,      \* per request: the response being relayed
    tee,       \* per request: its copy of the response
    used,      \* teeBudget.used
    slots,     \* slots taken of bodyAdmission
    inFlight, learned, successes,  \* per provider, its providerConcurrency
    overload,  \* auxiliary, per provider: the last observation was an overload
    bill       \* per request: what was accounted for it

shared == <<used, slots, inFlight, learned, successes, overload>>
learner == <<inFlight, learned, successes, overload>>
vars == <<at, ask, resp, tee, shared, bill>>

NoAsk == [provider |-> "none", gated |-> "none"]
NoResponse == [ok |-> FALSE, type |-> "none", model |-> "none", usage |-> FALSE,
               bytes |-> FALSE, length |-> 0, copied |-> "part"]
NoTee == [size |-> 0, reserved |-> 0, truncated |-> FALSE]
NoBill == [usage |-> "none", model |-> "none"]

\* The start, but for the requests' places.
Idle ==
    /\ ask = [r \in Requests |-> NoAsk]
    /\ resp = [r \in Requests |-> NoResponse]
    /\ tee = [r \in Requests |-> NoTee]
    /\ used = 0 /\ slots = 0
    /\ inFlight = [p \in Providers |-> 0] /\ learned = [p \in Providers |-> 0]
    /\ successes = [p \in Providers |-> 0] /\ overload = [p \in Providers |-> FALSE]
    /\ bill = [r \in Requests |-> NoBill]

Init == Idle /\ at = [r \in Requests |-> "new"]

\* What the request knew of itself goes when its handler returns.
Forget(r, end) ==
    /\ at' = [at EXCEPT ![r] = end]
    /\ ask' = [ask EXCEPT ![r] = NoAsk]
    /\ resp' = [resp EXCEPT ![r] = NoResponse]
    /\ tee' = [tee EXCEPT ![r] = NoTee]
    /\ bill' = [bill EXCEPT ![r] = NoBill]

-----------------------------------------------------------------------------
(* The concurrency learner.                                                *)

Begin(p) == inFlight' = [inFlight EXCEPT ![p] = @ + 1]
EndUpstream(p) == inFlight' = [inFlight EXCEPT ![p] = @ - 1]

ClampAbove(n) == IF n > Ceiling - 1 THEN Ceiling - 1 ELSE n  \* Faulty variant: 0 is "unknown"
Clamp(n) == IF n < 1 THEN 1 ELSE IF n > Ceiling - 1 THEN Ceiling - 1 ELSE n

\* observe: an overload halves what is in flight; Regrow successes in a row
\* raise a known limit by one, up to where it is unknown again (0).
Observe(p, class) ==
    /\ overload' = IF class = "other" THEN overload ELSE [overload EXCEPT ![p] = class = "overload"]
    /\ CASE class = "overload" ->
              LET next == Clamp(inFlight[p] \div 2)
              IN  /\ successes' = [successes EXCEPT ![p] = 0]
                  /\ learned' = [learned EXCEPT ![p] = IF @ = 0 \/ next < @ THEN next ELSE @]
         [] class = "success" /\ learned[p] # 0 ->
              IF successes[p] + 1 < Regrow
                THEN successes' = [successes EXCEPT ![p] = @ + 1] /\ UNCHANGED learned
                ELSE /\ successes' = [successes EXCEPT ![p] = 0]
                     /\ learned' = [learned EXCEPT ![p] = IF @ + 1 >= Ceiling THEN 0 ELSE @ + 1]
         [] OTHER -> UNCHANGED <<learned, successes>>

-----------------------------------------------------------------------------
(* handlePassthrough before the request is sent.                           *)

Arrive(r) ==
    /\ at[r] = "new" /\ r \notin Media
    /\ \E a \in Asks[r] : ask' = [ask EXCEPT ![r] = a]
    /\ at' = [at EXCEPT ![r] = "asked"]
    /\ UNCHANGED <<resp, tee, shared, bill>>

\* peekAndValidateModel: of the window that is looked at the whole body must be
\* seen.  A body that names no model, or two, or is binary or empty has the model
\* "none".
Seen(body) == body.model # "none" /\ ~body.cut

\* The checks of provider, path and model: with several grants one of them must
\* allow all three; without a model restriction the body is not looked at.
Permitted(a) ==
    LET c == a.caller
    IN  /\ AllowsProvider(c, a.provider)
        /\ AllowsPathForProvider(c, a.provider, a.path)
        /\ IF GrantCount(c) > 1
             THEN HasModelRestrictionForPath(c, a.provider, a.path) =>
                     Seen(a.body) /\ AllowsModelForPath(c, a.provider, a.path, a.body.model)
             ELSE HasModelRestriction(c) =>
                     Seen(a.body) /\ AllowsProviderModel(c, a.provider, a.body.model)

Deny(r) ==
    /\ at[r] = "asked" /\ ~Permitted(ask[r])
    /\ Forget(r, "denied")
    /\ UNCHANGED shared

\* A method, an upgrade or a path that is not served, a limit that is reached
\* (403, 405, 501, 400, 429).
Reject(r) ==
    /\ at[r] = "asked" /\ Permitted(ask[r])
    /\ Forget(r, "done")
    /\ UNCHANGED shared

\* The model that the cost gate has looked up the price of, also of a body that
\* is cut.
Gated(a) == IF a.budgeted THEN a.body.model ELSE "none"
Unpriced(a) == Gated(a) # "none" /\ Gated(a) \notin Priced

RefuseUnpriced(r) ==
    /\ at[r] = "asked" /\ Permitted(ask[r]) /\ Unpriced(ask[r])
    /\ Forget(r, "done")
    /\ UNCHANGED shared

\* trackUpstream, then proxyUpstream sends.  Of the body only whether there is
\* one matters from here on.
Send(r) ==
    /\ at[r] = "asked" /\ Permitted(ask[r]) /\ ~Unpriced(ask[r])
    /\ at' = [at EXCEPT ![r] = "sent"]
    /\ ask' = [ask EXCEPT ![r] = [provider |-> ask[r].provider, gated |-> Gated(ask[r])]]
    /\ resp' = [resp EXCEPT ![r].bytes = ask[r].body.bytes]
    /\ Begin(ask[r].provider)
    /\ UNCHANGED <<tee, used, slots, learned, successes, overload, bill>>

-----------------------------------------------------------------------------
(* proxyUpstream.                                                          *)

\* No response: the body is above the cap before it is sent; or it is so while
\* it is sent, the client has gone or the connection failed; or it timed out.
NoAnswer(r, class) ==
    /\ at[r] = "sent" /\ r \notin Media
    /\ at' = [at EXCEPT ![r] = "over"]
    /\ Observe(ask[r].provider, class)
    /\ UNCHANGED <<ask, resp, tee, used, slots, inFlight, bill>>

Classes == [ok |-> "success", error |-> "other", busy |-> "overload"]

\* A response: its type, what it reports if that can be read, and how much of the request the
\* provider had read by then.
Respond(r, status, type, model, usage) ==
    /\ at[r] = "sent" /\ r \notin Media
    /\ usage => type # "other" /\ status = "ok"
    /\ model # "none" => usage \/ (type = "sse" /\ status = "ok")
    /\ \E bytes \in {FALSE, resp[r].bytes} :
         resp' = [resp EXCEPT ![r] = [ok |-> status = "ok", type |-> type, model |-> model,
                    usage |-> usage, bytes |-> bytes, length |-> 0, copied |-> "part"]]
    /\ at' = [at EXCEPT ![r] = "copying"]
    /\ Observe(ask[r].provider, Classes[status])
    /\ UNCHANGED <<ask, tee, used, slots, inFlight, bill>>

Least(m, n) == IF m < n THEN m ELSE n

\* teeBudget.reserve, a compare-and-swap
Reserve(n) == used + n <= TeeLimit

\* Faulty variant: the budget alone bounds a copy
WriteTeeUncapped(t, n) ==
    IF t.truncated \/ ~Reserve(n) THEN [t EXCEPT !.truncated = TRUE]
    ELSE [t EXCEPT !.size = @ + n, !.reserved = @ + n]
\* cappedAccountingBuffer.Write of n bytes.
WriteTee(t, n) ==
    LET room == TeeCap - t.size
        part == Least(n, room)
        t2   == IF n > room THEN [t EXCEPT !.truncated = TRUE] ELSE t
    IN  IF t.truncated \/ room <= 0 THEN [t EXCEPT !.truncated = TRUE]
        ELSE IF Reserve(part)
          THEN [t2 EXCEPT !.size = @ + part, !.reserved = @ + part]
          ELSE [t2 EXCEPT !.truncated = TRUE]

\* A piece of a JSON response goes to its copy; copies of event streams are
\* bounded on their own and take nothing of the budget, others are not copied.
Piece(r, n) ==
    /\ at[r] = "copying" /\ resp[r].type = "json" /\ resp[r].length + n <= MaxLength
    /\ resp' = [resp EXCEPT ![r].length = @ + n]
    /\ tee' = [tee EXCEPT ![r] = WriteTee(@, n)]
    /\ used' = used + (WriteTee(tee[r], n).reserved - tee[r].reserved)
    /\ UNCHANGED <<at, ask, slots, learner, bill>>

\* io.Copy returns when part of the body was read, or all of it, which need not
\* all have been sent.  A JSON body that reports something is not empty.
Copied(r, copied) ==
    /\ at[r] = "copying"
    /\ copied # "part" /\ resp[r].usage /\ resp[r].type = "json" => resp[r].length > 0
    /\ resp' = [resp EXCEPT ![r].copied = copied]
    /\ at' = [at EXCEPT ![r] = "over"]

CopyEnds(r) ==
    /\ Copied(r, "sent")
    /\ UNCHANGED <<ask, tee, shared, bill>>

\* The upstream or the client breaks off.
CopyBreaks(r) ==
    /\ \E copied \in {"part", "read"} : Copied(r, copied)
    /\ UNCHANGED <<ask, tee, shared, bill>>

\* The watchdog's timer ends the copy: its error is observed as an overload.
CopyStalls(r) ==
    /\ \E copied \in {"part", "read"} : Copied(r, copied)
    /\ Observe(ask[r].provider, "overload")
    /\ UNCHANGED <<ask, tee, used, slots, inFlight, bill>>

\* The copy panics (http.ErrAbortHandler): the copy is released on the way up,
\* nothing is accounted, and the deferred end of the exchange still runs.
CopyPanics(r) ==
    /\ at[r] = "copying"
    /\ used' = used - tee[r].reserved
    /\ EndUpstream(ask[r].provider)
    /\ Forget(r, "done")
    /\ UNCHANGED <<slots, learned, successes, overload>>

-----------------------------------------------------------------------------
(* handlePassthrough after the response.                                   *)

\* What is read from the copy of a JSON response: all or, if the copy says that it
\* was cut or is no JSON because bytes are missing, nothing.
Unread == [usage |-> FALSE, model |-> "none"]
JSONReadings(r) ==
    IF tee[r].truncated \/ tee[r].size < resp[r].length \/ resp[r].copied = "part" THEN {Unread}
    ELSE {[usage |-> resp[r].usage, model |-> resp[r].model]}

\* Of an event stream its head and tail are kept: of a whole one the usage, which
\* comes last, but perhaps not the model.
KeptModels(r) == {"none", resp[r].model}
StreamReadings(r) ==
    [usage : IF resp[r].copied # "part" THEN {resp[r].usage} ELSE {FALSE, resp[r].usage},
     model : KeptModels(r)]

Readings(r) ==
    CASE resp[r].type = "json" -> JSONReadings(r)
      [] resp[r].type = "sse"  -> StreamReadings(r)
      [] OTHER                 -> {Unread}

\* Faulty variant: an incomplete copy is not estimated
CanEstimateStream(r) == resp[r].ok /\ resp[r].bytes /\ resp[r].type = "sse"
CanEstimate(r) ==
    /\ resp[r].ok /\ resp[r].bytes
    /\ resp[r].type = "sse" \/ (resp[r].type = "json" /\ (tee[r].truncated \/ resp[r].copied # "sent"))

\* Faulty variant: the response's model whatever its price
BillModelOfResponse(r, model) == model
\* The model whose price is charged: that of the response, or the gated one if
\* the response's has no price.
BillModel(r, model) ==
    IF ask[r].gated # "none" /\ model \notin Priced THEN ask[r].gated ELSE model

Account(r) ==
    /\ at[r] = "over" /\ r \notin Media
    /\ \E read \in Readings(r) :
         bill' = [bill EXCEPT ![r] =
             IF read.usage THEN [usage |-> "reported", model |-> BillModel(r, read.model)]
             ELSE IF CanEstimate(r) THEN [usage |-> "estimated", model |-> BillModel(r, read.model)]
             ELSE NoBill]
    /\ at' = [at EXCEPT ![r] = "accounted"]
    /\ UNCHANGED <<ask, resp, tee, shared>>

\* The deferred calls: the copy is released, then the exchange ends.
Finish(r) ==
    /\ at[r] = "accounted"
    /\ used' = used - tee[r].reserved
    /\ EndUpstream(ask[r].provider)
    /\ Forget(r, "done")
    /\ UNCHANGED <<slots, learned, successes, overload>>

-----------------------------------------------------------------------------
(* The media routes.  They are admitted like any request, decode their     *)
(* body under a slot, resolve the model and call the adapter.              *)

AcquireSlot(r) ==
    /\ at[r] = "new" /\ r \in Media /\ slots < Slots
    /\ slots' = slots + 1
    /\ at' = [at EXCEPT ![r] = "decoding"]
    /\ UNCHANGED <<ask, resp, tee, used, learner, bill>>

\* 503 at once, and the other ends before a slot is asked for (429).
NoSlot(r) ==
    /\ at[r] = "new" /\ r \in Media
    /\ at' = [at EXCEPT ![r] = "done"]
    /\ UNCHANGED <<ask, resp, tee, shared, bill>>

\* The slot is given back with the body decoded or not: it may be unreadable, too
\* large or name no model.
Decode(r) ==
    /\ at[r] = "decoding"
    /\ slots' = slots - 1
    /\ \E a \in Asks[r] : ask' = [ask EXCEPT ![r] = a]
    /\ at' = [at EXCEPT ![r] = "decoded"]
    /\ UNCHANGED <<resp, tee, used, learner, bill>>

DecodeFails(r) ==
    /\ at[r] = "decoding"
    /\ slots' = slots - 1
    /\ at' = [at EXCEPT ![r] = "done"]
    /\ UNCHANGED <<ask, resp, tee, used, learner, bill>>

\* resolveMediaModel
Resolved(a) == Resolve(a.catalogue, a.caller, a.name)

SendMedia(r) ==
    /\ at[r] = "decoded" /\ Resolved(ask[r]) # NotFound
    /\ ask' = [ask EXCEPT ![r] = [provider |-> Resolved(ask[r]).provider, gated |-> "none"]]
    /\ Begin(Resolved(ask[r]).provider)
    /\ at' = [at EXCEPT ![r] = "sent"]
    /\ UNCHANGED <<resp, tee, used, slots, learned, successes, overload, bill>>

\* The model does not resolve, or the body cannot be rebuilt.
Unresolved(r) ==
    /\ at[r] = "decoded"
    /\ Forget(r, "done")
    /\ UNCHANGED shared

\* The adapter calls the provider, each attempt is observed, and one that failed may
\* be followed by another.
MediaAttempt(r, class) ==
    /\ at[r] = "sent" /\ r \in Media
    /\ Observe(ask[r].provider, class)
    /\ \E next \in {"sent", "over"} :
         (class = "success" => next = "over") /\ at' = [at EXCEPT ![r] = next]
    /\ UNCHANGED <<ask, resp, tee, used, slots, inFlight, bill>>

\* The watchdog's timer ends the reading of the last attempt's response.
MediaStalls(r) ==
    /\ at[r] = "over" /\ r \in Media
    /\ Observe(ask[r].provider, "overload")
    /\ at' = [at EXCEPT ![r] = "accounted"]
    /\ UNCHANGED <<ask, resp, tee, used, slots, inFlight, bill>>

\* The adapter returns, at once if it does not support the operation, or panics; a success counts for the model's statistics only.
MediaEnds(r) ==
    /\ at[r] \in {"sent", "over"} /\ r \in Media
    /\ EndUpstream(ask[r].provider)
    /\ Forget(r, "done")
    /\ UNCHANGED <<used, slots, learned, successes, overload>>

-----------------------------------------------------------------------------
Step(r) ==
    \/ Arrive(r) \/ Deny(r) \/ Reject(r) \/ RefuseUnpriced(r) \/ Send(r)
    \/ \E class \in {"other", "overload"} : NoAnswer(r, class)
    \/ \E status \in {"ok", "error", "busy"}, type \in {"json", "sse", "other"},
          model \in Models \cup {"none"}, usage \in BOOLEAN : Respond(r, status, type, model, usage)
    \/ \E n \in 1..2 : Piece(r, n)
    \/ CopyEnds(r) \/ CopyBreaks(r) \/ CopyStalls(r) \/ CopyPanics(r) \/ Account(r) \/ Finish(r)
    \/ AcquireSlot(r) \/ NoSlot(r) \/ Decode(r) \/ DecodeFails(r)
    \/ SendMedia(r) \/ Unresolved(r) \/ MediaStalls(r) \/ MediaEnds(r)
    \/ \E class \in {"success", "other", "overload"} : MediaAttempt(r, class)

Next == \E r \in Requests : Step(r)

Spec == Init /\ [][Next]_vars

-----------------------------------------------------------------------------
(* Properties.                                                             *)

\* The exchange with the provider is open from Begin to EndUpstream.
Open(r) == at[r] \in {"sent", "copying", "over", "accounted"}

\* However a response ends (sent, broken off, stalled, by a panic), what its copy
\* has reserved of the shared budget is returned.  While it is copied, a copy holds
\* the bytes it has reserved and never more than its own cap, also when the budget
\* has room (routes_passthrough.go:480-488), nor do all copies together exceed the
\* budget; and the counts of exchanges and of decoding slots are those of the
\* requests that have one.
ResourcesReturned ==
    /\ used = Cardinality(UNION {{r} \X (1..tee[r].reserved) : r \in Requests}) /\ used <= TeeLimit
    /\ \A r \in Requests :
         tee[r].size = tee[r].reserved /\ tee[r].size <= TeeCap /\ (~Open(r) => tee[r].reserved = 0)
    /\ \A p \in Providers :
         inFlight[p] = Cardinality({r \in Requests : Open(r) /\ ask[r].provider = p})
    /\ slots = Cardinality({r \in Requests : at[r] = "decoding"})

\* Some one grant of the caller, a group or the personal grant with the paths of
\* the primary group, allows the provider, the path and the body's model together.
OneGrant(a) ==
    LET personal == [providers |-> a.caller.personal.providers,
                     models |-> a.caller.personal.models,
                     paths |-> Head(a.caller.members).paths]
        grants == ToSet(a.caller.members)
                  \cup (IF a.caller.personal.exists THEN {personal} ELSE {})
    IN  \E g \in grants :
          /\ g.providers = {} \/ a.provider \in g.providers
          /\ g.paths = {} \/ a.path \in g.paths
          /\ g.models = {} \/ (Seen(a.body) /\ a.body.model \in g.models)

\* Rights of several groups are never put together from parts of different ones:
\* the handler lets a request through exactly if one grant allows all of it.
GrantsNeverMix ==
    [][\A r \in Requests :
         /\ at[r] = "asked" /\ at'[r] \in {"sent", "done"} => OneGrant(ask[r])
         /\ at[r] = "asked" /\ at'[r] = "denied" => ~OneGrant(ask[r])]_vars

\* The model listing and the routes agree on names: every listed name resolves to
\* what it is listed as, no caller is denied a bare name that one of its grants
\* covers, and no other provider is tried for it that none of them covers.
NamesAgree ==
    \A r \in Media : at[r] = "decoded" =>
        /\ ListedResolves(ask[r].catalogue, ask[r].caller)
        /\ GrantedResolves(ask[r].catalogue, ask[r].caller, ask[r].name)
        /\ CandidatesGranted(ask[r].catalogue, ask[r].caller, ask[r].name)

\* Tokens a provider has reported are accounted for at least as an estimate, also
\* if the copy was cut, the budget for copies was used up by other responses or
\* the client has gone, provided the request's body had been read.
UsedIsBilled ==
    \A r \in Requests :
        at[r] = "accounted" /\ resp[r].usage /\ resp[r].bytes => bill[r] # NoBill

\* After an overload, and until the next success, the provider has a learned limit
\* that can be announced: at least one, below the value that means unknown.
OverloadIsRemembered ==
    \A p \in Providers :
        overload[p] => learned[p] \in 1..(Ceiling - 1) /\ successes[p] = 0

\* A caller with a cost budget is charged a known price for what the gate has let
\* through, also if the provider answers under another name for the model.
BudgetSeesCost ==
    \A r \in Requests :
        bill[r] # NoBill /\ ask[r].gated # "none" => bill[r].model \in Priced
=============================================================================
