----------------------------- MODULE Federation -----------------------------
(***************************************************************************)
(* mcp_federation.go: POST /mcp.  tools/list asks every MCP server that    *)
(* the caller's group may use, in goroutines under two semaphores and one  *)
(* deadline, and merges what came back; tools/call goes to the server      *)
(* whose name is the longest prefix of the tool's.  Names are sequences of *)
(* the parts between underscores, so "a_b" is <<"a", "b">>.                *)
(***************************************************************************)
EXTENDS TargetHealth, Sequences, SequencesExt

CONSTANTS
    Requests,  \* federated requests
    Methods,   \* per request: list, call or other, what it may ask for
    Allowed,   \* per request: the servers its group may use
    Name,      \* per server: its name
    Offers,    \* per server: the tool names its pages may list; <<>> stands
               \* for an entry without a usable name
    Calls,     \* tool names that clients call
    Gate,      \* mcpFederatedFanoutGlobalConcurrency
    MaxPages   \* mcpToolsListMaxPagesPerServer

Servers == Targets \ Agents

ASSUME FederationAssumption ==
    /\ Allowed \in [Requests -> SUBSET Servers]
    /\ Name \in [Servers -> Seq(STRING)] /\ Calls \subseteq Seq(STRING)
    /\ Offers \in [Servers -> SUBSET Seq(STRING)]
    /\ \A s, t \in Servers : Name[s] = Name[t] => s = t
    /\ Requests \cap Pollers = {}
    /\ Gate \in Nat \ {0} /\ MaxPages \in Nat \ {0}

VARIABLES
    state,   \* per request: new, listing, calling or done
    ctx,     \* per request: its context is live, expired or canceled
    job,     \* per request and server: the goroutine or call to the server
    tools,   \* per request and server: the tools of the pages read so far
    merged,  \* per request: the servers whose tools are in the list, in the order
             \* in which their goroutines took the lock
    failed,  \* per request: the servers that are skipped
    dialed,  \* per request: the servers that were called
    sem,     \* per request: slots taken of its own semaphore
    gate,    \* slots taken of the gateway's semaphore
    called,  \* per request: the name a tools/call asked for
    replied, \* per request: what the backend answered its first attempt
    ran,     \* per request: how often backends ran that tool
    answer   \* per request: what the client got

fedVars == <<state, ctx, job, tools, merged, failed, dialed, sem, gate, called, replied, ran, answer>>
vars == <<healthVars, fedVars>>

NoJob == [at |-> "none", pages |-> 0, first |-> "none", out |-> "none"]

Init ==
    /\ HealthInit
    /\ state = [r \in Requests |-> "new"]
    /\ ctx = [r \in Requests |-> "live"]
    /\ job = [r \in Requests |-> [s \in Servers |-> NoJob]]
    /\ tools = [r \in Requests |-> [s \in Servers |-> {}]]
    /\ merged = [r \in Requests |-> <<>>]
    /\ failed = [r \in Requests |-> {}] /\ dialed = [r \in Requests |-> {}]
    /\ sem = [r \in Requests |-> 0] /\ gate = 0
    /\ called = [r \in Requests |-> <<>>]
    /\ replied = [r \in Requests |-> "none"] /\ ran = [r \in Requests |-> 0]
    /\ answer = [r \in Requests |-> "none"]

-----------------------------------------------------------------------------
(* Names.                                                                  *)

\* allowedMCPServerNames: not the servers of the legacy transport.
AllowedNames(r) == Allowed[r] \ Legacy

\* prefixMCPTool
FullName(s, tool) == Name[s] \o tool

Longest(S) == CHOOSE s \in S : \A t \in S : Len(Name[t]) <= Len(Name[s])

\* resolveFederatedTool: the servers among names whose name is a prefix.
PrefixServers(name, names) == {s \in names : IsStrictPrefix(Name[s], name)}
Routed(name, names) == Longest(PrefixServers(name, names))

Lists(r, s, name) == \E tool \in tools[r][s] \ {<<>>} : FullName(s, tool) = name

\* The entries under one name after the sort by name and server: of two prefixes
\* of a name the shorter sorts first.
Group(r, name) ==
    SortSeq(SelectSeq(merged[r], LAMBDA s : Lists(r, s, name)),
            LAMBDA s, t : Len(Name[s]) < Len(Name[t]))

\* Faulty variant: the first of a group survives.
SurvivorFirst(r, name) == Group(r, name)[1]
\* The loop over the groups: the first of a group survives, unless the scan for
\* the server that tools/call would use finds one.
Survivor(r, name) ==
    LET group  == Group(r, name)
        routed == Routed(name, AllowedNames(r))
        found  == IF Len(group) > 1 THEN SelectInSeq(group, LAMBDA s : s = routed) ELSE 0
    IN  group[IF found = 0 THEN 1 ELSE found]

\* The list that a tools/list is answered with, without its order.
Merged(r) ==
    LET names == UNION {{FullName(s, tool) : tool \in tools[r][s] \ {<<>>}} :
                            s \in Range(merged[r])}
    IN  {[name |-> n, server |-> Survivor(r, n)] : n \in names}

-----------------------------------------------------------------------------
(* The request.                                                            *)

Done(r, a) ==
    /\ state' = [state EXCEPT ![r] = "done"]
    /\ answer' = [answer EXCEPT ![r] = a]

\* handleMCPFederated before the dispatch: an upgrade, an unreadable body, a
\* body that is no JSON-RPC, or no admission.
Refuse(r) ==
    /\ state[r] = "new" /\ "other" \in Methods[r]
    /\ Done(r, "refused")
    /\ UNCHANGED <<ctx, job, tools, merged, failed, dialed, sem, gate, called, replied, ran, healthVars>>

\* The methods that need no backend: initialize, ping, notifications and those
\* that do not exist.
AnswerLocally(r) ==
    /\ state[r] = "new" /\ "other" \in Methods[r]
    /\ Done(r, "local")
    /\ UNCHANGED <<ctx, job, tools, merged, failed, dialed, sem, gate, called, replied, ran, healthVars>>

BeginList(r) ==
    /\ state[r] = "new" /\ "list" \in Methods[r]
    /\ state' = [state EXCEPT ![r] = "listing"]
    /\ job' = [job EXCEPT ![r] =
                 [s \in Servers |-> IF s \in AllowedNames(r) THEN [NoJob EXCEPT !.at = "sem"]
                                                             ELSE NoJob]]
    /\ UNCHANGED <<ctx, tools, merged, failed, dialed, sem, gate, called, replied, ran, answer, healthVars>>

BeginCall(r, name) ==
    /\ state[r] = "new" /\ "call" \in Methods[r]
    /\ LET known == PrefixServers(name, AllowedNames(r)) # {}
       IN  IF known
             THEN /\ state' = [state EXCEPT ![r] = "calling"]
                  /\ job' = [job EXCEPT ![r][Routed(name, AllowedNames(r))].at = "bare"]
                  /\ UNCHANGED answer
             ELSE Done(r, "unknown tool") /\ UNCHANGED job
    /\ called' = [called EXCEPT ![r] = name]
    /\ UNCHANGED <<ctx, tools, merged, failed, dialed, sem, gate, replied, ran, healthVars>>

\* Faulty variant: the context of the fan-out has no deadline.
ExpireCallsOnly(r) ==
    /\ state[r] = "calling" /\ ctx[r] = "live"
    /\ ctx' = [ctx EXCEPT ![r] = "expired"]
    /\ UNCHANGED <<state, job, tools, merged, failed, dialed, sem, gate, called, replied, ran, answer, healthVars>>
\* The deadline of the fan-out or the call, and a client that goes away.
Expire(r) ==
    /\ state[r] \in {"listing", "calling"} /\ ctx[r] = "live"
    /\ ctx' = [ctx EXCEPT ![r] = "expired"]
    /\ UNCHANGED <<state, job, tools, merged, failed, dialed, sem, gate, called, replied, ran, answer, healthVars>>

Hangup(r) ==
    /\ state[r] \in {"listing", "calling"} /\ ctx[r] = "live"
    /\ ctx' = [ctx EXCEPT ![r] = "canceled"]
    /\ UNCHANGED <<state, job, tools, merged, failed, dialed, sem, gate, called, replied, ran, answer, healthVars>>

-----------------------------------------------------------------------------
(* A goroutine of the fan-out.                                             *)

AcquireSem(r, s) ==
    /\ job[r][s].at = "sem" /\ sem[r] < FanOut
    /\ sem' = [sem EXCEPT ![r] = @ + 1]
    /\ job' = [job EXCEPT ![r][s].at = "gate"]
    /\ UNCHANGED <<state, ctx, tools, merged, failed, dialed, gate, called, replied, ran, answer, healthVars>>

\* A select whose both cases are ready takes either.
AcquireGate(r, s) ==
    /\ job[r][s].at = "gate" /\ gate < Gate
    /\ gate' = gate + 1
    /\ dialed' = [dialed EXCEPT ![r] = @ \cup {s}]
    /\ job' = [job EXCEPT ![r][s].at = "bare"]
    /\ UNCHANGED <<state, ctx, tools, merged, failed, sem, called, replied, ran, answer, healthVars>>

\* Faulty variant: the deferred release of the semaphore comes before the select.
StarveReleasing(r, s) ==
    /\ job[r][s].at \in {"sem", "gate"} /\ ctx[r] # "live"
    /\ failed' = [failed EXCEPT ![r] = @ \cup {s}]
    /\ sem' = [sem EXCEPT ![r] = @ - 1]
    /\ job' = [job EXCEPT ![r][s].at = "done"]
    /\ UNCHANGED <<state, ctx, tools, merged, dialed, gate, called, replied, ran, answer, healthVars>>
Starve(r, s) ==
    /\ job[r][s].at \in {"sem", "gate"} /\ ctx[r] # "live"
    /\ failed' = [failed EXCEPT ![r] = @ \cup {s}]
    /\ sem' = IF job[r][s].at = "gate" THEN [sem EXCEPT ![r] = @ - 1] ELSE sem
    /\ job' = [job EXCEPT ![r][s].at = "done"]
    /\ UNCHANGED <<state, ctx, tools, merged, dialed, gate, called, replied, ran, answer, healthVars>>

-----------------------------------------------------------------------------
(* mcpBackendCall.                                                         *)

Refusals == {"rpcError", "sessionError", "http400"}

\* doBackendJSONRPC: a result; a JSON-RPC error, perhaps about the session; a
\* 400 or 404; any other status, connection or decoding error; a body above the
\* cap; the end of the context.  A listing does not tell a body above the cap
\* from a failure, nor an error about the session from another.
Outcomes(r) ==
    IF ctx[r] # "live" THEN {ctx[r]}
    ELSE IF state[r] = "listing" THEN {"result", "failed", "rpcError", "http400"}
    ELSE {"result", "failed", "large"} \cup Refusals

\* What mcpBackendCall makes of it: a result, a JSON-RPC error, or an error, of
\* which callers tell apart a client that left and a body above the cap.
Returned(o) ==
    CASE o \in {"http400", "expired"} -> "failed"
      [] o = "sessionError"           -> "rpcError"
      [] OTHER                        -> o
TransportError(o) == o \in {"failed", "large", "canceled"}

\* Faulty variant: the rule before its narrowing: any JSON-RPC error asks for a session.
SessionRequiredAnyError(r, o) == o \in Refusals
\* mcpSessionRequiredSignal
SessionRequired(r, o) ==
    o \in {"http400", "sessionError"} \/ (o = "rpcError" /\ state[r] = "listing")

\* How often an attempt with outcome o runs the tool of a tools/call.  Only a
\* result tells: a tool may fail, in its own words, before or after its effect.
Runs(r, o) ==
    IF state[r] = "listing" THEN {0} ELSE IF o = "result" THEN {1} ELSE {0, 1}

Bare(r, s) ==
    /\ job[r][s].at = "bare"
    /\ \E o \in Outcomes(r), n \in {0, 1} :
         /\ n \in Runs(r, o)
         /\ ran' = [ran EXCEPT ![r] = @ + n]
         /\ replied' = IF state[r] = "calling" THEN [replied EXCEPT ![r] = o] ELSE replied
         /\ job' = [job EXCEPT ![r][s] =
              IF SessionRequired(r, o) THEN [@ EXCEPT !.at = "init", !.first = Returned(o)]
                                       ELSE [@ EXCEPT !.at = "return", !.out = Returned(o)]]
    /\ UNCHANGED <<state, ctx, tools, merged, failed, dialed, sem, gate, called, answer, healthVars>>

FirstStands(r, s) ==
    job' = [job EXCEPT ![r][s] =
              [@ EXCEPT !.at = "return", !.out = job[r][s].first, !.first = "none"]]

\* mcpBackendHandshake fails: the first outcome stands.
HandshakeFails(r, s) ==
    /\ job[r][s].at = "init"
    /\ FirstStands(r, s)
    /\ UNCHANGED <<state, ctx, tools, merged, failed, dialed, sem, gate, called, replied, ran, answer, healthVars>>

\* It fails although the response told a session id: the id is dropped.
HandshakeLosesSession(r, s) ==
    /\ job[r][s].at = "init" /\ s \in Stateful
    /\ open' = Opened(r, s, "lost")
    /\ FirstStands(r, s)
    /\ UNCHANGED <<state, ctx, tools, merged, failed, dialed, sem, gate, called, replied, ran, answer,
                   entries, sweepVars, proxied>>

\* It succeeds, with a session or without; notifications/initialized follows,
\* whose failure is only logged.
Handshake(r, s) ==
    /\ job[r][s].at = "init" /\ ctx[r] = "live"
    /\ open' = open \/ (s \in Stateful /\ open' = Opened(r, s, "kept"))
    /\ job' = [job EXCEPT ![r][s].at = "retry", ![r][s].first = "none"]
    /\ UNCHANGED <<state, ctx, tools, merged, failed, dialed, sem, gate, called, replied, ran, answer,
                   entries, sweepVars, proxied>>

\* Faulty variant: the session is closed only after a retry that succeeded.
RetryClosingOnSuccess(r, s) ==
    /\ job[r][s].at = "retry"
    /\ \E o \in Outcomes(r), n \in {0, 1} :
         /\ n \in Runs(r, o)
         /\ ran' = [ran EXCEPT ![r] = @ + n]
         /\ job' = [job EXCEPT ![r][s].out = Returned(o),
                ![r][s].at = IF <<r, s, "kept">> \in open /\ o = "result" THEN "close" ELSE "return"]
    /\ UNCHANGED <<state, ctx, tools, merged, failed, dialed, sem, gate, called, replied, answer, healthVars>>
Retry(r, s) ==
    /\ job[r][s].at = "retry"
    /\ \E o \in Outcomes(r), n \in {0, 1} :
         /\ n \in Runs(r, o)
         /\ ran' = [ran EXCEPT ![r] = @ + n]
         /\ job' = [job EXCEPT ![r][s].out = Returned(o),
                               ![r][s].at = IF <<r, s, "kept">> \in open THEN "close" ELSE "return"]
    /\ UNCHANGED <<state, ctx, tools, merged, failed, dialed, sem, gate, called, replied, answer, healthVars>>

\* mcpBackendCloseSession, deferred and in a context of its own.
CloseSession(r, s) ==
    /\ job[r][s].at = "close"
    /\ open' = open \ {<<r, s, "kept">>}
    /\ job' = [job EXCEPT ![r][s].at = "return"]
    /\ UNCHANGED <<state, ctx, tools, merged, failed, dialed, sem, gate, called, replied, ran, answer,
                   entries, sweepVars, proxied>>

-----------------------------------------------------------------------------
(* The end of a fan-out goroutine, of a listing and of a call.             *)

Leave(r, s) ==
    /\ job' = [job EXCEPT ![r][s] = [NoJob EXCEPT !.at = "done"]]
    /\ sem' = [sem EXCEPT ![r] = @ - 1] /\ gate' = gate - 1

\* A call says nothing of a server when its own client went away.
RecordCall(s, o) ==
    IF o = "canceled" THEN UNCHANGED entries ELSE Record(s, ~TransportError(o))

\* A page with a cursor to the next one, within the page limit.
NextPage(r, s) ==
    /\ state[r] = "listing" /\ job[r][s].at = "return" /\ job[r][s].out = "result"
    /\ job[r][s].pages + 1 < MaxPages
    /\ \E page \in SUBSET Offers[s] :
         tools' = [tools EXCEPT ![r][s] = @ \cup page]
    /\ job' = [job EXCEPT ![r][s] = [NoJob EXCEPT !.at = "bare", !.pages = job[r][s].pages + 1]]
    /\ UNCHANGED <<state, ctx, merged, failed, dialed, sem, gate, called, replied, ran, answer, healthVars>>

\* The last page, or the page limit.
LastPage(r, s) ==
    /\ state[r] = "listing" /\ job[r][s].at = "return" /\ job[r][s].out = "result"
    /\ \E page \in SUBSET Offers[s] :
         tools' = [tools EXCEPT ![r][s] = @ \cup page]
    /\ RecordCall(s, "result")
    /\ merged' = [merged EXCEPT ![r] = Append(@, s)]
    /\ Leave(r, s)
    /\ UNCHANGED <<state, ctx, failed, dialed, called, replied, ran, answer, sweepVars, open, proxied>>

\* A failed page, or one that does not decode: fatal for the server only if it
\* is the first; after it the tools of the earlier pages go into the list.
PageFails(r, s) ==
    /\ state[r] = "listing" /\ job[r][s].at = "return"
    /\ RecordCall(s, job[r][s].out)
    /\ IF job[r][s].pages = 0
         THEN failed' = [failed EXCEPT ![r] = @ \cup {s}] /\ UNCHANGED merged
         ELSE merged' = [merged EXCEPT ![r] = Append(@, s)] /\ UNCHANGED failed
    /\ Leave(r, s)
    /\ UNCHANGED <<state, ctx, tools, dialed, called, replied, ran, answer, sweepVars, open, proxied>>

\* A goroutine that panics is recovered; its pages are lost.
WorkerPanics(r, s) ==
    /\ state[r] = "listing" /\ job[r][s].at = "bare"
    /\ failed' = [failed EXCEPT ![r] = @ \cup {s}]
    /\ tools' = [tools EXCEPT ![r][s] = {}]
    /\ Leave(r, s)
    /\ UNCHANGED <<state, ctx, merged, dialed, called, replied, ran, answer, healthVars>>

\* wg.Wait, the counters of the servers that were dialed, the merge.
AnswerList(r) ==
    /\ state[r] = "listing"
    /\ \A s \in AllowedNames(r) : job[r][s].at = "done"
    /\ proxied' = [t \in Targets |-> proxied[t] + (IF t \in dialed[r] THEN 1 ELSE 0)]
    /\ IF AllowedNames(r) # {} /\ failed[r] = AllowedNames(r)
         THEN Done(r, "unreachable")
         ELSE Done(r, "listed")
    /\ UNCHANGED <<ctx, job, tools, merged, failed, dialed, sem, gate, called, replied, ran, entries, sweepVars, open>>

AnswerCall(r, s) ==
    /\ state[r] = "calling" /\ job[r][s].at = "return"
    /\ RecordCall(s, job[r][s].out)
    /\ proxied' = [proxied EXCEPT ![s] = @ + 1]
    /\ job' = [job EXCEPT ![r][s].at = "done"]
    /\ Done(r, IF job[r][s].out = "large" THEN "too large"
               ELSE IF TransportError(job[r][s].out) THEN "upstream error"
               ELSE job[r][s].out)
    /\ UNCHANGED <<ctx, tools, merged, failed, dialed, sem, gate, called, replied, ran, sweepVars, open>>

-----------------------------------------------------------------------------

Step(r, s) ==
    \/ AcquireSem(r, s) \/ AcquireGate(r, s) \/ Starve(r, s)
    \/ Bare(r, s) \/ HandshakeFails(r, s) \/ HandshakeLosesSession(r, s)
    \/ Handshake(r, s) \/ Retry(r, s) \/ CloseSession(r, s)
    \/ NextPage(r, s) \/ LastPage(r, s) \/ PageFails(r, s) \/ WorkerPanics(r, s)
    \/ AnswerCall(r, s)

FederatedNext ==
    \E r \in Requests :
        \/ Refuse(r) \/ AnswerLocally(r) \/ BeginList(r) \/ Expire(r) \/ Hangup(r)
        \/ AnswerList(r)
        \/ \E name \in Calls : BeginCall(r, name)
        \/ \E s \in Servers : Step(r, s)

Next == FederatedNext \/ (HealthNext /\ UNCHANGED fedVars)

Spec == Init /\ [][Next]_vars

\* Goroutines and timers run.  A backend owes no answer while the context is
\* live; requests made to a dead context return, and so does the close.
Fairness ==
    \A r \in Requests :
        /\ WF_vars(Expire(r)) /\ WF_vars(AnswerList(r))
        /\ \A s \in AllowedNames(r) :
             WF_vars(CloseSession(r, s) \/ (ctx[r] # "live" /\ Step(r, s)))

FairSpec == Spec /\ Fairness

-----------------------------------------------------------------------------
(* Properties.                                                             *)

\* The servers that a listing skips nothing of, and what their pages listed.
Heard(r) == AllowedNames(r) \ failed[r]
ListedBy(r, s) == {FullName(s, tool) : tool \in tools[r][s] \ {<<>>}}

\* A listing shows every name that a server it heard has listed on any page, also
\* after a later page failed, and nothing else; a name that several servers list
\* is shown as the one describes it that tools/call would send it to, if that one
\* lists it, whatever order their goroutines ended in
\* (mcp_federation.go:1399-1435, 1468-1517).
ListingIsExact ==
    \A r \in Requests : answer[r] = "listed" =>
        /\ {e.name : e \in Merged(r)} = UNION {ListedBy(r, s) : s \in Heard(r)}
        /\ \A e \in Merged(r) :
             /\ e.server \in Heard(r) /\ e.name \in ListedBy(r, e.server)
             /\ LET routed == Routed(e.name, AllowedNames(r))
                IN  e.server = routed \/ e.name \notin ListedBy(r, routed) \/ routed \notin Heard(r)

\* One tools/call runs its tool a second time only if the backend answered the
\* first attempt with a 400 or 404 or with an error that speaks of a session,
\* which a tool that has run may do as well; never after a result, another
\* error, a lost or broken response or a timeout, and never a third time
\* (mcp_federation.go:926-938, 975-1029).
TwiceOnlyIfRefused ==
    \A r \in Requests :
        /\ ran[r] <= 2
        /\ ran[r] = 2 => replied[r] \in {"http400", "sessionError"}

\* The goroutines that hold a slot of the two semaphores.
Holding(r) == {s \in Servers : state[r] = "listing" /\ job[r][s].at \in
                   {"gate", "bare", "init", "retry", "close", "return"}}
HoldingGate(r) == {s \in Holding(r) : job[r][s].at # "gate"}

\* Slots of both semaphores are held by running goroutines and by nothing else,
\* also after deadlines, hang-ups and panics (mcp_federation.go:1279-1304).
SlotsHeld ==
    /\ \A r \in Requests : sem[r] = Cardinality(Holding(r))
    /\ gate = Cardinality(UNION {{r} \X HoldingGate(r) : r \in Requests})

\* When a request or a sweep has ended, every session that an initialize opened
\* for it has been closed, whatever happened to the call in between, but for
\* those whose initialize failed in the gateway's eyes
\* (mcp_federation.go:811-817, 1016-1022, target_health.go:510-519).
SessionsClosed ==
    \A session \in open :
        (\/ session[1] \in Requests /\ state[session[1]] = "done"
         \/ session[1] \in Pollers /\ poll[session[1]] = "done") => session[3] = "lost"

\* Every listing is answered, though servers may stay silent and requests
\* compete for slots (mcp_federation.go:1240-1304).
ListsAreAnswered == \A r \in Requests : state[r] = "listing" ~> state[r] = "done"
=============================================================================
