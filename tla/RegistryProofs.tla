--------------------------- MODULE RegistryProofs ---------------------------
(***************************************************************************)
(* Proofs about Registry, for any number of providers, models and readers, *)
(* and any interval, thresholds and backoffs.                              *)
(***************************************************************************)
EXTENDS Registry, TLAPS

-----------------------------------------------------------------------------
(* The inductive invariant.                                                *)

Part == [models : SUBSET Models, meta : {0} \cup Versions]
Listing == [Parts -> Part]

\* TypeOK, and the types of what it leaves out.
TInv ==
    /\ TypeOK
    /\ found \in [Jobs -> [out : {"ok", "failed", "canceled"}, ids : SUBSET Models]]
    /\ entry \in [gen : {-1} \cup Nat, body : Listing]
    /\ body \in [Readers -> Listing]
    /\ unread \in [Readers -> SUBSET Parts]

\* The state of some provider may have changed, and the generation not yet.
Dirty == ending > 0 \/ \E j \in Jobs : work[j] = "finish"

\* The parts X of a listing built in generation g are those of the moment, unless
\* the generation has moved or is about to.
UpToDate(g, listing, X) ==
    g = gen => Dirty \/ \A x \in X : listing[x] = Current[x]

\* A reader has built the parts it has read, in the generation it loaded.
ReadersUpToDate ==
    \A r \in Readers :
        /\ rgen[r] <= gen
        /\ rd[r] \in {"build", "store"} => UpToDate(rgen[r], body[r], Parts \ unread[r])
        /\ rd[r] = "store" => unread[r] = {}
        /\ rd[r] \in {"idle", "look"} => unread[r] = Parts

EntryUpToDate == entry.gen <= gen /\ UpToDate(entry.gen, entry.body, Parts)

IInv == TInv /\ OneFetchPerProvider /\ ReadersUpToDate /\ EntryUpToDate

-----------------------------------------------------------------------------
(* Types.                                                                  *)

Breaker == [health : {"closed", "open", "halfOpen"},
            fails : Nat, backoff : 0..OpenMax, until : Nat]

\* A breaker that opens waits no longer than OpenMax.
LEMMA OpenedType ==
  ASSUME NEW b \in Breaker, NEW t \in Nat, NEW escalate \in BOOLEAN
  PROVE  Opened(b, t, escalate) \in Breaker /\ Opened(b, t, escalate).health = "open"
  <1> DEFINE want == IF escalate /\ b.backoff > 0 THEN 2 * b.backoff ELSE OpenBase
             wait == IF want > OpenMax THEN OpenMax ELSE want
  <1>1. b.backoff \in Nat
    BY RegistryAssumption DEF Breaker
  <1>2. want \in Nat
    BY <1>1, RegistryAssumption
  <1> HIDE DEF want
  <1>3. wait \in 0..OpenMax /\ t + wait \in Nat
    BY <1>2, RegistryAssumption
  <1> HIDE DEF wait
  <1>4. Opened(b, t, escalate) = [b EXCEPT !.health = "open", !.backoff = wait, !.until = t + wait]
    BY DEF Opened, wait, want
  <1> QED BY <1>3, <1>4 DEF Breaker

\* recordHealthLocked yields a breaker, and never leaves it half-open.
LEMMA RecordHealthType ==
  ASSUME NEW b \in Breaker, NEW t \in Nat, NEW result \in {"ok", "failed", "canceled"}
  PROVE  /\ RecordHealth(b, t, result) \in Breaker
         /\ RecordHealth(b, t, result).health # "halfOpen"
  <1>1. Closed \in Breaker /\ Closed.health = "closed"
    BY RegistryAssumption DEF Closed, Breaker
  <1>2. CASE result = "canceled"
    BY <1>2 DEF RecordHealth, Breaker
  <1>3. CASE result # "canceled" /\ b.health = "halfOpen"
    BY <1>1, <1>3, OpenedType DEF RecordHealth
  <1>4. CASE result = "ok" /\ b.health # "halfOpen"
    BY <1>1, <1>4 DEF RecordHealth
  <1>5. CASE result = "failed" /\ b.health # "halfOpen"
    <2> DEFINE c == [b EXCEPT !.fails = @ + 1]
    <2>1. c \in Breaker /\ c.health # "halfOpen"
      BY <1>5 DEF Breaker
    <2> QED BY <1>5, <2>1, OpenedType DEF RecordHealth
  <1> QED BY <1>2, <1>3, <1>4, <1>5

\* What the providers' states say is a listing.
LEMMA CurrentType ==
  ASSUME known \in [Providers -> SUBSET Models], meta \in [Providers -> Versions]
  PROVE  Current \in Listing
  BY DEF Current, Listing, Parts, Part, Nothing

\* The initial states have their types.
LEMMA TInvInit == Init => TInv
  <1> SUFFICES ASSUME Init PROVE TInv
    OBVIOUS
  <1>1. Closed \in Breaker
    BY RegistryAssumption DEF Closed, Breaker
  <1>2. RecordHealth(Closed, 0, "failed") \in Breaker
    BY <1>1, RecordHealthType
  <1>3. brk \in [Providers -> Breaker]
    BY <1>1, <1>2 DEF Init
  <1>4. [x \in Parts |-> Nothing] \in Listing
    BY DEF Listing, Part, Nothing
  <1>5. TypeOK
    BY <1>3 DEF Init, TypeOK, Breaker
  <1> QED BY <1>4, <1>5 DEF Init, TInv, Failed

\* Every step keeps the types.
LEMMA TInvNext == TInv /\ [Next]_vars => TInv'
  <1> SUFFICES ASSUME TInv, [Next]_vars PROVE TInv'
    OBVIOUS
  <1> USE DEF stateVars, workVars, readVars
  <1>1. ASSUME NEW p \in Providers, TryBeginRefresh(p) PROVE TInv'
    <2>1. brk' \in [Providers -> Breaker]
      BY <1>1 DEF TryBeginRefresh, TInv, TypeOK, Breaker
    <2> QED BY <1>1, <2>1 DEF TryBeginRefresh, TInv, TypeOK, Breaker, Jobs, Kinds
  <1>2. ASSUME NEW p \in Providers, WarmFillRetry(p) PROVE TInv'
    BY <1>2 DEF WarmFillRetry, TInv, TypeOK, Jobs, Kinds
  <1>3. ASSUME NEW j \in Jobs, ListModels(j) PROVE TInv'
    BY <1>3 DEF ListModels, TInv, TypeOK, Answer, Failed, Canceled
  <1>4. ASSUME NEW j \in Jobs, CaptureMetadata(j) PROVE TInv'
    BY <1>4 DEF CaptureMetadata, TInv, TypeOK, Jobs
  <1>5. ASSUME NEW j \in Jobs, Finish(j) PROVE TInv'
    <2> DEFINE p == j[1]
               a == found[j]
               result == IF a.out = "ok" /\ ~Accepted(p, a) THEN "failed" ELSE a.out
    <2>1. p \in Providers /\ a \in [out : {"ok", "failed", "canceled"}, ids : SUBSET Models]
      BY DEF Jobs, TInv
    <2>2. result \in {"ok", "failed", "canceled"}
      BY <2>1
    <2>3. brk \in [Providers -> Breaker] /\ now \in Nat
      BY DEF TInv, TypeOK, Breaker
    <2>4. RecordHealth(brk[p], now, result) \in Breaker
      BY <2>1, <2>2, <2>3, RecordHealthType
    <2>5. brk' = [brk EXCEPT ![p] = RecordHealth(brk[p], now, result)]
      BY <1>5, <2>3 DEF Finish, FinishRefresh
    <2>6. brk' \in [Providers -> Breaker]
      BY <2>3, <2>4, <2>5
    <2>7. known' \in [Providers -> SUBSET Models]
      BY <1>5, <2>1 DEF Finish, FinishRefresh, TInv, TypeOK
    <2>8. flying' \in [Providers -> BOOLEAN] /\ last' \in [Providers -> Nat]
      BY <1>5 DEF Finish, FinishRefresh, TInv, TypeOK
    <2>9. work' \in [Jobs -> {"idle", "list", "meta", "finish"}] /\ ending' \in Nat
      BY <1>5 DEF Finish, TInv, TypeOK
    <2>10. found' \in [Jobs -> [out : {"ok", "failed", "canceled"}, ids : SUBSET Models]]
      BY <1>5 DEF Finish, TInv, Failed
    <2> QED
      BY <1>5, <2>6, <2>7, <2>8, <2>9, <2>10
      DEF Finish, FinishRefresh, TInv, TypeOK, Breaker
  <1>6. CASE Bump
    BY <1>6 DEF Bump, TInv, TypeOK
  <1>7. ASSUME NEW r \in Readers, Load(r) PROVE TInv'
    BY <1>7 DEF Load, TInv, TypeOK
  <1>8. ASSUME NEW r \in Readers, Look(r) PROVE TInv'
    BY <1>8 DEF Look, TInv, TypeOK
  <1>9. ASSUME NEW r \in Readers, Build(r) PROVE TInv'
    <2>1. PICK x \in unread[r] :
            /\ body' = [body EXCEPT ![r][x] = Current[x]]
            /\ unread' = [unread EXCEPT ![r] = @ \ {x}]
            /\ rd' = [rd EXCEPT ![r] = IF unread[r] = {x} THEN "store" ELSE @]
      BY <1>9 DEF Build
    <2>2. x \in Parts /\ Current[x] \in Part
      BY CurrentType DEF TInv, TypeOK, Listing
    <2>3. body' \in [Readers -> Listing]
      BY <2>1, <2>2 DEF TInv, Listing
    <2> QED BY <1>9, <2>1, <2>3 DEF Build, TInv, TypeOK
  <1>10. ASSUME NEW r \in Readers, Store(r) PROVE TInv'
    <2>1. [x \in Parts |-> Nothing] \in Listing
      BY DEF Listing, Part, Nothing
    <2> QED BY <1>10, <2>1 DEF Store, TInv, TypeOK
  <1>11. CASE Tick
    BY <1>11 DEF Tick, TInv, TypeOK
  <1>12. CASE UNCHANGED vars
    BY <1>12 DEF vars, TInv, TypeOK
  <1> QED
    BY <1>1, <1>2, <1>3, <1>4, <1>5, <1>6, <1>7, <1>8, <1>9, <1>10, <1>11, <1>12 DEF Next

\* The types of the registry's state, and the bound on the backoff of a breaker.
THEOREM TypeCorrect == Spec => []TypeOK
  <1>1. TInv => TypeOK
    BY DEF TInv
  <1> QED BY <1>1, TInvInit, TInvNext, PTL DEF Spec

-----------------------------------------------------------------------------
(* One fetch per provider.                                                 *)

\* The jobs of a provider.
LEMMA JobOf == \A p \in Providers, k \in Kinds : <<p, k>> \in Jobs
  BY DEF Jobs

\* After the warm fill nothing is under way.
LEMMA OneFetchInit == Init => OneFetchPerProvider
  <1> SUFFICES ASSUME Init, NEW p \in Providers
               PROVE  ~flying[p] /\ brk[p].health # "halfOpen" /\ \A k \in Kinds : ~Fetching(<<p, k>>)
    BY DEF OneFetchPerProvider, Kinds
  <1>1. Closed \in Breaker /\ Closed.health # "halfOpen"
    BY RegistryAssumption DEF Closed, Breaker
  <1>2. RecordHealth(Closed, 0, "failed").health # "halfOpen"
    BY <1>1, RecordHealthType
  <1> QED BY <1>1, <1>2, JobOf DEF Init, Fetching

\* A step keeps one fetch per provider.
LEMMA OneFetchNext ==
  ASSUME TInv, OneFetchPerProvider, [Next]_vars
  PROVE  OneFetchPerProvider'
  <1> USE JobOf DEF stateVars, workVars, readVars
  <1>0. \A p, q \in Providers, k, l \in Kinds : <<p, k>> = <<q, l>> => p = q /\ k = l
    OBVIOUS
  <1>1. ASSUME NEW p \in Providers, TryBeginRefresh(p) PROVE OneFetchPerProvider'
    BY <1>1 DEF TryBeginRefresh, TInv, TypeOK, OneFetchPerProvider, Fetching, Kinds
  <1>2. ASSUME NEW p \in Providers, WarmFillRetry(p) PROVE OneFetchPerProvider'
    <2>1. CASE RetryAllowed(p)
      <3>1. /\ flying' = [flying EXCEPT ![p] = TRUE]
            /\ work' = [work EXCEPT ![<<p, "retry">>] = "list"]
            /\ brk' = brk /\ ~flying[p]
        BY <1>2, <2>1 DEF WarmFillRetry, RetryAllowed
      <3> QED BY <3>1 DEF TInv, TypeOK, OneFetchPerProvider, Fetching, Kinds
    <2>2. CASE ~RetryAllowed(p)
      BY <1>2, <2>2 DEF WarmFillRetry, OneFetchPerProvider, Fetching
    <2> QED BY <2>1, <2>2
  <1>3. ASSUME NEW j \in Jobs, ListModels(j) PROVE OneFetchPerProvider'
    <2>1. \A i \in Jobs : Fetching(i)' <=> Fetching(i)
      BY <1>3 DEF ListModels, TInv, TypeOK, Fetching
    <2> QED BY <1>3, <2>1 DEF ListModels, OneFetchPerProvider, Kinds
  <1>4. ASSUME NEW j \in Jobs, CaptureMetadata(j) PROVE OneFetchPerProvider'
    <2>1. \A i \in Jobs : Fetching(i)' <=> Fetching(i)
      BY <1>4 DEF CaptureMetadata, TInv, TypeOK, Fetching
    <2> QED BY <1>4, <2>1 DEF CaptureMetadata, OneFetchPerProvider, Kinds
  <1>5. ASSUME NEW j \in Jobs, Finish(j) PROVE OneFetchPerProvider'
    <2> DEFINE p == j[1]
               a == found[j]
               result == IF a.out = "ok" /\ ~Accepted(p, a) THEN "failed" ELSE a.out
    <2>1. PICK k \in Kinds : j = <<p, k>>
      BY DEF Jobs
    <2>2. p \in Providers /\ Fetching(j)
      BY <1>5 DEF Jobs, Finish, Fetching
    <2>3. \A i \in Jobs : Fetching(i)' <=> Fetching(i) /\ i # j
      BY <1>5 DEF Finish, TInv, TypeOK, Fetching
    <2>4. \A l \in Kinds : ~Fetching(<<p, l>>)'
      BY <2>1, <2>2, <2>3 DEF OneFetchPerProvider, Kinds
    <2>5. brk'[p].health # "halfOpen"
      <3>1. result \in {"ok", "failed", "canceled"}
        BY DEF TInv
      <3>2. brk[p] \in Breaker /\ now \in Nat
        BY <2>2 DEF TInv, TypeOK, Breaker
      <3>3. brk'[p] = RecordHealth(brk[p], now, result)
        BY <1>5, <2>2 DEF Finish, FinishRefresh, TInv, TypeOK
      <3> QED BY <3>1, <3>2, <3>3, RecordHealthType
    <2>6. ~flying'[p]
      BY <1>5, <2>2 DEF Finish, FinishRefresh, TInv, TypeOK
    <2>7. ASSUME NEW q \in Providers, q # p
          PROVE  /\ flying'[q] = flying[q] /\ brk'[q] = brk[q]
                 /\ \A l \in Kinds : Fetching(<<q, l>>)' <=> Fetching(<<q, l>>)
      <3>1. flying'[q] = flying[q] /\ brk'[q] = brk[q]
        BY <1>5, <2>7 DEF Finish, FinishRefresh, TInv, TypeOK
      <3>2. \A l \in Kinds : <<q, l>> # j
        BY <2>1, <2>7
      <3> QED BY <3>1, <3>2, <2>3
    <2>8. ASSUME NEW q \in Providers
          PROVE  /\ flying'[q] <=> \E l \in Kinds : Fetching(<<q, l>>)'
                 /\ ~(Fetching(<<q, "refresh">>)' /\ Fetching(<<q, "retry">>)')
                 /\ brk'[q].health = "halfOpen" => Fetching(<<q, "refresh">>)'
      BY <2>4, <2>5, <2>6, <2>7 DEF OneFetchPerProvider, Kinds
    <2> QED BY <2>8 DEF OneFetchPerProvider
  <1>6. CASE UNCHANGED <<work, flying, brk>>
    BY <1>6 DEF OneFetchPerProvider, Fetching
  <1> QED
    BY <1>1, <1>2, <1>3, <1>4, <1>5, <1>6
    DEF Next, Bump, Load, Look, Build, Store, Tick, vars

\* inFlight is set exactly while one goroutine fetches, and a half-open breaker
\* has its probe running.
THEOREM OneFetchCorrect == Spec => []OneFetchPerProvider
  <1>1. Init => TInv /\ OneFetchPerProvider
    BY TInvInit, OneFetchInit
  <1>2. TInv /\ OneFetchPerProvider /\ [Next]_vars => (TInv /\ OneFetchPerProvider)'
    BY TInvNext, OneFetchNext
  <1> QED BY <1>1, <1>2, PTL DEF Spec

-----------------------------------------------------------------------------
(* The cache of listings.                                                  *)

\* What was up to date is so after a step that changes no provider's state, or
\* after which the generation is about to move.
LEMMA StillUpToDate ==
  ASSUME NEW g, NEW listing, NEW X, UpToDate(g, listing, X), gen' = gen,
         Dirty' \/ (UNCHANGED <<known, meta>> /\ (Dirty => Dirty'))
  PROVE  g = gen' => Dirty' \/ \A x \in X : listing[x] = Current'[x]
  <1>1. UNCHANGED <<known, meta>> => Current' = Current
    BY DEF Current
  <1> QED BY <1>1 DEF UpToDate

\* Such a step, if it leaves the readers alone, keeps what they have up to date.
LEMMA ReadersKept ==
  ASSUME IInv, UNCHANGED <<gen, entry, rd, rgen, body, unread>>,
         Dirty' \/ (UNCHANGED <<known, meta>> /\ (Dirty => Dirty'))
  PROVE  ReadersUpToDate' /\ EntryUpToDate'
  <1>1. ASSUME NEW r \in Readers, rd[r] \in {"build", "store"}
        PROVE  rgen[r] = gen' => Dirty' \/ \A x \in Parts \ unread[r] : body[r][x] = Current'[x]
    <2>1. UpToDate(rgen[r], body[r], Parts \ unread[r])
      BY <1>1 DEF IInv, ReadersUpToDate
    <2> QED BY <2>1, StillUpToDate
  <1>2. entry.gen = gen' => Dirty' \/ \A x \in Parts : entry.body[x] = Current'[x]
    <2>1. UpToDate(entry.gen, entry.body, Parts)
      BY DEF IInv, EntryUpToDate
    <2> QED BY <2>1, StillUpToDate
  <1> QED BY <1>1, <1>2 DEF IInv, ReadersUpToDate, EntryUpToDate, UpToDate

\* Every step keeps the whole invariant.
LEMMA IInvNext == IInv /\ [Next]_vars => IInv'
  <1> SUFFICES ASSUME IInv, [Next]_vars PROVE ReadersUpToDate' /\ EntryUpToDate'
    BY TInvNext, OneFetchNext DEF IInv
  <1> USE DEF stateVars, workVars, readVars
  <1>t. /\ work \in [Jobs -> {"idle", "list", "meta", "finish"}] /\ gen \in Nat /\ ending \in Nat
        /\ rd \in [Readers -> {"idle", "look", "build", "store", "done"}]
        /\ rgen \in [Readers -> Nat] /\ unread \in [Readers -> SUBSET Parts]
        /\ body \in [Readers -> Listing] /\ entry \in [gen : {-1} \cup Nat, body : Listing]
    BY DEF IInv, TInv, TypeOK
  <1>1. ASSUME NEW p \in Providers, TryBeginRefresh(p) PROVE ReadersUpToDate' /\ EntryUpToDate'
    <2>1. work[<<p, "refresh">>] # "finish"
      BY <1>1, JobOf DEF TryBeginRefresh, IInv, OneFetchPerProvider, Fetching, Kinds
    <2>2. Dirty => Dirty'
      BY <1>1, <1>t, <2>1 DEF TryBeginRefresh, Dirty
    <2> QED BY <1>1, <2>2, ReadersKept DEF TryBeginRefresh
  <1>2. ASSUME NEW p \in Providers, WarmFillRetry(p) PROVE ReadersUpToDate' /\ EntryUpToDate'
    <2>1. RetryAllowed(p) => work[<<p, "retry">>] # "finish"
      BY <1>2, JobOf DEF RetryAllowed, IInv, OneFetchPerProvider, Fetching, Kinds
    <2>2. Dirty => Dirty'
      BY <1>2, <1>t, <2>1 DEF WarmFillRetry, Dirty
    <2> QED BY <1>2, <2>2, ReadersKept DEF WarmFillRetry
  <1>3. ASSUME NEW j \in Jobs, ListModels(j) PROVE ReadersUpToDate' /\ EntryUpToDate'
    <2>1. Dirty => Dirty'
      BY <1>3, <1>t DEF ListModels, Dirty
    <2> QED BY <1>3, <2>1, ReadersKept DEF ListModels
  <1>4. ASSUME NEW j \in Jobs, CaptureMetadata(j) PROVE ReadersUpToDate' /\ EntryUpToDate'
    <2>1. Dirty'
      BY <1>4, <1>t DEF CaptureMetadata, Dirty
    <2> QED BY <1>4, <2>1, ReadersKept DEF CaptureMetadata
  <1>5. ASSUME NEW j \in Jobs, Finish(j) PROVE ReadersUpToDate' /\ EntryUpToDate'
    <2>1. Dirty'
      BY <1>5, <1>t DEF Finish, Dirty
    <2> QED BY <1>5, <2>1, ReadersKept DEF Finish
  <1>6. CASE Bump
    <2>1. \A r \in Readers : rgen'[r] <= gen' /\ rgen'[r] # gen'
      <3>1. rgen' = rgen /\ gen' = gen + 1
        BY <1>6 DEF Bump
      <3>2. \A r \in Readers : rgen[r] \in Nat /\ rgen[r] <= gen
        BY <1>t DEF IInv, ReadersUpToDate
      <3> QED BY <1>t, <3>1, <3>2
    <2>2. entry'.gen <= gen' /\ entry'.gen # gen'
      BY <1>6, <1>t DEF Bump, IInv, EntryUpToDate
    <2>3. rd' = rd /\ unread' = unread
      BY <1>6 DEF Bump
    <2>4. EntryUpToDate'
      BY <2>2 DEF EntryUpToDate, UpToDate
    <2>5. ReadersUpToDate'
      BY <2>1, <2>3 DEF IInv, ReadersUpToDate, UpToDate
    <2> QED BY <2>4, <2>5
  <1>7. ASSUME NEW r \in Readers, Load(r) PROVE ReadersUpToDate' /\ EntryUpToDate'
    <2>1. Current' = Current /\ Dirty' = Dirty
      BY <1>7 DEF Load, Current, Dirty
    <2> QED BY <1>7, <1>t, <2>1 DEF Load, IInv, ReadersUpToDate, EntryUpToDate, UpToDate
  <1>8. ASSUME NEW r \in Readers, Look(r) PROVE ReadersUpToDate' /\ EntryUpToDate'
    <2>1. Current' = Current /\ Dirty' = Dirty
      BY <1>8 DEF Look, Current, Dirty
    <2> QED BY <1>8, <1>t, <2>1 DEF Look, IInv, ReadersUpToDate, EntryUpToDate, UpToDate
  <1>9. ASSUME NEW r \in Readers, Build(r) PROVE ReadersUpToDate' /\ EntryUpToDate'
    <2>1. PICK x \in unread[r] :
            /\ body' = [body EXCEPT ![r][x] = Current[x]]
            /\ unread' = [unread EXCEPT ![r] = @ \ {x}]
            /\ rd' = [rd EXCEPT ![r] = IF unread[r] = {x} THEN "store" ELSE @]
      BY <1>9 DEF Build
    <2>2. Current' = Current /\ Dirty' = Dirty
      BY <1>9 DEF Build, Current, Dirty
    <2>3. EntryUpToDate'
      BY <1>9, <2>2 DEF Build, IInv, EntryUpToDate, UpToDate
    <2>4. \A q \in Readers : q # r => body'[q] = body[q] /\ unread'[q] = unread[q] /\ rd'[q] = rd[q]
      BY <2>1, <1>t
    <2>5. body'[r] = [body[r] EXCEPT ![x] = Current[x]] /\ unread'[r] = unread[r] \ {x}
      BY <2>1, <1>t
    <2>6. x \in Parts /\ body[r] \in Listing
      BY <1>t
    <2>7. ASSUME NEW y \in Parts \ unread'[r] PROVE y = x \/ y \in Parts \ unread[r]
      BY <2>5
    <2>8. UpToDate(rgen[r], body[r], Parts \ unread[r])
      BY <1>9 DEF Build, IInv, ReadersUpToDate
    <2>9. UpToDate(rgen[r], body[r], Parts \ unread[r])'
      BY <1>9, <2>2, <2>5, <2>6, <2>7, <2>8 DEF Build, UpToDate, Listing
    <2>10. rd'[r] = "store" => unread'[r] = {}
      BY <1>9, <1>t, <2>1, <2>5 DEF Build
    <2>11. rd'[r] \in {"build", "store"}
      BY <1>9, <1>t, <2>1 DEF Build
    <2>12. ASSUME NEW q \in Readers
           PROVE  /\ rgen'[q] <= gen'
                  /\ rd'[q] \in {"build", "store"} => UpToDate(rgen[q], body[q], Parts \ unread[q])'
                  /\ rd'[q] = "store" => unread'[q] = {}
                  /\ rd'[q] \in {"idle", "look"} => unread'[q] = Parts
      <3>1. CASE q = r
        BY <3>1, <1>9, <2>9, <2>10, <2>11 DEF Build, IInv, ReadersUpToDate
      <3>2. CASE q # r
        BY <3>2, <1>9, <2>2, <2>4 DEF Build, IInv, ReadersUpToDate, UpToDate
      <3> QED BY <3>1, <3>2
    <2> QED BY <2>3, <2>12 DEF ReadersUpToDate
  <1>10. ASSUME NEW r \in Readers, Store(r) PROVE ReadersUpToDate' /\ EntryUpToDate'
    <2>1. Current' = Current /\ Dirty' = Dirty
      BY <1>10 DEF Store, Current, Dirty
    <2>2. UpToDate(rgen[r], body[r], Parts) /\ rgen[r] <= gen
      BY <1>10 DEF Store, IInv, ReadersUpToDate
    <2>3. EntryUpToDate'
      BY <1>10, <2>1, <2>2 DEF Store, EntryUpToDate, UpToDate
    <2>4. \A q \in Readers : q # r => body'[q] = body[q] /\ rd'[q] = rd[q]
      BY <1>10, <1>t DEF Store
    <2>5. rd'[r] = "done"
      BY <1>10, <1>t DEF Store
    <2> QED BY <1>10, <2>1, <2>3, <2>4, <2>5 DEF Store, IInv, ReadersUpToDate, UpToDate
  <1>11. CASE Tick
    BY <1>11, ReadersKept DEF Tick, Dirty
  <1>12. CASE UNCHANGED vars
    BY <1>12, ReadersKept DEF vars, Dirty
  <1> QED
    BY <1>1, <1>2, <1>3, <1>4, <1>5, <1>6, <1>7, <1>8, <1>9, <1>10, <1>11, <1>12 DEF Next

\* The invariant is an invariant.
LEMMA Invariance == Spec => []IInv
  <1>1. Init => ReadersUpToDate /\ EntryUpToDate
    BY DEF Init, ReadersUpToDate, EntryUpToDate, UpToDate
  <1>2. Init => IInv
    BY <1>1, TInvInit, OneFetchInit DEF IInv
  <1> QED BY <1>2, IInvNext, PTL DEF Spec

\* A listing served from the cache is that of the providers' states once no
\* refresh is under way, for any number of concurrent readers and refreshes.
THEOREM CachedListingCorrect == Spec => []CachedListingCurrent
  <1>1. IInv => CachedListingCurrent
    <2> SUFFICES ASSUME IInv, entry.gen = gen, ending = 0, \A j \in Jobs : work[j] = "idle"
                 PROVE  entry.body = Current
      BY DEF CachedListingCurrent
    <2>1. ~Dirty
      BY DEF Dirty
    <2>2. \A x \in Parts : entry.body[x] = Current[x]
      BY <2>1 DEF IInv, EntryUpToDate, UpToDate
    <2>3. entry.body \in Listing /\ Current \in Listing
      BY CurrentType DEF IInv, TInv, TypeOK
    <2> QED BY <2>2, <2>3 DEF Listing
  <1> QED BY <1>1, Invariance, PTL

-----------------------------------------------------------------------------
\* Stale while error: no step of any goroutine takes a provider's last models.
THEOREM ModelsSurviveErrors == Spec => ModelsSurvive
  <1>1. TInv /\ [Next]_vars => [\A p \in Providers : known[p] # {} => known'[p] # {}]_vars
    <2> SUFFICES ASSUME TInv, [Next]_vars, NEW p \in Providers, known[p] # {}
                 PROVE  known'[p] # {}
      OBVIOUS
    <2> USE DEF stateVars, workVars, readVars
    <2>1. ASSUME NEW j \in Jobs, Finish(j) PROVE known'[p] # {}
      BY <2>1 DEF Finish, FinishRefresh, Accepted, TInv, TypeOK, Jobs
    <2>2. CASE UNCHANGED known
      BY <2>2
    <2> QED
      BY <2>1, <2>2
      DEF Next, TryBeginRefresh, WarmFillRetry, ListModels, CaptureMetadata, Bump, Load, Look,
          Build, Store, Tick, vars
  <1> QED BY <1>1, TInvInit, TInvNext, PTL DEF Spec, ModelsSurvive

=============================================================================
