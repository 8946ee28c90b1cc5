--------------------------- MODULE LimiterProofs ---------------------------
(***************************************************************************)
(* Proofs about Limiter, for any number of requests, replicas and scopes,  *)
(* any limits and windows: its types; that no interleaving of admissions   *)
(* takes a scope over its request limit; what rejected requests leave on   *)
(* the counters; and by how much a budget can be overspent.                *)
(***************************************************************************)
EXTENDS Limiter, FiniteSetTheorems, TLAPS

-----------------------------------------------------------------------------
(* Keys and counters.                                                      *)

\* A window number is a natural number.
LEMMA DivNat == \A a \in Nat, b \in Nat \ {0} : a \div b \in Nat
  BY Z3

\* The scope of an entry, in batches of six and of three entries per scope.
LEMMA DivSix ==
  \A i, n \in Nat \ {0} : i <= 6 * n => ((i - 1) \div 6) + 1 \in 1..n
  BY Z3

\* The same for three entries per scope.
LEMMA DivThree ==
  \A i, n \in Nat \ {0} : i <= 3 * n => ((i - 1) \div 3) + 1 \in 1..n
  BY Z3

\* The windows of the three entries of a scope.
LEMMA EntryWindowType ==
  ASSUME NEW i \in Nat \ {0}
  PROVE  EntryWindowOf(i) \in {"min", "day", "hour"}
  BY DEF EntryWindowOf, EntryWindow, checkAndCountKeysPerScope

\* The scopes of a request: total, user and groups, all different.
LEMMA ScopesForType ==
  ASSUME NEW r \in Requests
  PROVE  /\ ScopesFor(r) \in Seq(Scopes)
         /\ NumScopes(r) \in Nat \ {0}
         /\ Len(ScopesFor(r)) = NumScopes(r)
         /\ NumEntries(r) = 3 * NumScopes(r)
         /\ \A i \in 1..NumScopes(r) : ScopesFor(r)[i] \in Scopes
         /\ \A i, j \in 1..NumScopes(r) : ScopesFor(r)[i] = ScopesFor(r)[j] => i = j
  BY ScopeAssumption DEF ScopesFor, NumScopes, NumEntries, checkAndCountKeysPerScope

\* Each entry of a check is for one of the request's scopes.
LEMMA EntryScopeType ==
  ASSUME NEW n \in Nat \ {0}, NEW i \in 1..(3 * n)
  PROVE  EntryScope(i) \in 1..n
  BY DEF EntryScope, checkAndCountKeysPerScope

\* Key names a counter of the store.
LEMMA KeyType ==
  ASSUME NEW m \in Metrics, NEW sc \in Scopes, NEW w \in Windows, NEW t \in Nat
  PROVE  Key(m, sc, w, t) \in Keys
  BY DivNat, LimitAssumption DEF Key, Keys

\* The entries of a check are on request counters.
LEMMA ReqKeyType ==
  ASSUME NEW r \in Requests, NEW i \in 1..NumEntries(r), NEW t \in Nat
  PROVE  ReqKey(r, i, t) \in Keys
  <1>1. NumScopes(r) \in Nat \ {0} /\ NumEntries(r) = 3 * NumScopes(r)
    BY ScopesForType
  <1>2. i \in Nat \ {0} /\ i <= 3 * NumScopes(r)
    BY <1>1
  <1>3. EntryScope(i) \in 1..NumScopes(r)
    BY <1>1, <1>2, DivThree DEF EntryScope, checkAndCountKeysPerScope
  <1>4. ScopesFor(r)[EntryScope(i)] \in Scopes
    BY <1>3, ScopesForType
  <1>5. EntryWindowOf(i) \in Windows /\ "req" \in Metrics
    BY <1>2, EntryWindowType DEF Windows, Metrics
  <1> QED BY <1>4, <1>5, KeyType DEF ReqKey

\* The entries of one check are on distinct counters.
LEMMA ReqKeyInjective ==
  ASSUME NEW r \in Requests, NEW t \in Nat,
         NEW i \in 1..NumEntries(r), NEW j \in 1..NumEntries(r),
         ReqKey(r, i, t) = ReqKey(r, j, t)
  PROVE  i = j
  <1>1. EntryScope(i) = EntryScope(j)
    BY EntryScopeType, ScopesForType DEF ReqKey, Key
  <1>2. EntryWindowOf(i) = EntryWindowOf(j)
    BY DEF ReqKey, Key
  <1>3. (i - 1) % 3 = (j - 1) % 3
    BY <1>2, ScopesForType DEF EntryWindowOf, EntryWindow, checkAndCountKeysPerScope
  <1>4. (i - 1) \div 3 = (j - 1) \div 3
    BY <1>1, ScopesForType DEF EntryScope, checkAndCountKeysPerScope
  <1> QED
    BY <1>3, <1>4, ScopesForType

-----------------------------------------------------------------------------
(* Types.                                                                  *)

\* TypeOK with what it needs to be inductive: a running batch has a store, and
\* a settling one a violated scope.
TInv == /\ TypeOK
        /\ \A r \in Requests : pc[r] \in BatchPhases => st[r] \in Stores
        /\ \A r \in Requests : pc[r] = "settle" => viol[r] \in 1..NumScopes(r)

\* Every entry of a running batch is an integer added to a counter.
LEMMA EntryType ==
  ASSUME TInv, NEW r \in Requests, IsIncrement(r)
  PROVE  Entry(r).key \in Keys /\ Entry(r).delta \in Int
  <1> USE ScopesForType
  <1>0. pos[r] \in Nat \ {0} /\ at[r] \in Nat /\ acctAt[r] \in Nat
    BY DEF TInv, TypeOK
  <1>1. CASE pc[r] = "check"
    <2>1. pos[r] \in 1..NumEntries(r)
      BY <1>0, <1>1 DEF IsIncrement
    <2> QED BY <2>1, <1>0, <1>1, ReqKeyType DEF Entry, CheckEntry
  <1>2. CASE pc[r] = "settle"
    <2>0. viol[r] \in 1..NumScopes(r)
      BY <1>2 DEF TInv
    <2>1. CASE pos[r] <= NumUndo(r)
      <3>1. UndoIndex(r, pos[r]) \in 1..NumEntries(r)
        BY <1>0, <2>0, <2>1 DEF UndoIndex, NumUndo, checkAndCountKeysPerScope
      <3> QED BY <3>1, <2>1, <1>0, <1>2, ReqKeyType DEF Entry, SettleEntry
    <2>2. CASE ~(pos[r] <= NumUndo(r))
      <3>1. RejKey(r, pos[r] - NumUndo(r)) \in Keys
        BY <1>0, <2>0, KeyType, ScopeAssumption DEF RejKey, Metrics, Windows
      <3> QED BY <3>1, <2>2, <1>2 DEF Entry, SettleEntry
    <2> QED BY <2>1, <2>2
  <1>3. CASE pc[r] = "account"
    <2>0. use[r] \in [tok : Nat, cost : Nat]
      BY DEF TInv, TypeOK
    <2>1. UsageMetric(r, pos[r]) \in {"tok", "cost"}
      BY DEF UsageMetric
    <2>2. use[r][UsageMetric(r, pos[r])] \in Int
      BY <2>0, <2>1
    <2> DEFINE n == NumScopes(r)
    <2>3. ((pos[r] - 1) \div UsagePerScope(r)) + 1 \in 1..NumScopes(r)
      <3>1. pos[r] <= UsagePerScope(r) * NumScopes(r)
        BY <1>3 DEF IsIncrement, BatchLen
      <3>0. n \in Nat \ {0} /\ n = NumScopes(r)
        OBVIOUS
      <3> HIDE DEF n
      <3>2. CASE UsagePerScope(r) = 6
        <4>1. pos[r] <= 6 * n
          BY <3>0, <3>1, <3>2
        <4>2. ((pos[r] - 1) \div 6) + 1 \in 1..n
          BY <4>1, <3>0, <1>0, DivSix, Zenon
        <4> QED BY <4>2, <3>0, <3>2
      <3>3. CASE UsagePerScope(r) = 3
        <4>1. pos[r] <= 3 * n
          BY <3>0, <3>1, <3>3
        <4>2. ((pos[r] - 1) \div 3) + 1 \in 1..n
          BY <4>1, <3>0, <1>0, DivThree, Zenon
        <4> QED BY <4>2, <3>0, <3>3
      <3>4. UsagePerScope(r) \in {3, 6}
        BY DEF UsagePerScope
      <3> QED BY <3>2, <3>3, <3>4
    <2>4. UsageWindow[((pos[r] - 1) % 3) + 1] \in Windows
      BY <1>0 DEF UsageWindow, Windows
    <2>5. AccountEntry(r, pos[r]).key \in Keys
      BY <2>1, <2>3, <2>4, <1>0, KeyType DEF AccountEntry, Metrics
    <2> QED BY <2>2, <2>5, <1>3 DEF Entry, AccountEntry
  <1> QED BY <1>1, <1>2, <1>3 DEF IsIncrement, BatchPhases

\* The initial states have their types.
LEMMA TInvInit == Init => TInv
  BY ReplicaAssumption, ScopeAssumption
     DEF Init, TInv, TypeOK, Phases, BatchPhases, Stores

\* A batch that begins keeps the types of the request's state.
LEMMA BeginType ==
  ASSUME TInv, NEW r \in Requests, NEW phase \in BatchPhases, Begin(r, phase)
  PROVE  /\ pc' \in [Requests -> Phases]
         /\ st' \in [Requests -> Stores \cup {StoreDown}]
         /\ pos' \in [Requests -> Nat \ {0}]
         /\ resent' \in [Requests -> BOOLEAN]
         /\ \A q \in Requests : pc'[q] \in BatchPhases => st'[q] \in Stores
         /\ \A q \in Requests : q # r => pc'[q] = pc[q]
         /\ pc'[r] \in BatchPhases => pc'[r] = phase
  <1>1. StoreFor(RepOf[r]) \in Stores \cup {StoreDown}
    BY ReplicaAssumption DEF StoreFor, Stores
  <1>2. AfterFailure[phase] \in {"refused", "rejected", "done"}
    BY DEF AfterFailure, BatchPhases
  <1> QED BY <1>1, <1>2 DEF Begin, TInv, TypeOK, Phases, BatchPhases

\* noteRejection keeps the rejection counters natural numbers.
LEMMA NoteRejectionType ==
  ASSUME TInv, NEW r \in Requests, NEW x \in Scopes \cup {StoreDown}, NoteRejection(r, x)
  PROVE  rejections' \in [Replicas \X (Scopes \cup {StoreDown}) -> Nat]
  BY ReplicaAssumption DEF TInv, TypeOK, NoteRejection

\* Every step keeps the types: the induction step of TypeCorrect.
LEMMA TInvNext == TInv /\ [Next]_vars => TInv'
  <1> SUFFICES ASSUME TInv, [Next]_vars PROVE TInv'
    OBVIOUS
  <1> USE DEF reqVars
  <1>1. ASSUME NEW r \in Requests, Arrive(r) PROVE TInv'
    <2>1. rejections' \in [Replicas \X (Scopes \cup {StoreDown}) -> Nat]
      BY <1>1, NoteRejectionType DEF Arrive, TInv, TypeOK
    <2>2. "check" \in BatchPhases
      BY DEF BatchPhases
    <2>3. at' \in [Requests -> Nat]
      BY <1>1 DEF Arrive, TInv, TypeOK
    <2>4. \A q \in Requests : pc'[q] = "settle" => viol'[q] \in 1..NumScopes(q)
      BY <1>1, <2>2, BeginType DEF Arrive, TInv, TypeOK, BatchPhases
    <2> QED BY <1>1, <2>1, <2>2, <2>3, <2>4, BeginType DEF Arrive, TInv, TypeOK
  <1>2. ASSUME NEW r \in Requests, Apply(r) PROVE TInv'
    <2> DEFINE e == Entry(r)
    <2>1. e.key \in Keys /\ e.delta \in Int
      BY <1>2, EntryType DEF Apply
    <2>2. st[r] \in Stores
      BY <1>2 DEF Apply, IsIncrement, TInv
    <2>3. \A k \in DOMAIN count[st[r]] : count[st[r]][k] \in Int
      BY <2>2 DEF TInv, TypeOK
    <2>4. /\ DOMAIN Incr(count[st[r]], e.key, e.delta) \subseteq Keys
          /\ \A k \in DOMAIN Incr(count[st[r]], e.key, e.delta) :
                Incr(count[st[r]], e.key, e.delta)[k] \in Int
      <3>1. DOMAIN count[st[r]] \subseteq Keys
        BY <2>2 DEF TInv, TypeOK
      <3> HIDE DEF e
      <3> QED BY <2>1, <2>3, <3>1 DEF Incr, Get
    <2>5. /\ DOMAIN count' = Stores
          /\ \A s \in Stores : DOMAIN count'[s] \subseteq Keys
                               /\ \A k \in DOMAIN count'[s] : count'[s][k] \in Int
      <3>1. count' = [count EXCEPT ![st[r]] = Incr(@, e.key, e.delta)]
        BY <1>2 DEF Apply
      <3> QED BY <2>2, <2>4, <3>1 DEF TInv, TypeOK
    <2>6. Charge(r, e) \in SUBSET (Stores \X Keys)
      BY <2>1, <2>2 DEF Charge, TInv, TypeOK
    <2>7. charged' \in [Requests -> SUBSET (Stores \X Keys)]
      BY <1>2, <2>6 DEF Apply, TInv, TypeOK
    <2>8. over' \in [Requests -> SUBSET Nat] /\ pos' \in [Requests -> Nat \ {0}]
      BY <1>2 DEF Apply, TInv, TypeOK
    <2> QED BY <1>2, <2>5, <2>7, <2>8 DEF Apply, TInv, TypeOK
  <1>3. ASSUME NEW r \in Requests, ReadBudgets(r) PROVE TInv'
    BY <1>3 DEF ReadBudgets, TInv, TypeOK
  <1>4. ASSUME NEW r \in Requests, Resend(r) PROVE TInv'
    BY <1>4 DEF Resend, TInv, TypeOK
  <1>5. ASSUME NEW r \in Requests, StoreFails(r) PROVE TInv'
    <2>1. latched' \in [Replicas -> BOOLEAN]
      BY <1>5 DEF StoreFails, TInv, TypeOK
    <2>2. CASE FailOpen
      <3>1. RepOf[r] \in Stores
        BY ReplicaAssumption DEF Stores
      <3>2. /\ st' \in [Requests -> Stores \cup {StoreDown}]
            /\ \A q \in Requests : pc[q] \in BatchPhases => st'[q] \in Stores
        BY <1>5, <2>2, <3>1 DEF StoreFails, TInv, TypeOK
      <3>3. pos' \in [Requests -> Nat \ {0}] /\ over' \in [Requests -> SUBSET Nat]
        <4>1. /\ pos' = [pos EXCEPT ![r] = 1]
              /\ over' = over \/ over' = [over EXCEPT ![r] = {}]
          BY <1>5, <2>2 DEF StoreFails
        <4> QED BY <4>1 DEF TInv, TypeOK
      <3> QED BY <1>5, <2>1, <2>2, <3>2, <3>3 DEF StoreFails, TInv, TypeOK
    <2>3. CASE ~FailOpen
      <3>1. rejections' \in [Replicas \X (Scopes \cup {StoreDown}) -> Nat]
        BY <1>5, <2>3, NoteRejectionType DEF StoreFails, TInv, TypeOK
      <3>2. AfterFailure[pc[r]] \in {"refused", "rejected", "done"}
        BY <1>5 DEF StoreFails, BatchPhases, AfterFailure
      <3>3. /\ pc' \in [Requests -> Phases]
            /\ pc'[r] \notin BatchPhases
            /\ \A q \in Requests : q # r => pc'[q] = pc[q]
        BY <1>5, <2>3, <3>2 DEF StoreFails, TInv, TypeOK, Phases, BatchPhases
      <3>4. \A q \in Requests : pc'[q] = "settle" => viol[q] \in 1..NumScopes(q)
        BY <3>3 DEF TInv, BatchPhases
      <3> QED BY <1>5, <2>1, <2>3, <3>1, <3>3, <3>4 DEF StoreFails, TInv, TypeOK
    <2> QED BY <2>2, <2>3
  <1>6. ASSUME NEW r \in Requests, Admit(r) PROVE TInv'
    BY <1>6 DEF Admit, TInv, TypeOK, Phases, BatchPhases
  <1>7. ASSUME NEW r \in Requests, Reject(r) PROVE TInv'
    <2>1. PICK i \in 1..NumScopes(r) : /\ viol' = [viol EXCEPT ![r] = i]
                                       /\ NoteRejection(r, ScopesFor(r)[i])
      BY <1>7 DEF Reject
    <2>2. rejections' \in [Replicas \X (Scopes \cup {StoreDown}) -> Nat]
      BY <2>1, NoteRejectionType, ScopesForType
    <2>3. viol' \in [Requests -> Nat] /\ viol'[r] = i
      BY <2>1, ScopesForType DEF TInv, TypeOK
    <2>4. "settle" \in BatchPhases
      BY DEF BatchPhases
    <2>5. \A q \in Requests : pc'[q] = "settle" => viol'[q] \in 1..NumScopes(q)
      BY <1>7, <2>1, <2>3, <2>4, BeginType DEF Reject, TInv, TypeOK
    <2> QED BY <1>7, <2>2, <2>3, <2>4, <2>5, BeginType DEF Reject, TInv, TypeOK
  <1>8. ASSUME NEW r \in Requests, Settled(r) PROVE TInv'
    BY <1>8 DEF Settled, TInv, TypeOK, Phases, BatchPhases
  <1>9. ASSUME NEW r \in Requests, Account(r) PROVE TInv'
    <2>1. use' \in [Requests -> [tok : Nat, cost : Nat]]
      <3>1. PICK u \in Reported :
              use' = [use EXCEPT ![r] = [tok |-> Plausible(u.tok), cost |-> Plausible(u.cost)]]
        BY <1>9 DEF Account
      <3>2. u.tok \in Int /\ u.cost \in Int /\ MaxUsage \in Nat
        BY UsageAssumption
      <3>3. Plausible(u.tok) \in Nat /\ Plausible(u.cost) \in Nat
        BY <3>2 DEF Plausible
      <3> QED BY <3>1, <3>3 DEF TInv, TypeOK
    <2>2. acctAt' \in [Requests -> Nat]
      BY <1>9 DEF Account, TInv, TypeOK
    <2>3. "account" \in BatchPhases
      BY DEF BatchPhases
    <2>4. CASE use'[r] = [tok |-> 0, cost |-> 0]
      BY <1>9, <2>1, <2>2, <2>4 DEF Account, TInv, TypeOK, Phases, BatchPhases
    <2>5. CASE use'[r] # [tok |-> 0, cost |-> 0]
      <3>1. Begin(r, "account")
        BY <1>9, <2>5 DEF Account
      <3>2. \A q \in Requests : pc'[q] = "settle" => viol'[q] \in 1..NumScopes(q)
        BY <1>9, <3>1, <2>3, BeginType DEF Account, TInv, TypeOK, BatchPhases
      <3> QED BY <1>9, <2>1, <2>2, <2>3, <3>1, <3>2, BeginType DEF Account, TInv, TypeOK
    <2> QED BY <2>4, <2>5
  <1>10. ASSUME NEW r \in Requests, Accounted(r) PROVE TInv'
    BY <1>10 DEF Accounted, TInv, TypeOK, Phases, BatchPhases
  <1>11. ASSUME NEW p \in Replicas, LatchExpires(p) PROVE TInv'
    BY <1>11 DEF LatchExpires, TInv, TypeOK
  <1>12. CASE Tick
    BY <1>12 DEF Tick, TInv, TypeOK
  <1>13. CASE UNCHANGED vars
    BY <1>13 DEF vars, TInv, TypeOK
  <1> QED
    BY <1>1, <1>2, <1>3, <1>4, <1>5, <1>6, <1>7, <1>8, <1>9, <1>10, <1>11, <1>12,
       <1>13 DEF Next

\* The state stays within its types, whatever the stores do.
THEOREM TypeCorrect == Spec => []TypeOK
  <1>1. TInv => TypeOK
    BY DEF TInv
  <1> QED BY <1>1, TInvInit, TInvNext, PTL DEF Spec

-----------------------------------------------------------------------------
(* Admissions stay within request limits.                                  *)
(*                                                                         *)
(* The counter that a check reads back is compared with the limit once, at *)
(* the instant it is incremented, so a bound on admissions has to be       *)
(* carried by the charges: the requests that hold a charge on a counter    *)
(* and saw it within the limit are never more than the limit, because the  *)
(* last of them to be charged saw all the others in its reply.             *)

Plain == ~Resends /\ (Configured => ~FailOpen)

Holders(s, k) == {r \in Requests : <<s, k>> \in charged[r]}

\* The holders whose reply for k was within the limit.
Low(s, k) ==
    {r \in Requests : \E i \in 1..NumEntries(r) :
        k = ReqKey(r, i, at[r]) /\ <<s, k>> \in charged[r] /\ i \notin over[r]}

\* Every request counter is exactly the number of charges on it.
Ledger ==
    \A s \in Stores, k \in Keys :
        k[1] = "req" => Get(count[s], k) = Cardinality(Holders(s, k))

\* A batch runs against the store the request belongs to.
AtHome == \A r \in Requests : pc[r] \in BatchPhases => st[r] = Home(r)

\* Which charges a request holds, by where it is.
ChargesOf(r) ==
    /\ pc[r] = "idle" => charged[r] = {} /\ over[r] = {}
    /\ pc[r] = "check" =>
          /\ \A i \in 1..NumEntries(r) :
                <<Home(r), ReqKey(r, i, at[r])>> \in charged[r] <=> i < pos[r]
          /\ \A i \in over[r] : i \in 1..(NumEntries(r) + NumScopes(r)) /\ i < pos[r]
    /\ pc[r] = "settle" =>
          \A i \in 1..NumUndo(r) :
             i >= pos[r] => <<Home(r), ReqKey(r, UndoIndex(r, i), at[r])>> \in charged[r]
    /\ r \in Admitted =>
          /\ over[r] = {}
          /\ \A i \in 1..NumEntries(r) : <<Home(r), ReqKey(r, i, at[r])>> \in charged[r]

Within ==
    \A s \in Stores, sc \in Scopes, w \in {"min", "day"}, b \in Nat :
        ReqLimit[sc][w] > 0 =>
            Cardinality(Low(s, <<"req", sc, w, b>>)) <= ReqLimit[sc][w]

IInv == /\ TInv
        /\ AtHome
        /\ \A r \in Requests : ChargesOf(r)
        /\ Ledger
        /\ Within

\* The requests that hold a charge of a counter are finitely many.
LEMMA HoldersFinite ==
  ASSUME NEW s, NEW k
  PROVE  /\ IsFiniteSet(Holders(s, k)) /\ Cardinality(Holders(s, k)) \in Nat
         /\ IsFiniteSet(Low(s, k)) /\ Cardinality(Low(s, k)) \in Nat
         /\ Cardinality(Low(s, k)) <= Cardinality(Holders(s, k))
  <1>1. Holders(s, k) \subseteq Requests /\ Low(s, k) \subseteq Holders(s, k)
    BY DEF Holders, Low
  <1>2. IsFiniteSet(Holders(s, k))
    BY <1>1, RequestsFinite, FS_Subset
  <1>3. IsFiniteSet(Low(s, k)) /\ Cardinality(Low(s, k)) <= Cardinality(Holders(s, k))
    BY <1>1, <1>2, FS_Subset
  <1> QED BY <1>2, <1>3, FS_CardinalityType

\* Without resends and without a fallback, a new batch goes home or nowhere.
LEMMA StoreForHome ==
  ASSUME Plain, NEW r \in Requests
  PROVE  StoreFor(RepOf[r]) \in {Home(r), StoreDown}
  BY DEF StoreFor, Home, Plain

\* When no counter gains a low holder, Within is kept.
LEMMA LowShrinks ==
  ASSUME Within, \A s \in Stores, k \in Keys : Low(s, k)' \subseteq Low(s, k)
  PROVE  Within'
  <1> SUFFICES ASSUME NEW s \in Stores, NEW sc \in Scopes, NEW w \in {"min", "day"},
                      NEW b \in Nat, ReqLimit[sc][w] > 0
               PROVE  Cardinality(Low(s, <<"req", sc, w, b>>)') <= ReqLimit[sc][w]
    BY DEF Within
  <1>1. <<"req", sc, w, b>> \in Keys
    BY DEF Keys, Metrics, Windows
  <1> SUFFICES ASSUME NEW k \in Keys, k = <<"req", sc, w, b>>
               PROVE  Cardinality(Low(s, k)') <= ReqLimit[sc][w]
    BY <1>1
  <1>2. ReqLimit[sc][w] \in Nat /\ Cardinality(Low(s, k)) <= ReqLimit[sc][w]
    BY LimitAssumption DEF Within
  <1>3. Low(s, k)' \in SUBSET Low(s, k) /\ IsFiniteSet(Low(s, k))
    BY HoldersFinite
  <1>4. /\ Cardinality(Low(s, k)') <= Cardinality(Low(s, k))
        /\ IsFiniteSet(Low(s, k)')
    BY <1>3, FS_Subset
  <1>5. Cardinality(Low(s, k)') \in Nat /\ Cardinality(Low(s, k)) \in Nat
    BY <1>3, <1>4, FS_CardinalityType
  <1> QED BY <1>2, <1>4, <1>5

\* A step that moves no charge keeps the ledger and the bound.
LEMMA NoChargeMoves ==
  ASSUME Ledger, Within, UNCHANGED <<count, charged>>,
         \A q \in Requests : \/ charged[q] = {}
                             \/ at'[q] = at[q] /\ over[q] \subseteq over'[q]
  PROVE  Ledger' /\ Within'
  <1>1. Ledger'
    BY DEF Ledger, Holders
  <1>2. \A s \in Stores, k \in Keys : Low(s, k)' \subseteq Low(s, k)
    BY DEF Low, NumEntries, NumScopes, ReqKey
  <1> QED BY <1>1, <1>2, LowShrinks

\* A request that a step does not touch keeps what it holds.
LEMMA ChargesFrame ==
  ASSUME NEW q \in Requests, ChargesOf(q),
         pc'[q] = pc[q], pos'[q] = pos[q], at'[q] = at[q], over'[q] = over[q],
         viol'[q] = viol[q], charged'[q] = charged[q]
  PROVE  ChargesOf(q)'
  BY DEF ChargesOf, Admitted, Home, NumEntries, NumScopes, ReqKey, NumUndo, UndoIndex

\* What Apply does to one counter and to the charges on it.
LEMMA ApplyEffect ==
  ASSUME IInv, NEW r \in Requests, Apply(r)
  PROVE  /\ st[r] = Home(r) /\ st[r] \in Stores
         /\ Entry(r).key \in Keys /\ Entry(r).delta \in Int
         /\ \A s \in Stores : \A k : Get(count[s], k) \in Int
         /\ Get(count'[st[r]], Entry(r).key) = Get(count[st[r]], Entry(r).key) + Entry(r).delta
         /\ \A s \in Stores, k \in Keys :
               (s # st[r] \/ k # Entry(r).key) => Get(count'[s], k) = Get(count[s], k)
         /\ charged' = [charged EXCEPT ![r] = Charge(r, Entry(r))]
  <1> DEFINE e == Entry(r)
             f == count[st[r]]
  <1>1. TInv /\ IsIncrement(r)
    BY DEF IInv, Apply
  <1>2. st[r] = Home(r) /\ st[r] \in Stores
    BY <1>1 DEF IInv, AtHome, IsIncrement, TInv
  <1>3. e.key \in Keys /\ e.delta \in Int
    BY <1>1, EntryType
  <1>4. \A s \in Stores : \A k \in DOMAIN count[s] : count[s][k] \in Int
    BY <1>1 DEF TInv, TypeOK
  <1>5. \A s \in Stores : \A k : Get(count[s], k) \in Int
    BY <1>4 DEF Get
  <1>6. count' = [count EXCEPT ![st[r]] = Incr(f, e.key, e.delta)]
    BY DEF Apply
  <1>7. /\ count'[st[r]] = Incr(f, e.key, e.delta)
        /\ \A s \in Stores : s # st[r] => count'[s] = count[s]
    BY <1>1, <1>2, <1>6 DEF TInv, TypeOK
  <1>8. charged' = [charged EXCEPT ![r] = Charge(r, e)]
    BY DEF Apply
  <1> HIDE DEF e
  <1>9. /\ Get(Incr(f, e.key, e.delta), e.key) = Get(f, e.key) + e.delta
        /\ \A k \in Keys : k # e.key => Get(Incr(f, e.key, e.delta), k) = Get(f, k)
    BY DEF Incr, Get
  <1>10. st' = st
    BY DEF Apply
  <1>11. \A s \in Stores, k \in Keys :
               (s # st[r] \/ k # e.key) => Get(count'[s], k) = Get(count[s], k)
    BY <1>7, <1>9
  <1>12. Get(count'[st[r]], e.key) = Get(count[st[r]], e.key) + e.delta
    BY <1>7, <1>9
  <1> QED BY <1>2, <1>3, <1>5, <1>8, <1>11, <1>12 DEF e

\* Applying a check's increment: the requester becomes a holder of a counter it
\* did not hold, and counts as low only if its reply was within the limit.
LEMMA ApplyCheck ==
  ASSUME IInv, NEW r \in Requests, Apply(r), pc[r] = "check"
  PROVE  Ledger' /\ Within' /\ ChargesOf(r)'
  <1> SUFFICES ASSUME NEW i, i = pos[r],
                      NEW s0, s0 = st[r],
                      NEW k0, k0 = ReqKey(r, i, at[r]),
                      NEW v, v = Get(count[s0], k0) + 1
               PROVE  Ledger' /\ Within' /\ ChargesOf(r)'
    OBVIOUS
  <1>0. i \in 1..NumEntries(r) /\ at[r] \in Nat /\ pos' = [pos EXCEPT ![r] = i + 1]
        /\ pos'[r] = i + 1
    BY ScopesForType DEF Apply, IsIncrement, IInv, TInv, TypeOK
  <1>1. Entry(r).key = k0 /\ Entry(r).delta = 1
    BY DEF Entry, CheckEntry
  <1>2. s0 = Home(r) /\ s0 \in Stores /\ k0 \in Keys
    BY <1>1, ApplyEffect
  <1>3. <<s0, k0>> \notin charged[r]
    BY <1>0, <1>2 DEF IInv, ChargesOf
  <1>4. charged' = [charged EXCEPT ![r] = charged[r] \cup {<<s0, k0>>}]
    BY <1>1, ApplyEffect DEF Charge
  <1>5. /\ charged'[r] = charged[r] \cup {<<s0, k0>>}
        /\ \A q \in Requests : q # r => charged'[q] = charged[q]
    BY <1>4 DEF IInv, TInv, TypeOK
  <1>6. UNCHANGED <<at, pc, st, viol>>
    BY DEF Apply
  <1>7. \A q \in Requests : q # r => over'[q] = over[q]
    BY DEF Apply, IInv, TInv, TypeOK
  <1>8. over'[r] = IF OverRequestLimit(r, i, v) THEN over[r] \cup {i} ELSE over[r]
    BY <1>1 DEF Apply, IInv, TInv, TypeOK
  <1>9. Holders(s0, k0)' = Holders(s0, k0) \cup {r} /\ r \notin Holders(s0, k0)
    BY <1>3, <1>5 DEF Holders
  <1>10. Cardinality(Holders(s0, k0)') = Cardinality(Holders(s0, k0)) + 1
    <2>1. IsFiniteSet(Holders(s0, k0))
      BY HoldersFinite
    <2>2. Cardinality(Holders(s0, k0) \cup {r}) = Cardinality(Holders(s0, k0)) + 1
      BY <2>1, <1>9, FS_AddElement
    <2> QED BY <2>2, <1>9
  <1>11. \A s \in Stores, k \in Keys :
            (s # s0 \/ k # k0) => Holders(s, k)' = Holders(s, k)
    BY <1>5 DEF Holders
  <1>12. Ledger'
    <2>1. \A s \in Stores, k \in Keys :
             (s # s0 \/ k # k0) => Get(count'[s], k) = Get(count[s], k)
      BY <1>1, ApplyEffect
    <2>2. Get(count'[s0], k0) = Get(count[s0], k0) + 1
      BY <1>1, ApplyEffect
    <2>3. k0[1] = "req"
      BY DEF ReqKey, Key
    <2>4. Ledger
      BY DEF IInv
    <2> SUFFICES ASSUME NEW s \in Stores, NEW k \in Keys, k[1] = "req"
                 PROVE  Get(count'[s], k) = Cardinality(Holders(s, k)')
      BY DEF Ledger
    <2>5. CASE s = s0 /\ k = k0
      <3>1. Get(count[s0], k0) = Cardinality(Holders(s0, k0))
        BY <2>3, <2>4, <1>2 DEF Ledger
      <3> QED BY <3>1, <2>5, <2>2, <1>10
    <2>6. CASE s # s0 \/ k # k0
      <3>1. Get(count[s], k) = Cardinality(Holders(s, k))
        BY <2>4 DEF Ledger
      <3> QED BY <3>1, <2>6, <2>1, <1>11
    <2> QED BY <2>5, <2>6
  <1>13. \A j \in 1..NumEntries(r) : ReqKey(r, j, at[r]) = k0 => j = i
    BY <1>0, ReqKeyInjective
  <1>14. over[r] \subseteq over'[r]
    BY <1>8
  <1>15. \A s \in Stores, k \in Keys :
            (s # s0 \/ k # k0) => Low(s, k)' \subseteq Low(s, k)
    <2> SUFFICES ASSUME NEW s \in Stores, NEW k \in Keys, s # s0 \/ k # k0,
                        NEW q \in Low(s, k)'
                 PROVE  q \in Low(s, k)
      OBVIOUS
    <2>1. q \in Requests /\ <<s, k>> \in charged[q]
      BY <1>5 DEF Low
    <2>2. over[q] \subseteq over'[q]
      BY <1>7, <1>14, <2>1
    <2> QED BY <2>1, <2>2, <1>6 DEF Low, NumEntries, NumScopes, ReqKey
  <1>16. Within'
    <2> SUFFICES ASSUME NEW s \in Stores, NEW sc \in Scopes, NEW w \in {"min", "day"},
                        NEW b \in Nat, ReqLimit[sc][w] > 0
                 PROVE  Cardinality(Low(s, <<"req", sc, w, b>>)') <= ReqLimit[sc][w]
      BY DEF Within
    <2> DEFINE k == <<"req", sc, w, b>>
    <2>1. k \in Keys
      BY DEF Keys, Metrics, Windows
    <2>2. ReqLimit[sc][w] \in Nat
      BY LimitAssumption
    <2>3. Cardinality(Low(s, k)) <= ReqLimit[sc][w]
      BY DEF IInv, Within
    <2>4. ASSUME Low(s, k)' \subseteq Low(s, k)
          PROVE  Cardinality(Low(s, k)') <= ReqLimit[sc][w]
      <3>1. /\ Cardinality(Low(s, k)') <= Cardinality(Low(s, k))
            /\ Cardinality(Low(s, k)') \in Nat
        BY <2>4, HoldersFinite, FS_Subset, FS_CardinalityType
      <3> QED BY <3>1, <2>2, <2>3, HoldersFinite
    <2>5. CASE s # s0 \/ k # k0
      BY <2>1, <2>4, <2>5, <1>15
    <2>6. CASE s = s0 /\ k = k0 /\ OverRequestLimit(r, i, v)
      <3>1. i \in over'[r]
        BY <2>6, <1>8
      <3>2. r \notin Low(s0, k0)'
        BY <3>1, <1>13, <1>6 DEF Low, NumEntries, NumScopes, ReqKey
      <3>3. Low(s0, k0)' \subseteq Low(s0, k0)
        BY <3>2, <1>5, <1>6, <1>7 DEF Low, NumEntries, NumScopes, ReqKey
      <3> QED BY <3>3, <2>4, <2>6
    <2>7. CASE s = s0 /\ k = k0 /\ ~OverRequestLimit(r, i, v)
      <3>1. sc = ScopesFor(r)[EntryScope(i)] /\ w = EntryWindowOf(i)
        BY <2>7 DEF ReqKey, Key
      <3>2. v <= ReqLimit[sc][w]
        <4>1. v \in Int
          BY <1>2, ApplyEffect
        <4> QED BY <4>1, <3>1, <2>2, <2>7 DEF OverRequestLimit
      <3>3. Get(count[s0], k0) = Cardinality(Holders(s0, k0))
        <4>1. k0[1] = "req"
          BY DEF ReqKey, Key
        <4> QED BY <4>1, <1>2 DEF IInv, Ledger
      <3>4. Cardinality(Holders(s0, k0)') = v
        BY <3>3, <1>10
      <3>5. Low(s0, k0)' \subseteq Holders(s0, k0)'
        BY DEF Low, Holders
      <3>6. IsFiniteSet(Holders(s0, k0)')
        BY <1>9, HoldersFinite, FS_AddElement
      <3>7. Cardinality(Low(s0, k0)') <= v /\ Cardinality(Low(s0, k0)') \in Nat
        BY <3>4, <3>5, <3>6, FS_Subset, FS_CardinalityType
      <3> QED BY <3>2, <3>7, <2>2, <2>7, <1>2, ApplyEffect
    <2> QED BY <2>5, <2>6, <2>7
  <1>17. ChargesOf(r)'
    <2>1. \A j \in 1..NumEntries(r) :
             <<Home(r), ReqKey(r, j, at[r])>> \in charged'[r] <=> j < i + 1
      BY <1>0, <1>2, <1>5, <1>13 DEF IInv, ChargesOf
    <2>2. \A j \in over'[r] : j \in 1..(NumEntries(r) + NumScopes(r)) /\ j < i + 1
      BY <1>0, <1>8, ScopesForType DEF IInv, ChargesOf
    <2> QED BY <2>1, <2>2, <1>0, <1>6 DEF ChargesOf, Admitted, Home, NumEntries, NumScopes, ReqKey
  <1> QED BY <1>12, <1>16, <1>17

\* Applying a compensation: the requester gives back a charge it holds.
LEMMA ApplyUndo ==
  ASSUME IInv, NEW r \in Requests, Apply(r), pc[r] = "settle", pos[r] <= NumUndo(r)
  PROVE  Ledger' /\ Within' /\ ChargesOf(r)'
  <1> SUFFICES ASSUME NEW i, i = pos[r],
                      NEW s0, s0 = st[r],
                      NEW k0, k0 = ReqKey(r, UndoIndex(r, i), at[r])
               PROVE  Ledger' /\ Within' /\ ChargesOf(r)'
    OBVIOUS
  <1>0. /\ i \in 1..NumUndo(r) /\ at[r] \in Nat /\ viol[r] \in 1..NumScopes(r)
        /\ NumUndo(r) \in Nat
    BY ScopesForType
       DEF IInv, TInv, TypeOK, NumUndo, checkAndCountKeysPerScope
  <1>1. Entry(r).key = k0 /\ Entry(r).delta = -1
    BY DEF Entry, SettleEntry
  <1>2. s0 = Home(r) /\ s0 \in Stores /\ k0 \in Keys
    BY <1>1, ApplyEffect
  <1>3. <<s0, k0>> \in charged[r]
    BY <1>0, <1>2 DEF IInv, ChargesOf
  <1>4. charged' = [charged EXCEPT ![r] = charged[r] \ {<<s0, k0>>}]
    BY <1>1, ApplyEffect DEF Charge
  <1>5. /\ charged'[r] = charged[r] \ {<<s0, k0>>}
        /\ \A q \in Requests : q # r => charged'[q] = charged[q]
    BY <1>4 DEF IInv, TInv, TypeOK
  <1>6. UNCHANGED <<at, pc, st, viol, over>> /\ pos'[r] = i + 1
    BY DEF Apply, IInv, TInv, TypeOK
  <1>7. Holders(s0, k0)' = Holders(s0, k0) \ {r} /\ r \in Holders(s0, k0)
    BY <1>3, <1>5 DEF Holders
  <1>8. Cardinality(Holders(s0, k0)') = Cardinality(Holders(s0, k0)) - 1
    <2>1. IsFiniteSet(Holders(s0, k0))
      BY HoldersFinite
    <2>2. Cardinality(Holders(s0, k0) \ {r}) = Cardinality(Holders(s0, k0)) - 1
      BY <2>1, <1>7, FS_RemoveElement
    <2> QED BY <2>2, <1>7
  <1>9. \A s \in Stores, k \in Keys :
            (s # s0 \/ k # k0) => Holders(s, k)' = Holders(s, k)
    BY <1>5 DEF Holders
  <1>10. Ledger'
    <2>1. \A s \in Stores, k \in Keys :
             (s # s0 \/ k # k0) => Get(count'[s], k) = Get(count[s], k)
      BY <1>1, ApplyEffect
    <2>2. Get(count'[s0], k0) = Get(count[s0], k0) - 1
      BY <1>1, <1>2, ApplyEffect
    <2>3. k0[1] = "req"
      BY DEF ReqKey, Key
    <2>4. Ledger
      BY DEF IInv
    <2> SUFFICES ASSUME NEW s \in Stores, NEW k \in Keys, k[1] = "req"
                 PROVE  Get(count'[s], k) = Cardinality(Holders(s, k)')
      BY DEF Ledger
    <2>5. CASE s = s0 /\ k = k0
      <3>1. Get(count[s0], k0) = Cardinality(Holders(s0, k0))
        BY <2>3, <2>4, <1>2 DEF Ledger
      <3> QED BY <3>1, <2>5, <2>2, <1>8
    <2>6. CASE s # s0 \/ k # k0
      <3>1. Get(count[s], k) = Cardinality(Holders(s, k))
        BY <2>4 DEF Ledger
      <3> QED BY <3>1, <2>6, <2>1, <1>9
    <2> QED BY <2>5, <2>6
  <1>11. Within'
    <2>1. \A q \in Requests : charged'[q] \subseteq charged[q]
      BY <1>5
    <2>2. \A s \in Stores, k \in Keys : Low(s, k)' \subseteq Low(s, k)
      BY <2>1, <1>6 DEF Low, NumEntries, NumScopes, ReqKey
    <2> QED BY <2>2, LowShrinks DEF IInv
  <1>12. ChargesOf(r)'
    <2>1. ASSUME NEW j \in 1..NumUndo(r), j >= i + 1
          PROVE  <<Home(r), ReqKey(r, UndoIndex(r, j), at[r])>> \in charged'[r]
      <3>1. <<Home(r), ReqKey(r, UndoIndex(r, j), at[r])>> \in charged[r]
        BY <2>1, <1>0 DEF IInv, ChargesOf
      <3>2. /\ UndoIndex(r, j) \in 1..NumEntries(r)
            /\ UndoIndex(r, i) \in 1..NumEntries(r)
            /\ UndoIndex(r, j) # UndoIndex(r, i)
        <4> SUFFICES ASSUME NEW n \in Nat, n = NumScopes(r), NEW v \in 1..n, v = viol[r]
                     PROVE  /\ UndoIndex(r, j) \in 1..(3 * n)
                            /\ UndoIndex(r, i) \in 1..(3 * n)
                            /\ UndoIndex(r, j) # UndoIndex(r, i)
          BY <1>0, ScopesForType
        <4>1. i \in 1..(3 * n - 3) /\ j \in 1..(3 * n - 3) /\ j >= i + 1
          BY <2>1, <1>0, ScopesForType DEF NumUndo, checkAndCountKeysPerScope
        <4>2. /\ UndoIndex(r, i) = IF i <= 3 * (v - 1) THEN i ELSE i + 3
              /\ UndoIndex(r, j) = IF j <= 3 * (v - 1) THEN j ELSE j + 3
          BY DEF UndoIndex, checkAndCountKeysPerScope
        <4> QED BY <4>1, <4>2
      <3>3. ReqKey(r, UndoIndex(r, j), at[r]) # k0
        BY <3>2, <1>0, ReqKeyInjective
      <3> QED BY <3>1, <3>3, <1>5
    <2> QED BY <2>1, <1>0, <1>6
            DEF ChargesOf, Admitted, Home, NumEntries, NumScopes, ReqKey, NumUndo, UndoIndex
  <1> QED BY <1>10, <1>11, <1>12

\* The other entries are on rejection and usage counters, and move no charge.
LEMMA ApplyOther ==
  ASSUME IInv, NEW r \in Requests, Apply(r),
         pc[r] # "check", ~(pc[r] = "settle" /\ pos[r] <= NumUndo(r))
  PROVE  Ledger' /\ Within' /\ ChargesOf(r)'
  <1>1. Entry(r).key[1] # "req"
    <2>1. CASE pc[r] = "settle"
      BY <2>1 DEF Entry, SettleEntry, RejKey, Key
    <2>2. CASE pc[r] = "account"
      BY <2>2 DEF Entry, AccountEntry, UsageMetric, Key
    <2> QED BY <2>1, <2>2 DEF Apply, IsIncrement, BatchPhases
  <1>2. UNCHANGED <<pc, at, over, viol>> /\ pos'[r] = pos[r] + 1 /\ pos[r] \in Nat
    BY DEF Apply, IInv, TInv, TypeOK
  <1>3. charged' = charged
    <2>1. charged' = [charged EXCEPT ![r] = charged[r]]
      BY ApplyEffect DEF Charge
    <2> QED BY <2>1 DEF IInv, TInv, TypeOK
  <1>4. Ledger'
    <2>1. \A s \in Stores, k \in Keys : k[1] = "req" => Get(count'[s], k) = Get(count[s], k)
      BY <1>1, ApplyEffect
    <2>2. \A s, k : Holders(s, k)' = Holders(s, k)
      BY <1>3 DEF Holders
    <2> QED BY <2>1, <2>2 DEF IInv, Ledger
  <1>5. Within'
    <2>1. \A s \in Stores, k \in Keys : Low(s, k)' \subseteq Low(s, k)
      BY <1>2, <1>3 DEF Low, NumEntries, NumScopes, ReqKey
    <2> QED BY <2>1, LowShrinks DEF IInv
  <1>6. ChargesOf(r)'
    BY <1>2, <1>3, ScopesForType
       DEF IInv, ChargesOf, Admitted, Home, NumEntries, NumScopes, ReqKey, NumUndo,
           UndoIndex, checkAndCountKeysPerScope
  <1> QED BY <1>4, <1>5, <1>6

\* The inductive invariant holds initially: nothing is charged.
LEMMA IInvInit == Init => IInv
  <1> SUFFICES ASSUME Init PROVE IInv
    OBVIOUS
  <1>1. TInv
    BY TInvInit
  <1>2. AtHome
    BY DEF Init, AtHome, BatchPhases
  <1>3. \A r \in Requests : ChargesOf(r)
    BY DEF Init, ChargesOf, Admitted
  <1>4. \A s, k : Holders(s, k) = {} /\ Low(s, k) = {}
    BY DEF Init, Holders, Low
  <1>5. Cardinality({}) = 0
    BY FS_EmptySet
  <1>6. Ledger
    BY <1>4, <1>5 DEF Init, Ledger, Get
  <1>7. Within
    <2> SUFFICES ASSUME NEW s \in Stores, NEW sc \in Scopes, NEW w \in {"min", "day"},
                        NEW b \in Nat, ReqLimit[sc][w] > 0
                 PROVE  Cardinality(Low(s, <<"req", sc, w, b>>)) <= ReqLimit[sc][w]
      BY DEF Within
    <2>1. Low(s, <<"req", sc, w, b>>) = {}
      BY <1>4
    <2>2. ReqLimit[sc][w] \in Nat
      BY LimitAssumption
    <2> QED BY <2>1, <2>2, <1>5
  <1> QED BY <1>1, <1>2, <1>3, <1>6, <1>7 DEF IInv

\* A new batch starts at the store the request belongs to.
LEMMA BeginAtHome ==
  ASSUME Plain, IInv, NEW r \in Requests, NEW phase \in BatchPhases, Begin(r, phase)
  PROVE  AtHome'
  <1>1. \A q \in Requests : q # r => pc'[q] = pc[q] /\ st'[q] = st[q]
    BY DEF Begin, IInv, TInv, TypeOK
  <1>2. pc'[r] \in BatchPhases => st'[r] = Home(r)
    <2>1. st'[r] = StoreFor(RepOf[r])
          /\ pc'[r] = IF StoreFor(RepOf[r]) = StoreDown THEN AfterFailure[phase] ELSE phase
      BY DEF Begin, IInv, TInv, TypeOK
    <2>2. AfterFailure[phase] \notin BatchPhases
      BY DEF AfterFailure, BatchPhases
    <2> QED BY <2>1, <2>2, StoreForHome
  <1> QED BY <1>1, <1>2 DEF IInv, AtHome, Home

\* The induction step of AdmissionSafe and CountersSound, action by action.
LEMMA IInvNext == ASSUME Plain PROVE IInv /\ [Next]_vars => IInv'
  <1> SUFFICES ASSUME IInv, [Next]_vars PROVE IInv'
    OBVIOUS
  <1>0. TInv' /\ TInv
    BY TInvNext DEF IInv
  <1> USE DEF reqVars
  <1>1. ASSUME NEW r \in Requests, Arrive(r) PROVE IInv'
    <2>1. AtHome'
      BY <1>1, BeginAtHome DEF Arrive, BatchPhases
    <2>2. charged[r] = {} /\ over[r] = {}
      BY <1>1 DEF Arrive, IInv, ChargesOf
    <2>3. \A q \in Requests : q # r => at'[q] = at[q]
      BY <1>0, <1>1 DEF Arrive, TInv, TypeOK
    <2>4. Ledger' /\ Within'
      BY <1>1, <2>2, <2>3, NoChargeMoves DEF Arrive, IInv
    <2>5. \A q \in Requests : q # r => ChargesOf(q)'
      BY <1>0, <1>1, <2>3, ChargesFrame DEF Arrive, Begin, IInv, TInv, TypeOK
    <2>6. ChargesOf(r)'
      <3>1. pc'[r] \in {"check", "refused"} /\ pos'[r] = 1
        BY <1>0, <1>1 DEF Arrive, Begin, AfterFailure, TInv, TypeOK
      <3>2. charged'[r] = {} /\ over'[r] = {}
        BY <1>1, <2>2 DEF Arrive
      <3>3. NumEntries(r) \in Nat
        BY ScopesForType
      <3> QED BY <3>1, <3>2, <3>3 DEF ChargesOf, Admitted, NumEntries, NumScopes
    <2> QED BY <1>0, <2>1, <2>4, <2>5, <2>6 DEF IInv
  <1>2. ASSUME NEW r \in Requests, Apply(r) PROVE IInv'
    <2>1. AtHome'
      BY <1>2 DEF Apply, IInv, AtHome, Home
    <2>2. Ledger' /\ Within' /\ ChargesOf(r)'
      BY <1>2, ApplyCheck, ApplyUndo, ApplyOther
    <2>3. \A q \in Requests : q # r => ChargesOf(q)'
      BY <1>0, <1>2, ChargesFrame DEF Apply, IInv, TInv, TypeOK
    <2> QED BY <1>0, <2>1, <2>2, <2>3 DEF IInv
  <1>3. ASSUME NEW r \in Requests, ReadBudgets(r) PROVE IInv'
    <2>1. AtHome'
      BY <1>3 DEF ReadBudgets, IInv, AtHome, Home
    <2>2. \A q \in Requests : at'[q] = at[q] /\ over[q] \subseteq over'[q]
      BY <1>0, <1>3 DEF ReadBudgets, TInv, TypeOK
    <2>3. Ledger' /\ Within'
      BY <1>3, <2>2, NoChargeMoves DEF ReadBudgets, IInv
    <2>4. \A q \in Requests : q # r => ChargesOf(q)'
      BY <1>0, <1>3, ChargesFrame DEF ReadBudgets, IInv, TInv, TypeOK
    <2>5. ChargesOf(r)'
      <3>1. /\ pc[r] = "check" /\ pc'[r] = "check" /\ pos'[r] = pos[r] + 1
            /\ at'[r] = at[r] /\ charged' = charged
            /\ pos[r] \in Nat /\ pos[r] > NumEntries(r)
            /\ pos[r] <= NumEntries(r) + NumScopes(r)
            /\ over'[r] \subseteq over[r] \cup {pos[r]}
        BY <1>0, <1>3 DEF ReadBudgets, BatchLen, TInv, TypeOK
      <3>2. \A i \in 1..NumEntries(r) : i < pos[r] /\ i < pos[r] + 1
        BY <3>1, ScopesForType
      <3>3. \A i \in 1..NumEntries(r) : <<Home(r), ReqKey(r, i, at[r])>> \in charged'[r]
        BY <3>1, <3>2 DEF IInv, ChargesOf
      <3>4. \A i \in over'[r] : i \in 1..(NumEntries(r) + NumScopes(r)) /\ i < pos[r] + 1
        BY <3>1, ScopesForType DEF IInv, ChargesOf
      <3> QED BY <3>1, <3>2, <3>3, <3>4
              DEF ChargesOf, Admitted, Home, NumEntries, NumScopes, ReqKey
    <2> QED BY <1>0, <2>1, <2>3, <2>4, <2>5 DEF IInv
  <1>4. ASSUME NEW r \in Requests, Resend(r) PROVE IInv'
    BY <1>4 DEF Resend, Plain
  <1>5. ASSUME NEW r \in Requests, StoreFails(r) PROVE IInv'
    <2>1. ~FailOpen
      BY <1>5, ReplicaAssumption DEF StoreFails, IInv, AtHome, Home, Plain
    <2>2. /\ pc' = [pc EXCEPT ![r] = AfterFailure[pc[r]]]
          /\ UNCHANGED <<st, pos, over, at, viol, count, charged>>
      BY <1>5, <2>1 DEF StoreFails
    <2>3. \A q \in Requests : q # r => pc'[q] = pc[q]
      BY <1>0, <2>2 DEF TInv, TypeOK
    <2>4. \/ pc[r] = "check" /\ pc'[r] = "refused"
          \/ pc[r] = "settle" /\ pc'[r] = "rejected"
          \/ pc[r] = "account" /\ pc'[r] = "done"
      BY <1>0, <1>5, <2>2 DEF StoreFails, BatchPhases, AfterFailure, TInv, TypeOK
    <2>5. AtHome'
      BY <2>2, <2>3, <2>4 DEF IInv, AtHome, Home, BatchPhases
    <2>6. Ledger' /\ Within'
      BY <2>2, NoChargeMoves DEF IInv
    <2>7. \A q \in Requests : q # r => ChargesOf(q)'
      BY <2>2, <2>3, ChargesFrame DEF IInv
    <2>8. ChargesOf(r)'
      BY <2>2, <2>4 DEF IInv, ChargesOf, Admitted, Home, NumEntries, NumScopes, ReqKey
    <2> QED BY <1>0, <2>5, <2>6, <2>7, <2>8 DEF IInv
  <1>6. ASSUME NEW r \in Requests, Admit(r) PROVE IInv'
    <2>1. AtHome'
      BY <1>0, <1>6 DEF Admit, IInv, AtHome, Home, BatchPhases, TInv, TypeOK
    <2>2. Ledger' /\ Within'
      BY <1>6, NoChargeMoves DEF Admit, IInv
    <2>3. \A q \in Requests : q # r => ChargesOf(q)'
      BY <1>0, <1>6, ChargesFrame DEF Admit, IInv, TInv, TypeOK
    <2>4. pc[r] = "check" /\ pc'[r] = "upstream" /\ UNCHANGED <<at, over, charged, pos>>
      BY <1>0, <1>6 DEF Admit, TInv, TypeOK
    <2>5. over[r] = {}
      <3> SUFFICES ASSUME NEW p \in over[r] PROVE FALSE
        OBVIOUS
      <3>1. p \in 1..(NumEntries(r) + NumScopes(r))
        BY <2>4 DEF IInv, ChargesOf
      <3>2. PosScope(r, p) \in 1..NumScopes(r)
        <4>1. CASE p <= NumEntries(r)
          BY <4>1, <3>1, ScopesForType, EntryScopeType DEF PosScope
        <4>2. CASE ~(p <= NumEntries(r))
          BY <4>2, <3>1, ScopesForType DEF PosScope
        <4> QED BY <4>1, <4>2
      <3> QED BY <1>6, <3>2 DEF Admit, Violates
    <2>6. \A i \in 1..NumEntries(r) : <<Home(r), ReqKey(r, i, at[r])>> \in charged[r]
      <3>1. pos[r] > NumEntries(r) + NumScopes(r) /\ pos[r] \in Nat
        BY <1>0, <1>6, <2>4 DEF Admit, BatchLen, TInv, TypeOK
      <3>2. \A i \in 1..NumEntries(r) : i < pos[r]
        BY <3>1, ScopesForType
      <3> QED BY <2>4, <3>2 DEF IInv, ChargesOf
    <2>7. ChargesOf(r)'
      BY <2>4, <2>5, <2>6 DEF ChargesOf, Admitted, Home, NumEntries, NumScopes, ReqKey
    <2> QED BY <1>0, <2>1, <2>2, <2>3, <2>7 DEF IInv
  <1>7. ASSUME NEW r \in Requests, Reject(r) PROVE IInv'
    <2>1. AtHome'
      BY <1>7, BeginAtHome DEF Reject, BatchPhases
    <2>2. Ledger' /\ Within'
      BY <1>7, NoChargeMoves DEF Reject, IInv
    <2>3. \A q \in Requests : q # r => ChargesOf(q)'
      BY <1>0, <1>7, ChargesFrame DEF Reject, Begin, IInv, TInv, TypeOK
    <2>4. pc[r] = "check" /\ UNCHANGED <<at, over, charged>>
      BY <1>7 DEF Reject
    <2>5. pc'[r] \in {"settle", "rejected"}
      BY <1>0, <1>7 DEF Reject, Begin, AfterFailure, TInv, TypeOK
    <2>6. \A i \in 1..NumEntries(r) : <<Home(r), ReqKey(r, i, at[r])>> \in charged[r]
      <3>1. pos[r] > NumEntries(r) + NumScopes(r) /\ pos[r] \in Nat
        BY <1>0, <1>7, <2>4 DEF Reject, BatchLen, TInv, TypeOK
      <3>2. \A i \in 1..NumEntries(r) : i < pos[r]
        BY <3>1, ScopesForType
      <3> QED BY <2>4, <3>2 DEF IInv, ChargesOf
    <2>7. ChargesOf(r)'
      <3>1. CASE pc'[r] = "rejected"
        BY <3>1 DEF ChargesOf, Admitted
      <3>2. CASE pc'[r] = "settle"
        <4>1. viol'[r] \in 1..NumScopes(r)
          BY <3>2, <1>0 DEF TInv, NumScopes
        <4>2. \A i \in 1..NumUndo(r) : UndoIndex(r, i)' \in 1..NumEntries(r)
          BY <4>1, ScopesForType DEF UndoIndex, NumUndo, checkAndCountKeysPerScope
        <4>3. \A i \in 1..NumUndo(r) :
                 <<Home(r), ReqKey(r, UndoIndex(r, i)', at[r])>> \in charged[r]
          BY <4>2, <2>6
        <4> QED BY <3>2, <4>3, <2>4
                DEF ChargesOf, Admitted, Home, NumEntries, NumScopes, ReqKey, NumUndo
      <3> QED BY <3>1, <3>2, <2>5
    <2> QED BY <1>0, <2>1, <2>2, <2>3, <2>7 DEF IInv
  <1>8. ASSUME NEW r \in Requests, Settled(r) PROVE IInv'
    <2>1. AtHome'
      BY <1>0, <1>8 DEF Settled, IInv, AtHome, Home, BatchPhases, TInv, TypeOK
    <2>2. Ledger' /\ Within'
      BY <1>8, NoChargeMoves DEF Settled, IInv
    <2>3. \A q \in Requests : q # r => ChargesOf(q)'
      BY <1>0, <1>8, ChargesFrame DEF Settled, IInv, TInv, TypeOK
    <2>4. pc'[r] = "rejected"
      BY <1>0, <1>8 DEF Settled, TInv, TypeOK
    <2>5. ChargesOf(r)'
      BY <2>4 DEF ChargesOf, Admitted
    <2> QED BY <1>0, <2>1, <2>2, <2>3, <2>5 DEF IInv
  <1>9. ASSUME NEW r \in Requests, Account(r) PROVE IInv'
    <2>1. AtHome'
      <3>1. CASE Begin(r, "account")
        BY <3>1, BeginAtHome DEF BatchPhases
      <3>2. CASE pc' = [pc EXCEPT ![r] = "done"] /\ st' = st
        BY <1>0, <3>2 DEF IInv, AtHome, Home, BatchPhases, TInv, TypeOK
      <3> QED BY <1>9, <3>1, <3>2 DEF Account
    <2>2. Ledger' /\ Within'
      BY <1>9, NoChargeMoves DEF Account, IInv
    <2>3. \A q \in Requests : q # r => pc'[q] = pc[q] /\ pos'[q] = pos[q]
      BY <1>0, <1>9 DEF Account, Begin, TInv, TypeOK
    <2>4. \A q \in Requests : q # r => ChargesOf(q)'
      BY <1>9, <2>3, ChargesFrame DEF Account, IInv
    <2>5. pc[r] = "upstream" /\ pc'[r] \in {"account", "done"}
      BY <1>0, <1>9 DEF Account, Begin, AfterFailure, TInv, TypeOK
    <2>6. ChargesOf(r)'
      BY <1>9, <2>5 DEF Account, IInv, ChargesOf, Admitted, Home, NumEntries, NumScopes, ReqKey
    <2> QED BY <1>0, <2>1, <2>2, <2>4, <2>6 DEF IInv
  <1>10. ASSUME NEW r \in Requests, Accounted(r) PROVE IInv'
    <2>1. AtHome'
      BY <1>0, <1>10 DEF Accounted, IInv, AtHome, Home, BatchPhases, TInv, TypeOK
    <2>2. Ledger' /\ Within'
      BY <1>10, NoChargeMoves DEF Accounted, IInv
    <2>3. \A q \in Requests : q # r => ChargesOf(q)'
      BY <1>0, <1>10, ChargesFrame DEF Accounted, IInv, TInv, TypeOK
    <2>4. pc[r] = "account" /\ pc'[r] = "done"
      BY <1>0, <1>10 DEF Accounted, TInv, TypeOK
    <2>5. ChargesOf(r)'
      BY <1>10, <2>4 DEF Accounted, IInv, ChargesOf, Admitted, Home, NumEntries, NumScopes, ReqKey
    <2> QED BY <1>0, <2>1, <2>2, <2>3, <2>5 DEF IInv
  <1>11. ASSUME UNCHANGED <<reqVars, count, charged>> PROVE IInv'
    <2>1. AtHome'
      BY <1>11 DEF IInv, AtHome, Home
    <2>2. Ledger' /\ Within'
      BY <1>11, NoChargeMoves DEF IInv
    <2>3. \A q \in Requests : ChargesOf(q)'
      BY <1>11, ChargesFrame DEF IInv
    <2> QED BY <1>0, <2>1, <2>2, <2>3 DEF IInv
  <1>12. ASSUME NEW p \in Replicas, LatchExpires(p) PROVE IInv'
    BY <1>11, <1>12 DEF LatchExpires
  <1>13. CASE Tick
    BY <1>11, <1>13 DEF Tick
  <1>14. CASE UNCHANGED vars
    BY <1>11, <1>14 DEF vars
  <1> QED
    BY <1>1, <1>2, <1>3, <1>4, <1>5, <1>6, <1>7, <1>8, <1>9, <1>10, <1>12, <1>13,
       <1>14 DEF Next

\* The inductive invariant bounds the admissions of every window.
LEMMA IInvAdmitted == IInv => AdmittedWithinLimit
  <1> SUFFICES ASSUME IInv, NEW s \in Stores, NEW sc \in Scopes, NEW w \in {"min", "day"},
                      ReqLimit[sc][w] > 0, NEW q \in Admitted
               PROVE  Cardinality({r \in Admitted :
                          /\ Home(r) = s
                          /\ <<"req", sc, w, at[q] \div WindowLen[w]>> \in ReqKeys(r)})
                      <= ReqLimit[sc][w]
    BY DEF AdmittedWithinLimit
  <1>1. at[q] \div WindowLen[w] \in Nat
    <2>1. q \in Requests /\ at[q] \in Nat /\ WindowLen[w] \in Nat \ {0}
      BY LimitAssumption DEF Admitted, IInv, TInv, TypeOK, Windows
    <2> QED BY <2>1, DivNat
  <1> SUFFICES ASSUME NEW b \in Nat, b = at[q] \div WindowLen[w],
                      NEW k, k = <<"req", sc, w, b>>,
                      NEW A, A = {r \in Admitted : Home(r) = s /\ k \in ReqKeys(r)}
               PROVE  Cardinality(A) <= ReqLimit[sc][w]
    BY <1>1
  <1>2. A \subseteq Low(s, k)
    BY DEF IInv, ChargesOf, Admitted, Low, ReqKeys
  <1>3. Cardinality(Low(s, k)) <= ReqLimit[sc][w] /\ ReqLimit[sc][w] \in Nat
    BY LimitAssumption DEF IInv, Within
  <1>4. IsFiniteSet(Low(s, k)) /\ Cardinality(Low(s, k)) \in Nat
    BY HoldersFinite
  <1>5. IsFiniteSet(A) /\ Cardinality(A) <= Cardinality(Low(s, k))
    BY <1>2, <1>4, FS_Subset
  <1>6. Cardinality(A) \in Nat
    BY <1>5, FS_CardinalityType
  <1> QED BY <1>3, <1>4, <1>5, <1>6

\* With one store to answer for each request, no admission is ever over a
\* request limit: every reply that let a request through counted every other
\* request the same counter had let through.
THEOREM AdmissionSafe ==
  ASSUME Plain
  PROVE  Spec => []AdmittedWithinLimit
  <1>1. IInv /\ [Next]_vars => IInv'
    BY IInvNext
  <1> QED BY <1>1, IInvInit, IInvAdmitted, PTL DEF Spec

\* The inductive invariant keeps every counter at or above its charges.
LEMMA IInvLedger == IInv => NeverUnderCounts
  <1> SUFFICES ASSUME IInv, NEW s \in Stores, NEW k \in DOMAIN count[s], k[1] = "req"
               PROVE  count[s][k] >= Cardinality({r \in Admitted : <<s, k>> \in charged[r]})
    BY DEF NeverUnderCounts
  <1> SUFFICES ASSUME NEW A, A = {r \in Admitted : <<s, k>> \in charged[r]}
               PROVE  count[s][k] >= Cardinality(A)
    OBVIOUS
  <1>1. k \in Keys
    BY DEF IInv, TInv, TypeOK
  <1>2. count[s][k] = Cardinality(Holders(s, k))
    BY <1>1 DEF IInv, Ledger, Get
  <1>3. A \subseteq Holders(s, k)
    BY DEF Holders, Admitted
  <1>4. IsFiniteSet(Holders(s, k)) /\ Cardinality(Holders(s, k)) \in Nat
    BY HoldersFinite
  <1>5. IsFiniteSet(A) /\ Cardinality(A) <= Cardinality(Holders(s, k))
    BY <1>3, <1>4, FS_Subset
  <1>6. Cardinality(A) \in Nat
    BY <1>5, FS_CardinalityType
  <1> QED BY <1>2, <1>4, <1>5, <1>6

\* Without resent batches and without a fallback to change stores, a request
\* counter never falls below the admitted requests it was charged for, also
\* when checks and compensations fail half way.
THEOREM CountersSound ==
  ASSUME Plain
  PROVE  Spec => []NeverUnderCounts
  <1>1. IInv /\ [Next]_vars => IInv'
    BY IInvNext
  <1> QED BY <1>1, IInvInit, IInvLedger, PTL DEF Spec

-----------------------------------------------------------------------------
(* Rejections leave other scopes' counters alone.                          *)
(*                                                                         *)
(* IInv says how many requests hold a charge of each counter.  While no    *)
(* store call has failed, which charges a request holds is exactly known   *)
(* from how far its batches have come.                                     *)

\* The charges of request r, admitted at t, for some of its entries.
Paid(r, t, I) == {<<Home(r), ReqKey(r, i, t)>> : i \in I}

\* UndoIndex with scope v violated.
UndoOf(v, i) == IF i <= 3 * (v - 1) THEN i ELSE i + 3

\* The entries left when the compensation has come to its entry n.
Kept(r, v, n) ==
    {i \in 1..NumEntries(r) : EntryScope(i) = v \/ \E j \in n..NumUndo(r) : i = UndoOf(v, j)}

\* The charges h of a request at phase c and entry n, admitted at t, with scope v
\* violated.
ExactOf(r, c, n, t, v, h) ==
    /\ c # "refused"
    /\ c = "idle" => h = {}
    /\ c = "check" => h = Paid(r, t, {i \in 1..NumEntries(r) : i < n})
    /\ c \in {"upstream", "account", "done"} => h = Paid(r, t, 1..NumEntries(r))
    /\ c \in {"settle", "rejected"} => v \in 1..NumScopes(r) /\ h = Paid(r, t, Kept(r, v, n))
    /\ c = "rejected" => n > NumUndo(r)

Exact ==
    faults = 0 =>
        /\ \A p \in Replicas : ~latched[p]
        /\ \A r \in Requests : ExactOf(r, pc[r], pos[r], at[r], viol[r], charged[r])

\* One more entry is charged.
LEMMA PaidAdd ==
  ASSUME NEW r, NEW t, NEW I, NEW i
  PROVE  Paid(r, t, I \cup {i}) = Paid(r, t, I) \cup {<<Home(r), ReqKey(r, i, t)>>}
  BY DEF Paid

\* One entry is given back: no other entry has its counter.
LEMMA PaidRemove ==
  ASSUME NEW r \in Requests, NEW t \in Nat, NEW I \in SUBSET (1..NumEntries(r)),
         NEW i \in 1..NumEntries(r)
  PROVE  Paid(r, t, I \ {i}) = Paid(r, t, I) \ {<<Home(r), ReqKey(r, i, t)>>}
  <1>1. \A j \in I : j # i => ReqKey(r, j, t) # ReqKey(r, i, t)
    BY ReqKeyInjective
  <1> QED BY <1>1 DEF Paid

\* The compensation's entries are those of the other scopes, each once.
LEMMA UndoFacts ==
  ASSUME NEW N \in Nat \ {0}, NEW v \in 1..N, NEW n \in 1..(3 * N - 3)
  PROVE  /\ UndoOf(v, n) \in 1..(3 * N) /\ EntryScope(UndoOf(v, n)) # v
         /\ \A j \in 1..(3 * N - 3) : UndoOf(v, j) = UndoOf(v, n) => j = n
  <1>1. CASE n <= 3 * (v - 1)
    <2>1. UndoOf(v, n) = n
      BY <1>1 DEF UndoOf
    <2> QED BY <1>1, <2>1 DEF UndoOf, EntryScope, checkAndCountKeysPerScope
  <1>2. CASE ~(n <= 3 * (v - 1))
    <2>1. UndoOf(v, n) = n + 3
      BY <1>2 DEF UndoOf
    <2> QED BY <1>2, <2>1 DEF UndoOf, EntryScope, checkAndCountKeysPerScope
  <1> QED BY <1>1, <1>2

\* Every entry is one of the violated scope's or one that is given back.
LEMMA UndoCovers ==
  ASSUME NEW N \in Nat \ {0}, NEW v \in 1..N, NEW i \in 1..(3 * N)
  PROVE  EntryScope(i) = v \/ \E j \in 1..(3 * N - 3) : i = UndoOf(v, j)
  <1>1. CASE i <= 3 * (v - 1)
    <2>1. i \in 1..(3 * N - 3) /\ i = UndoOf(v, i)
      BY <1>1 DEF UndoOf
    <2> QED BY <2>1
  <1>2. CASE i > 3 * v
    <2>1. i - 3 \in 1..(3 * N - 3) /\ i = UndoOf(v, i - 3)
      BY <1>2 DEF UndoOf
    <2> QED BY <2>1
  <1>3. CASE i > 3 * (v - 1) /\ i <= 3 * v
    BY <1>3 DEF EntryScope, checkAndCountKeysPerScope
  <1> QED BY <1>1, <1>2, <1>3

\* The numbers of entries.
LEMMA UndoCount ==
  ASSUME NEW r \in Requests
  PROVE  /\ NumScopes(r) \in Nat \ {0} /\ NumEntries(r) = 3 * NumScopes(r)
         /\ NumUndo(r) = 3 * NumScopes(r) - 3 /\ NumUndo(r) \in Nat
  BY ScopesForType DEF NumUndo, checkAndCountKeysPerScope

\* The compensation from its start to its end.
LEMMA KeptFacts ==
  ASSUME NEW r \in Requests, NEW v \in 1..NumScopes(r)
  PROVE  /\ Kept(r, v, 1) = 1..NumEntries(r)
         /\ \A n \in 1..NumUndo(r) : Kept(r, v, n + 1) = Kept(r, v, n) \ {UndoOf(v, n)}
         /\ \A n \in Nat : n > NumUndo(r) =>
              Kept(r, v, n) = {i \in 1..NumEntries(r) : EntryScope(i) = v}
  <1> DEFINE N == NumScopes(r)
  <1>0. /\ N \in Nat \ {0} /\ NumEntries(r) = 3 * N /\ NumUndo(r) = 3 * N - 3
    BY UndoCount
  <1> HIDE DEF N
  <1>v. v \in 1..N
    BY DEF N
  <1>1. Kept(r, v, 1) = 1..NumEntries(r)
    BY <1>0, <1>v, UndoCovers DEF Kept
  <1>2. ASSUME NEW n \in 1..NumUndo(r)
        PROVE  Kept(r, v, n + 1) = Kept(r, v, n) \ {UndoOf(v, n)}
    <2>1. n \in 1..(3 * N - 3)
      BY <1>0, <1>2
    <2>2. /\ UndoOf(v, n) \in 1..(3 * N) /\ EntryScope(UndoOf(v, n)) # v
          /\ \A j \in 1..(3 * N - 3) : UndoOf(v, j) = UndoOf(v, n) => j = n
      BY <1>0, <1>v, <2>1, UndoFacts
    <2>3. n..NumUndo(r) = {n} \cup ((n + 1)..NumUndo(r)) /\ n \notin (n + 1)..NumUndo(r)
      BY <1>0, <2>1
    <2>4. \A j \in (n + 1)..NumUndo(r) : UndoOf(v, j) # UndoOf(v, n)
      BY <1>0, <2>1, <2>2
    <2> HIDE DEF UndoOf
    <2> QED BY <2>2, <2>3, <2>4 DEF Kept
  <1>3. ASSUME NEW n \in Nat, n > NumUndo(r)
        PROVE  Kept(r, v, n) = {i \in 1..NumEntries(r) : EntryScope(i) = v}
    <2>1. n..NumUndo(r) = {}
      BY <1>0, <1>3
    <2> QED BY <2>1 DEF Kept
  <1> QED BY <1>1, <1>2, <1>3

\* A request that a step does not touch.
LEMMA ExactFrame ==
  ASSUME NEW q \in Requests, ExactOf(q, pc[q], pos[q], at[q], viol[q], charged[q]),
         pc'[q] = pc[q], pos'[q] = pos[q], at'[q] = at[q], viol'[q] = viol[q],
         charged'[q] = charged[q]
  PROVE  ExactOf(q, pc'[q], pos'[q], at'[q], viol'[q], charged'[q])
  OBVIOUS

\* An entry of a batch is applied.
LEMMA ExactApply ==
  ASSUME IInv, NEW r \in Requests, Apply(r),
         ExactOf(r, pc[r], pos[r], at[r], viol[r], charged[r])
  PROVE  ExactOf(r, pc'[r], pos'[r], at'[r], viol'[r], charged'[r])
  <1>0. /\ pos[r] \in Nat \ {0} /\ at[r] \in Nat /\ NumEntries(r) \in Nat
        /\ charged' = [charged EXCEPT ![r] = Charge(r, Entry(r))] /\ st[r] = Home(r)
    BY ApplyEffect, UndoCount DEF IInv, TInv, TypeOK
  <1>1. UNCHANGED <<pc, at, viol>> /\ pos'[r] = pos[r] + 1
    BY DEF Apply, IInv, TInv, TypeOK
  <1>2. charged'[r] = Charge(r, Entry(r))
    BY <1>0 DEF IInv, TInv, TypeOK
  <1> DEFINE n == pos[r]
             t == at[r]
  <1>3. CASE pc[r] = "check"
    <2>1. n \in 1..NumEntries(r)
      BY <1>0, <1>3 DEF Apply, IsIncrement
    <2>2. Entry(r).key = ReqKey(r, n, t)
      BY <1>3 DEF Entry, CheckEntry
    <2>3. charged'[r] = charged[r] \cup {<<Home(r), ReqKey(r, n, t)>>}
      BY <1>0, <1>2, <1>3, <2>2 DEF Charge
    <2>4. charged[r] = Paid(r, t, {i \in 1..NumEntries(r) : i < n})
      BY <1>3 DEF ExactOf
    <2>5. {i \in 1..NumEntries(r) : i < n + 1} = {i \in 1..NumEntries(r) : i < n} \cup {n}
      BY <1>0, <2>1
    <2>6. charged'[r] = Paid(r, t, {i \in 1..NumEntries(r) : i < n + 1})
      BY <2>3, <2>4, <2>5, PaidAdd
    <2> QED BY <1>1, <1>3, <2>6 DEF ExactOf
  <1>4. CASE pc[r] = "settle" /\ n <= NumUndo(r)
    <2> DEFINE v == viol[r]
    <2>1. n \in 1..NumUndo(r) /\ v \in 1..NumScopes(r) /\ charged[r] = Paid(r, t, Kept(r, v, n))
      BY <1>0, <1>4, UndoCount DEF ExactOf
    <2>2. UndoIndex(r, n) = UndoOf(v, n)
      BY DEF UndoIndex, UndoOf, checkAndCountKeysPerScope
    <2>3. Entry(r).key = ReqKey(r, UndoOf(v, n), t)
      BY <1>4, <2>2 DEF Entry, SettleEntry
    <2>4. charged'[r] = charged[r] \ {<<Home(r), ReqKey(r, UndoOf(v, n), t)>>}
      BY <1>0, <1>2, <1>4, <2>3 DEF Charge
    <2>5. UndoOf(v, n) \in 1..NumEntries(r)
      BY <2>1, UndoFacts, UndoCount
    <2>6. Kept(r, v, n) \in SUBSET (1..NumEntries(r))
      BY DEF Kept
    <2>7. charged'[r] = Paid(r, t, Kept(r, v, n) \ {UndoOf(v, n)})
      <3>1. PICK I \in SUBSET (1..NumEntries(r)) : I = Kept(r, v, n)
        BY <2>6
      <3>2. PICK u \in 1..NumEntries(r) : u = UndoOf(v, n)
        BY <2>5
      <3>3. Paid(r, t, I \ {u}) = Paid(r, t, I) \ {<<Home(r), ReqKey(r, u, t)>>}
        BY <1>0, PaidRemove
      <3> QED BY <2>1, <2>4, <3>1, <3>2, <3>3
    <2>8. Kept(r, v, n + 1) = Kept(r, v, n) \ {UndoOf(v, n)}
      BY <2>1, KeptFacts
    <2> QED BY <1>1, <1>4, <2>1, <2>7, <2>8 DEF ExactOf
  <1>5. CASE pc[r] = "settle" /\ ~(n <= NumUndo(r))
    <2>1. charged'[r] = charged[r]
      BY <1>2, <1>5 DEF Charge
    <2>2. NumUndo(r) \in Nat /\ viol[r] \in 1..NumScopes(r)
      BY <1>5, UndoCount DEF ExactOf
    <2>3. n \in Nat /\ n + 1 \in Nat /\ n > NumUndo(r) /\ n + 1 > NumUndo(r)
      BY <1>0, <1>5, <2>2
    <2>4. Kept(r, viol[r], n + 1) = Kept(r, viol[r], n)
      <3>1. PICK v \in 1..NumScopes(r) : v = viol[r]
        BY <2>2
      <3>2. PICK m \in Nat : m = n + 1 /\ m > NumUndo(r)
        BY <2>3
      <3>3. PICK l \in Nat : l = n /\ l > NumUndo(r)
        BY <2>3
      <3>4. Kept(r, v, m) = {i \in 1..NumEntries(r) : EntryScope(i) = v}
        BY <3>2, KeptFacts
      <3>5. Kept(r, v, l) = {i \in 1..NumEntries(r) : EntryScope(i) = v}
        BY <3>3, KeptFacts
      <3> QED BY <3>1, <3>2, <3>3, <3>4, <3>5
    <2> QED BY <1>1, <1>5, <2>1, <2>2, <2>4 DEF ExactOf
  <1>6. CASE pc[r] = "account"
    <2>1. charged'[r] = charged[r]
      BY <1>2, <1>6 DEF Charge
    <2> QED BY <1>1, <1>6, <2>1 DEF ExactOf
  <1> QED BY <1>3, <1>4, <1>5, <1>6 DEF Apply, IsIncrement, BatchPhases

\* Without a failed store call no request is turned away by the latch.
LEMMA NotDown ==
  ASSUME NEW r \in Requests, ~latched[RepOf[r]]
  PROVE  StoreFor(RepOf[r]) # StoreDown
  BY ReplicaAssumption DEF StoreFor, StoreDown, Redis

\* The induction step of RejectionsCorrect.
LEMMA ExactNext == ASSUME Plain PROVE IInv /\ Exact /\ [Next]_vars => Exact'
  <1> SUFFICES ASSUME IInv, Exact, [Next]_vars, faults' = 0
               PROVE  /\ \A p \in Replicas : ~latched'[p]
                      /\ \A q \in Requests : ExactOf(q, pc'[q], pos'[q], at'[q], viol'[q], charged'[q])
    BY DEF Exact
  <1> USE DEF reqVars
  <1>0. TInv /\ TypeOK
    BY DEF IInv, TInv
  <1>f. faults = 0 /\ ~\E r \in Requests : StoreFails(r)
    <2>1. faults \in Nat
      BY <1>0 DEF TypeOK
    <2>2. ASSUME NEW r \in Requests, StoreFails(r) PROVE FALSE
      <3>1. faults' = faults + 1
        BY <2>2 DEF StoreFails
      <3> QED BY <2>1, <3>1
    <2>3. faults' = faults
      BY <2>2 DEF Next, Arrive, Apply, ReadBudgets, Resend, Admit, Reject, Settled, Account,
                  Accounted, LatchExpires, Tick, vars
    <2> QED BY <2>2, <2>3
  <1>x. /\ \A p \in Replicas : ~latched[p]
        /\ \A q \in Requests : ExactOf(q, pc[q], pos[q], at[q], viol[q], charged[q])
    BY <1>f DEF Exact
  <1>l. \A p \in Replicas : ~latched'[p]
    <2>1. latched' = latched
      BY <1>f, <1>x DEF Next, Arrive, Apply, ReadBudgets, Resend, Admit, Reject, Settled, Account,
                  Accounted, LatchExpires, Tick, vars
    <2> QED BY <1>x, <2>1
  <1>r. \A r \in Requests : StoreFor(RepOf[r]) # StoreDown
    BY <1>x, NotDown, ReplicaAssumption
  <1> DEFINE Other(r) == \A q \in Requests : q # r =>
                           ExactOf(q, pc'[q], pos'[q], at'[q], viol'[q], charged'[q])
             Own(r) == ExactOf(r, pc'[r], pos'[r], at'[r], viol'[r], charged'[r])
  <1>1. ASSUME NEW r \in Requests, Arrive(r) PROVE Other(r) /\ Own(r)
    <2>1. Other(r)
      BY <1>0, <1>1, <1>x, ExactFrame DEF Arrive, Begin, TypeOK
    <2>2. pc'[r] = "check" /\ pos'[r] = 1 /\ charged'[r] = charged[r] /\ pc[r] = "idle"
      BY <1>0, <1>1, <1>r DEF Arrive, Begin, TypeOK
    <2>3. charged[r] = {}
      BY <1>x, <2>2 DEF ExactOf
    <2>4. {i \in 1..NumEntries(r) : i < 1} = {}
      BY UndoCount
    <2>5. \A t : Paid(r, t, {}) = {}
      BY DEF Paid
    <2> QED BY <2>1, <2>2, <2>3, <2>4, <2>5 DEF ExactOf
  <1>2. ASSUME NEW r \in Requests, Apply(r) PROVE Other(r) /\ Own(r)
    <2>1. Other(r)
      BY <1>0, <1>2, <1>x, ExactFrame DEF Apply, TypeOK
    <2> QED BY <1>2, <1>x, <2>1, ExactApply
  <1>3. ASSUME NEW r \in Requests, ReadBudgets(r) PROVE Other(r) /\ Own(r)
    <2>1. Other(r)
      BY <1>0, <1>3, <1>x, ExactFrame DEF ReadBudgets, TypeOK
    <2>2. /\ pc[r] = "check" /\ pc'[r] = "check" /\ pos'[r] = pos[r] + 1 /\ at'[r] = at[r]
          /\ charged'[r] = charged[r] /\ pos[r] > NumEntries(r) /\ pos[r] \in Nat
      BY <1>0, <1>3 DEF ReadBudgets, TypeOK
    <2>3. {i \in 1..NumEntries(r) : i < pos[r] + 1} = {i \in 1..NumEntries(r) : i < pos[r]}
      BY <2>2, UndoCount
    <2>4. charged[r] = Paid(r, at[r], {i \in 1..NumEntries(r) : i < pos[r]})
      BY <1>x, <2>2 DEF ExactOf
    <2> QED BY <2>1, <2>2, <2>3, <2>4 DEF ExactOf
  <1>4. ASSUME NEW r \in Requests, Resend(r) PROVE FALSE
    BY <1>4 DEF Resend, Plain
  <1>5. ASSUME NEW r \in Requests, pc[r] = "check", pos[r] > BatchLen(r)
        PROVE  charged[r] = Paid(r, at[r], 1..NumEntries(r))
    <2>1. pos[r] \in Nat /\ pos[r] > NumEntries(r) + NumScopes(r)
      BY <1>0, <1>5 DEF TypeOK, BatchLen
    <2>2. {i \in 1..NumEntries(r) : i < pos[r]} = 1..NumEntries(r)
      BY <2>1, UndoCount
    <2> QED BY <1>5, <1>x, <2>2 DEF ExactOf
  <1>6. ASSUME NEW r \in Requests, Admit(r) PROVE Other(r) /\ Own(r)
    <2>1. Other(r)
      BY <1>0, <1>6, <1>x, ExactFrame DEF Admit, TypeOK
    <2>2. pc'[r] = "upstream" /\ at'[r] = at[r] /\ charged'[r] = charged[r]
      BY <1>0, <1>6 DEF Admit, TypeOK
    <2>3. charged[r] = Paid(r, at[r], 1..NumEntries(r))
      BY <1>5, <1>6 DEF Admit
    <2> QED BY <2>1, <2>2, <2>3 DEF ExactOf
  <1>7. ASSUME NEW r \in Requests, Reject(r) PROVE Other(r) /\ Own(r)
    <2>1. Other(r)
      BY <1>0, <1>7, <1>x, ExactFrame DEF Reject, Begin, TypeOK
    <2>2. pc'[r] = "settle" /\ pos'[r] = 1 /\ at'[r] = at[r] /\ charged'[r] = charged[r]
      BY <1>0, <1>7, <1>r DEF Reject, Begin, TypeOK
    <2>3. charged[r] = Paid(r, at[r], 1..NumEntries(r))
      BY <1>5, <1>7 DEF Reject
    <2>4. PICK i \in 1..NumScopes(r) : viol' = [viol EXCEPT ![r] = i]
      BY <1>7 DEF Reject
    <2>5. viol'[r] = i
      BY <1>0, <2>4 DEF TypeOK
    <2>6. Kept(r, i, 1) = 1..NumEntries(r)
      BY KeptFacts
    <2> QED BY <2>1, <2>2, <2>3, <2>5, <2>6 DEF ExactOf
  <1>8. ASSUME NEW r \in Requests, Settled(r) PROVE Other(r) /\ Own(r)
    <2>1. Other(r)
      BY <1>0, <1>8, <1>x, ExactFrame DEF Settled, TypeOK
    <2>2. /\ pc[r] = "settle" /\ pc'[r] = "rejected" /\ at'[r] = at[r] /\ charged'[r] = charged[r]
          /\ pos'[r] = pos[r] /\ viol'[r] = viol[r] /\ pos[r] \in Nat /\ pos[r] > NumUndo(r) + NumRej
      BY <1>0, <1>8 DEF Settled, TypeOK, BatchLen
    <2>3. pos[r] > NumUndo(r)
      BY <2>2, UndoCount DEF NumRej
    <2> QED BY <1>x, <2>1, <2>2, <2>3 DEF ExactOf
  <1>9. ASSUME NEW r \in Requests, Account(r) PROVE Other(r) /\ Own(r)
    <2>0. \A q \in Requests : q # r => pc'[q] = pc[q] /\ pos'[q] = pos[q]
      BY <1>0, <1>9 DEF Account, Begin, TypeOK
    <2>1. Other(r)
      BY <1>9, <1>x, <2>0, ExactFrame DEF Account
    <2>2. /\ pc[r] = "upstream" /\ pc'[r] \in {"account", "done"} /\ at'[r] = at[r]
          /\ charged'[r] = charged[r]
      BY <1>0, <1>9 DEF Account, Begin, AfterFailure, TypeOK
    <2> QED BY <1>x, <2>1, <2>2 DEF ExactOf
  <1>10. ASSUME NEW r \in Requests, Accounted(r) PROVE Other(r) /\ Own(r)
    <2>1. Other(r)
      BY <1>0, <1>10, <1>x, ExactFrame DEF Accounted, TypeOK
    <2>2. pc[r] = "account" /\ pc'[r] = "done" /\ at'[r] = at[r] /\ charged'[r] = charged[r]
      BY <1>0, <1>10 DEF Accounted, TypeOK
    <2> QED BY <1>x, <2>1, <2>2 DEF ExactOf
  <1>11. ASSUME UNCHANGED <<reqVars, charged>>
         PROVE  \A q \in Requests : ExactOf(q, pc'[q], pos'[q], at'[q], viol'[q], charged'[q])
    BY <1>11, <1>x, ExactFrame
  <1>12. CASE (\E p \in Replicas : LatchExpires(p)) \/ Tick \/ UNCHANGED vars
    BY <1>11, <1>12, <1>l DEF LatchExpires, Tick, vars
  <1>13. ASSUME NEW r \in Requests, Other(r), Own(r)
         PROVE  \A q \in Requests : ExactOf(q, pc'[q], pos'[q], at'[q], viol'[q], charged'[q])
    BY <1>13
  <1> HIDE DEF Other, Own
  <1> QED BY <1>1, <1>2, <1>3, <1>4, <1>6, <1>7, <1>8, <1>9, <1>10, <1>12, <1>13, <1>f, <1>l DEF Next

\* When all is over, a counter's charges are those of the requests it let in and
\* of those that its own scope turned away.
LEMMA ExactRejections == IInv /\ Exact => RejectionsLeaveOthersAlone
  <1> SUFFICES ASSUME IInv, Exact, InFlight = {}, faults = 0,
                      NEW s \in Stores, NEW k \in DOMAIN count[s], k[1] = "req"
               PROVE  count[s][k] = Cardinality({r \in Requests :
                          /\ Home(r) = s /\ k \in ReqKeys(r)
                          /\ \/ r \in Admitted
                             \/ pc[r] = "rejected" /\ ScopesFor(r)[viol[r]] = k[2]})
    BY DEF RejectionsLeaveOthersAlone
  <1> DEFINE H == {r \in Requests :
                     /\ Home(r) = s /\ k \in ReqKeys(r)
                     /\ \/ r \in Admitted
                        \/ pc[r] = "rejected" /\ ScopesFor(r)[viol[r]] = k[2]}
  <1>1. k \in Keys
    BY DEF IInv, TInv, TypeOK
  <1>2. count[s][k] = Cardinality(Holders(s, k))
    <2>1. Get(count[s], k) = Cardinality(Holders(s, k))
      BY <1>1 DEF IInv, Ledger
    <2> QED BY <2>1 DEF Get
  <1>3. ASSUME NEW r \in Requests
        PROVE  <<s, k>> \in charged[r] <=>
                 /\ Home(r) = s /\ k \in ReqKeys(r)
                 /\ \/ r \in Admitted
                    \/ pc[r] = "rejected" /\ ScopesFor(r)[viol[r]] = k[2]
    <2>0. ExactOf(r, pc[r], pos[r], at[r], viol[r], charged[r])
      BY DEF Exact
    <2>1. pc[r] \in {"idle", "done", "rejected"}
      BY <2>0 DEF ExactOf, InFlight
    <2>2. ReqKeys(r) = {ReqKey(r, i, at[r]) : i \in 1..NumEntries(r)}
      BY DEF ReqKeys
    <2>3. CASE pc[r] = "idle"
      BY <2>0, <2>3 DEF ExactOf, Admitted
    <2>4. CASE pc[r] = "done"
      <3>1. charged[r] = {<<Home(r), ReqKey(r, i, at[r])>> : i \in 1..NumEntries(r)}
        BY <2>0, <2>4 DEF ExactOf, Paid
      <3>2. r \in Admitted
        BY <2>4 DEF Admitted
      <3> QED BY <2>2, <3>1, <3>2
    <2>5. CASE pc[r] = "rejected"
      <3>1. PICK v \in 1..NumScopes(r) : v = viol[r]
        BY <2>0, <2>5 DEF ExactOf
      <3>2. PICK n \in Nat : n = pos[r] /\ n > NumUndo(r)
        BY <2>0, <2>5 DEF ExactOf, IInv, TInv, TypeOK
      <3>3. Kept(r, v, n) = {i \in 1..NumEntries(r) : EntryScope(i) = v}
        BY <3>2, KeptFacts
      <3>4. charged[r] = {<<Home(r), ReqKey(r, i, at[r])>> :
                             i \in {j \in 1..NumEntries(r) : EntryScope(j) = v}}
        BY <2>0, <2>5, <3>1, <3>2, <3>3 DEF ExactOf, Paid
      <3>5. \A i \in 1..NumEntries(r) :
              ReqKey(r, i, at[r])[2] = ScopesFor(r)[v] <=> EntryScope(i) = v
        <4> TAKE i \in 1..NumEntries(r)
        <4>1. ReqKey(r, i, at[r])[2] = ScopesFor(r)[EntryScope(i)]
          BY DEF ReqKey, Key
        <4>2. EntryScope(i) \in 1..NumScopes(r)
          BY UndoCount, EntryScopeType
        <4> QED BY <4>1, <4>2, ScopesForType
      <3>6. r \notin Admitted
        BY <2>5 DEF Admitted
      <3> QED BY <2>2, <2>5, <3>1, <3>4, <3>5, <3>6
    <2> QED BY <2>1, <2>3, <2>4, <2>5
  <1>4. Holders(s, k) = H
    BY <1>3 DEF Holders
  <1> QED BY <1>2, <1>4

\* At the start nothing is charged and no replica is latched.
LEMMA ExactInit == Init => Exact
  BY DEF Init, Exact, ExactOf

\* With one store to answer for each request, once no request is in flight and if
\* no store call failed, every request counter is exactly the admitted requests
\* plus those its own scope has rejected.
THEOREM RejectionsCorrect ==
  ASSUME Plain
  PROVE  Spec => []RejectionsLeaveOthersAlone
  <1>1. (IInv /\ Exact) /\ [Next]_vars => (IInv /\ Exact)'
    BY IInvNext, ExactNext
  <1>2. Init => IInv /\ Exact
    BY IInvInit, ExactInit
  <1> QED BY <1>1, <1>2, ExactRejections, PTL DEF Spec

-----------------------------------------------------------------------------
(* Budgets overshoot by what is in flight at most.                         *)
(*                                                                         *)
(* A request that may still add to a budget's counter either has read it   *)
(* below its limit or was admitted before the counter's bucket began, when *)
(* the counter was zero.  So the counter and the most that such requests   *)
(* can add stay below the limit and the most that all can add: the sum     *)
(* grows only when a request joins them, at a moment at which the counter  *)
(* itself is below the limit.                                              *)

\* The bucket that request r was admitted in.
Bucket(r, w) == at[r] \div WindowLen[w]

\* Request r has a scope that k counts for.
Concerns(r, k) == \E i \in 1..NumScopes(r) : ScopesFor(r)[i] = k[2]

\* checkAndCount has read the budgets of k's scope and found none used up.
ReadLow(r, k) ==
    \E i \in 1..NumScopes(r) :
        ScopesFor(r)[i] = k[2] /\ pos[r] > NumEntries(r) + i /\ NumEntries(r) + i \notin over[r]

\* Entry i or a later one of the accounting batch is for k.
Unspent(r, k) == \E i \in 1..BatchLen(r) : i >= pos[r] /\ AccountEntry(r, i).key = k

MayAdd(r, k) ==
    \/ /\ pc[r] = "check"
       /\ Bucket(r, k[3]) < k[4] \/ (Bucket(r, k[3]) = k[4] /\ ReadLow(r, k))
    \/ /\ pc[r] = "upstream"
       /\ Bucket(r, k[3]) < k[4] \/ (Bucket(r, k[3]) = k[4] /\ Concerns(r, k))
    \/ pc[r] = "account" /\ Unspent(r, k)

Pending(s, k) == {r \in Requests : Home(r) = s /\ MayAdd(r, k)}

UsageKeys == {k \in Keys : k[1] \in {"tok", "cost"}}

Bounded(s, k, j) ==
    (<<k[1], k[3]>> = Budget[j] /\ BudgetLimit[k[2]][j] > 0) =>
        Get(count[s], k) + MaxUsage * Cardinality(Pending(s, k))
            < BudgetLimit[k[2]][j] + MaxConcurrent * MaxUsage

\* Nothing is accounted in a bucket that has not begun.
FutureEmpty ==
    \A s \in Stores, k \in UsageKeys : k[4] > now \div WindowLen[k[3]] => Get(count[s], k) = 0

Clock == \A r \in Requests : at[r] <= now /\ acctAt[r] <= now
UseBound == \A r \in Requests : use[r].tok <= MaxUsage /\ use[r].cost <= MaxUsage
Crowd == Cardinality(InFlight) <= MaxConcurrent

BInv ==
    /\ IInv
    /\ Clock /\ UseBound /\ Crowd /\ FutureEmpty
    /\ \A s \in Stores, k \in UsageKeys, j \in 1..4 : Bounded(s, k, j)

\* Windows follow the clock.
LEMMA DivMono == \A a, b \in Nat, w \in Nat \ {0} : a <= b => a \div w <= b \div w
  BY Z3

\* Multiplication is monotone.
LEMMA MulMono ==
  ASSUME NEW m \in Nat, NEW a \in Nat, NEW b \in Nat, a <= b
  PROVE  m * a \in Nat /\ m * b \in Nat /\ m * a <= m * b
  <1>1. PICK d \in Nat : b = a + d
    <2>1. b - a \in Nat /\ b = a + (b - a)
      OBVIOUS
    <2> QED BY <2>1
  <1>2. m * a \in Nat /\ m * d \in Nat
    OBVIOUS
  <1>3. m * b = m * a + m * d
    BY <1>1
  <1> QED BY <1>2, <1>3

\* One less is m less.
LEMMA MulPred ==
  ASSUME NEW m \in Nat, NEW a \in Nat \ {0}
  PROVE  m * (a - 1) \in Nat /\ m * a = m * (a - 1) + m
  OBVIOUS

\* The parts of a usage counter's name.
LEMMA UsageKeyParts ==
  ASSUME NEW k \in UsageKeys
  PROVE  /\ k \in Keys /\ k[1] \in {"tok", "cost"} /\ k[2] \in Scopes /\ k[3] \in Windows
         /\ k[4] \in Nat /\ k = <<k[1], k[2], k[3], k[4]>> /\ WindowLen[k[3]] \in Nat \ {0}
  BY LimitAssumption DEF UsageKeys, Keys

\* Counters are integers.
LEMMA GetType ==
  ASSUME TInv, NEW s \in Stores, NEW k
  PROVE  Get(count[s], k) \in Int
  BY DEF TInv, TypeOK, Get

\* The requests that may still add are in flight, and finitely many.
LEMMA PendingFinite ==
  ASSUME NEW s, NEW k
  PROVE  /\ Pending(s, k) \subseteq InFlight /\ IsFiniteSet(Pending(s, k)) /\ IsFiniteSet(InFlight)
         /\ Cardinality(Pending(s, k)) \in Nat /\ Cardinality(InFlight) \in Nat
         /\ Cardinality(Pending(s, k)) <= Cardinality(InFlight)
  <1>1. Pending(s, k) \subseteq InFlight
    BY DEF Pending, MayAdd, InFlight
  <1>2. InFlight \subseteq Requests
    BY DEF InFlight
  <1>3. IsFiniteSet(InFlight)
    BY <1>2, RequestsFinite, FS_Subset
  <1>4. IsFiniteSet(Pending(s, k)) /\ Cardinality(Pending(s, k)) <= Cardinality(InFlight)
    BY <1>1, <1>3, FS_Subset
  <1> QED BY <1>1, <1>3, <1>4, FS_CardinalityType

\* The rest of the bound: limits and the most that can be in flight.
LEMMA BoundParts ==
  ASSUME NEW k \in UsageKeys, NEW j \in 1..4
  PROVE  BudgetLimit[k[2]][j] \in Nat /\ MaxUsage \in Nat /\ MaxConcurrent \in Nat
  BY UsageKeyParts, LimitAssumption, UsageAssumption, BoundAssumption

\* A counter that nobody adds to and that no request joins keeps its bound.
LEMMA BoundedStays ==
  ASSUME TInv, TInv', NEW s \in Stores, NEW k \in UsageKeys, NEW j \in 1..4, Bounded(s, k, j),
         Get(count'[s], k) = Get(count[s], k), Pending(s, k)' \subseteq Pending(s, k)
  PROVE  Bounded(s, k, j)'
  <1> SUFFICES ASSUME <<k[1], k[3]>> = Budget[j], BudgetLimit[k[2]][j] > 0
               PROVE  Get(count'[s], k) + MaxUsage * Cardinality(Pending(s, k)')
                        < BudgetLimit[k[2]][j] + MaxConcurrent * MaxUsage
    BY DEF Bounded
  <1>1. PICK a \in Nat : a = Cardinality(Pending(s, k)) /\ IsFiniteSet(Pending(s, k))
    BY PendingFinite
  <1>2. PICK P : P = Pending(s, k)'
    OBVIOUS
  <1>3. IsFiniteSet(P) /\ Cardinality(P) <= a
    BY <1>1, <1>2, FS_Subset
  <1>4. PICK b \in Nat : b = Cardinality(P) /\ b <= a
    BY <1>3, FS_CardinalityType
  <1>5. PICK g \in Int : g = Get(count[s], k)
    BY GetType
  <1>6. MaxUsage * b \in Nat /\ MaxUsage * a \in Nat /\ MaxUsage * b <= MaxUsage * a
    BY <1>4, BoundParts, MulMono
  <1>7. g + MaxUsage * a < BudgetLimit[k[2]][j] + MaxConcurrent * MaxUsage
    BY <1>1, <1>5 DEF Bounded
  <1>8. PICK R \in Int : R = BudgetLimit[k[2]][j] + MaxConcurrent * MaxUsage
    BY BoundParts
  <1>9. PICK x \in Nat, y \in Nat : x = MaxUsage * a /\ y = MaxUsage * b /\ y <= x
    BY <1>6
  <1>10. g + x < R
    BY <1>7, <1>8, <1>9
  <1>11. g + y < R
    BY <1>9, <1>10
  <1> QED BY <1>2, <1>4, <1>5, <1>8, <1>9, <1>11

\* A counter below its limit has its bound whoever may add to it.
LEMMA BoundedBelow ==
  ASSUME TInv', Crowd', NEW s \in Stores, NEW k \in UsageKeys, NEW j \in 1..4,
         Get(count'[s], k) < BudgetLimit[k[2]][j]
  PROVE  Bounded(s, k, j)'
  <1>0. MaxUsage \in Nat /\ MaxConcurrent \in Nat /\ BudgetLimit[k[2]][j] \in Nat
    BY BoundParts
  <1>1. PICK b : b = Cardinality(Pending(s, k)')
    OBVIOUS
  <1>2. PICK F : F = InFlight'
    OBVIOUS
  <1>3. /\ Pending(s, k)' \subseteq F /\ F \subseteq Requests
    BY <1>2 DEF Pending, MayAdd, InFlight
  <1>4. IsFiniteSet(F)
    BY <1>3, RequestsFinite, FS_Subset
  <1>5. Cardinality(F) \in Nat /\ Cardinality(F) <= MaxConcurrent
    BY <1>2, <1>4, FS_CardinalityType DEF Crowd
  <1>6. b \in Nat /\ b <= Cardinality(F)
    <2>1. PICK P \in SUBSET F : P = Pending(s, k)'
      BY <1>3
    <2>2. IsFiniteSet(P) /\ Cardinality(P) <= Cardinality(F)
      BY <1>4, FS_Subset
    <2> QED BY <1>1, <2>1, <2>2, FS_CardinalityType
  <1>7. b <= MaxConcurrent
    BY <1>0, <1>5, <1>6
  <1>8. MaxUsage * b \in Nat /\ MaxUsage * MaxConcurrent \in Nat
        /\ MaxUsage * b <= MaxUsage * MaxConcurrent
    BY <1>0, <1>6, <1>7, MulMono
  <1>9. MaxConcurrent * MaxUsage = MaxUsage * MaxConcurrent
    BY <1>0
  <1>10. PICK g \in Int : g = Get(count'[s], k)
    BY DEF TInv, TypeOK, Get
  <1>11. PICK x \in Nat, y \in Nat : x = MaxUsage * b /\ y = MaxUsage * MaxConcurrent /\ x <= y
    BY <1>8
  <1>12. g + x < BudgetLimit[k[2]][j] + y
    BY <1>0, <1>10, <1>11
  <1> QED BY <1>1, <1>9, <1>10, <1>11, <1>12 DEF Bounded

\* The other requests are where they were.
OthersAs(r) ==
    \A q \in Requests : q # r =>
        /\ pc'[q] = pc[q] /\ at'[q] = at[q] /\ acctAt'[q] = acctAt[q] /\ pos'[q] = pos[q]
        /\ over'[q] = over[q] /\ use'[q] = use[q]

\* Such a request may add what it could before.
LEMMA MayAddFrame ==
  ASSUME NEW q \in Requests, NEW k,
         pc'[q] = pc[q], at'[q] = at[q], acctAt'[q] = acctAt[q], pos'[q] = pos[q],
         over'[q] = over[q], use'[q] = use[q]
  PROVE  MayAdd(q, k)' <=> MayAdd(q, k)
  <1>1. Bucket(q, k[3])' = Bucket(q, k[3])
    BY DEF Bucket
  <1>2. ReadLow(q, k)' <=> ReadLow(q, k)
    BY DEF ReadLow, NumScopes, ScopesFor, NumEntries
  <1>3. Concerns(q, k)' <=> Concerns(q, k)
    BY DEF Concerns, NumScopes, ScopesFor
  <1>4. BatchLen(q)' = BatchLen(q)
    BY DEF BatchLen, NumEntries, NumScopes, NumUndo, NumRej, UsagePerScope
  <1>5. \A i : AccountEntry(q, i)' = AccountEntry(q, i)
    BY DEF AccountEntry, Key, UsageMetric, ScopesFor, UsagePerScope
  <1>6. Unspent(q, k)' <=> Unspent(q, k)
    BY <1>4, <1>5 DEF Unspent
  <1> QED BY <1>1, <1>2, <1>3, <1>6 DEF MayAdd

\* A step of r in which r joins no counter and nobody adds to one.
LEMMA QuietStep ==
  ASSUME BInv, TInv', NEW r \in Requests, OthersAs(r), count' = count,
         \A k \in UsageKeys : MayAdd(r, k)' => MayAdd(r, k)
  PROVE  \A s \in Stores, k \in UsageKeys, j \in 1..4 : Bounded(s, k, j)'
  <1> TAKE s \in Stores, k \in UsageKeys, j \in 1..4
  <1>1. Bounded(s, k, j) /\ TInv
    BY DEF BInv, IInv
  <1>2. ASSUME NEW q \in Requests PROVE MayAdd(q, k)' => MayAdd(q, k)
    <2>1. CASE q = r
      BY <2>1
    <2>2. CASE q # r
      BY <2>2, MayAddFrame DEF OthersAs
    <2> QED BY <2>1, <2>2
  <1>3. Pending(s, k)' \subseteq Pending(s, k)
    BY <1>2 DEF Pending, Home
  <1>4. Get(count'[s], k) = Get(count[s], k)
    OBVIOUS
  <1> QED BY <1>1, <1>3, <1>4, BoundedStays

\* Places in the accounting batch, by scope, window and metric.
LEMMA PlacesOfSix ==
  \A i, j \in Nat \ {0} :
    (/\ (i - 1) \div 6 = (j - 1) \div 6 /\ (i - 1) % 3 = (j - 1) % 3
     /\ (i - 1) % 6 < 3 <=> (j - 1) % 6 < 3) => i = j
  BY Z3

\* The same with one metric.
LEMMA PlacesOfThree ==
  \A i, j \in Nat \ {0} :
    ((i - 1) \div 3 = (j - 1) \div 3 /\ (i - 1) % 3 = (j - 1) % 3) => i = j
  BY Z3

\* The parts of an accounting entry.
LEMMA AccountParts ==
  ASSUME TInv, UseBound, NEW r \in Requests, pc[r] = "account", NEW i \in 1..BatchLen(r)
  PROVE  /\ UsagePerScope(r) \in {3, 6} /\ BatchLen(r) = UsagePerScope(r) * NumScopes(r)
         /\ i \in Nat \ {0} /\ ((i - 1) \div UsagePerScope(r)) + 1 \in 1..NumScopes(r)
         /\ AccountEntry(r, i).key[1] = UsageMetric(r, i)
         /\ AccountEntry(r, i).key[2] = ScopesFor(r)[((i - 1) \div UsagePerScope(r)) + 1]
         /\ AccountEntry(r, i).key[3] = UsageWindow[((i - 1) % 3) + 1]
         /\ AccountEntry(r, i).key[4] = acctAt[r] \div WindowLen[UsageWindow[((i - 1) % 3) + 1]]
         /\ AccountEntry(r, i).key \in UsageKeys
         /\ AccountEntry(r, i).delta \in Nat /\ AccountEntry(r, i).delta <= MaxUsage
  <1> DEFINE u == UsagePerScope(r)
             x == ((i - 1) \div u) + 1
             w == UsageWindow[((i - 1) % 3) + 1]
             m == UsageMetric(r, i)
  <1>0. NumScopes(r) \in Nat \ {0}
    BY ScopesForType
  <1>1. u \in {3, 6} /\ BatchLen(r) = u * NumScopes(r)
    BY DEF UsagePerScope, BatchLen
  <1>2. i \in Nat \ {0} /\ i <= u * NumScopes(r)
    BY <1>0, <1>1
  <1>3. x \in 1..NumScopes(r)
    BY <1>0, <1>1, <1>2, DivSix, DivThree
  <1>4. w \in Windows
    <2>1. (i - 1) % 3 \in 0..2
      BY <1>2
    <2> QED BY <2>1 DEF UsageWindow, Windows
  <1>5. m \in {"tok", "cost"} /\ m \in Metrics
    BY DEF UsageMetric, Metrics
  <1>6. ScopesFor(r)[x] \in Scopes
    BY <1>3, ScopesForType
  <1>7. acctAt[r] \in Nat
    BY DEF TInv, TypeOK
  <1> HIDE DEF u, x, w, m
  <1>8. /\ AccountEntry(r, i) = [key |-> Key(m, ScopesFor(r)[x], w, acctAt[r]), delta |-> use[r][m]]
    BY DEF AccountEntry, u, x, w, m
  <1>9. Key(m, ScopesFor(r)[x], w, acctAt[r]) \in Keys
    BY <1>4, <1>5, <1>6, <1>7, KeyType
  <1>10. use[r][m] \in Nat /\ use[r][m] <= MaxUsage
    BY <1>5 DEF TInv, TypeOK, UseBound
  <1>11. /\ AccountEntry(r, i).key = <<m, ScopesFor(r)[x], w, acctAt[r] \div WindowLen[w]>>
         /\ AccountEntry(r, i).delta = use[r][m]
    BY <1>8 DEF Key
  <1>12. AccountEntry(r, i).key \in UsageKeys
    BY <1>5, <1>8, <1>9, <1>11 DEF UsageKeys
  <1> QED BY <1>1, <1>2, <1>3, <1>10, <1>11, <1>12 DEF u, x, w, m

\* accountWith adds to each counter once.
LEMMA AccountInjective ==
  ASSUME TInv, UseBound, NEW r \in Requests, pc[r] = "account",
         NEW i \in 1..BatchLen(r), NEW j \in 1..BatchLen(r),
         AccountEntry(r, i).key = AccountEntry(r, j).key
  PROVE  i = j
  <1> DEFINE u == UsagePerScope(r)
  <1>0. u \in {3, 6} /\ i \in Nat \ {0} /\ j \in Nat \ {0}
    BY AccountParts
  <1>1. ((i - 1) \div u) + 1 = ((j - 1) \div u) + 1
    <2>1. ScopesFor(r)[((i - 1) \div u) + 1] = ScopesFor(r)[((j - 1) \div u) + 1]
      BY AccountParts
    <2>2. ((i - 1) \div u) + 1 \in 1..NumScopes(r) /\ ((j - 1) \div u) + 1 \in 1..NumScopes(r)
      BY AccountParts
    <2> QED BY <2>1, <2>2, ScopesForType
  <1>2. (i - 1) \div u = (j - 1) \div u
    BY <1>0, <1>1
  <1>3. (i - 1) % 3 = (j - 1) % 3
    <2>1. UsageWindow[((i - 1) % 3) + 1] = UsageWindow[((j - 1) % 3) + 1]
      BY AccountParts
    <2>2. (i - 1) % 3 \in 0..2 /\ (j - 1) % 3 \in 0..2
      BY <1>0
    <2> QED BY <2>1, <2>2 DEF UsageWindow
  <1>4. UsageMetric(r, i) = UsageMetric(r, j)
    BY AccountParts
  <1>5. CASE u = 3
    BY <1>0, <1>2, <1>3, <1>5, PlacesOfThree
  <1>6. CASE u = 6
    <2>1. use[r].tok # 0 /\ use[r].cost # 0
      BY <1>6 DEF UsagePerScope
    <2>2. (i - 1) % 6 < 3 <=> (j - 1) % 6 < 3
      BY <1>4, <2>1 DEF UsageMetric
    <2> QED BY <1>0, <1>2, <1>3, <1>6, <2>2, PlacesOfSix
  <1> QED BY <1>0, <1>5, <1>6

\* Of the other batches no entry is on a usage counter.
LEMMA OtherEntries ==
  ASSUME TInv, NEW r \in Requests, IsIncrement(r), pc[r] # "account"
  PROVE  Entry(r).key \notin UsageKeys
  <1>1. pc[r] \in {"check", "settle"}
    BY DEF IsIncrement, BatchPhases
  <1>2. Entry(r).key[1] \in {"req", "rej"}
    <2>1. CASE pc[r] = "check"
      BY <2>1 DEF Entry, CheckEntry, ReqKey, Key
    <2>2. CASE pc[r] = "settle" /\ pos[r] <= NumUndo(r)
      BY <2>2 DEF Entry, SettleEntry, ReqKey, Key
    <2>3. CASE pc[r] = "settle" /\ ~(pos[r] <= NumUndo(r))
      BY <2>3 DEF Entry, SettleEntry, RejKey, Key
    <2> QED BY <1>1, <2>1, <2>2, <2>3
  <1> QED BY <1>2 DEF UsageKeys

\* An entry of a batch is applied.
LEMMA BoundedApply ==
  ASSUME BInv, TInv', NEW r \in Requests, Apply(r)
  PROVE  \A s \in Stores, k \in UsageKeys, j \in 1..4 : Bounded(s, k, j)'
  <1>0. TInv /\ TypeOK /\ UseBound /\ IInv /\ IsIncrement(r) /\ pos[r] \in Nat \ {0}
    BY DEF BInv, IInv, TInv, TypeOK, Apply
  <1>1. /\ UNCHANGED <<pc, at, acctAt, use>> /\ pos' = [pos EXCEPT ![r] = @ + 1]
        /\ \A q \in Requests : q # r => over'[q] = over[q]
        /\ over'[r] \subseteq over[r] \cup {pos[r]} /\ (pc[r] # "check" => over' = over)
        /\ over[r] \subseteq over'[r]
    BY <1>0 DEF Apply, TypeOK
  <1>2. pos'[r] = pos[r] + 1 /\ OthersAs(r)
    BY <1>0, <1>1 DEF TypeOK, OthersAs
  <1>3. ASSUME NEW q \in Requests, q # r, NEW k PROVE MayAdd(q, k)' <=> MayAdd(q, k)
    BY <1>2, <1>3, MayAddFrame DEF OthersAs
  <1>4. CASE pc[r] # "account"
    <2>1. ASSUME NEW k \in UsageKeys PROVE MayAdd(r, k)' => MayAdd(r, k)
      <3>1. CASE pc[r] = "check"
        <4>1. pos[r] <= NumEntries(r) /\ NumEntries(r) \in Nat
          BY <1>0, <3>1, UndoCount DEF IsIncrement
        <4>2. \A i \in Nat \ {0} : ~(pos[r] + 1 > NumEntries(r) + i)
          BY <1>0, <4>1
        <4>3. \A i \in 1..NumScopes(r) : i \in Nat \ {0}
          BY UndoCount
        <4>4. ~ReadLow(r, k)'
          BY <1>2, <4>2, <4>3 DEF ReadLow, NumScopes, ScopesFor, NumEntries
        <4>5. Bucket(r, k[3])' = Bucket(r, k[3]) /\ pc'[r] = "check"
          BY <1>1, <3>1 DEF Bucket
        <4> QED BY <3>1, <4>4, <4>5 DEF MayAdd
      <3>2. CASE pc[r] = "settle"
        BY <1>1, <3>2 DEF MayAdd
      <3> QED BY <1>0, <1>4, <3>1, <3>2 DEF IsIncrement, BatchPhases
    <2> TAKE s \in Stores, k \in UsageKeys, j \in 1..4
    <2>2. Pending(s, k)' \subseteq Pending(s, k)
      BY <1>3, <2>1 DEF Pending, Home
    <2>3. Get(count'[s], k) = Get(count[s], k)
      <3>1. k # Entry(r).key
        BY <1>0, <1>4, OtherEntries
      <3> QED BY <1>0, <3>1, ApplyEffect, UsageKeyParts
    <2>4. Bounded(s, k, j)
      BY DEF BInv
    <2> QED BY <1>0, <2>2, <2>3, <2>4, BoundedStays
  <1>5. CASE pc[r] = "account"
    <2> DEFINE n == pos[r]
               L == BatchLen(r)
    <2>0. L \in Nat
      BY <1>5, UndoCount DEF BatchLen, UsagePerScope
    <2>1. n \in 1..L
      <3>1. n <= L /\ n \in Nat \ {0}
        BY <1>0, <1>5 DEF IsIncrement
      <3> QED BY <2>0, <3>1
    <2>2. PICK k0 \in UsageKeys : k0 = AccountEntry(r, n).key
      BY <1>0, <1>5, <2>1, AccountParts
    <2>3. PICK d \in Nat : d = AccountEntry(r, n).delta /\ d <= MaxUsage
      BY <1>0, <1>5, <2>1, AccountParts
    <2>4. Entry(r).key = k0 /\ Entry(r).delta = d
      BY <1>5, <2>2, <2>3 DEF Entry
    <2>5. PICK s0 \in Stores : s0 = Home(r) /\ s0 = st[r]
      BY <1>0, ApplyEffect
    <2>6. /\ BatchLen(r)' = L /\ \A i : AccountEntry(r, i)' = AccountEntry(r, i)
      BY <1>1, <1>5 DEF BatchLen, NumEntries, NumScopes, NumUndo, NumRej, UsagePerScope,
                        AccountEntry, Key, UsageMetric, ScopesFor
    <2>7. \A k : MayAdd(r, k) <=> \E i \in 1..L : i >= n /\ AccountEntry(r, i).key = k
      BY <1>5 DEF MayAdd, Unspent
    <2>8. \A k : MayAdd(r, k)' <=> \E i \in 1..L : i >= n + 1 /\ AccountEntry(r, i).key = k
      BY <1>1, <1>2, <1>5, <2>6 DEF MayAdd, Unspent
    <2>9. \A k : MayAdd(r, k)' => MayAdd(r, k)
      <3>0. n \in Nat
        BY <1>0
      <3>1. \A i \in 1..L : i >= n + 1 => i >= n
        <4> HIDE DEF n, L
        <4> QED BY <2>0, <3>0
      <3> QED BY <2>7, <2>8, <3>1
    <2>10. MayAdd(r, k0) /\ ~MayAdd(r, k0)'
      <3>1. MayAdd(r, k0)
        BY <2>1, <2>2, <2>7
      <3>2. \A i \in 1..L : i >= n + 1 => AccountEntry(r, i).key # k0
        <4> SUFFICES ASSUME NEW i \in 1..L, i >= n + 1, AccountEntry(r, i).key = k0 PROVE FALSE
          OBVIOUS
        <4>1. i = n
          BY <1>0, <1>5, <2>1, <2>2, AccountInjective
        <4> QED BY <1>0, <4>1
      <3> QED BY <2>8, <3>1, <3>2
    <2> HIDE DEF n, L
    <2> TAKE s \in Stores, k \in UsageKeys, j \in 1..4
    <2>11. Bounded(s, k, j)
      BY DEF BInv
    <2>12. CASE s # s0 \/ k # k0
      <3>1. Pending(s, k)' \subseteq Pending(s, k)
        BY <1>3, <2>9 DEF Pending, Home
      <3>2. Get(count'[s], k) = Get(count[s], k)
        BY <1>0, <2>4, <2>5, <2>12, ApplyEffect, UsageKeyParts
      <3> QED BY <1>0, <2>11, <3>1, <3>2, BoundedStays
    <2>13. CASE s = s0 /\ k = k0
      <3> SUFFICES ASSUME <<k[1], k[3]>> = Budget[j], BudgetLimit[k[2]][j] > 0
                   PROVE  Get(count'[s], k) + MaxUsage * Cardinality(Pending(s, k)')
                            < BudgetLimit[k[2]][j] + MaxConcurrent * MaxUsage
        BY DEF Bounded
      <3>1. Pending(s, k)' = Pending(s, k) \ {r} /\ r \in Pending(s, k)
        BY <1>3, <2>5, <2>10, <2>13 DEF Pending, Home
      <3>2. PICK a \in Nat : a = Cardinality(Pending(s, k)) /\ IsFiniteSet(Pending(s, k))
        BY PendingFinite
      <3>3. PICK P : P = Pending(s, k) \ {r}
        OBVIOUS
      <3>4. IsFiniteSet(P) /\ Cardinality(P) = a - 1
        BY <3>1, <3>2, <3>3, FS_RemoveElement
      <3>5. a - 1 \in Nat /\ a # 0
        BY <3>2, <3>4, FS_CardinalityType
      <3>6. PICK g \in Int : g = Get(count[s], k)
        BY <1>0, GetType
      <3>7. Get(count'[s], k) = g + d
        BY <1>0, <2>4, <2>5, <2>13, <3>6, ApplyEffect
      <3>8. MaxUsage \in Nat /\ MaxConcurrent \in Nat /\ BudgetLimit[k[2]][j] \in Nat
        BY BoundParts
      <3>9. PICK y \in Nat : y = MaxUsage * (a - 1) /\ MaxUsage * a = y + MaxUsage
        BY <3>5, <3>8, MulPred
      <3>10. PICK R \in Int : R = BudgetLimit[k[2]][j] + MaxConcurrent * MaxUsage
        BY <3>8
      <3>11. g + (y + MaxUsage) < R
        BY <2>11, <3>2, <3>6, <3>9, <3>10 DEF Bounded
      <3>12. g + d + y < R
        BY <2>3, <3>8, <3>11
      <3> QED BY <3>1, <3>3, <3>4, <3>7, <3>9, <3>10, <3>12
    <2> QED BY <2>12, <2>13
  <1> QED BY <1>4, <1>5


\* A step of r in which nobody adds to a counter, and r joins those only whose
\* count is below their limit.
LEMMA JoinStep ==
  ASSUME BInv, TInv', Crowd', NEW r \in Requests, OthersAs(r), count' = count,
         \A k \in UsageKeys, j \in 1..4 :
            (/\ MayAdd(r, k)' /\ ~MayAdd(r, k)
             /\ <<k[1], k[3]>> = Budget[j] /\ BudgetLimit[k[2]][j] > 0)
               => Get(count[Home(r)], k) < BudgetLimit[k[2]][j]
  PROVE  \A s \in Stores, k \in UsageKeys, j \in 1..4 : Bounded(s, k, j)'
  <1> TAKE s \in Stores, k \in UsageKeys, j \in 1..4
  <1>1. Bounded(s, k, j) /\ TInv
    BY DEF BInv, IInv
  <1>2. CASE ~(<<k[1], k[3]>> = Budget[j] /\ BudgetLimit[k[2]][j] > 0)
    BY <1>2 DEF Bounded
  <1>3. CASE /\ <<k[1], k[3]>> = Budget[j] /\ BudgetLimit[k[2]][j] > 0
             /\ s = Home(r) /\ MayAdd(r, k)' /\ ~MayAdd(r, k)
    <2>1. Get(count'[s], k) < BudgetLimit[k[2]][j]
      BY <1>3
    <2> QED BY <2>1, BoundedBelow
  <1>4. CASE s # Home(r) \/ ~MayAdd(r, k)' \/ MayAdd(r, k)
    <2>1. ASSUME NEW q \in Requests, q # r PROVE MayAdd(q, k)' <=> MayAdd(q, k)
      BY <2>1, MayAddFrame DEF OthersAs
    <2>2. Pending(s, k)' \subseteq Pending(s, k)
      BY <1>4, <2>1 DEF Pending, Home
    <2>3. Get(count'[s], k) = Get(count[s], k)
      OBVIOUS
    <2> QED BY <1>1, <2>2, <2>3, BoundedStays
  <1> QED BY <1>2, <1>3, <1>4

\* A request arrives: it may add to the buckets to come, which are empty.
LEMMA BoundedArrive ==
  ASSUME BInv, TInv', Crowd', NEW r \in Requests, Arrive(r), Home(r) \in Stores
  PROVE  \A s \in Stores, k \in UsageKeys, j \in 1..4 : Bounded(s, k, j)'
  <1>0. TInv /\ TypeOK /\ FutureEmpty
    BY DEF BInv, IInv, TInv
  <1>1. /\ pc'[r] \in {"check", "refused"} /\ pos'[r] = 1 /\ at'[r] = now /\ count' = count
    BY <1>0 DEF Arrive, Begin, AfterFailure, TypeOK
  <1>2. OthersAs(r)
    BY <1>0 DEF Arrive, Begin, OthersAs, TypeOK
  <1>3. ASSUME NEW k \in UsageKeys, NEW j \in 1..4, MayAdd(r, k)', BudgetLimit[k[2]][j] > 0
        PROVE  Get(count[Home(r)], k) < BudgetLimit[k[2]][j]
    <2>1. \A i \in 1..NumScopes(r) : ~(1 > NumEntries(r) + i)
      BY UndoCount
    <2>2. ~ReadLow(r, k)'
      BY <1>1, <2>1 DEF ReadLow, NumScopes, ScopesFor, NumEntries
    <2>3. now \div WindowLen[k[3]] < k[4]
      BY <1>1, <1>3, <2>2 DEF MayAdd, Bucket
    <2>4. now \div WindowLen[k[3]] \in Nat /\ k[4] \in Nat
      BY <1>0, UsageKeyParts, DivNat DEF TypeOK
    <2>5. k[4] > now \div WindowLen[k[3]]
      BY <2>3, <2>4
    <2>6. Get(count[Home(r)], k) = 0
      BY <1>0, <2>5 DEF FutureEmpty
    <2> QED BY <1>3, <2>6
  <1> QED BY <1>1, <1>2, <1>3, JoinStep

\* A scope's budgets are read: r joins those that are not used up.
LEMMA BoundedRead ==
  ASSUME BInv, TInv', Crowd', NEW r \in Requests, ReadBudgets(r)
  PROVE  \A s \in Stores, k \in UsageKeys, j \in 1..4 : Bounded(s, k, j)'
  <1>0. TInv /\ TypeOK /\ AtHome
    BY DEF BInv, IInv, TInv
  <1> DEFINE n == pos[r]
             N == NumEntries(r)
  <1>1. /\ pc[r] = "check" /\ pc'[r] = "check" /\ at'[r] = at[r] /\ count' = count
        /\ pos'[r] = n + 1 /\ n > N /\ n \in Nat /\ st[r] = Home(r) /\ over[r] \subseteq over'[r]
    BY <1>0 DEF ReadBudgets, TypeOK, AtHome, BatchPhases
  <1>2. OthersAs(r)
    BY <1>0 DEF ReadBudgets, OthersAs, TypeOK
  <1>3. n \notin over'[r] => ~OverBudget(count[st[r]], ScopesFor(r)[n - N], at[r])
    BY <1>0 DEF ReadBudgets, TypeOK
  <1>4. ASSUME NEW k \in UsageKeys, NEW j \in 1..4, MayAdd(r, k)', ~MayAdd(r, k),
               <<k[1], k[3]>> = Budget[j], BudgetLimit[k[2]][j] > 0
        PROVE  Get(count[Home(r)], k) < BudgetLimit[k[2]][j]
    <2>1. Bucket(r, k[3])' = Bucket(r, k[3])
      BY <1>1 DEF Bucket
    <2>2. Bucket(r, k[3]) = k[4] /\ ReadLow(r, k)' /\ ~ReadLow(r, k)
      BY <1>1, <1>4, <2>1 DEF MayAdd
    <2>3. PICK i \in 1..NumScopes(r) : ScopesFor(r)[i] = k[2] /\ n + 1 > N + i /\ N + i \notin over'[r]
      BY <1>1, <2>2 DEF ReadLow, NumScopes, ScopesFor, NumEntries
    <2>4. ~(n > N + i)
      BY <1>1, <2>2, <2>3 DEF ReadLow
    <2>5. N \in Nat /\ i \in Nat
      BY UndoCount
    <2>6. n = N + i /\ n - N = i
      <3> HIDE DEF n, N
      <3> QED BY <1>1, <2>3, <2>4, <2>5
    <2>7. ~OverBudget(count[st[r]], k[2], at[r])
      BY <1>3, <2>3, <2>6
    <2>8. Key(Budget[j][1], k[2], Budget[j][2], at[r]) = k
      <3>1. Budget[j][1] = k[1] /\ Budget[j][2] = k[3]
        BY <1>4
      <3>2. at[r] \div WindowLen[k[3]] = k[4]
        BY <2>2 DEF Bucket
      <3>3. k = <<k[1], k[2], k[3], k[4]>>
        BY UsageKeyParts
      <3> QED BY <3>1, <3>2, <3>3 DEF Key
    <2>9. ~(Get(count[Home(r)], k) >= BudgetLimit[k[2]][j])
      BY <1>1, <1>4, <2>7, <2>8 DEF OverBudget
    <2>10. Get(count[Home(r)], k) \in Int /\ BudgetLimit[k[2]][j] \in Nat
      <3>1. Home(r) \in Stores
        BY <1>0, <1>1 DEF TInv, BatchPhases
      <3> QED BY <1>0, <3>1, GetType, BoundParts
    <2> QED BY <2>9, <2>10
  <1> QED BY <1>1, <1>2, <1>4, JoinStep

\* A request is admitted: it has read all its budgets below their limits.
LEMMA BoundedAdmit ==
  ASSUME BInv, TInv', NEW r \in Requests, Admit(r)
  PROVE  \A s \in Stores, k \in UsageKeys, j \in 1..4 : Bounded(s, k, j)'
  <1>0. TInv /\ TypeOK
    BY DEF BInv, IInv, TInv
  <1>1. /\ pc[r] = "check" /\ pc'[r] = "upstream" /\ at'[r] = at[r] /\ count' = count
        /\ pos[r] > BatchLen(r) /\ pos[r] \in Nat
    BY <1>0 DEF Admit, TypeOK
  <1>2. OthersAs(r)
    BY <1>0 DEF Admit, OthersAs, TypeOK
  <1>3. ASSUME NEW k \in UsageKeys PROVE MayAdd(r, k)' => MayAdd(r, k)
    <2>1. Bucket(r, k[3])' = Bucket(r, k[3])
      BY <1>1 DEF Bucket
    <2>2. Concerns(r, k)' => ReadLow(r, k)
      <3> SUFFICES ASSUME Concerns(r, k)' PROVE ReadLow(r, k)
        OBVIOUS
      <3>1. PICK i \in 1..NumScopes(r) : ScopesFor(r)[i] = k[2]
        BY DEF Concerns, NumScopes, ScopesFor
      <3>2. NumEntries(r) \in Nat /\ NumScopes(r) \in Nat /\ i \in Nat \ {0} /\ i <= NumScopes(r)
        BY UndoCount
      <3>3. pos[r] > NumEntries(r) + i
        <4>1. BatchLen(r) = NumEntries(r) + NumScopes(r)
          BY <1>1 DEF BatchLen
        <4> QED BY <1>1, <3>2, <4>1
      <3>4. PosScope(r, NumEntries(r) + i) = i
        BY <3>2 DEF PosScope
      <3>5. NumEntries(r) + i \notin over[r]
        BY <3>1, <3>4 DEF Admit, Violates
      <3> QED BY <3>1, <3>3, <3>5 DEF ReadLow
    <2> QED BY <1>1, <2>1, <2>2 DEF MayAdd
  <1> QED BY <1>1, <1>2, <1>3, QuietStep

\* Usage is accounted: for the scopes the request was admitted under, in buckets
\* that are not before those it was admitted in.
LEMMA BoundedAccount ==
  ASSUME BInv, TInv', NEW r \in Requests, Account(r)
  PROVE  \A s \in Stores, k \in UsageKeys, j \in 1..4 : Bounded(s, k, j)'
  <1>0. TInv /\ TypeOK /\ Clock
    BY DEF BInv, IInv, TInv
  <1>1. /\ pc[r] = "upstream" /\ pc'[r] \in {"account", "done"} /\ acctAt'[r] = now /\ count' = count
    BY <1>0 DEF Account, Begin, AfterFailure, TypeOK
  <1>2. OthersAs(r)
    BY <1>0 DEF Account, Begin, OthersAs, TypeOK
  <1>3. ASSUME NEW k \in UsageKeys, MayAdd(r, k)' PROVE MayAdd(r, k)
    <2>1. pc'[r] = "account" /\ Unspent(r, k)'
      BY <1>1, <1>3 DEF MayAdd
    <2>2. PICK u \in {3, 6} : u = UsagePerScope(r)'
      BY DEF UsagePerScope
    <2>3. BatchLen(r)' = u * NumScopes(r)
      BY <2>1, <2>2 DEF BatchLen, NumScopes
    <2>4. PICK i \in 1..(u * NumScopes(r)) : AccountEntry(r, i)'.key = k
      BY <2>1, <2>3 DEF Unspent
    <2>5. PICK m : m = UsageMetric(r, i)'
      OBVIOUS
    <2> DEFINE x == ((i - 1) \div u) + 1
               w == UsageWindow[((i - 1) % 3) + 1]
    <2>6. x \in 1..NumScopes(r)
      BY <2>2, <2>4, UndoCount, DivSix, DivThree
    <2> HIDE DEF x, w
    <2>7. AccountEntry(r, i)'.key = <<m, ScopesFor(r)[x], w, now \div WindowLen[w]>>
      BY <1>1, <2>2, <2>5 DEF AccountEntry, Key, ScopesFor, x, w
    <2>8. k[2] = ScopesFor(r)[x] /\ k[3] = w /\ k[4] = now \div WindowLen[k[3]]
      BY <2>4, <2>7
    <2>9. Concerns(r, k)
      BY <2>6, <2>8 DEF Concerns
    <2>10. at[r] \in Nat /\ now \in Nat /\ at[r] <= now /\ WindowLen[k[3]] \in Nat \ {0}
      BY <1>0, UsageKeyParts DEF Clock, TypeOK
    <2>11. Bucket(r, k[3]) \in Nat /\ k[4] \in Nat /\ Bucket(r, k[3]) <= k[4]
      BY <2>8, <2>10, DivMono, DivNat DEF Bucket
    <2>12. Bucket(r, k[3]) < k[4] \/ Bucket(r, k[3]) = k[4]
      BY <2>11
    <2> QED BY <1>1, <2>9, <2>12 DEF MayAdd
  <1> QED BY <1>1, <1>2, <1>3, QuietStep

\* A request leaves: it adds nothing more.
LEMMA BoundedLeave ==
  ASSUME BInv, TInv', NEW r \in Requests, OthersAs(r), count' = count,
         pc'[r] \notin {"check", "upstream", "account"}
  PROVE  \A s \in Stores, k \in UsageKeys, j \in 1..4 : Bounded(s, k, j)'
  <1>1. \A k \in UsageKeys : MayAdd(r, k)' => MayAdd(r, k)
    BY DEF MayAdd
  <1> QED BY <1>1, QuietStep

\* A step that leaves the requests and the counters alone.
LEMMA BoundedIdle ==
  ASSUME BInv, TInv', UNCHANGED <<reqVars, count>>
  PROVE  \A s \in Stores, k \in UsageKeys, j \in 1..4 : Bounded(s, k, j)'
  <1> USE DEF reqVars
  <1> TAKE s \in Stores, k \in UsageKeys, j \in 1..4
  <1>1. Bounded(s, k, j) /\ TInv
    BY DEF BInv, IInv
  <1>2. ASSUME NEW q \in Requests PROVE MayAdd(q, k)' <=> MayAdd(q, k)
    BY MayAddFrame
  <1>3. Pending(s, k)' \subseteq Pending(s, k)
    BY <1>2 DEF Pending, Home
  <1>4. Get(count'[s], k) = Get(count[s], k)
    OBVIOUS
  <1> QED BY <1>1, <1>3, <1>4, BoundedStays

\* The clock does not run backwards and instants are captured from it.
LEMMA ClockNext ==
  ASSUME BInv, [Next]_vars
  PROVE  Clock' /\ now' \in Nat /\ now <= now'
  <1> USE DEF reqVars
  <1>0. TypeOK /\ Clock
    BY DEF BInv, IInv, TInv
  <1>1. now \in Nat /\ \A q \in Requests : at[q] \in Nat /\ acctAt[q] \in Nat
    BY <1>0 DEF TypeOK
  <1>2. now' \in Nat /\ now <= now'
    <2>1. now' = now \/ now' = now + 1
      BY DEF Next, Arrive, Apply, ReadBudgets, Resend, StoreFails, Admit, Reject, Settled,
             Account, Accounted, LatchExpires, Tick, vars
    <2> QED BY <1>1, <2>1
  <1>3. ASSUME NEW q \in Requests PROVE at'[q] \in {at[q], now} /\ acctAt'[q] \in {acctAt[q], now}
    BY <1>0 DEF Next, Arrive, Apply, ReadBudgets, Resend, StoreFails, Admit, Reject, Settled,
           Account, Accounted, LatchExpires, Tick, vars, TypeOK
  <1>4. ASSUME NEW q \in Requests PROVE at'[q] <= now' /\ acctAt'[q] <= now'
    <2>1. at[q] <= now /\ acctAt[q] <= now
      BY <1>0 DEF Clock
    <2> QED BY <1>1, <1>2, <1>3, <2>1
  <1> QED BY <1>2, <1>4 DEF Clock

\* No accounted usage is beyond what accountWith finds plausible.
LEMMA UseBoundNext ==
  ASSUME BInv, [Next]_vars
  PROVE  UseBound'
  <1> USE DEF reqVars
  <1>0. TypeOK /\ UseBound
    BY DEF BInv, IInv, TInv
  <1>1. ASSUME NEW r \in Requests, Account(r) PROVE UseBound'
    <2>1. PICK u \in Reported :
            use' = [use EXCEPT ![r] = [tok |-> Plausible(u.tok), cost |-> Plausible(u.cost)]]
      BY <1>1 DEF Account
    <2>2. \A x \in Int : Plausible(x) <= MaxUsage
      BY UsageAssumption DEF Plausible
    <2>3. u.tok \in Int /\ u.cost \in Int
      BY UsageAssumption
    <2>4. use'[r].tok <= MaxUsage /\ use'[r].cost <= MaxUsage
      BY <1>0, <2>1, <2>2, <2>3 DEF TypeOK
    <2>5. \A q \in Requests : q # r => use'[q] = use[q]
      BY <1>0, <2>1 DEF TypeOK
    <2> QED BY <1>0, <2>4, <2>5 DEF UseBound
  <1>2. CASE ~\E r \in Requests : Account(r)
    <2>1. use' = use
      BY <1>2 DEF Next, Arrive, Apply, ReadBudgets, Resend, StoreFails, Admit, Reject, Settled,
             Accounted, LatchExpires, Tick, vars
    <2> QED BY <1>0, <2>1 DEF UseBound
  <1> QED BY <1>1, <1>2

\* Requests are admitted to the limiter up to MaxConcurrent at a time.
LEMMA CrowdNext ==
  ASSUME BInv, [Next]_vars
  PROVE  Crowd'
  <1> USE DEF reqVars
  <1>0. TypeOK /\ Crowd
    BY DEF BInv, IInv, TInv
  <1>1. IsFiniteSet(InFlight) /\ Cardinality(InFlight) \in Nat /\ MaxConcurrent \in Nat
    BY PendingFinite, BoundAssumption
  <1>2. ASSUME NEW r \in Requests, Arrive(r) PROVE Crowd'
    <2>1. InFlight' \subseteq InFlight \cup {r}
      BY <1>0, <1>2 DEF Arrive, Begin, InFlight, TypeOK
    <2>2. /\ IsFiniteSet(InFlight \cup {r})
          /\ Cardinality(InFlight \cup {r}) <= Cardinality(InFlight) + 1
      <3>1. r \notin InFlight
        BY <1>2 DEF Arrive, InFlight
      <3>2. /\ IsFiniteSet(InFlight \cup {r})
            /\ Cardinality(InFlight \cup {r}) = Cardinality(InFlight) + 1
        BY <1>1, <3>1, FS_AddElement
      <3> QED BY <1>1, <3>2
    <2>3. PICK F : F = InFlight'
      OBVIOUS
    <2>4. IsFiniteSet(F) /\ Cardinality(F) <= Cardinality(InFlight \cup {r})
      BY <2>1, <2>2, <2>3, FS_Subset
    <2>5. Cardinality(F) \in Nat /\ Cardinality(InFlight \cup {r}) \in Nat
      BY <2>2, <2>4, FS_CardinalityType
    <2>6. Cardinality(InFlight) < MaxConcurrent
      BY <1>2 DEF Arrive
    <2>7. Cardinality(F) <= MaxConcurrent
      BY <1>1, <2>2, <2>4, <2>5, <2>6
    <2> QED BY <2>3, <2>7 DEF Crowd
  <1>3. CASE ~\E r \in Requests : Arrive(r)
    <2>1. \A q \in Requests : pc'[q] # pc[q] => pc[q] \in BatchPhases \cup {"upstream"}
      BY <1>0, <1>3 DEF Next, Apply, ReadBudgets, Resend, StoreFails, Admit, Reject, Settled,
             Account, Accounted, Begin, LatchExpires, Tick, vars, TypeOK, BatchPhases
    <2>2. InFlight' \subseteq InFlight
      BY <2>1 DEF InFlight, BatchPhases
    <2>3. PICK F : F = InFlight'
      OBVIOUS
    <2>4. IsFiniteSet(F) /\ Cardinality(F) <= Cardinality(InFlight)
      BY <1>1, <2>2, <2>3, FS_Subset
    <2>5. Cardinality(F) \in Nat
      BY <2>4, FS_CardinalityType
    <2>6. Cardinality(F) <= MaxConcurrent
      BY <1>0, <1>1, <2>4, <2>5 DEF Crowd
    <2> QED BY <2>3, <2>6 DEF Crowd
  <1> QED BY <1>2, <1>3

\* Usage is added to the bucket of the instant accountWith captured.
LEMMA FutureNext ==
  ASSUME BInv, [Next]_vars
  PROVE  FutureEmpty'
  <1> USE DEF reqVars
  <1>0. TypeOK /\ TInv /\ IInv /\ UseBound /\ Clock /\ FutureEmpty /\ now \in Nat
    BY DEF BInv, IInv, TInv, TypeOK
  <1>1. now' \in Nat /\ now <= now'
    BY ClockNext
  <1>2. SUFFICES ASSUME NEW s \in Stores, NEW k \in UsageKeys, k[4] > now' \div WindowLen[k[3]]
                 PROVE  Get(count'[s], k) = 0
    BY DEF FutureEmpty
  <1>3. k[4] > now \div WindowLen[k[3]]
    <2>1. PICK w \in Nat \ {0} : w = WindowLen[k[3]]
      BY UsageKeyParts
    <2>2. PICK a \in Nat, b \in Nat : a = now \div w /\ b = now' \div w /\ a <= b
      BY <1>0, <1>1, DivMono, DivNat
    <2>3. k[4] > b /\ k[4] \in Nat
      BY <1>2, <2>1, <2>2, UsageKeyParts
    <2>4. k[4] > a
      BY <2>2, <2>3
    <2> QED BY <2>1, <2>2, <2>4
  <1>4. Get(count[s], k) = 0
    BY <1>0, <1>3 DEF FutureEmpty
  <1>5. ASSUME NEW r \in Requests, Apply(r) PROVE Get(count'[s], k) = 0
    <2>1. IsIncrement(r)
      BY <1>5 DEF Apply
    <2>2. Entry(r).key # k
      <3>1. CASE pc[r] # "account"
        BY <1>0, <2>1, <3>1, OtherEntries
      <3>2. CASE pc[r] = "account"
        <4>1. Entry(r) = AccountEntry(r, pos[r])
          BY <3>2 DEF Entry
        <4>2. pos[r] \in 1..BatchLen(r)
          <5>1. pos[r] \in Nat \ {0} /\ pos[r] <= BatchLen(r)
            BY <1>0, <2>1, <3>2 DEF TypeOK, IsIncrement
          <5>2. BatchLen(r) \in Nat
            BY <3>2, UndoCount DEF BatchLen, UsagePerScope
          <5> QED BY <5>1, <5>2
        <4>3. PICK i \in 1..BatchLen(r) : i = pos[r]
          BY <4>2
        <4>4. AccountEntry(r, i).key[4] = acctAt[r] \div WindowLen[AccountEntry(r, i).key[3]]
          BY <1>0, <3>2, AccountParts
        <4> SUFFICES ASSUME AccountEntry(r, i).key = k PROVE FALSE
          BY <4>1, <4>3
        <4>5. k[4] = acctAt[r] \div WindowLen[k[3]]
          BY <4>4
        <4>6. acctAt[r] \in Nat /\ acctAt[r] <= now
          BY <1>0 DEF TypeOK, Clock
        <4>7. PICK w \in Nat \ {0} : w = WindowLen[k[3]]
          BY UsageKeyParts
        <4>8. PICK a \in Nat, b \in Nat : a = acctAt[r] \div w /\ b = now \div w /\ a <= b
          BY <1>0, <4>6, <4>7, DivMono, DivNat
        <4>9. a > b
          BY <1>3, <4>5, <4>7, <4>8
        <4> QED BY <4>8, <4>9
      <3> QED BY <3>1, <3>2
    <2> QED BY <1>0, <1>4, <1>5, <2>2, ApplyEffect, UsageKeyParts
  <1>6. CASE ~\E r \in Requests : Apply(r)
    <2>1. count' = count
      BY <1>6 DEF Next, Arrive, ReadBudgets, Resend, StoreFails, Admit, Reject, Settled,
             Account, Accounted, LatchExpires, Tick, vars
    <2> QED BY <1>4, <2>1
  <1> QED BY <1>5, <1>6

\* No step takes a budget's counter and those who may add to it beyond the bound.
LEMMA BInvNext == ASSUME Plain PROVE BInv /\ [Next]_vars => BInv'
  <1> SUFFICES ASSUME BInv, [Next]_vars PROVE BInv'
    OBVIOUS
  <1> USE DEF reqVars
  <1>0. IInv /\ TInv /\ TypeOK /\ AtHome
    BY DEF BInv, IInv, TInv
  <1>1. IInv' /\ TInv'
    BY <1>0, IInvNext DEF IInv
  <1>2. Clock' /\ UseBound' /\ Crowd' /\ FutureEmpty'
    BY ClockNext, UseBoundNext, CrowdNext, FutureNext
  <1>h. \A r \in Requests : Home(r) \in Stores
    BY ReplicaAssumption DEF Home, Stores
  <1> DEFINE AllBounded == \A s \in Stores, k \in UsageKeys, j \in 1..4 : Bounded(s, k, j)'
  <1>3. ASSUME NEW r \in Requests, Arrive(r) PROVE AllBounded
    BY <1>1, <1>2, <1>3, <1>h, BoundedArrive
  <1>4. ASSUME NEW r \in Requests, Apply(r) PROVE AllBounded
    BY <1>1, <1>4, BoundedApply
  <1>5. ASSUME NEW r \in Requests, ReadBudgets(r) PROVE AllBounded
    BY <1>1, <1>2, <1>5, BoundedRead
  <1>6. ASSUME NEW r \in Requests, Resend(r) PROVE FALSE
    BY <1>6 DEF Resend, Plain
  <1>7. ASSUME NEW r \in Requests, StoreFails(r) PROVE AllBounded
    <2>1. Configured /\ ~FailOpen
      <3>1. Home(r) = Redis
        BY <1>0, <1>7 DEF StoreFails, AtHome
      <3>2. Configured
        BY <3>1, ReplicaAssumption DEF Home
      <3> QED BY <3>2 DEF Plain
    <2>2. OthersAs(r) /\ count' = count
      BY <1>0, <1>7, <2>1 DEF StoreFails, OthersAs, TypeOK
    <2>3. pc'[r] \in {"refused", "rejected", "done"}
      BY <1>0, <1>7, <2>1 DEF StoreFails, AfterFailure, BatchPhases, TypeOK
    <2> QED BY <1>1, <2>2, <2>3, BoundedLeave
  <1>8. ASSUME NEW r \in Requests, Admit(r) PROVE AllBounded
    BY <1>1, <1>8, BoundedAdmit
  <1>9. ASSUME NEW r \in Requests, Reject(r) PROVE AllBounded
    <2>1. OthersAs(r) /\ count' = count /\ pc'[r] \in {"settle", "rejected"}
      BY <1>0, <1>9 DEF Reject, Begin, AfterFailure, OthersAs, TypeOK
    <2> QED BY <1>1, <2>1, BoundedLeave
  <1>10. ASSUME NEW r \in Requests, Settled(r) \/ Accounted(r) PROVE AllBounded
    <2>1. OthersAs(r) /\ count' = count /\ pc'[r] \in {"done", "rejected"}
      BY <1>0, <1>10 DEF Settled, Accounted, OthersAs, TypeOK
    <2> QED BY <1>1, <2>1, BoundedLeave
  <1>11. ASSUME NEW r \in Requests, Account(r) PROVE AllBounded
    BY <1>1, <1>11, BoundedAccount
  <1>12. ASSUME (\E p \in Replicas : LatchExpires(p)) \/ Tick \/ UNCHANGED vars PROVE AllBounded
    <2>1. UNCHANGED <<reqVars, count>>
      BY <1>12 DEF LatchExpires, Tick, vars
    <2> QED BY <1>1, <2>1, BoundedIdle
  <1> HIDE DEF AllBounded
  <1>13. AllBounded
    BY <1>3, <1>4, <1>5, <1>6, <1>7, <1>8, <1>9, <1>10, <1>11, <1>12 DEF Next
  <1> QED BY <1>1, <1>2, <1>13 DEF BInv, AllBounded

\* At the start no counter exists and nobody may add to one.
LEMMA BInvInit == Init => BInv
  <1> SUFFICES ASSUME Init PROVE BInv
    OBVIOUS
  <1>1. IInv /\ TInv
    BY IInvInit DEF IInv
  <1>2. Clock
    BY DEF Init, Clock
  <1>3. UseBound
    BY UsageAssumption DEF Init, UseBound
  <1>4. InFlight = {}
    BY DEF Init, InFlight
  <1>5. Crowd
    BY <1>4, FS_EmptySet, BoundAssumption DEF Crowd
  <1>6. \A s \in Stores, k \in UsageKeys : Get(count[s], k) = 0
    BY DEF Init, Get
  <1>7. ASSUME NEW s \in Stores, NEW k \in UsageKeys, NEW j \in 1..4 PROVE Bounded(s, k, j)
    <2>1. Pending(s, k) = {}
      BY <1>4, PendingFinite
    <2>2. MaxUsage \in Nat /\ MaxConcurrent \in Nat /\ BudgetLimit[k[2]][j] \in Nat
      BY BoundParts
    <2>3. Cardinality(Pending(s, k)) = 0
      BY <2>1, FS_EmptySet
    <2>4. PICK x \in Nat : x = MaxConcurrent * MaxUsage
      BY <2>2
    <2>5. MaxUsage * 0 = 0
      BY <2>2
    <2>6. BudgetLimit[k[2]][j] > 0 => 0 + 0 < BudgetLimit[k[2]][j] + x
      BY <2>2
    <2> QED BY <1>6, <2>3, <2>4, <2>5, <2>6 DEF Bounded
  <1> QED BY <1>1, <1>2, <1>3, <1>5, <1>6, <1>7 DEF BInv, FutureEmpty

\* The bound on a counter and those who may add to it is one on the counter.
LEMMA BInvOvershoot == BInv => BudgetOvershootBounded
  <1> SUFFICES ASSUME BInv, NEW s \in Stores, NEW k \in DOMAIN count[s], NEW j \in 1..4,
                      <<k[1], k[3]>> = Budget[j], BudgetLimit[k[2]][j] > 0
               PROVE  count[s][k] < BudgetLimit[k[2]][j] + MaxConcurrent * MaxUsage
    BY DEF BudgetOvershootBounded
  <1>1. TInv /\ k \in Keys
    BY DEF BInv, IInv, TInv, TypeOK
  <1>2. k \in UsageKeys
    <2>1. k[1] = Budget[j][1]
      OBVIOUS
    <2>2. Budget[j][1] \in {"tok", "cost"}
      BY DEF Budget
    <2> QED BY <1>1, <2>1, <2>2 DEF UsageKeys
  <1>3. Get(count[s], k) + MaxUsage * Cardinality(Pending(s, k))
          < BudgetLimit[k[2]][j] + MaxConcurrent * MaxUsage
    BY <1>2 DEF BInv, Bounded
  <1>4. PICK g \in Int : g = Get(count[s], k) /\ g = count[s][k]
    BY <1>1, GetType DEF Get
  <1>5. MaxUsage \in Nat /\ MaxConcurrent \in Nat /\ BudgetLimit[k[2]][j] \in Nat
    BY <1>2, BoundParts
  <1>6. PICK b \in Nat : b = Cardinality(Pending(s, k))
    BY PendingFinite
  <1>7. PICK x \in Nat : x = MaxUsage * b
    BY <1>5, <1>6
  <1>8. PICK R \in Int : R = BudgetLimit[k[2]][j] + MaxConcurrent * MaxUsage
    BY <1>5
  <1>9. g + x < R
    BY <1>3, <1>4, <1>6, <1>7, <1>8
  <1>10. g < R
    BY <1>9
  <1> QED BY <1>4, <1>8, <1>10

\* With one store to answer for each request, the usage in a budget's bucket
\* stays below the budget plus the largest plausible usage of MaxConcurrent
\* requests, whatever the windows, limits and instants are.
THEOREM OvershootCorrect ==
  ASSUME Plain
  PROVE  Spec => []BudgetOvershootBounded
  BY BInvInit, BInvNext, BInvOvershoot, PTL DEF Spec
=============================================================================
