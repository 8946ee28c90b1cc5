------------------------- MODULE PassthroughProofs -------------------------
(***************************************************************************)
(* Proofs about Passthrough, Catalogue and Access, for any number of       *)
(* requests and providers, any groups, catalogues and limits.              *)
(***************************************************************************)
EXTENDS Passthrough, FiniteSetTheorems, WellFoundedInduction, TLAPS

-----------------------------------------------------------------------------
(* Access.                                                                 *)

\* A grant for a provider makes the provider one of the union of all grants.
LEMMA GrantAllows ==
  ASSUME NEW c, NEW p, NEW g \in Grants(c), Matches(g.providers, p)
  PROVE  AllowsProvider(c, p)
  BY DEF AllowsProvider, UnionOrAll, Matches

\* The groups and the personal grant, counted.
LEMMA CountType ==
  ASSUME NEW c, IsCaller(c)
  PROVE  /\ GrantCount(c) \in Nat /\ GrantCount(c) >= 1
         /\ GrantCount(c) <= 1 => ~c.personal.exists /\ Len(c.members) = 1
  <1> DEFINE n == Len(c.members)
             e == c.personal.exists
  <1>0. c.members \in Seq(ToSet(c.members)) /\ c.members # << >> /\ e \in BOOLEAN
    BY DEF IsCaller
  <1>1. n \in Nat /\ n # 0
    BY <1>0
  <1>2. GrantCount(c) = n + (IF e THEN 1 ELSE 0)
    BY DEF GrantCount
  <1> HIDE DEF n, e
  <1>3. CASE e
    <2>1. GrantCount(c) = n + 1
      BY <1>2, <1>3
    <2>2. GrantCount(c) \in Nat /\ GrantCount(c) >= 1 /\ ~(GrantCount(c) <= 1)
      BY <1>1, <2>1
    <2> QED BY <2>2
  <1>4. CASE ~e
    <2>1. GrantCount(c) = n
      BY <1>1, <1>2, <1>4
    <2>2. GrantCount(c) \in Nat /\ GrantCount(c) >= 1 /\ (GrantCount(c) <= 1 => n = 1)
      BY <1>1, <2>1
    <2> QED BY <2>2, <1>4 DEF n, e
  <1> QED BY <1>3, <1>4

\* A caller with one group and no personal grant has that one grant.
LEMMA LoneGrant ==
  ASSUME NEW c, IsCaller(c), GrantCount(c) <= 1
  PROVE  /\ ~c.personal.exists /\ ToSet(c.members) = {Head(c.members)}
         /\ Grants(c) = {[providers |-> Head(c.members).providers, models |-> Head(c.members).models]}
  <1> DEFINE q == c.members
  <1>0. q \in Seq(ToSet(q)) /\ q # << >> /\ Len(q) \in Nat /\ c.personal.exists \in BOOLEAN
    BY DEF IsCaller
  <1>1. Len(q) # 0
    BY <1>0
  <1>2. ~c.personal.exists /\ Len(q) = 1
    BY CountType
  <1>3. ToSet(q) = {q[1]}
    <2>1. DOMAIN q = 1..Len(q)
      BY <1>0
    <2>2. DOMAIN q = {1}
      BY <1>2, <2>1
    <2> QED BY <2>2 DEF ToSet
  <1>4. Head(q) = q[1]
    BY <1>0, <1>1
  <1>5. ToSet(q) = {Head(q)}
    BY <1>3, <1>4
  <1> HIDE DEF q
  <1>6. Grants(c) = {[providers |-> m.providers, models |-> m.models] : m \in {Head(q)}}
    BY <1>2, <1>5 DEF Grants, q
  <1>7. {[providers |-> m.providers, models |-> m.models] : m \in {Head(q)}}
        = {[providers |-> Head(q).providers, models |-> Head(q).models]}
    OBVIOUS
  <1> QED BY <1>2, <1>5, <1>6, <1>7 DEF q

\* The primary group is one of the caller's.
LEMMA PrimaryGroup ==
  ASSUME NEW c, IsCaller(c)
  PROVE  Head(c.members) \in ToSet(c.members)
  <1> DEFINE q == c.members
  <1>0. q \in Seq(ToSet(q)) /\ q # << >> /\ Len(q) \in Nat
    BY DEF IsCaller
  <1> QED BY <1>0

\* A group is allowed a provider, a path and the model of a body.
AllowsAll(g, a) ==
    /\ Matches(g.providers, a.provider) /\ Matches(g.paths, a.path)
    /\ g.models = {} \/ (Seen(a.body) /\ a.body.model \in g.models)

\* The personal grant is.
AllowsAllPersonal(a) ==
    /\ PersonalPath(a.caller, a.provider, a.path)
    /\ a.caller.personal.models = {} \/ (Seen(a.body) /\ a.body.model \in a.caller.personal.models)

\* The two ways to have one grant for all.
LEMMA OneGrantCases ==
  ASSUME NEW a, IsCaller(a.caller)
  PROVE  OneGrant(a) <=> (\E g \in ToSet(a.caller.members) : AllowsAll(g, a)) \/ AllowsAllPersonal(a)
  <1> DEFINE personal == [providers |-> a.caller.personal.providers,
                          models |-> a.caller.personal.models,
                          paths |-> Head(a.caller.members).paths]
             grants == ToSet(a.caller.members)
                       \cup (IF a.caller.personal.exists THEN {personal} ELSE {})
  <1>1. OneGrant(a) <=> \E g \in grants : AllowsAll(g, a)
    BY DEF OneGrant, AllowsAll, Matches
  <1>2. AllowsAllPersonal(a) <=> a.caller.personal.exists /\ AllowsAll(personal, a)
    BY DEF AllowsAllPersonal, AllowsAll, PersonalPath, GroupPath
  <1> HIDE DEF personal
  <1> QED BY <1>1, <1>2

\* handlePassthrough's checks of provider, path and model come to one grant that
\* allows all three.
LEMMA PermittedIsOneGrant ==
  ASSUME NEW a, IsCaller(a.caller)
  PROVE  Permitted(a) <=> OneGrant(a)
  <1> DEFINE c == a.caller
             p == a.provider
             M == MembersFor(c, p, a.path)
  <1>0. \A g : g \in M <=> g \in ToSet(c.members) /\ Matches(g.providers, p) /\ Matches(g.paths, a.path)
    BY DEF MembersFor, GroupPath
  <1>1. ASSUME Permitted(a) PROVE OneGrant(a)
    <2>1. M # {} \/ PersonalPath(c, p, a.path)
      BY <1>1 DEF Permitted, AllowsPathForProvider
    <2>2. CASE GrantCount(c) > 1
      <3>1. HasModelRestrictionForPath(c, p, a.path) =>
              Seen(a.body) /\ AllowsModelForPath(c, p, a.path, a.body.model)
        BY <1>1, <2>2 DEF Permitted
      <3>2. CASE ~HasModelRestrictionForPath(c, p, a.path)
        <4>1. \/ \E g \in M : g.models = {}
              \/ PersonalPath(c, p, a.path) /\ c.personal.models = {}
          BY <3>2 DEF HasModelRestrictionForPath
        <4> QED BY <1>0, <4>1, OneGrantCases DEF AllowsAll, AllowsAllPersonal
      <3>3. CASE HasModelRestrictionForPath(c, p, a.path)
        <4>1. /\ Seen(a.body)
              /\ \/ \E g \in M : Matches(g.models, a.body.model)
                 \/ PersonalPath(c, p, a.path) /\ Matches(c.personal.models, a.body.model)
          BY <3>1, <3>3 DEF AllowsModelForPath
        <4> QED BY <1>0, <4>1, OneGrantCases DEF AllowsAll, AllowsAllPersonal, Matches
      <3> QED BY <3>2, <3>3
    <2>3. CASE ~(GrantCount(c) > 1)
      <3> DEFINE h == Head(c.members)
      <3>1. /\ ~c.personal.exists /\ ToSet(c.members) = {h}
            /\ Grants(c) = {[providers |-> h.providers, models |-> h.models]}
        <4>1. GrantCount(c) <= 1
          <5>1. GrantCount(c) \in Nat
            BY CountType
          <5> QED BY <2>3, <5>1
        <4> QED BY <4>1, LoneGrant
      <3>2. h \in M
        BY <1>0, <2>1, <3>1 DEF PersonalPath
      <3>3. HasModelRestriction(c) => Seen(a.body) /\ AllowsProviderModel(c, p, a.body.model)
        BY <1>1, <2>3 DEF Permitted
      <3> HIDE DEF h
      <3>4. {g.models : g \in Grants(c)} = {h.models}
        BY <3>1
      <3>5. HasModelRestriction(c) <=> h.models # {}
        BY <3>4 DEF HasModelRestriction, UnionOrAll
      <3>6. AllowsProviderModel(c, p, a.body.model) => Matches(h.models, a.body.model)
        BY <3>1 DEF AllowsProviderModel
      <3>7. AllowsAll(h, a)
        BY <1>0, <3>2, <3>3, <3>5, <3>6 DEF AllowsAll, Matches
      <3> QED BY <3>1, <3>7, OneGrantCases
    <2> QED BY <2>2, <2>3
  <1>2. ASSUME OneGrant(a) PROVE Permitted(a)
    <2>1. (\E g \in ToSet(c.members) : AllowsAll(g, a)) \/ AllowsAllPersonal(a)
      BY <1>2, OneGrantCases
    <2>2. AllowsProvider(c, p)
      <3>1. CASE \E g \in ToSet(c.members) : AllowsAll(g, a)
        <4>1. PICK g \in ToSet(c.members) : AllowsAll(g, a)
          BY <3>1
        <4> DEFINE e == [providers |-> g.providers, models |-> g.models]
        <4>2. e \in Grants(c) /\ Matches(e.providers, p)
          BY <4>1 DEF Grants, AllowsAll
        <4> HIDE DEF e
        <4> QED BY <4>2, GrantAllows
      <3>2. CASE AllowsAllPersonal(a)
        <4> DEFINE e == [providers |-> c.personal.providers, models |-> c.personal.models]
        <4>1. e \in Grants(c) /\ Matches(e.providers, p)
          BY <3>2 DEF Grants, AllowsAllPersonal, PersonalPath
        <4> HIDE DEF e
        <4> QED BY <4>1, GrantAllows
      <3> QED BY <2>1, <3>1, <3>2
    <2>3. AllowsPathForProvider(c, p, a.path)
      BY <1>0, <2>1 DEF AllowsPathForProvider, AllowsAll, AllowsAllPersonal
    <2>4. CASE GrantCount(c) > 1
      <3>1. HasModelRestrictionForPath(c, p, a.path) =>
              Seen(a.body) /\ AllowsModelForPath(c, p, a.path, a.body.model)
        BY <1>0, <2>1 DEF HasModelRestrictionForPath, AllowsModelForPath, AllowsAll, AllowsAllPersonal, Matches
      <3> QED BY <2>2, <2>3, <2>4, <3>1 DEF Permitted
    <2>5. CASE ~(GrantCount(c) > 1)
      <3> DEFINE h == Head(c.members)
                 e == [providers |-> h.providers, models |-> h.models]
      <3>1. ~c.personal.exists /\ ToSet(c.members) = {h} /\ Grants(c) = {e}
        <4>1. GrantCount(c) <= 1
          <5>1. GrantCount(c) \in Nat
            BY CountType
          <5> QED BY <2>5, <5>1
        <4> QED BY <4>1, LoneGrant
      <3>2. AllowsAll(h, a)
        BY <2>1, <3>1 DEF AllowsAllPersonal, PersonalPath
      <3>3. e.providers = h.providers /\ e.models = h.models
        OBVIOUS
      <3> HIDE DEF h, e
      <3>4. {g.models : g \in Grants(c)} = {h.models}
        BY <3>1, <3>3
      <3>5. HasModelRestriction(c) <=> h.models # {}
        BY <3>4 DEF HasModelRestriction, UnionOrAll
      <3>6. HasModelRestriction(c) => Seen(a.body) /\ AllowsProviderModel(c, p, a.body.model)
        BY <3>1, <3>2, <3>3, <3>5 DEF AllowsProviderModel, AllowsAll, Matches
      <3> QED BY <2>2, <2>3, <2>5, <3>6 DEF Permitted
    <2> QED BY <2>4, <2>5
  <1> QED BY <1>1, <1>2

\* With a single grant, a provider that is allowed may serve every model that is
\* allowed for another.
LEMMA LoneGrantModels ==
  ASSUME NEW c, IsCaller(c), GrantCount(c) <= 1, NEW p, NEW q, NEW m,
         AllowsProvider(c, p), AllowsProviderModel(c, q, m)
  PROVE  AllowsProviderModel(c, p, m)
  <1>1. PICK g : Grants(c) = {g}
    BY LoneGrant
  <1>2. {x.providers : x \in Grants(c)} = {g.providers}
    BY <1>1
  <1>3. Matches(g.providers, p)
    BY <1>2 DEF AllowsProvider, UnionOrAll, Matches
  <1>4. Matches(g.models, m)
    BY <1>1 DEF AllowsProviderModel
  <1> QED BY <1>1, <1>3, <1>4 DEF AllowsProviderModel

\* A grant for a model of a provider is one for the provider.
LEMMA ModelMeansProvider ==
  ASSUME NEW c, NEW p, NEW m, AllowsProviderModel(c, p, m)
  PROVE  AllowsProvider(c, p)
  BY GrantAllows DEF AllowsProviderModel

-----------------------------------------------------------------------------
(* Catalogue.                                                              *)

\* The order of the natural numbers as a relation.
Before == {ij \in Nat \X Nat : ij[1] < ij[2]}

\* A set of natural numbers that is not empty has a least one.
LEMMA LeastIndex ==
  ASSUME NEW T \in SUBSET Nat, T # {}
  PROVE  \E n \in T : \A m \in T : n <= m
  <1>1. OpToRel(<, Nat) = Before
    BY Zenon DEF OpToRel, Before
  <1>2. IsWellFoundedOn(Before, Nat)
    BY <1>1, NatLessThanWellFounded, Zenon
  <1>3. PICK n \in T : \A m \in T : ~(<<m, n>> \in Before)
    BY <1>2, WFMin
  <1>4. \A m \in T : n <= m
    <2> TAKE m \in T
    <2>1. ~(<<m, n>> \in Before) /\ m \in Nat /\ n \in Nat
      BY <1>3
    <2>2. <<m, n>>[1] = m /\ <<m, n>>[2] = n /\ <<m, n>> \in Nat \X Nat
      BY <2>1
    <2>3. ~(m < n)
      BY <2>1, <2>2 DEF Before
    <2> QED BY <2>1, <2>3
  <1> QED BY <1>4

\* Of some providers there is a first in the sort order.
LEMMA FirstFacts ==
  ASSUME NEW S \in SUBSET Providers, S # {}
  PROVE  First(S) \in S
  <1> DEFINE N == Len(ProviderNames)
             T == {i \in 1..N : ProviderNames[i] \in S}
             P(i) == ProviderNames[i] \in S /\ \A k \in 1..(i - 1) : ProviderNames[k] \notin S
  <1>1. N \in Nat /\ DOMAIN ProviderNames = 1..N
    BY NamesAssumption
  <1>2. T # {}
    <2>1. PICK p \in S : p \in ToSet(ProviderNames)
      BY DEF Providers
    <2> QED BY <1>1, <2>1 DEF ToSet
  <1>3. T \in SUBSET Nat
    BY <1>1
  <1>4. PICK n \in T : \A m \in T : n <= m
    BY <1>2, <1>3, LeastIndex
  <1>5. n \in 1..N /\ ProviderNames[n] \in S
    BY <1>4
  <1>6. \A k \in 1..(n - 1) : ProviderNames[k] \notin S
    <2> SUFFICES ASSUME NEW k \in 1..(n - 1), ProviderNames[k] \in S PROVE FALSE
      OBVIOUS
    <2> HIDE DEF N
    <2>1. n \in Int /\ k \in Int /\ 1 <= k /\ k <= n - 1 /\ n <= N
      BY <1>1, <1>5
    <2>2. k \in 1..N
      BY <1>1, <2>1
    <2>3. n <= k
      BY <1>4, <2>2
    <2> QED BY <2>1, <2>3
  <1>7. \E i \in 1..N : P(i)
    BY <1>5, <1>6
  <1>8. P(CHOOSE i \in 1..N : P(i))
    BY <1>7
  <1>9. First(S) = ProviderNames[CHOOSE i \in 1..N : P(i)]
    BY DEF First
  <1> QED BY <1>8, <1>9

\* Providers have names of their own.
LEMMA NotNone ==
  ASSUME NEW p \in Providers
  PROVE  p # "none"
  <1>1. ProviderNames \in Seq(STRING)
    BY NamesAssumption
  <1>2. DOMAIN ProviderNames = 1..Len(ProviderNames)
    BY <1>1
  <1> QED BY <1>2, NamesAssumption DEF Providers, ToSet

\* The provider that a bare name means is one that serves it.
LEMMA WinnerServes ==
  ASSUME NEW cat, NEW c, NEW id, NEW ids, Owners(cat, id) # {}
  PROVE  /\ BareWinner(cat, c, id, ids) \in Owners(cat, id)
         /\ Visible(cat, c, id) # {} => BareWinner(cat, c, id, ids) \in Visible(cat, c, id)
         /\ Winners(Visible(cat, c, id), c, ids) # {} =>
              /\ BareWinner(cat, c, id, ids) = First(Winners(Visible(cat, c, id), c, ids))
              /\ BareWinner(cat, c, id, ids) \in Winners(Visible(cat, c, id), c, ids)
  <1> DEFINE O == Owners(cat, id)
             V == Visible(cat, c, id)
             W == Winners(V, c, ids)
  <1>1. O \in SUBSET Providers /\ V \in SUBSET O
    BY DEF Owners, Visible
  <1>2. W \in SUBSET V
    BY DEF Winners
  <1>3. BareWinner(cat, c, id, ids) = First(Else(W, Else(V, O)))
    BY DEF BareWinner
  <1>4. O # {}
    OBVIOUS
  <1> HIDE DEF O, V, W
  <1>5. CASE W # {}
    <2>1. Else(W, Else(V, O)) = W
      BY <1>5 DEF Else
    <2>2. First(W) \in W
      BY <1>1, <1>2, <1>5, FirstFacts
    <2> QED BY <1>1, <1>2, <1>3, <2>1, <2>2 DEF O, V, W
  <1>6. CASE W = {} /\ V # {}
    <2>1. Else(W, Else(V, O)) = V
      BY <1>6 DEF Else
    <2>2. First(V) \in V
      BY <1>1, <1>6, FirstFacts
    <2> QED BY <1>1, <1>3, <1>6, <2>1, <2>2 DEF O, V, W
  <1>7. CASE W = {} /\ V = {}
    <2>1. Else(W, Else(V, O)) = O
      BY <1>7 DEF Else
    <2>2. First(O) \in O
      BY <1>1, <1>4, FirstFacts
    <2> QED BY <1>3, <1>7, <2>1, <2>2 DEF O, V, W
  <1> QED BY <1>5, <1>6, <1>7

\* What a name that is no alias resolves to.
LEMMA TargetFacts ==
  ASSUME NEW cat, NEW c, NEW id, NEW alias
  PROVE  \/ ResolveTarget(cat, c, id, alias) = NotFound
         \/ \E p \in Providers : \E m :
              /\ ResolveTarget(cat, c, id, alias) = [provider |-> p, model |-> m]
              /\ m \in cat.known[p]
              /\ ~Prefixed(id) => AllowsAny(c, p, {id} \cup alias)
  <1>1. CASE Prefixed(id)
    <2>1. Head(id) \in Providers
      BY <1>1 DEF Prefixed
    <2> QED BY <1>1, <2>1 DEF ResolveTarget, ResolveAgainst
  <1>2. CASE ~Prefixed(id) /\ Owners(cat, id) = {}
    BY <1>2 DEF ResolveTarget
  <1>3. CASE ~Prefixed(id) /\ Owners(cat, id) # {}
    <2> DEFINE w == BareWinner(cat, c, id, {id} \cup alias)
    <2>1. w \in Providers
      BY <1>3, WinnerServes DEF Owners
    <2>2. ResolveTarget(cat, c, id, alias) = ResolveAgainst(cat, c, w, id, {id} \cup alias)
      BY <1>3 DEF ResolveTarget
    <2> HIDE DEF w
    <2> QED BY <2>1, <2>2 DEF ResolveAgainst
  <1> QED BY <1>1, <1>2, <1>3

\* What any name resolves to: nothing, or a configured provider and a model it
\* serves, and of a bare name the caller has a grant for one of its names.
LEMMA ResolveFacts ==
  ASSUME NEW cat, NEW c, NEW id, Resolve(cat, c, id) # NotFound
  PROVE  \E p \in Providers : \E m :
           /\ Resolve(cat, c, id) = [provider |-> p, model |-> m]
           /\ m \in cat.known[p]
           /\ ~Prefixed(Target(cat, id)) => AllowsAny(c, p, {Target(cat, id)} \cup AliasOf(cat, id))
  <1>1. Resolve(cat, c, id) = ResolveTarget(cat, c, Target(cat, id), AliasOf(cat, id))
    <2>1. CASE id \in DOMAIN cat.aliases
      <3>1. Target(cat, id) = cat.aliases[id] /\ AliasOf(cat, id) = {id}
        BY <2>1 DEF Target, AliasOf
      <3> QED BY <2>1, <3>1 DEF Resolve
    <2>2. CASE id \notin DOMAIN cat.aliases
      <3>1. Target(cat, id) = id /\ AliasOf(cat, id) = {}
        BY <2>2 DEF Target, AliasOf
      <3> QED BY <2>2, <3>1 DEF Resolve
    <2> QED BY <2>1, <2>2
  <1> QED BY <1>1, TargetFacts

\* bareWinner and bareEntryWinner agree: no bare name is denied that a grant covers.
LEMMA GrantedNames ==
  ASSUME NEW cat, NEW c, NEW id, IsCaller(c)
  PROVE  GrantedResolves(cat, c, id)
  <1> SUFFICES ASSUME id \notin DOMAIN cat.aliases, ~Prefixed(id), ~cat.requirePrefix,
                      NEW p \in Owners(cat, id), AllowsProviderModel(c, p, id)
               PROVE  Resolve(cat, c, id) # NotFound
    BY DEF GrantedResolves
  <1> DEFINE V == Visible(cat, c, id)
             w == BareWinner(cat, c, id, {id})
  <1>1. p \in V
    BY ModelMeansProvider DEF Visible
  <1>2. w \in V
    BY <1>1, WinnerServes
  <1>3. AllowsProviderModel(c, w, id)
    <2>1. CASE GrantCount(c) <= 1
      <3>1. AllowsProvider(c, w)
        BY <1>2 DEF Visible
      <3> HIDE DEF w
      <3> QED BY <2>1, <3>1, LoneGrantModels
    <2>2. CASE ~(GrantCount(c) <= 1)
      <3>1. Winners(V, c, {id}) = {q \in V : AllowsAny(c, q, {id})}
        BY <2>2 DEF Winners
      <3>2. p \in Winners(V, c, {id})
        BY <1>1, <3>1 DEF AllowsAny
      <3>3. w \in Winners(V, c, {id})
        BY <3>2, WinnerServes
      <3> QED BY <3>1, <3>3 DEF AllowsAny
    <2> QED BY <2>1, <2>2
  <1>4. id \in cat.known[w] /\ w \in Providers
    BY <1>2 DEF Visible, Owners
  <1>5. Resolve(cat, c, id) = ResolveAgainst(cat, c, w, id, {id})
    <2>1. {id} \cup {} = {id} /\ Owners(cat, id) # {}
      OBVIOUS
    <2> QED BY <2>1 DEF Resolve, ResolveTarget
  <1> HIDE DEF w
  <1>6. Resolve(cat, c, id) = [provider |-> w, model |-> id]
    BY <1>3, <1>4, <1>5 DEF ResolveAgainst, AllowsAny
  <1> QED BY <1>4, <1>6, NotNone DEF NotFound

\* resolveWithCandidates leads only where a grant covers the model.
LEMMA GrantedCandidates ==
  ASSUME NEW cat, NEW c, NEW id, IsCaller(c)
  PROVE  CandidatesGranted(cat, c, id)
  <1> SUFFICES ASSUME NEW p \in ResolveWithCandidates(cat, c, id)
               PROVE  /\ Target(cat, id) \in cat.known[p]
                      /\ AllowsAny(c, p, {Target(cat, id), <<p>> \o Target(cat, id)} \cup AliasOf(cat, id))
    BY DEF CandidatesGranted
  <1> DEFINE t == Target(cat, id)
             al == AliasOf(cat, id)
             prim == Resolve(cat, c, id)
  <1>1. prim # NotFound /\ ~Prefixed(t) /\ p \in FailoverCandidates(cat, c, t, al, prim.provider)
    BY DEF ResolveWithCandidates
  <1>2. PICK q : AllowsAny(c, q, {t} \cup al)
    BY <1>1, ResolveFacts
  <1> HIDE DEF t, al, prim
  <1>3. /\ t \in cat.known[p]
        /\ GrantCount(c) > 1 => AllowsAny(c, p, {t, <<p>> \o t} \cup al)
        /\ ~(GrantCount(c) > 1) => AllowsProvider(c, p)
    BY <1>1 DEF FailoverCandidates, Owners
  <1>4. ASSUME ~(GrantCount(c) > 1)
        PROVE  AllowsAny(c, p, {t, <<p>> \o t} \cup al)
    <2>1. GrantCount(c) <= 1
      <3>1. GrantCount(c) \in Nat
        BY CountType
      <3> QED BY <1>4, <3>1
    <2>2. PICK m \in {t} \cup al : AllowsProviderModel(c, q, m)
      BY <1>2 DEF AllowsAny
    <2>3. AllowsProviderModel(c, p, m)
      BY <1>3, <1>4, <2>1, <2>2, LoneGrantModels
    <2> QED BY <2>2, <2>3 DEF AllowsAny
  <1> QED BY <1>3, <1>4 DEF t, al

\* A sequence of one element.
LEMMA OneElement ==
  ASSUME NEW S, NEW x \in S
  PROVE  <<x>> \in Seq(S) /\ Len(<<x>>) = 1 /\ <<x>>[1] = x
  OBVIOUS

\* A provider's prefix before a name, and what is read of it.
LEMMA PrefixedName ==
  ASSUME NEW p \in Providers, NEW id \in Names
  PROVE  /\ Prefixed(<<p>> \o id)
         /\ Head(<<p>> \o id) = p /\ Tail(<<p>> \o id) = id
  <1>1. id \in Seq(STRING) /\ Len(id) \in Nat /\ Len(id) # 0
    BY DEF Names
  <1>2. p \in STRING
    <2>1. ProviderNames \in Seq(STRING)
      BY NamesAssumption
    <2> QED BY <2>1 DEF Providers, ToSet
  <1>3. <<p>> \in Seq(STRING) /\ Len(<<p>>) = 1 /\ <<p>>[1] = p
    BY <1>2, OneElement
  <1> DEFINE x == <<p>> \o id
  <1>4. x \in Seq(STRING) /\ Len(x) = 1 + Len(id) /\ x[1] = p
    BY <1>1, <1>3
  <1>5. \A i \in 1..Len(id) : x[i + 1] = id[i]
    BY <1>1, <1>3
  <1> HIDE DEF x
  <1>6. Head(x) = p
    BY <1>4
  <1>7. Tail(x) = id
    <2>1. Tail(x) \in Seq(STRING) /\ Len(Tail(x)) = Len(id)
      BY <1>1, <1>4
    <2>2. \A i \in 1..Len(id) : Tail(x)[i] = id[i]
      BY <1>1, <1>4, <1>5
    <2> QED BY <1>1, <2>1, <2>2
  <1>8. Prefixed(x)
    BY <1>1, <1>4, <1>6 DEF Prefixed
  <1> QED BY <1>6, <1>7, <1>8 DEF x

\* The listing's bare names: bareEntryWinner is the provider that resolve finds.
LEMMA BareNames ==
  ASSUME NEW cat, NEW c, NEW id, id \notin DOMAIN cat.aliases, ~Prefixed(id), ~cat.requirePrefix,
         Winners(Visible(cat, c, id), c, {id}) # {},
         AllowsAny(c, First(Winners(Visible(cat, c, id), c, {id})), {id})
  PROVE  Resolve(cat, c, id)
         = [provider |-> First(Winners(Visible(cat, c, id), c, {id})), model |-> id]
  <1> DEFINE W == Winners(Visible(cat, c, id), c, {id})
             w == BareWinner(cat, c, id, {id})
  <1>1. Owners(cat, id) # {}
    BY DEF Winners, Visible
  <1>2. w = First(W) /\ w \in W
    BY <1>1, WinnerServes
  <1>3. id \in cat.known[w]
    BY <1>2 DEF Winners, Visible, Owners
  <1>4. Resolve(cat, c, id) = ResolveAgainst(cat, c, w, id, {id})
    <2>1. {id} \cup {} = {id}
      OBVIOUS
    <2> QED BY <1>1, <2>1 DEF Resolve, ResolveTarget
  <1>5. AllowsAny(c, w, {id})
    BY <1>2
  <1> HIDE DEF w, W
  <1>6. Resolve(cat, c, id) = [provider |-> w, model |-> id]
    BY <1>3, <1>4, <1>5 DEF ResolveAgainst
  <1> QED BY <1>2, <1>6 DEF W

\* The listing's names with a provider mean that provider: no alias has such a name.
LEMMA PrefixedNames ==
  ASSUME NEW cat, IsCatalogue(cat), NEW c, NEW p \in Providers, NEW id \in cat.known[p],
         AllowsAny(c, p, {<<p>> \o id, id})
  PROVE  Resolve(cat, c, <<p>> \o id) = [provider |-> p, model |-> id]
  <1> DEFINE x == <<p>> \o id
  <1>1. id \in Names
    BY DEF IsCatalogue
  <1>2. Prefixed(x) /\ Head(x) = p /\ Tail(x) = id
    BY <1>1, PrefixedName
  <1>3. AllowsAny(c, p, {x, id})
    OBVIOUS
  <1> HIDE DEF x
  <1>4. x \notin DOMAIN cat.aliases
    BY <1>2 DEF IsCatalogue
  <1>5. Resolve(cat, c, x) = ResolveTarget(cat, c, x, {})
    BY <1>2, <1>4 DEF Resolve
  <1>6. ResolveTarget(cat, c, x, {}) = ResolveAgainst(cat, c, p, id, {x, id})
    <2>1. {x, id} \cup {} = {x, id}
      OBVIOUS
    <2> QED BY <1>2, <2>1 DEF ResolveTarget
  <1>7. ResolveAgainst(cat, c, p, id, {x, id}) = [provider |-> p, model |-> id]
    BY <1>3 DEF ResolveAgainst
  <1> QED BY <1>5, <1>6, <1>7 DEF x

\* listFor and resolve agree on every name.
LEMMA ListedNames ==
  ASSUME NEW cat, NEW c, IsCatalogue(cat)
  PROVE  ListedResolves(cat, c)
  <1> DEFINE Use == UsableAliases(cat, c)
  <1> SUFFICES ASSUME NEW e \in ListFor(cat, c), e.id \notin DOMAIN cat.aliases \ Use
               PROVE  Resolve(cat, c, e.id) = [provider |-> e.provider, model |-> e.model]
    BY DEF ListedResolves
  <1>1. CASE e \in AliasEntries(cat, c)
    <2>1. PICK a \in Use : e = Entry(a, Resolve(cat, c, a).provider, Resolve(cat, c, a).model)
      BY <1>1 DEF AliasEntries
    <2>2. Resolve(cat, c, a) # NotFound
      BY <2>1 DEF UsableAliases
    <2>3. PICK p, m : Resolve(cat, c, a) = [provider |-> p, model |-> m]
      BY <2>2, ResolveFacts
    <2>4. e = Entry(a, p, m)
      BY <2>1, <2>3
    <2>5. e.id = a /\ e.provider = p /\ e.model = m
      BY <2>4 DEF Entry
    <2> QED BY <2>3, <2>5
  <1>2. CASE e \notin AliasEntries(cat, c)
    <2>1. PICK id : e \in ListedAs(cat, c, id)
      <3>1. e \in UNION {ListedAs(cat, c, id) : id \in UNION {cat.known[p] : p \in Providers}}
        BY <1>2, Zenon DEF ListFor
      <3>2. PICK L \in {ListedAs(cat, c, id) : id \in UNION {cat.known[p] : p \in Providers}} : e \in L
        BY <3>1, Zenon
      <3>3. PICK id \in UNION {cat.known[p] : p \in Providers} : L = ListedAs(cat, c, id)
        BY <3>2, Zenon
      <3> QED BY <3>2, <3>3, Zenon
    <2> DEFINE V == Visible(cat, c, id)
               W == Winners(V, c, {id})
               bare == id \notin Use /\ ~Prefixed(id) /\ ~cat.requirePrefix
               P == {q \in V : AllowsAny(c, q, {<<q>> \o id, id})}
    <2>2. \/ bare /\ W # {} /\ AllowsAny(c, First(W), {id}) /\ e = Entry(id, First(W), id)
          \/ \E p \in P : e = Entry(<<p>> \o id, p, id)
      BY <2>1 DEF ListedAs
    <2>3. CASE bare /\ W # {} /\ AllowsAny(c, First(W), {id}) /\ e = Entry(id, First(W), id)
      <3>1. e.id = id /\ e.provider = First(W) /\ e.model = id
        BY <2>3 DEF Entry
      <3>2. id \notin DOMAIN cat.aliases
        BY <2>3, <3>1
      <3>3. Resolve(cat, c, id) = [provider |-> First(W), model |-> id]
        BY <2>3, <3>2, BareNames
      <3> QED BY <3>1, <3>3
    <2>4. CASE \E p \in P : e = Entry(<<p>> \o id, p, id)
      <3>1. PICK p \in P : e = Entry(<<p>> \o id, p, id)
        BY <2>4
      <3>2. e.id = <<p>> \o id /\ e.provider = p /\ e.model = id
        BY <3>1 DEF Entry
      <3>3. p \in Providers /\ id \in cat.known[p] /\ AllowsAny(c, p, {<<p>> \o id, id})
        BY <3>1 DEF Visible, Owners
      <3>4. Resolve(cat, c, <<p>> \o id) = [provider |-> p, model |-> id]
        BY <3>3, PrefixedNames
      <3> QED BY <3>2, <3>4
    <2> QED BY <2>2, <2>3, <2>4
  <1> QED BY <1>1, <1>2

-----------------------------------------------------------------------------
(* The inductive invariant.  What is known of one request is a relation    *)
(* Fit between the parts of its state; what the requests share is counted. *)

OpenPlaces == {"sent", "copying", "over", "accounted"}
Places == OpenPlaces \cup {"new", "asked", "denied", "done", "decoding", "decoded"}

\* Of a request that was sent: to whom and which model's price was looked up.
Order == [provider : Providers, gated : Priced \cup {"none"}]
Known == {NoAsk} \cup Order \cup UNION {Asks[r] : r \in Requests}

Response ==
    [ok : BOOLEAN, type : {"none", "json", "sse", "other"}, model : Models \cup {"none"},
     usage : BOOLEAN, bytes : BOOLEAN, length : Nat, copied : {"part", "read", "sent"}]
Tee == [size : Nat, reserved : Nat, truncated : BOOLEAN]
Bill == [usage : {"none", "reported", "estimated"}, model : Models \cup {"none"}]

\* The parts of a request's state: its place, ask, response, copy and bill.
Fit(r, a, k, s, t, b) ==
    /\ a \in Places /\ k \in Known /\ s \in Response /\ t \in Tee /\ b \in Bill
    /\ a = "asked" => r \notin Media /\ k \in Asks[r]
    /\ a = "decoded" => r \in Media /\ k \in Asks[r]
    /\ a = "decoding" => r \in Media
    /\ IF a \in OpenPlaces THEN k \in Order ELSE t.reserved = 0
    /\ r \in Media => a # "copying" /\ t.reserved = 0 /\ ~s.usage
    /\ a = "sent" => t.reserved = 0 /\ s.length = 0
    /\ a \notin OpenPlaces => s.length = 0
    /\ t.size = t.reserved /\ t.size <= TeeCap
    /\ a \in {"copying", "over"} => t.truncated \/ t.size = s.length
    /\ s.usage => s.ok /\ s.type \in {"json", "sse"}
    /\ a # "accounted" => b = NoBill
    /\ a = "accounted" /\ s.usage /\ s.bytes => b # NoBill
    /\ b # NoBill /\ k.gated # "none" => b.model \in Priced

Locals ==
    /\ at \in [Requests -> Places] /\ ask \in [Requests -> Known]
    /\ resp \in [Requests -> Response] /\ tee \in [Requests -> Tee]
    /\ bill \in [Requests -> Bill]
    /\ \A r \in Requests : Fit(r, at[r], ask[r], resp[r], tee[r], bill[r])

\* The bytes reserved by copies, as pairs of a copy and a number.
Cells(f) == UNION {{r} \X (1..f[r]) : r \in Requests}
Reservations == [r \in Requests |-> tee[r].reserved]
TeeCount ==
    IsFiniteSet(Cells(Reservations)) /\ used = Cardinality(Cells(Reservations)) /\ used <= TeeLimit

OpenAt(p) == {r \in Requests : at[r] \in OpenPlaces /\ ask[r].provider = p}
OpenCount ==
    /\ inFlight \in [Providers -> Nat]
    /\ \A p \in Providers : IsFiniteSet(OpenAt(p)) /\ inFlight[p] = Cardinality(OpenAt(p))

Decoding == {r \in Requests : at[r] = "decoding"}
SlotCount == IsFiniteSet(Decoding) /\ slots = Cardinality(Decoding)

Learner ==
    /\ learned \in [Providers -> 0..(Ceiling - 1)] /\ successes \in [Providers -> Nat]
    /\ overload \in [Providers -> BOOLEAN]
    /\ OverloadIsRemembered

IInv == Locals /\ TeeCount /\ OpenCount /\ SlotCount /\ Learner

-----------------------------------------------------------------------------
(* One request moves.                                                      *)

\* Request r comes to these values; the others stay as they are.
Moves(r, a, k, s, t, b) ==
    /\ at' = [at EXCEPT ![r] = a] /\ ask' = [ask EXCEPT ![r] = k]
    /\ resp' = [resp EXCEPT ![r] = s] /\ tee' = [tee EXCEPT ![r] = t]
    /\ bill' = [bill EXCEPT ![r] = b]

\* A part that stays as it is.
LEMMA Same ==
  ASSUME NEW S, NEW f \in [Requests -> S], NEW r \in Requests
  PROVE  f = [f EXCEPT ![r] = f[r]]
  OBVIOUS

\* What the request is, and that every part may stay.
LEMMA Stays ==
  ASSUME Locals, NEW r \in Requests
  PROVE  /\ Fit(r, at[r], ask[r], resp[r], tee[r], bill[r])
         /\ at = [at EXCEPT ![r] = at[r]] /\ ask = [ask EXCEPT ![r] = ask[r]]
         /\ resp = [resp EXCEPT ![r] = resp[r]] /\ tee = [tee EXCEPT ![r] = tee[r]]
         /\ bill = [bill EXCEPT ![r] = bill[r]]
  <1>1. /\ at \in [Requests -> Places] /\ ask \in [Requests -> Known]
        /\ resp \in [Requests -> Response] /\ tee \in [Requests -> Tee]
        /\ bill \in [Requests -> Bill]
    BY DEF Locals
  <1>2. Fit(r, at[r], ask[r], resp[r], tee[r], bill[r])
    BY DEF Locals
  <1> QED BY <1>1, <1>2, Same

\* The parts of the request after the move, and of the others.
LEMMA Moved ==
  ASSUME Locals, NEW r \in Requests, NEW a, NEW k, NEW s, NEW t, NEW b, Moves(r, a, k, s, t, b)
  PROVE  /\ at'[r] = a /\ ask'[r] = k /\ resp'[r] = s /\ tee'[r] = t /\ bill'[r] = b
         /\ \A d \in Requests \ {r} :
              /\ at'[d] = at[d] /\ ask'[d] = ask[d] /\ resp'[d] = resp[d]
              /\ tee'[d] = tee[d] /\ bill'[d] = bill[d]
  BY DEF Locals, Moves

\* A request that fits again leaves all requests fitting.
LEMMA LocalStep ==
  ASSUME Locals, NEW r \in Requests, NEW a, NEW k, NEW s, NEW t, NEW b,
         Moves(r, a, k, s, t, b), Fit(r, a, k, s, t, b)
  PROVE  Locals'
  <1>1. a \in Places /\ k \in Known /\ s \in Response /\ t \in Tee /\ b \in Bill
    BY DEF Fit
  <1>2. /\ at' \in [Requests -> Places] /\ ask' \in [Requests -> Known]
        /\ resp' \in [Requests -> Response] /\ tee' \in [Requests -> Tee]
        /\ bill' \in [Requests -> Bill]
    BY <1>1 DEF Locals, Moves
  <1>3. ASSUME NEW d \in Requests
        PROVE  Fit(d, at'[d], ask'[d], resp'[d], tee'[d], bill'[d])
    <2>1. CASE d = r
      BY <2>1, Moved
    <2>2. CASE d # r
      <3>1. d \in Requests \ {r}
        BY <2>2
      <3>2. Fit(d, at[d], ask[d], resp[d], tee[d], bill[d])
        BY DEF Locals
      <3>3. /\ at'[d] = at[d] /\ ask'[d] = ask[d] /\ resp'[d] = resp[d]
            /\ tee'[d] = tee[d] /\ bill'[d] = bill[d]
        BY <3>1, Moved
      <3> QED BY <3>2, <3>3
    <2> QED BY <2>1, <2>2
  <1> QED BY <1>2, <1>3 DEF Locals

-----------------------------------------------------------------------------
(* What the requests share.                                                *)

\* One copy takes or returns bytes.
LEMMA CellsStep ==
  ASSUME NEW f \in [Requests -> Nat], NEW g \in [Requests -> Nat], NEW r \in Requests,
         \A d \in Requests \ {r} : g[d] = f[d], IsFiniteSet(Cells(f))
  PROVE  /\ IsFiniteSet(Cells(g)) /\ Cardinality(Cells(f)) \in Nat
         /\ Cardinality(Cells(g)) = Cardinality(Cells(f)) + (g[r] - f[r])
         /\ Cardinality(Cells(f)) >= f[r]
  <1> DEFINE R == UNION {{d} \X (1..f[d]) : d \in Requests \ {r}}
             A == {r} \X (1..f[r])
             B == {r} \X (1..g[r])
  <1>1. \A n \in Nat : /\ IsFiniteSet({r} \X (1..n)) /\ Cardinality({r} \X (1..n)) = n
    <2> TAKE n \in Nat
    <2>1. IsFiniteSet(1..n) /\ Cardinality(1..n) = n
      <3>1. 1 \in Int /\ n \in Int
        OBVIOUS
      <3>2. IsFiniteSet(1..n) /\ Cardinality(1..n) = IF 1 > n THEN 0 ELSE n - 1 + 1
        BY <3>1, FS_Interval
      <3> QED BY <3>2
    <2>2. IsFiniteSet({r}) /\ Cardinality({r}) = 1
      BY FS_Singleton
    <2>3. IsFiniteSet({r} \X (1..n)) /\ Cardinality({r} \X (1..n)) = Cardinality({r}) * Cardinality(1..n)
      BY <2>1, <2>2, FS_Product
    <2> QED BY <2>1, <2>2, <2>3
  <1>2. f[r] \in Nat /\ g[r] \in Nat
    OBVIOUS
  <1>3. IsFiniteSet(A) /\ Cardinality(A) = f[r] /\ IsFiniteSet(B) /\ Cardinality(B) = g[r]
    BY <1>1, <1>2
  <1>4. Cells(f) = R \cup A
    BY DEF Cells
  <1>5. Cells(g) = R \cup B
    <2>1. \A d \in Requests \ {r} : {d} \X (1..g[d]) = {d} \X (1..f[d])
      OBVIOUS
    <2>2. R = UNION {{d} \X (1..g[d]) : d \in Requests \ {r}}
      BY <2>1
    <2> HIDE DEF R
    <2> QED BY <2>2 DEF Cells
  <1>6. R \cap A = {} /\ R \cap B = {}
    OBVIOUS
  <1> HIDE DEF R, A, B
  <1>7. R \in SUBSET Cells(f)
    BY <1>4
  <1>8. IsFiniteSet(R)
    BY <1>7, FS_Subset
  <1>9. Cardinality(R) \in Nat
    BY <1>8, FS_CardinalityType
  <1>10. IsFiniteSet(R \cup A) /\ Cardinality(R \cup A) = Cardinality(R) + Cardinality(A) - Cardinality(R \cap A)
    BY <1>3, <1>8, FS_Union
  <1>11. IsFiniteSet(R \cup B) /\ Cardinality(R \cup B) = Cardinality(R) + Cardinality(B) - Cardinality(R \cap B)
    BY <1>3, <1>8, FS_Union
  <1>12. Cardinality(R \cap A) = 0 /\ Cardinality(R \cap B) = 0
    BY <1>6, FS_EmptySet
  <1>13. Cardinality(Cells(f)) = Cardinality(R) + f[r] /\ Cardinality(Cells(g)) = Cardinality(R) + g[r]
    BY <1>2, <1>3, <1>4, <1>5, <1>9, <1>10, <1>11, <1>12
  <1>14. IsFiniteSet(Cells(g))
    BY <1>5, <1>11
  <1> QED BY <1>2, <1>9, <1>13, <1>14

\* teeBudget.reserve and release are balanced by what the copies hold.
LEMMA TeeStep ==
  ASSUME Locals, TeeCount, NEW r \in Requests, NEW a, NEW k, NEW s, NEW t \in Tee, NEW b,
         Moves(r, a, k, s, t, b), used' = used + (t.reserved - tee[r].reserved),
         t.reserved <= tee[r].reserved \/ used' <= TeeLimit
  PROVE  TeeCount'
  <1> DEFINE f == Reservations
             g == Reservations'
  <1>1. \A d \in Requests : tee[d].reserved \in Nat
    BY DEF Locals, Tee
  <1>2. f \in [Requests -> Nat] /\ f[r] = tee[r].reserved
    BY <1>1 DEF Reservations
  <1>3. t.reserved \in Nat
    BY DEF Tee
  <1>4. g = [d \in Requests |-> tee'[d].reserved]
    BY DEF Reservations
  <1>5. tee'[r] = t /\ \A d \in Requests \ {r} : tee'[d] = tee[d]
    BY Moved
  <1>6. g[r] = t.reserved /\ \A d \in Requests \ {r} : g[d] = f[d]
    BY <1>4, <1>5 DEF Reservations
  <1>7. g \in [Requests -> Nat]
    <2>1. \A d \in Requests : tee'[d].reserved \in Nat
      BY <1>1, <1>3, <1>5
    <2> QED BY <1>4, <2>1
  <1>8. IsFiniteSet(Cells(f)) /\ used = Cardinality(Cells(f)) /\ used <= TeeLimit
    BY DEF TeeCount
  <1> HIDE DEF f, g
  <1>9. /\ IsFiniteSet(Cells(g)) /\ Cardinality(Cells(f)) \in Nat
        /\ Cardinality(Cells(g)) = Cardinality(Cells(f)) + (g[r] - f[r])
    BY <1>2, <1>6, <1>7, <1>8, CellsStep
  <1>10. used' = Cardinality(Cells(g))
    BY <1>2, <1>6, <1>8, <1>9
  <1>11. used' <= TeeLimit
    <2>1. TeeLimit \in Nat /\ used \in Nat /\ tee[r].reserved \in Nat
      BY <1>1, <1>8, <1>9, RelayAssumption
    <2>2. CASE t.reserved <= tee[r].reserved
      BY <1>3, <1>8, <2>1, <2>2
    <2> QED BY <2>2
  <1>12. IsFiniteSet(Cells(g)) /\ used' = Cardinality(Cells(g)) /\ used' <= TeeLimit
    BY <1>9, <1>10, <1>11
  <1>13. TeeCount' = (IsFiniteSet(Cells(g)) /\ used' = Cardinality(Cells(g)) /\ used' <= TeeLimit)
    BY Zenon DEF TeeCount, g, Cells
  <1> QED BY <1>12, <1>13, Zenon

\* A copy that keeps what it has reserved.
LEMMA TeeSame ==
  ASSUME Locals, TeeCount, NEW r \in Requests, NEW a, NEW k, NEW s, NEW t \in Tee, NEW b,
         Moves(r, a, k, s, t, b), used' = used, t.reserved = tee[r].reserved
  PROVE  TeeCount'
  <1>1. tee[r].reserved \in Nat
    BY DEF Locals, Tee
  <1>2. used \in Nat
    BY FS_CardinalityType DEF TeeCount
  <1> HIDE DEF Tee
  <1>3. used' = used + (t.reserved - tee[r].reserved) /\ t.reserved <= tee[r].reserved
    BY <1>1, <1>2
  <1> QED BY <1>3, TeeStep

\* An exchange that goes on, or none.
LEMMA OpenSame ==
  ASSUME Locals, OpenCount, NEW r \in Requests, NEW a, NEW k, NEW s, NEW t, NEW b,
         Moves(r, a, k, s, t, b), a \in OpenPlaces <=> at[r] \in OpenPlaces,
         at[r] \in OpenPlaces => k.provider = ask[r].provider, inFlight' = inFlight
  PROVE  OpenCount'
  <1>1. /\ at'[r] = a /\ ask'[r] = k
        /\ \A d \in Requests \ {r} : at'[d] = at[d] /\ ask'[d] = ask[d]
    BY Moved
  <1>2. \A p : OpenAt(p)' = OpenAt(p)
    BY <1>1 DEF OpenAt
  <1> QED BY <1>2 DEF OpenCount

\* trackUpstream begins an exchange.
LEMMA OpenBegins ==
  ASSUME Locals, OpenCount, NEW r \in Requests, NEW a, NEW k, NEW s, NEW t, NEW b,
         Moves(r, a, k, s, t, b), a \in OpenPlaces, at[r] \notin OpenPlaces,
         k.provider \in Providers, Begin(k.provider)
  PROVE  OpenCount'
  <1> DEFINE q == k.provider
  <1>1. /\ at'[r] = a /\ ask'[r] = k
        /\ \A d \in Requests \ {r} : at'[d] = at[d] /\ ask'[d] = ask[d]
    BY Moved
  <1>2. \A p \in Providers \ {q} : OpenAt(p)' = OpenAt(p)
    BY <1>1 DEF OpenAt
  <1>3. OpenAt(q)' = OpenAt(q) \cup {r} /\ r \notin OpenAt(q)
    BY <1>1 DEF OpenAt
  <1>4. /\ inFlight \in [Providers -> Nat]
        /\ \A p \in Providers : IsFiniteSet(OpenAt(p)) /\ inFlight[p] = Cardinality(OpenAt(p))
    BY DEF OpenCount
  <1>5. IsFiniteSet(OpenAt(q)') /\ Cardinality(OpenAt(q)') = Cardinality(OpenAt(q)) + 1
    BY <1>3, <1>4, FS_AddElement
  <1>6. /\ inFlight' \in [Providers -> Nat] /\ inFlight'[q] = inFlight[q] + 1
        /\ \A p \in Providers \ {q} : inFlight'[p] = inFlight[p]
    BY <1>4 DEF Begin
  <1>7. \A p \in Providers : IsFiniteSet(OpenAt(p)') /\ inFlight'[p] = Cardinality(OpenAt(p)')
    <2> TAKE p \in Providers
    <2>1. CASE p = q
      <3>1. inFlight'[q] = Cardinality(OpenAt(q)')
        BY <1>4, <1>5, <1>6
      <3> HIDE DEF q
      <3> QED BY <1>5, <2>1, <3>1
    <2>2. CASE p # q
      BY <1>2, <1>4, <1>6, <2>2
    <2> QED BY <2>1, <2>2
  <1> QED BY <1>6, <1>7 DEF OpenCount

\* The deferred call of endUpstream ends it.
LEMMA OpenEnds ==
  ASSUME Locals, OpenCount, NEW r \in Requests, NEW a, NEW k, NEW s, NEW t, NEW b,
         Moves(r, a, k, s, t, b), a \notin OpenPlaces, at[r] \in OpenPlaces,
         EndUpstream(ask[r].provider)
  PROVE  OpenCount'
  <1>0. PICK q \in Providers : q = ask[r].provider
    BY DEF Locals, Fit, Order
  <1>1. /\ at'[r] = a /\ ask'[r] = k
        /\ \A d \in Requests \ {r} : at'[d] = at[d] /\ ask'[d] = ask[d]
    BY Moved
  <1>2. \A p \in Providers \ {q} : OpenAt(p)' = OpenAt(p)
    BY <1>0, <1>1 DEF OpenAt
  <1>3. OpenAt(q)' = OpenAt(q) \ {r} /\ r \in OpenAt(q)
    BY <1>0, <1>1 DEF OpenAt
  <1>4. /\ inFlight \in [Providers -> Nat]
        /\ \A p \in Providers : IsFiniteSet(OpenAt(p)) /\ inFlight[p] = Cardinality(OpenAt(p))
    BY DEF OpenCount
  <1>5. /\ IsFiniteSet(OpenAt(q)') /\ Cardinality(OpenAt(q)') = Cardinality(OpenAt(q)) - 1
        /\ Cardinality(OpenAt(q)') \in Nat
    BY <1>0, <1>3, <1>4, FS_RemoveElement, FS_CardinalityType
  <1>6. inFlight[q] - 1 \in Nat /\ inFlight[q] - 1 = Cardinality(OpenAt(q)')
    BY <1>0, <1>4, <1>5
  <1>7. /\ inFlight' \in [Providers -> Nat] /\ inFlight'[q] = inFlight[q] - 1
        /\ \A p \in Providers \ {q} : inFlight'[p] = inFlight[p]
    BY <1>0, <1>4, <1>6 DEF EndUpstream
  <1>8. \A p \in Providers : IsFiniteSet(OpenAt(p)') /\ inFlight'[p] = Cardinality(OpenAt(p)')
    <2> TAKE p \in Providers
    <2>1. CASE p = q
      BY <1>5, <1>6, <1>7, <2>1
    <2>2. CASE p # q
      BY <1>2, <1>4, <1>7, <2>2
    <2> QED BY <2>1, <2>2
  <1> QED BY <1>7, <1>8 DEF OpenCount

\* bodyAdmission: the slots taken are those of the requests that decode.
LEMMA SlotStep ==
  ASSUME Locals, SlotCount, NEW r \in Requests, NEW a, NEW k, NEW s, NEW t, NEW b,
         Moves(r, a, k, s, t, b),
         \/ (a = "decoding" <=> at[r] = "decoding") /\ slots' = slots
         \/ a = "decoding" /\ at[r] # "decoding" /\ slots' = slots + 1
         \/ a # "decoding" /\ at[r] = "decoding" /\ slots' = slots - 1
  PROVE  SlotCount'
  <1>1. at'[r] = a /\ \A d \in Requests \ {r} : at'[d] = at[d]
    BY Moved
  <1>2. IsFiniteSet(Decoding) /\ slots = Cardinality(Decoding)
    BY DEF SlotCount
  <1>3. CASE (a = "decoding" <=> at[r] = "decoding") /\ slots' = slots
    <2>1. Decoding' = Decoding
      BY <1>1, <1>3 DEF Decoding
    <2> QED BY <1>2, <1>3, <2>1 DEF SlotCount
  <1>4. CASE a = "decoding" /\ at[r] # "decoding" /\ slots' = slots + 1
    <2>1. Decoding' = Decoding \cup {r} /\ r \notin Decoding
      BY <1>1, <1>4 DEF Decoding
    <2>2. IsFiniteSet(Decoding') /\ Cardinality(Decoding') = Cardinality(Decoding) + 1
      BY <1>2, <2>1, FS_AddElement
    <2> QED BY <1>2, <1>4, <2>2 DEF SlotCount
  <1>5. CASE a # "decoding" /\ at[r] = "decoding" /\ slots' = slots - 1
    <2>1. Decoding' = Decoding \ {r} /\ r \in Decoding
      BY <1>1, <1>5 DEF Decoding
    <2>2. IsFiniteSet(Decoding') /\ Cardinality(Decoding') = Cardinality(Decoding) - 1
      BY <1>2, <2>1, FS_RemoveElement
    <2> QED BY <1>2, <1>5, <2>2 DEF SlotCount
  <1> QED BY <1>3, <1>4, <1>5

\* The learner is not asked.
LEMMA LearnerSame ==
  ASSUME Learner, UNCHANGED <<learned, successes, overload>>
  PROVE  Learner'
  BY DEF Learner, OverloadIsRemembered

\* observe keeps the limit between one and the largest that can be announced, or
\* zero, and an overload leaves one.
LEMMA LearnerStep ==
  ASSUME Learner, OpenCount, NEW p \in Providers, NEW class \in {"success", "other", "overload"},
         Observe(p, class)
  PROVE  Learner'
  <1>0. /\ learned \in [Providers -> 0..(Ceiling - 1)] /\ successes \in [Providers -> Nat]
        /\ overload \in [Providers -> BOOLEAN]
        /\ \A d \in Providers : overload[d] => learned[d] \in 1..(Ceiling - 1) /\ successes[d] = 0
    BY DEF Learner, OverloadIsRemembered
  <1>c. Ceiling \in Nat /\ Ceiling >= 2 /\ Regrow \in Nat
    BY RelayAssumption
  <1>1. CASE class = "other"
    <2>1. UNCHANGED <<learned, successes, overload>>
      BY <1>1 DEF Observe
    <2> QED BY <2>1, LearnerSame
  <1>2. CASE class = "overload"
    <2> DEFINE n == inFlight[p] \div 2
               next == Clamp(n)
               new == IF learned[p] = 0 \/ next < learned[p] THEN next ELSE learned[p]
    <2>1. /\ overload' = [overload EXCEPT ![p] = TRUE] /\ successes' = [successes EXCEPT ![p] = 0]
          /\ learned' = [learned EXCEPT ![p] = new]
      BY <1>2 DEF Observe
    <2>2. n \in Int
      <3>1. inFlight[p] \in Nat
        BY DEF OpenCount
      <3> QED BY <3>1
    <2> HIDE DEF n
    <2>3. next \in 1..(Ceiling - 1)
      BY <1>c, <2>2 DEF Clamp
    <2> HIDE DEF next
    <2>4. new \in 1..(Ceiling - 1)
      BY <1>0, <1>c, <2>3
    <2>5. new \in 0..(Ceiling - 1)
      BY <1>c, <2>4
    <2> HIDE DEF new
    <2>6. /\ learned' \in [Providers -> 0..(Ceiling - 1)] /\ learned'[p] = new
          /\ successes' \in [Providers -> Nat] /\ successes'[p] = 0
          /\ \A d \in Providers \ {p} : learned'[d] = learned[d] /\ successes'[d] = successes[d]
      BY <1>0, <2>1, <2>5
    <2>7. overload' \in [Providers -> BOOLEAN] /\ \A d \in Providers \ {p} : overload'[d] = overload[d]
      BY <1>0, <2>1, Zenon
    <2>8. \A d \in Providers : overload'[d] => learned'[d] \in 1..(Ceiling - 1) /\ successes'[d] = 0
      BY <1>0, <2>4, <2>6, <2>7
    <2> QED BY <2>6, <2>7, <2>8 DEF Learner, OverloadIsRemembered
  <1>3. CASE class = "success"
    <2>1. overload' = [overload EXCEPT ![p] = FALSE]
      BY <1>3 DEF Observe
    <2>2. /\ overload' \in [Providers -> BOOLEAN] /\ ~overload'[p]
          /\ \A d \in Providers \ {p} : overload'[d] = overload[d]
      BY <1>0, <2>1, Zenon
    <2>3. /\ learned' \in [Providers -> 0..(Ceiling - 1)] /\ successes' \in [Providers -> Nat]
          /\ \A d \in Providers \ {p} : learned'[d] = learned[d] /\ successes'[d] = successes[d]
      <3>1. CASE learned[p] # 0 /\ successes[p] + 1 < Regrow
        <4>1. successes' = [successes EXCEPT ![p] = @ + 1] /\ learned' = learned
          BY <1>3, <3>1 DEF Observe
        <4> QED BY <1>0, <4>1
      <3>2. CASE learned[p] # 0 /\ ~(successes[p] + 1 < Regrow)
        <4> DEFINE new == IF learned[p] + 1 >= Ceiling THEN 0 ELSE learned[p] + 1
        <4>1. successes' = [successes EXCEPT ![p] = 0] /\ learned' = [learned EXCEPT ![p] = new]
          BY <1>3, <3>2 DEF Observe
        <4>2. new \in 0..(Ceiling - 1)
          BY <1>0, <1>c
        <4> HIDE DEF new
        <4> QED BY <1>0, <4>1, <4>2
      <3>3. CASE learned[p] = 0
        <4>1. successes' = successes /\ learned' = learned
          BY <1>3, <3>3 DEF Observe
        <4> QED BY <1>0, <4>1
      <3> QED BY <3>1, <3>2, <3>3
    <2>4. \A d \in Providers : overload'[d] => learned'[d] \in 1..(Ceiling - 1) /\ successes'[d] = 0
      BY <1>0, <2>2, <2>3
    <2> QED BY <2>2, <2>3, <2>4 DEF Learner, OverloadIsRemembered
  <1> QED BY <1>1, <1>2, <1>3

-----------------------------------------------------------------------------
(* The steps, by what becomes of the exchange.                             *)

\* The parts of the invariant for one request.
LEMMA Parts ==
  ASSUME IInv, NEW r \in Requests
  PROVE  /\ Locals /\ TeeCount /\ OpenCount /\ SlotCount /\ Learner
         /\ Fit(r, at[r], ask[r], resp[r], tee[r], bill[r])
         /\ at[r] \in Places /\ ask[r] \in Known /\ resp[r] \in Response /\ tee[r] \in Tee
         /\ bill[r] \in Bill /\ tee[r].reserved \in Nat /\ used \in Nat
         /\ at[r] \notin OpenPlaces => tee[r].reserved = 0
         /\ at[r] \in OpenPlaces => ask[r] \in Order /\ ask[r].provider \in Providers
         /\ at[r] # "accounted" => bill[r] = NoBill
  <1>1. Locals /\ TeeCount /\ OpenCount /\ SlotCount /\ Learner
    BY DEF IInv
  <1>2. Fit(r, at[r], ask[r], resp[r], tee[r], bill[r])
    BY <1>1, Stays
  <1>3. used \in Nat
    BY <1>1, FS_CardinalityType DEF TeeCount
  <1> QED BY <1>1, <1>2, <1>3 DEF Fit, Tee, Order

\* There is no exchange before or after.
LEMMA ClosedMove ==
  ASSUME IInv, NEW r \in Requests, NEW a, NEW k, NEW s, NEW t, NEW b,
         Moves(r, a, k, s, t, b), Fit(r, a, k, s, t, b),
         at[r] \notin OpenPlaces, a \notin OpenPlaces,
         UNCHANGED <<used, inFlight, learned, successes, overload>>,
         \/ (a = "decoding" <=> at[r] = "decoding") /\ slots' = slots
         \/ a = "decoding" /\ at[r] # "decoding" /\ slots' = slots + 1
         \/ a # "decoding" /\ at[r] = "decoding" /\ slots' = slots - 1
  PROVE  IInv'
  <1>1. Locals /\ TeeCount /\ OpenCount /\ SlotCount /\ Learner
    BY DEF IInv
  <1>2. t \in Tee /\ t.reserved = tee[r].reserved
    BY Parts DEF Fit
  <1>3. Locals'
    BY <1>1, LocalStep
  <1>4. TeeCount'
    BY <1>1, <1>2, TeeSame
  <1>5. OpenCount'
    BY <1>1, OpenSame
  <1>6. SlotCount'
    BY <1>1, SlotStep
  <1>7. Learner'
    BY <1>1, LearnerSame
  <1> QED BY <1>3, <1>4, <1>5, <1>6, <1>7 DEF IInv

\* The exchange begins.
LEMMA BeginMove ==
  ASSUME IInv, NEW r \in Requests, NEW k, NEW s,
         Moves(r, "sent", k, s, tee[r], bill[r]), Fit(r, "sent", k, s, tee[r], bill[r]),
         at[r] \notin OpenPlaces, at[r] # "decoding", k.provider \in Providers, Begin(k.provider),
         UNCHANGED <<used, slots, learned, successes, overload>>
  PROVE  IInv'
  <1>1. Locals /\ TeeCount /\ OpenCount /\ SlotCount /\ Learner
    BY DEF IInv
  <1>2. tee[r] \in Tee
    BY Parts
  <1>3. Locals'
    BY <1>1, LocalStep
  <1>4. TeeCount'
    BY <1>1, <1>2, TeeSame
  <1>5. OpenCount'
    <2>1. "sent" \in OpenPlaces
      BY DEF OpenPlaces
    <2> QED BY <1>1, <2>1, OpenBegins
  <1>6. SlotCount'
    BY <1>1, SlotStep
  <1>7. Learner'
    BY <1>1, LearnerSame
  <1> QED BY <1>3, <1>4, <1>5, <1>6, <1>7 DEF IInv

\* The exchange goes on; the learner may be told of it.
LEMMA OpenMove ==
  ASSUME IInv, NEW r \in Requests, NEW a, NEW s, NEW b,
         Moves(r, a, ask[r], s, tee[r], b), Fit(r, a, ask[r], s, tee[r], b),
         at[r] \in OpenPlaces, a \in OpenPlaces,
         UNCHANGED <<used, slots, inFlight>>,
         \/ UNCHANGED <<learned, successes, overload>>
         \/ \E class \in {"success", "other", "overload"} : Observe(ask[r].provider, class)
  PROVE  IInv'
  <1>1. Locals /\ TeeCount /\ OpenCount /\ SlotCount /\ Learner
    BY DEF IInv
  <1>2. tee[r] \in Tee /\ ask[r].provider \in Providers
    BY Parts
  <1>3. Locals'
    BY <1>1, LocalStep
  <1>4. TeeCount'
    BY <1>1, <1>2, TeeSame
  <1>5. OpenCount'
    BY <1>1, OpenSame
  <1>6. SlotCount'
    BY <1>1, SlotStep DEF OpenPlaces
  <1>7. Learner'
    BY <1>1, <1>2, LearnerSame, LearnerStep
  <1> QED BY <1>3, <1>4, <1>5, <1>6, <1>7 DEF IInv

\* A request of which nothing is left fits.
LEMMA Forgotten ==
  ASSUME NEW r \in Requests, NEW end \in {"denied", "done"}
  PROVE  Fit(r, end, NoAsk, NoResponse, NoTee, NoBill)
  <1>1. NoResponse \in Response /\ NoTee \in Tee /\ NoBill \in Bill /\ NoAsk \in Known
    <2>1. FALSE \in BOOLEAN
      BY Zenon
    <2> QED BY <2>1 DEF NoResponse, NoTee, NoBill, NoAsk, Response, Tee, Bill, Known
  <1> QED BY <1>1, RelayAssumption DEF Fit, Places, OpenPlaces, NoResponse, NoTee

\* The exchange ends and what its copy holds is returned.
LEMMA EndMove ==
  ASSUME IInv, NEW r \in Requests, Forget(r, "done"), at[r] \in OpenPlaces,
         used' = used - tee[r].reserved, EndUpstream(ask[r].provider),
         UNCHANGED <<slots, learned, successes, overload>>
  PROVE  IInv'
  <1>1. Locals /\ TeeCount /\ OpenCount /\ SlotCount /\ Learner
    BY DEF IInv
  <1>2. Moves(r, "done", NoAsk, NoResponse, NoTee, NoBill)
    BY DEF Forget, Moves
  <1>3. Fit(r, "done", NoAsk, NoResponse, NoTee, NoBill)
    BY Forgotten
  <1>4. Locals'
    BY <1>1, <1>2, <1>3, LocalStep
  <1>5. TeeCount'
    <2>1. tee[r].reserved \in Nat /\ used \in Nat
      BY Parts
    <2>2. NoTee \in Tee /\ NoTee.reserved = 0
      BY <1>3 DEF Fit, NoTee
    <2>3. used' = used + (NoTee.reserved - tee[r].reserved) /\ NoTee.reserved <= tee[r].reserved
      BY <2>1, <2>2
    <2> QED BY <1>1, <1>2, <2>2, <2>3, TeeStep
  <1>6. "done" \notin OpenPlaces
    BY DEF OpenPlaces
  <1>7. OpenCount'
    BY <1>1, <1>2, <1>6, OpenEnds
  <1>8. SlotCount'
    BY <1>1, <1>2, SlotStep DEF OpenPlaces
  <1>9. Learner'
    BY <1>1, LearnerSame
  <1> QED BY <1>4, <1>5, <1>7, <1>8, <1>9 DEF IInv

\* A request ends before it is sent.
LEMMA ForgetMove ==
  ASSUME IInv, NEW r \in Requests, NEW end \in {"denied", "done"}, Forget(r, end),
         at[r] \in {"asked", "decoded"}, UNCHANGED shared
  PROVE  IInv'
  <1>1. Moves(r, end, NoAsk, NoResponse, NoTee, NoBill)
    BY DEF Forget, Moves
  <1>2. Fit(r, end, NoAsk, NoResponse, NoTee, NoBill)
    BY Forgotten
  <1>3. at[r] \notin OpenPlaces /\ end \notin OpenPlaces /\ (end = "decoding" <=> at[r] = "decoding")
    BY DEF OpenPlaces
  <1>4. UNCHANGED <<used, inFlight, learned, successes, overload>> /\ slots' = slots
    BY DEF shared
  <1> QED BY <1>1, <1>2, <1>3, <1>4, ClosedMove

-----------------------------------------------------------------------------
(* The actions of a passthrough request.                                   *)

\* A request begins, at any route, or is turned away at a media route.
LEMMA StartStep ==
  ASSUME IInv, NEW r \in Requests, Arrive(r) \/ AcquireSlot(r) \/ NoSlot(r)
  PROVE  IInv'
  <1>0. Locals /\ Fit(r, at[r], ask[r], resp[r], tee[r], bill[r])
    BY Parts
  <1>1. /\ ask = [ask EXCEPT ![r] = ask[r]] /\ resp = [resp EXCEPT ![r] = resp[r]]
        /\ tee = [tee EXCEPT ![r] = tee[r]] /\ bill = [bill EXCEPT ![r] = bill[r]]
    BY <1>0, Stays
  <1>2. at[r] = "new" /\ at[r] \notin OpenPlaces
    BY DEF Arrive, AcquireSlot, NoSlot, OpenPlaces
  <1>3. CASE Arrive(r)
    <2>1. PICK k \in Asks[r] : ask' = [ask EXCEPT ![r] = k]
      BY <1>3 DEF Arrive
    <2>2. Moves(r, "asked", k, resp[r], tee[r], bill[r])
      BY <1>1, <1>3, <2>1 DEF Arrive, Moves
    <2>3. k \in Known
      BY <2>1, Zenon DEF Known
    <2>4. r \notin Media
      BY <1>3 DEF Arrive
    <2>5. Fit(r, "asked", k, resp[r], tee[r], bill[r])
      BY <1>0, <1>2, <2>3, <2>4 DEF Fit, Places, OpenPlaces
    <2>6. "asked" \notin OpenPlaces
      BY DEF OpenPlaces
    <2>7. UNCHANGED <<used, inFlight, learned, successes, overload>> /\ slots' = slots
      BY <1>3 DEF Arrive, shared
    <2> QED BY <1>2, <2>2, <2>5, <2>6, <2>7, ClosedMove
  <1>4. CASE AcquireSlot(r)
    <2>1. Moves(r, "decoding", ask[r], resp[r], tee[r], bill[r])
      BY <1>1, <1>4 DEF AcquireSlot, Moves
    <2>2. Fit(r, "decoding", ask[r], resp[r], tee[r], bill[r])
      BY <1>0, <1>2, <1>4 DEF AcquireSlot, Fit, Places, OpenPlaces
    <2>3. "decoding" \notin OpenPlaces
      BY DEF OpenPlaces
    <2>4. UNCHANGED <<used, inFlight, learned, successes, overload>> /\ slots' = slots + 1
      BY <1>4 DEF AcquireSlot, learner
    <2> QED BY <1>2, <2>1, <2>2, <2>3, <2>4, ClosedMove
  <1>5. CASE NoSlot(r)
    <2>1. Moves(r, "done", ask[r], resp[r], tee[r], bill[r])
      BY <1>1, <1>5 DEF NoSlot, Moves
    <2>2. Fit(r, "done", ask[r], resp[r], tee[r], bill[r])
      BY <1>0, <1>2 DEF Fit, Places, OpenPlaces
    <2>3. "done" \notin OpenPlaces
      BY DEF OpenPlaces
    <2>4. UNCHANGED <<used, inFlight, learned, successes, overload>> /\ slots' = slots
      BY <1>5 DEF NoSlot, shared
    <2> QED BY <1>2, <2>1, <2>2, <2>3, <2>4, ClosedMove
  <1> QED BY <1>3, <1>4, <1>5

\* It is turned away, or its model is not found.
LEMMA TurnedAwayStep ==
  ASSUME IInv, NEW r \in Requests, Deny(r) \/ Reject(r) \/ RefuseUnpriced(r) \/ Unresolved(r)
  PROVE  IInv'
  <1>1. /\ Forget(r, "denied") \/ Forget(r, "done")
        /\ at[r] \in {"asked", "decoded"} /\ UNCHANGED shared
    BY DEF Deny, Reject, RefuseUnpriced, Unresolved
  <1> QED BY <1>1, ForgetMove

\* It is sent; the gate has let no model through without a price.
LEMMA SendStep ==
  ASSUME IInv, NEW r \in Requests, Send(r)
  PROVE  IInv'
  <1> DEFINE k == [provider |-> ask[r].provider, gated |-> Gated(ask[r])]
             s == [resp[r] EXCEPT !.bytes = ask[r].body.bytes]
  <1>0. /\ Locals /\ Fit(r, at[r], ask[r], resp[r], tee[r], bill[r]) /\ resp[r] \in Response
        /\ bill[r] = NoBill /\ at[r] = "asked"
    BY Parts DEF Send
  <1>1. tee = [tee EXCEPT ![r] = tee[r]] /\ bill = [bill EXCEPT ![r] = bill[r]]
    BY <1>0, Stays
  <1>2. r \notin Media /\ ask[r] \in Asks[r]
    BY <1>0 DEF Fit
  <1>3. ask[r].provider \in Providers /\ ask[r].body.bytes \in BOOLEAN
    BY <1>2, AskAssumption
  <1>4. Gated(ask[r]) \in Priced \cup {"none"}
    BY DEF Send, Unpriced
  <1>5. k \in Order /\ k \in Known /\ k.provider = ask[r].provider
    BY <1>3, <1>4 DEF Order, Known
  <1>6. s \in Response /\ s.usage = resp[r].usage /\ s.ok = resp[r].ok /\ s.type = resp[r].type
        /\ s.length = resp[r].length
    BY <1>0, <1>3 DEF Response
  <1>7. Moves(r, "sent", k, s, tee[r], bill[r])
    BY <1>1 DEF Send, Moves
  <1>8. Begin(k.provider) /\ UNCHANGED <<used, slots, learned, successes, overload>>
    BY <1>5 DEF Send
  <1> HIDE DEF k, s
  <1>9. Fit(r, "sent", k, s, tee[r], bill[r])
    BY <1>0, <1>2, <1>5, <1>6 DEF Fit, Places, OpenPlaces
  <1>10. at[r] \notin OpenPlaces /\ at[r] # "decoding" /\ k.provider \in Providers
    BY <1>0, <1>3, <1>5 DEF OpenPlaces
  <1> QED BY <1>7, <1>8, <1>9, <1>10, BeginMove

\* No answer comes; the adapter has called, once more or for the last time, or its
\* response stalls.
LEMMA OverStep ==
  ASSUME IInv, NEW r \in Requests,
         \/ \E class \in {"other", "overload"} : NoAnswer(r, class)
         \/ MediaStalls(r)
         \/ \E class \in {"success", "other", "overload"} : MediaAttempt(r, class)
  PROVE  IInv'
  <1>0. Locals /\ Fit(r, at[r], ask[r], resp[r], tee[r], bill[r])
    BY Parts
  <1>1. /\ ask = [ask EXCEPT ![r] = ask[r]] /\ resp = [resp EXCEPT ![r] = resp[r]]
        /\ tee = [tee EXCEPT ![r] = tee[r]] /\ bill = [bill EXCEPT ![r] = bill[r]]
    BY <1>0, Stays
  <1>2. PICK a \in {"sent", "over", "accounted"} :
          /\ at' = [at EXCEPT ![r] = a]
          /\ \/ at[r] = "sent" /\ (a = "over" \/ (a = "sent" /\ r \in Media))
             \/ at[r] = "over" /\ a = "accounted" /\ r \in Media
    BY DEF NoAnswer, MediaStalls, MediaAttempt
  <1>3. /\ UNCHANGED <<ask, resp, tee, used, slots, inFlight, bill>>
        /\ \E class \in {"success", "other", "overload"} : Observe(ask[r].provider, class)
    BY DEF NoAnswer, MediaStalls, MediaAttempt
  <1>4. Moves(r, a, ask[r], resp[r], tee[r], bill[r])
    BY <1>1, <1>2, <1>3 DEF Moves
  <1>5. CASE a = "over"
    <2>1. at[r] = "sent"
      BY <1>2, <1>5
    <2>2. tee[r].size = 0 /\ resp[r].length = 0
      BY <1>0, <2>1 DEF Fit
    <2>3. Fit(r, "over", ask[r], resp[r], tee[r], bill[r])
      BY <1>0, <2>1, <2>2 DEF Fit, Places, OpenPlaces
    <2>4. at[r] \in OpenPlaces /\ "over" \in OpenPlaces
      BY <2>1 DEF OpenPlaces
    <2> QED BY <1>3, <1>4, <1>5, <2>3, <2>4, OpenMove
  <1>6. CASE a = "sent"
    <2>1. at[r] = "sent"
      BY <1>2, <1>6
    <2>2. at[r] \in OpenPlaces /\ "sent" \in OpenPlaces
      BY <2>1 DEF OpenPlaces
    <2> QED BY <1>0, <1>3, <1>4, <1>6, <2>1, <2>2, OpenMove
  <1>7. CASE a = "accounted"
    <2>1. at[r] = "over" /\ r \in Media
      BY <1>2, <1>7
    <2>2. Fit(r, "accounted", ask[r], resp[r], tee[r], bill[r])
      BY <1>0, <2>1 DEF Fit, Places, OpenPlaces
    <2>3. at[r] \in OpenPlaces /\ "accounted" \in OpenPlaces
      BY <2>1 DEF OpenPlaces
    <2> QED BY <1>3, <1>4, <1>7, <2>2, <2>3, OpenMove
  <1> QED BY <1>2, <1>5, <1>6, <1>7

\* A response comes.
LEMMA RespondStep ==
  ASSUME IInv, NEW r \in Requests, NEW status \in {"ok", "error", "busy"},
         NEW type \in {"json", "sse", "other"}, NEW model \in Models \cup {"none"},
         NEW usage \in BOOLEAN, Respond(r, status, type, model, usage)
  PROVE  IInv'
  <1>0. /\ Locals /\ Fit(r, at[r], ask[r], resp[r], tee[r], bill[r]) /\ resp[r] \in Response
        /\ at[r] = "sent" /\ r \notin Media
    BY Parts DEF Respond
  <1>1. /\ ask = [ask EXCEPT ![r] = ask[r]] /\ tee = [tee EXCEPT ![r] = tee[r]]
        /\ bill = [bill EXCEPT ![r] = bill[r]]
    BY <1>0, Stays
  <1>2. PICK bytes \in {FALSE, resp[r].bytes} :
          resp' = [resp EXCEPT ![r] = [ok |-> status = "ok", type |-> type, model |-> model,
                     usage |-> usage, bytes |-> bytes, length |-> 0, copied |-> "part"]]
    BY DEF Respond
  <1>3. PICK ok \in BOOLEAN : ok = (status = "ok")
    BY Zenon
  <1> DEFINE s == [ok |-> ok, type |-> type, model |-> model, usage |-> usage, bytes |-> bytes,
                   length |-> 0, copied |-> "part"]
  <1>4. resp' = [resp EXCEPT ![r] = s]
    BY <1>2, <1>3, Zenon
  <1>5. bytes \in BOOLEAN /\ FALSE \in BOOLEAN
    <2>1. FALSE \in BOOLEAN
      BY Zenon
    <2>2. resp[r].bytes \in BOOLEAN
      BY <1>0 DEF Response
    <2> QED BY <2>1, <2>2, Zenon
  <1>6. s \in Response
    BY <1>3, <1>5 DEF Response
  <1>7. s.usage => s.ok /\ s.type \in {"json", "sse"}
    <2>1. usage => type # "other" /\ status = "ok"
      BY DEF Respond
    <2> QED BY <1>3, <2>1
  <1>8. Moves(r, "copying", ask[r], s, tee[r], bill[r])
    BY <1>1, <1>4 DEF Respond, Moves
  <1> HIDE DEF s
  <1>l. s.length = 0
    BY DEF s
  <1>9. Fit(r, "copying", ask[r], s, tee[r], bill[r])
    BY <1>0, <1>6, <1>7, <1>l DEF Fit, Places, OpenPlaces
  <1>10. at[r] \in OpenPlaces /\ "copying" \in OpenPlaces
    BY <1>0 DEF OpenPlaces
  <1>11. /\ UNCHANGED <<used, slots, inFlight>>
         /\ \E class \in {"success", "other", "overload"} : Observe(ask[r].provider, class)
    <2>1. Classes[status] \in {"success", "other", "overload"}
      BY DEF Classes
    <2> QED BY <2>1 DEF Respond
  <1> QED BY <1>8, <1>9, <1>10, <1>11, OpenMove

\* cappedAccountingBuffer.Write takes what the cap and the budget allow, or nothing,
\* and says so if it is not everything.
LEMMA WriteFacts ==
  ASSUME NEW t \in Tee, NEW n \in 1..2, used \in Nat, used <= TeeLimit,
         t.size = t.reserved, t.size <= TeeCap
  PROVE  LET u == WriteTee(t, n)
         IN  /\ u \in Tee /\ u.size = u.reserved /\ u.size <= TeeCap
             /\ u.truncated \/ (~t.truncated /\ u.size = t.size + n)
             /\ \/ u.reserved = t.reserved
                \/ u.reserved - t.reserved \in Nat /\ used + (u.reserved - t.reserved) <= TeeLimit
  <1> DEFINE room == TeeCap - t.size
             part == Least(n, room)
             t2 == IF n > room THEN [t EXCEPT !.truncated = TRUE] ELSE t
             cut == [t EXCEPT !.truncated = TRUE]
             cut2 == [t2 EXCEPT !.truncated = TRUE]
             more == [t2 EXCEPT !.size = @ + part, !.reserved = @ + part]
  <1>1. t.size \in Nat /\ t.reserved \in Nat /\ TeeCap \in Nat /\ TeeLimit \in Nat
    BY RelayAssumption DEF Tee
  <1>2. cut \in Tee /\ cut.reserved = t.reserved /\ cut.size = t.size /\ cut.truncated
    <2>1. TRUE \in BOOLEAN
      BY Zenon
    <2> QED BY <2>1 DEF Tee
  <1>3. t2 \in Tee /\ t2.reserved = t.reserved /\ t2.size = t.size /\ (t2.truncated \/ (n <= room /\ t2 = t))
    BY <1>1, <1>2
  <1> HIDE DEF t2
  <1>4. cut2 \in Tee /\ cut2.reserved = t.reserved /\ cut2.size = t.size /\ cut2.truncated
    <2>1. TRUE \in BOOLEAN
      BY Zenon
    <2> QED BY <1>3, <2>1 DEF Tee
  <1>5. room > 0 => part \in Nat /\ t.size + part <= TeeCap /\ (n <= room => part = n)
    BY <1>1 DEF Least
  <1>8. room \in Int
    BY <1>1
  <1> HIDE DEF part, room
  <1>6. ASSUME room > 0, Reserve(part), ~t.truncated
        PROVE  /\ more \in Tee /\ more.reserved - t.reserved \in Nat
               /\ used + (more.reserved - t.reserved) <= TeeLimit
               /\ more.size = more.reserved /\ more.size <= TeeCap
               /\ more.truncated \/ more.size = t.size + n
    <2>1. part \in Nat /\ used + part <= TeeLimit /\ t.size + part <= TeeCap /\ (n <= room => part = n)
      BY <1>5, <1>6 DEF Reserve
    <2>2. more \in Tee /\ more.reserved = t.reserved + part /\ more.size = t.size + part
          /\ more.truncated = t2.truncated
      <3>1. PICK x \in Nat : x = t2.size + part
        BY <1>1, <1>3, <2>1
      <3>2. PICK y \in Nat : y = t2.reserved + part
        BY <1>1, <1>3, <2>1
      <3>3. more = [t2 EXCEPT !.size = x, !.reserved = y]
        BY <3>1, <3>2
      <3>4. t2 \in [size : Nat, reserved : Nat, truncated : BOOLEAN]
        BY <1>3 DEF Tee
      <3> HIDE DEF more
      <3>5. more \in [size : Nat, reserved : Nat, truncated : BOOLEAN] /\ more.reserved = y /\ more.size = x
            /\ more.truncated = t2.truncated
        BY <3>3, <3>4
      <3> QED BY <1>3, <3>1, <3>2, <3>5 DEF Tee
    <2> HIDE DEF more
    <2>3. more.reserved - t.reserved = part /\ more.size = more.reserved
      BY <1>1, <2>1, <2>2
    <2>4. more.truncated \/ more.size = t.size + n
      BY <1>3, <2>1, <2>2
    <2> QED BY <2>1, <2>2, <2>3, <2>4
  <1>7. WriteTee(t, n) = IF t.truncated \/ room <= 0 THEN cut ELSE IF Reserve(part) THEN more ELSE cut2
    BY DEF WriteTee, room, part, t2
  <1> HIDE DEF cut, cut2, more
  <1>9. CASE t.truncated \/ room <= 0
    BY <1>2, <1>7, <1>9
  <1>10. CASE ~(t.truncated \/ room <= 0) /\ Reserve(part)
    <2>1. room > 0
      BY <1>8, <1>10
    <2> QED BY <1>6, <1>7, <1>10, <2>1
  <1>11. CASE ~(t.truncated \/ room <= 0) /\ ~Reserve(part)
    BY <1>4, <1>7, <1>11
  <1> QED BY <1>9, <1>10, <1>11

\* A piece of a response goes to its copy.
LEMMA PieceStep ==
  ASSUME IInv, NEW r \in Requests, NEW n \in 1..2, Piece(r, n)
  PROVE  IInv'
  <1> DEFINE s == [resp[r] EXCEPT !.length = @ + n]
             u == WriteTee(tee[r], n)
  <1>0. /\ Locals /\ TeeCount /\ OpenCount /\ SlotCount /\ Learner
        /\ Fit(r, at[r], ask[r], resp[r], tee[r], bill[r]) /\ resp[r] \in Response
        /\ tee[r] \in Tee /\ tee[r].reserved \in Nat /\ used \in Nat /\ at[r] = "copying"
        /\ r \notin Media /\ tee[r].size = tee[r].reserved /\ tee[r].size <= TeeCap
        /\ (tee[r].truncated \/ tee[r].size = resp[r].length)
    BY Parts DEF Piece, Fit
  <1>1. /\ at = [at EXCEPT ![r] = at[r]] /\ ask = [ask EXCEPT ![r] = ask[r]]
        /\ bill = [bill EXCEPT ![r] = bill[r]]
    BY <1>0, Stays
  <1>2. used <= TeeLimit
    BY <1>0 DEF TeeCount
  <1>3. u \in Tee /\ (\/ u.reserved = tee[r].reserved
                      \/ /\ u.reserved - tee[r].reserved \in Nat
                         /\ used + (u.reserved - tee[r].reserved) <= TeeLimit)
        /\ u.size = u.reserved /\ u.size <= TeeCap
        /\ (u.truncated \/ (~tee[r].truncated /\ u.size = tee[r].size + n))
    BY <1>0, <1>2, WriteFacts
  <1>4. s \in Response /\ s.usage = resp[r].usage /\ s.ok = resp[r].ok /\ s.type = resp[r].type
        /\ s.length = resp[r].length + n
    <2>1. resp[r].length + n \in Nat
      BY <1>0 DEF Response
    <2> QED BY <1>0, <2>1 DEF Response
  <1>5. Moves(r, "copying", ask[r], s, u, bill[r])
    BY <1>0, <1>1 DEF Piece, Moves
  <1>6. used' = used + (u.reserved - tee[r].reserved)
    BY DEF Piece
  <1> HIDE DEF s, u
  <1>7. u.reserved \in Nat
    BY <1>3 DEF Tee
  <1>8. u.reserved <= tee[r].reserved \/ used' <= TeeLimit
    BY <1>0, <1>3, <1>6, <1>7
  <1>l. u.truncated \/ u.size = s.length
    BY <1>0, <1>3, <1>4
  <1>9. Fit(r, "copying", ask[r], s, u, bill[r])
    BY <1>0, <1>3, <1>4, <1>l DEF Fit, Places, OpenPlaces
  <1>10. Locals'
    BY <1>0, <1>5, <1>9, LocalStep
  <1>11. TeeCount'
    BY <1>0, <1>3, <1>5, <1>6, <1>8, TeeStep
  <1>12. OpenCount'
    <2>1. inFlight' = inFlight
      BY DEF Piece, learner
    <2> QED BY <1>0, <1>5, <2>1, OpenSame
  <1>13. SlotCount'
    <2>1. slots' = slots
      BY DEF Piece
    <2> QED BY <1>0, <1>5, <2>1, SlotStep
  <1>14. Learner'
    <2>1. UNCHANGED <<learned, successes, overload>>
      BY DEF Piece, learner
    <2> QED BY <1>0, <2>1, LearnerSame
  <1> QED BY <1>10, <1>11, <1>12, <1>13, <1>14 DEF IInv

\* The copy ends, breaks off or stalls.
LEMMA CopyEndsStep ==
  ASSUME IInv, NEW r \in Requests, CopyEnds(r) \/ CopyBreaks(r) \/ CopyStalls(r)
  PROVE  IInv'
  <1>c. PICK copied \in {"part", "read", "sent"} : Copied(r, copied)
    BY DEF CopyEnds, CopyBreaks, CopyStalls
  <1> DEFINE s == [resp[r] EXCEPT !.copied = copied]
  <1>0. /\ Locals /\ Fit(r, at[r], ask[r], resp[r], tee[r], bill[r]) /\ resp[r] \in Response
        /\ at[r] = "copying"
    BY <1>c, Parts DEF Copied
  <1>1. /\ ask = [ask EXCEPT ![r] = ask[r]] /\ tee = [tee EXCEPT ![r] = tee[r]]
        /\ bill = [bill EXCEPT ![r] = bill[r]]
    BY <1>0, Stays
  <1>2. s \in Response /\ s.usage = resp[r].usage /\ s.ok = resp[r].ok /\ s.type = resp[r].type
        /\ s.length = resp[r].length /\ s.bytes = resp[r].bytes
    BY <1>0 DEF Response
  <1>3. Moves(r, "over", ask[r], s, tee[r], bill[r])
    BY <1>c, <1>1 DEF CopyEnds, CopyBreaks, CopyStalls, Copied, Moves
  <1> HIDE DEF s
  <1>4. Fit(r, "over", ask[r], s, tee[r], bill[r])
    BY <1>0, <1>2 DEF Fit, Places, OpenPlaces
  <1>5. at[r] \in OpenPlaces /\ "over" \in OpenPlaces
    BY <1>0 DEF OpenPlaces
  <1>6. /\ UNCHANGED <<used, slots, inFlight>>
        /\ \/ UNCHANGED <<learned, successes, overload>>
           \/ \E class \in {"success", "other", "overload"} : Observe(ask[r].provider, class)
    BY DEF CopyEnds, CopyBreaks, CopyStalls, shared
  <1> QED BY <1>3, <1>4, <1>5, <1>6, OpenMove

\* Of a copy that is not complete nothing is read, of a stream the usage only if
\* there is one.
LEMMA ReadingFacts ==
  ASSUME NEW r \in Requests, resp[r] \in Response, NEW read \in Readings(r),
         tee[r] \in Tee, tee[r].truncated \/ tee[r].size = resp[r].length
  PROVE  /\ read.usage \in BOOLEAN /\ read.model \in Models \cup {"none"}
         /\ (resp[r].type = "json" /\ resp[r].usage /\ ~read.usage) => tee[r].truncated \/ resp[r].copied = "part"
  <1>1. resp[r].usage \in BOOLEAN /\ resp[r].model \in Models \cup {"none"}
    BY DEF Response
  <1>0. tee[r].truncated \/ ~(tee[r].size < resp[r].length)
    BY DEF Tee
  <1>2. Unread.usage = FALSE /\ Unread.model = "none" /\ Unread.usage \in BOOLEAN
    BY DEF Unread
  <1>3. CASE resp[r].type = "json"
    <2>1. read \in JSONReadings(r)
      BY <1>3 DEF Readings
    <2>2. CASE tee[r].truncated \/ resp[r].copied = "part"
      BY <1>2, <2>1, <2>2 DEF JSONReadings
    <2>3. CASE ~(tee[r].truncated \/ resp[r].copied = "part")
      <3>1. read = [usage |-> resp[r].usage, model |-> resp[r].model]
        BY <1>0, <2>1, <2>3 DEF JSONReadings
      <3>2. read.usage = resp[r].usage /\ read.model = resp[r].model
        BY <3>1
      <3> QED BY <1>1, <3>2
    <2> QED BY <2>2, <2>3
  <1>4. CASE resp[r].type = "sse"
    <2>1. read \in StreamReadings(r)
      BY <1>4 DEF Readings
    <2>2. read.usage \in {FALSE, resp[r].usage} /\ read.model \in {"none", resp[r].model}
      BY <2>1 DEF StreamReadings, KeptModels
    <2>3. FALSE \in BOOLEAN
      BY Zenon
    <2> QED BY <1>1, <1>4, <2>2, <2>3
  <1>5. CASE resp[r].type # "json" /\ resp[r].type # "sse"
    <2>1. read = Unread
      BY <1>5 DEF Readings
    <2> QED BY <1>2, <1>5, <2>1
  <1> QED BY <1>3, <1>4, <1>5

\* What was used is billed, and under a model with a price if one was looked up.
LEMMA AccountStep ==
  ASSUME IInv, NEW r \in Requests, Account(r)
  PROVE  IInv'
  <1>0. /\ Locals /\ Fit(r, at[r], ask[r], resp[r], tee[r], bill[r]) /\ resp[r] \in Response
        /\ at[r] = "over" /\ r \notin Media /\ ask[r] \in Order
        /\ tee[r] \in Tee /\ (tee[r].truncated \/ tee[r].size = resp[r].length)
    BY Parts DEF Account, OpenPlaces, Fit
  <1>1. /\ ask = [ask EXCEPT ![r] = ask[r]] /\ resp = [resp EXCEPT ![r] = resp[r]]
        /\ tee = [tee EXCEPT ![r] = tee[r]]
    BY <1>0, Stays
  <1>2. PICK read \in Readings(r) :
          bill' = [bill EXCEPT ![r] =
             IF read.usage THEN [usage |-> "reported", model |-> BillModel(r, read.model)]
             ELSE IF CanEstimate(r) THEN [usage |-> "estimated", model |-> BillModel(r, read.model)]
             ELSE NoBill]
    BY DEF Account
  <1>3. /\ read.usage \in BOOLEAN /\ read.model \in Models \cup {"none"}
        /\ (resp[r].type = "json" /\ resp[r].usage /\ ~read.usage) => tee[r].truncated \/ resp[r].copied = "part"
    BY <1>0, <1>2, ReadingFacts
  <1>4. PICK m : m = BillModel(r, read.model)
    OBVIOUS
  <1>5. /\ m \in Models \cup {"none"} /\ (ask[r].gated # "none" => m \in Priced)
    <2>1. ask[r].gated \in Priced \cup {"none"} /\ Priced \subseteq Models
      BY <1>0, RelayAssumption DEF Order
    <2> QED BY <1>3, <1>4, <2>1 DEF BillModel
  <1> DEFINE b == IF read.usage THEN [usage |-> "reported", model |-> m]
                  ELSE IF CanEstimate(r) THEN [usage |-> "estimated", model |-> m] ELSE NoBill
  <1>6. bill' = [bill EXCEPT ![r] = b]
    BY <1>2, <1>4
  <1>7. b \in Bill /\ (b # NoBill => b.model = m)
    BY <1>5 DEF Bill, NoBill
  <1>8. resp[r].usage /\ resp[r].bytes => b # NoBill
    <2> SUFFICES ASSUME resp[r].usage, resp[r].bytes PROVE b # NoBill
      OBVIOUS
    <2>1. resp[r].ok /\ resp[r].type \in {"json", "sse"}
      BY <1>0 DEF Fit
    <2>2. read.usage \/ CanEstimate(r)
      BY <1>3, <2>1 DEF CanEstimate
    <2>3. b = [usage |-> "reported", model |-> m] \/ b = [usage |-> "estimated", model |-> m]
      BY <2>2
    <2> HIDE DEF b
    <2> QED BY <2>3 DEF NoBill
  <1>9. Moves(r, "accounted", ask[r], resp[r], tee[r], b)
    BY <1>1, <1>6 DEF Account, Moves
  <1> HIDE DEF b
  <1>10. Fit(r, "accounted", ask[r], resp[r], tee[r], b)
    BY <1>0, <1>5, <1>7, <1>8 DEF Fit, Places, OpenPlaces
  <1>11. at[r] \in OpenPlaces /\ "accounted" \in OpenPlaces
    BY <1>0 DEF OpenPlaces
  <1>12. UNCHANGED <<used, slots, inFlight>> /\ UNCHANGED <<learned, successes, overload>>
    BY DEF Account, shared
  <1> QED BY <1>9, <1>10, <1>11, <1>12, OpenMove

\* The exchange ends: the handler returns or panics.
LEMMA EndStep ==
  ASSUME IInv, NEW r \in Requests, CopyPanics(r) \/ Finish(r) \/ MediaEnds(r)
  PROVE  IInv'
  <1>1. /\ Forget(r, "done") /\ at[r] \in OpenPlaces /\ EndUpstream(ask[r].provider)
        /\ UNCHANGED <<slots, learned, successes, overload>>
    BY DEF CopyPanics, Finish, MediaEnds, OpenPlaces
  <1>2. used' = used - tee[r].reserved
    <2>1. CASE MediaEnds(r)
      <3>1. r \in Media /\ used' = used
        BY <2>1 DEF MediaEnds
      <3>2. tee[r].reserved = 0 /\ used \in Nat
        BY <3>1, Parts DEF Fit
      <3> QED BY <3>1, <3>2
    <2>2. CASE CopyPanics(r) \/ Finish(r)
      BY <2>2 DEF CopyPanics, Finish
    <2> QED BY <2>1, <2>2
  <1> QED BY <1>1, <1>2, EndMove

-----------------------------------------------------------------------------
(* The actions of a media request.                                         *)

\* The body is decoded or not, and the slot given back.
LEMMA DecodeStep ==
  ASSUME IInv, NEW r \in Requests, Decode(r) \/ DecodeFails(r)
  PROVE  IInv'
  <1>0. Locals /\ Fit(r, at[r], ask[r], resp[r], tee[r], bill[r])
    BY Parts
  <1>1. /\ ask = [ask EXCEPT ![r] = ask[r]] /\ resp = [resp EXCEPT ![r] = resp[r]]
        /\ tee = [tee EXCEPT ![r] = tee[r]] /\ bill = [bill EXCEPT ![r] = bill[r]]
    BY <1>0, Stays
  <1>2. /\ at[r] = "decoding" /\ at[r] \notin OpenPlaces /\ slots' = slots - 1
        /\ UNCHANGED <<used, inFlight, learned, successes, overload>>
    BY DEF Decode, DecodeFails, OpenPlaces, learner
  <1>3. CASE Decode(r)
    <2>1. PICK k \in Asks[r] : ask' = [ask EXCEPT ![r] = k]
      BY <1>3 DEF Decode
    <2>2. Moves(r, "decoded", k, resp[r], tee[r], bill[r])
      BY <1>1, <1>3, <2>1 DEF Decode, Moves
    <2>3. k \in Known
      BY <2>1, Zenon DEF Known
    <2>4. r \in Media
      BY <1>0, <1>2 DEF Fit
    <2>5. Fit(r, "decoded", k, resp[r], tee[r], bill[r])
      BY <1>0, <1>2, <2>3, <2>4 DEF Fit, Places, OpenPlaces
    <2>6. "decoded" \notin OpenPlaces
      BY DEF OpenPlaces
    <2> QED BY <1>2, <2>2, <2>5, <2>6, ClosedMove
  <1>4. CASE DecodeFails(r)
    <2>1. Moves(r, "done", ask[r], resp[r], tee[r], bill[r])
      BY <1>1, <1>4 DEF DecodeFails, Moves
    <2>2. Fit(r, "done", ask[r], resp[r], tee[r], bill[r])
      BY <1>0, <1>2 DEF Fit, Places, OpenPlaces
    <2>3. "done" \notin OpenPlaces
      BY DEF OpenPlaces
    <2> QED BY <1>2, <2>1, <2>2, <2>3, ClosedMove
  <1> QED BY <1>3, <1>4

\* The model resolves and the request is sent.
LEMMA SendMediaStep ==
  ASSUME IInv, NEW r \in Requests, SendMedia(r)
  PROVE  IInv'
  <1> DEFINE f == Resolved(ask[r])
             k == [provider |-> f.provider, gated |-> "none"]
  <1>0. /\ Locals /\ Fit(r, at[r], ask[r], resp[r], tee[r], bill[r]) /\ bill[r] = NoBill
        /\ at[r] = "decoded"
    BY Parts DEF SendMedia
  <1>1. /\ resp = [resp EXCEPT ![r] = resp[r]] /\ tee = [tee EXCEPT ![r] = tee[r]]
        /\ bill = [bill EXCEPT ![r] = bill[r]]
    BY <1>0, Stays
  <1>2. f.provider \in Providers
    <2>1. f = Resolve(ask[r].catalogue, ask[r].caller, ask[r].name) /\ f # NotFound
      BY DEF SendMedia, Resolved
    <2>2. PICK p \in Providers : \E x : f = [provider |-> p, model |-> x]
      BY <2>1, ResolveFacts
    <2>3. PICK m : f = [provider |-> p, model |-> m]
      BY <2>2
    <2> HIDE DEF f
    <2> QED BY <2>3
  <1>3. Moves(r, "sent", k, resp[r], tee[r], bill[r])
    BY <1>1 DEF SendMedia, Moves
  <1>4. Begin(k.provider) /\ UNCHANGED <<used, slots, learned, successes, overload>>
    BY DEF SendMedia
  <1> HIDE DEF f
  <1>5. k \in Order /\ k \in Known /\ k.provider \in Providers
    BY <1>2 DEF Order, Known
  <1> HIDE DEF k
  <1>6. Fit(r, "sent", k, resp[r], tee[r], bill[r])
    BY <1>0, <1>5 DEF Fit, Places, OpenPlaces
  <1>7. at[r] \notin OpenPlaces /\ at[r] # "decoding"
    BY <1>0 DEF OpenPlaces
  <1> QED BY <1>3, <1>4, <1>5, <1>6, <1>7, BeginMove

-----------------------------------------------------------------------------
(* The theorems.                                                           *)

\* Every step of every request keeps the invariant.
LEMMA StepKeeps ==
  ASSUME IInv, NEW r \in Requests, Step(r)
  PROVE  IInv'
  <1>1. CASE Arrive(r) \/ AcquireSlot(r) \/ NoSlot(r)
    BY <1>1, StartStep
  <1>2. CASE Deny(r) \/ Reject(r) \/ RefuseUnpriced(r) \/ Unresolved(r)
    BY <1>2, TurnedAwayStep
  <1>3. CASE Send(r)
    BY <1>3, SendStep
  <1>4. CASE \/ \E class \in {"other", "overload"} : NoAnswer(r, class)
             \/ MediaStalls(r)
             \/ \E class \in {"success", "other", "overload"} : MediaAttempt(r, class)
    BY <1>4, OverStep
  <1>5. CASE \E status \in {"ok", "error", "busy"}, type \in {"json", "sse", "other"},
                model \in Models \cup {"none"}, usage \in BOOLEAN :
                  Respond(r, status, type, model, usage)
    BY <1>5, RespondStep
  <1>6. CASE \E n \in 1..2 : Piece(r, n)
    BY <1>6, PieceStep
  <1>7. CASE CopyEnds(r) \/ CopyBreaks(r) \/ CopyStalls(r)
    BY <1>7, CopyEndsStep
  <1>8. CASE Account(r)
    BY <1>8, AccountStep
  <1>9. CASE CopyPanics(r) \/ Finish(r) \/ MediaEnds(r)
    BY <1>9, EndStep
  <1>10. CASE Decode(r) \/ DecodeFails(r)
    BY <1>10, DecodeStep
  <1>11. CASE SendMedia(r)
    BY <1>11, SendMediaStep
  <1> QED BY <1>1, <1>2, <1>3, <1>4, <1>5, <1>6, <1>7, <1>8, <1>9, <1>10, <1>11 DEF Step

\* At the start no request holds anything.
LEMMA InitHolds == Init => IInv
  <1> SUFFICES ASSUME Init PROVE IInv
    OBVIOUS
  <1>1. FALSE \in BOOLEAN
    BY Zenon
  <1>2. Locals
    <2>1. NoResponse \in Response /\ NoTee \in Tee /\ NoBill \in Bill /\ NoAsk \in Known
      BY <1>1 DEF NoResponse, NoTee, NoBill, NoAsk, Response, Tee, Bill, Known
    <2>2. "new" \in Places
      BY DEF Places
    <2>3. /\ at \in [Requests -> Places] /\ ask \in [Requests -> Known]
          /\ resp \in [Requests -> Response] /\ tee \in [Requests -> Tee]
          /\ bill \in [Requests -> Bill]
      BY <2>1, <2>2 DEF Init, Idle
    <2>4. \A r \in Requests : Fit(r, "new", NoAsk, NoResponse, NoTee, NoBill)
      BY <2>1, <2>2, RelayAssumption DEF Fit, OpenPlaces, NoResponse, NoTee
    <2>5. \A r \in Requests : /\ at[r] = "new" /\ ask[r] = NoAsk /\ resp[r] = NoResponse
                              /\ tee[r] = NoTee /\ bill[r] = NoBill
      BY DEF Init, Idle
    <2>6. \A r \in Requests : Fit(r, at[r], ask[r], resp[r], tee[r], bill[r])
      BY <2>4, <2>5
    <2> QED BY <2>3, <2>6 DEF Locals
  <1>3. TeeCount
    <2>1. \A r \in Requests : Reservations[r] = 0
      BY DEF Init, Idle, NoTee, Reservations
    <2>2. \A r \in Requests : {r} \X (1..Reservations[r]) = {}
      BY <2>1
    <2>3. Cells(Reservations) = {}
      BY <2>2 DEF Cells
    <2>4. used = 0 /\ TeeLimit \in Nat
      BY RelayAssumption DEF Init, Idle
    <2> QED BY <2>3, <2>4, FS_EmptySet DEF TeeCount
  <1>4. OpenCount
    <2>1. \A p \in Providers : OpenAt(p) = {}
      BY DEF Init, OpenAt, OpenPlaces
    <2>2. inFlight \in [Providers -> Nat] /\ \A p \in Providers : inFlight[p] = 0
      BY DEF Init, Idle
    <2> QED BY <2>1, <2>2, FS_EmptySet DEF OpenCount
  <1>5. SlotCount
    <2>1. Decoding = {}
      BY DEF Init, Decoding
    <2>2. slots = 0
      BY DEF Init, Idle
    <2> QED BY <2>1, <2>2, FS_EmptySet DEF SlotCount
  <1>6. Learner
    <2>1. 0 \in 0..(Ceiling - 1)
      BY RelayAssumption
    <2>2. learned \in [Providers -> 0..(Ceiling - 1)] /\ successes \in [Providers -> Nat]
      BY <2>1 DEF Init, Idle
    <2>3. overload \in [Providers -> BOOLEAN] /\ \A p \in Providers : ~overload[p]
      BY <1>1, Zenon DEF Init, Idle
    <2> QED BY <2>2, <2>3 DEF Learner, OverloadIsRemembered
  <1> QED BY <1>2, <1>3, <1>4, <1>5, <1>6 DEF IInv

\* A step in which nothing changes keeps it.
LEMMA StutterKeeps ==
  ASSUME IInv, UNCHANGED vars
  PROVE  IInv'
  <1>1. UNCHANGED <<at, ask, resp, tee, used, slots, inFlight, learned, successes, overload, bill>>
    BY DEF vars, shared
  <1>2. Locals'
    BY <1>1 DEF IInv, Locals
  <1>3. TeeCount'
    BY <1>1 DEF IInv, TeeCount, Reservations
  <1>4. OpenCount'
    BY <1>1 DEF IInv, OpenCount, OpenAt
  <1>5. SlotCount'
    BY <1>1 DEF IInv, SlotCount, Decoding
  <1>6. Learner'
    BY <1>1 DEF IInv, Learner, OverloadIsRemembered
  <1> QED BY <1>2, <1>3, <1>4, <1>5, <1>6 DEF IInv

\* The inductive invariant: what fits together in a request, whatever the others
\* do, and what the requests share as counts of them.
THEOREM Invariant == Spec => []IInv
  <1>1. Init => IInv
    BY InitHolds
  <1>2. IInv /\ [Next]_vars => IInv'
    <2> SUFFICES ASSUME IInv, [Next]_vars PROVE IInv'
      OBVIOUS
    <2>1. CASE Next
      BY <2>1, StepKeeps DEF Next
    <2>2. CASE UNCHANGED vars
      BY <2>2, StutterKeeps
    <2> QED BY <2>1, <2>2
  <1> QED BY <1>1, <1>2, PTL DEF Spec

\* However relays end, by their end, by breaking off or a panic, the shared budget
\* of bytes, the counts of exchanges and the decoding slots are what the requests
\* at work hold, no copy exceeds its cap and all together never the budget.
THEOREM ResourcesCorrect == Spec => []ResourcesReturned
  <1>1. IInv => ResourcesReturned
    <2> SUFFICES ASSUME IInv PROVE ResourcesReturned
      OBVIOUS
    <2>1. Cells(Reservations) = UNION {{r} \X (1..tee[r].reserved) : r \in Requests}
      <3>1. \A r \in Requests : Reservations[r] = tee[r].reserved
        BY DEF Reservations
      <3> QED BY <3>1 DEF Cells
    <2>2. /\ used = Cardinality(UNION {{r} \X (1..tee[r].reserved) : r \in Requests})
          /\ used <= TeeLimit
      BY <2>1 DEF IInv, TeeCount
    <2>3. \A r \in Requests : Open(r) <=> at[r] \in OpenPlaces
      BY DEF Open, OpenPlaces
    <2>4. \A r \in Requests :
            tee[r].size = tee[r].reserved /\ tee[r].size <= TeeCap /\ (~Open(r) => tee[r].reserved = 0)
      BY <2>3, Parts DEF Fit
    <2>5. \A p \in Providers : OpenAt(p) = {r \in Requests : Open(r) /\ ask[r].provider = p}
      BY <2>3 DEF OpenAt
    <2>6. \A p \in Providers :
            inFlight[p] = Cardinality({r \in Requests : Open(r) /\ ask[r].provider = p})
      BY <2>5 DEF IInv, OpenCount
    <2>7. slots = Cardinality({r \in Requests : at[r] = "decoding"})
      BY DEF IInv, SlotCount, Decoding
    <2> QED BY <2>2, <2>4, <2>6, <2>7 DEF ResourcesReturned
  <1> QED BY <1>1, Invariant, PTL

\* What a provider has reported is billed, at least as an estimate, whenever the
\* request's body had been read.
THEOREM BillCorrect == Spec => []UsedIsBilled
  <1>1. IInv => UsedIsBilled
    BY Parts DEF UsedIsBilled, Fit
  <1> QED BY <1>1, Invariant, PTL

\* An overload leaves a limit that can be announced until the next success.
THEOREM OverloadCorrect == Spec => []OverloadIsRemembered
  <1>1. IInv => OverloadIsRemembered
    BY DEF IInv, Learner
  <1> QED BY <1>1, Invariant, PTL

\* A caller with a cost budget is charged a known price.
THEOREM BudgetCorrect == Spec => []BudgetSeesCost
  <1>1. IInv => BudgetSeesCost
    BY Parts DEF BudgetSeesCost, Fit
  <1> QED BY <1>1, Invariant, PTL

\* For every catalogue, every caller and every name: the listing, resolve and the
\* failover candidates agree.
THEOREM NamesCorrect == Spec => []NamesAgree
  <1>1. IInv => NamesAgree
    <2> SUFFICES ASSUME IInv, NEW r \in Media, at[r] = "decoded"
                 PROVE  /\ ListedResolves(ask[r].catalogue, ask[r].caller)
                        /\ GrantedResolves(ask[r].catalogue, ask[r].caller, ask[r].name)
                        /\ CandidatesGranted(ask[r].catalogue, ask[r].caller, ask[r].name)
      BY DEF NamesAgree
    <2>1. r \in Requests
      BY RelayAssumption
    <2>2. ask[r] \in Asks[r]
      BY <2>1, Parts DEF Fit
    <2>3. IsCaller(ask[r].caller) /\ IsCatalogue(ask[r].catalogue)
      BY <2>2, AskAssumption
    <2> QED BY <2>3, ListedNames, GrantedNames, GrantedCandidates
  <1> QED BY <1>1, Invariant, PTL

\* Where a request goes from the checks.
LEMMA CheckedStep ==
  ASSUME Locals, NEW r \in Requests, Step(r), at[r] = "asked"
  PROVE  \/ at'[r] = "denied" /\ ~Permitted(ask[r])
         \/ at'[r] \in {"done", "sent"} /\ Permitted(ask[r])
  <1>0. at \in [Requests -> Places]
    BY DEF Locals
  <1>1. Deny(r) \/ Reject(r) \/ RefuseUnpriced(r) \/ Send(r)
    BY DEF Step, Arrive, NoAnswer, Respond, Piece, CopyEnds, CopyBreaks, CopyStalls, CopyPanics,
           Account, Finish, AcquireSlot, NoSlot, Decode, DecodeFails, SendMedia, Unresolved,
           MediaEnds, MediaStalls, MediaAttempt, Copied
  <1>2. CASE Deny(r)
    BY <1>0, <1>2 DEF Deny, Forget
  <1>3. CASE Reject(r) \/ RefuseUnpriced(r)
    BY <1>0, <1>3 DEF Reject, RefuseUnpriced, Forget
  <1>4. CASE Send(r)
    BY <1>0, <1>4 DEF Send
  <1> QED BY <1>1, <1>2, <1>3, <1>4

\* A step of one request leaves the others where they are.
LEMMA OthersStay ==
  ASSUME Locals, NEW r \in Requests, Step(r), NEW d \in Requests \ {r}
  PROVE  at'[d] = at[d]
  <1>0. at \in [Requests -> Places]
    BY DEF Locals
  <1>1. at' = at \/ \E x : at' = [at EXCEPT ![r] = x]
    BY DEF Step, Arrive, Deny, Reject, RefuseUnpriced, Send, NoAnswer, Respond, Piece, CopyEnds,
           CopyBreaks, CopyStalls, CopyPanics, Account, Finish, AcquireSlot, NoSlot, Decode,
           DecodeFails, SendMedia, Unresolved, MediaEnds, MediaStalls, MediaAttempt, Copied, Forget
  <1> QED BY <1>0, <1>1

\* handlePassthrough lets through exactly the requests that one grant allows as a
\* whole: provider, path and model.
THEOREM GrantsCorrect == Spec => GrantsNeverMix
  <1> DEFINE A == \A r \in Requests :
                    /\ at[r] = "asked" /\ at'[r] \in {"sent", "done"} => OneGrant(ask[r])
                    /\ at[r] = "asked" /\ at'[r] = "denied" => ~OneGrant(ask[r])
  <1>1. IInv /\ [Next]_vars => [A]_vars
    <2> SUFFICES ASSUME IInv, Next, NEW d \in Requests, at[d] = "asked"
                 PROVE  /\ at'[d] \in {"sent", "done"} => OneGrant(ask[d])
                        /\ at'[d] = "denied" => ~OneGrant(ask[d])
      OBVIOUS
    <2>1. PICK r \in Requests : Step(r)
      BY DEF Next
    <2>2. Locals
      BY DEF IInv
    <2>3. CASE d # r
      <3>1. at'[d] = "asked"
        BY <2>1, <2>2, <2>3, OthersStay
      <3> QED BY <3>1
    <2>4. CASE d = r
      <3>1. \/ at'[d] = "denied" /\ ~Permitted(ask[d])
            \/ at'[d] \in {"done", "sent"} /\ Permitted(ask[d])
        BY <2>1, <2>2, <2>4, CheckedStep
      <3>2. d \notin Media /\ ask[d] \in Asks[d]
        BY Parts DEF Fit
      <3>3. IsCaller(ask[d].caller)
        BY <3>2, AskAssumption
      <3>4. Permitted(ask[d]) <=> OneGrant(ask[d])
        BY <3>3, PermittedIsOneGrant
      <3> QED BY <3>1, <3>4
    <2> QED BY <2>3, <2>4
  <1> QED BY <1>1, Invariant, PTL DEF Spec, GrantsNeverMix

=============================================================================
