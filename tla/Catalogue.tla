----------------------------- MODULE Catalogue -----------------------------
(***************************************************************************)
(* registry.go: which provider serves a model name, and which names the    *)
(* model listing shows.  A name is the sequence of its parts between       *)
(* slashes, "p/m" is <<"p", "m">>.  A catalogue is [known, aliases,        *)
(* requirePrefix]: per provider the models it is known to serve, the       *)
(* configured aliases and whether names need a provider's prefix.          *)
(***************************************************************************)
EXTENDS Access, Integers, FiniteSets

CONSTANT ProviderNames  \* the configured providers, sorted

ASSUME NamesAssumption ==
    /\ ProviderNames \in Seq(STRING)
    /\ \A i \in 1..Len(ProviderNames) : ProviderNames[i] # "none"

Providers == ToSet(ProviderNames)

\* Names of models.
Names == Seq(STRING) \ {<<>>}

\* splitConfiguredProvider: only the first part counts.
Prefixed(id) == Len(id) > 1 /\ Head(id) \in Providers

\* The catalogues there are; validateModelAliases rejects an alias with the prefix
\* of a provider.
IsCatalogue(cat) ==
    /\ cat.known \in [Providers -> SUBSET Names] /\ cat.requirePrefix \in BOOLEAN
    /\ \A a \in DOMAIN cat.aliases : a \in Names /\ ~Prefixed(a) /\ cat.aliases[a] \in Names

\* The first in the sort order.
First(S) ==
    ProviderNames[CHOOSE i \in 1..Len(ProviderNames) :
                     ProviderNames[i] \in S /\ \A k \in 1..(i - 1) : ProviderNames[k] \notin S]

\* allowsProviderModel of a model with several names.
AllowsAny(c, p, ids) == \E id \in ids : AllowsProviderModel(c, p, id)

Owners(cat, id) == {p \in Providers : id \in cat.known[p]}
Visible(cat, c, id) == {p \in Owners(cat, id) : AllowsProvider(c, p)}

\* bareEntryWinner: the first of these wins.
Winners(owners, c, ids) ==
    IF GrantCount(c) <= 1 THEN owners ELSE {p \in owners : AllowsAny(c, p, ids)}

\* The first set that is not empty.
Else(S, T) == IF S # {} THEN S ELSE T

\* Faulty variant: the rule before grants were looked at: the first visible provider
BareWinnerVisible(cat, c, id, ids) == First(Else(Visible(cat, c, id), Owners(cat, id)))
\* bareWinner of a model that somebody serves; a provider that the caller may not
\* use is still named, for the error.
BareWinner(cat, c, id, ids) ==
    First(Else(Winners(Visible(cat, c, id), c, ids), Else(Visible(cat, c, id), Owners(cat, id))))

NotFound == [provider |-> "none", model |-> <<>>]

\* resolveAgainst; an unknown model and a denied one are both NotFound.
ResolveAgainst(cat, c, p, model, ids) ==
    IF model \in cat.known[p] /\ AllowsAny(c, p, ids)
      THEN [provider |-> p, model |-> model] ELSE NotFound

\* resolve of a name that is no alias, and resolveAliasTarget with the alias as
\* one more name.
ResolveTarget(cat, c, id, alias) ==
    IF Prefixed(id) THEN ResolveAgainst(cat, c, Head(id), Tail(id), {id, Tail(id)} \cup alias)
    ELSE IF Owners(cat, id) = {} THEN NotFound
    ELSE ResolveAgainst(cat, c, BareWinner(cat, c, id, {id} \cup alias), id, {id} \cup alias)

Resolve(cat, c, id) ==
    IF id \in DOMAIN cat.aliases THEN ResolveTarget(cat, c, cat.aliases[id], {id})
    ELSE IF cat.requirePrefix /\ ~Prefixed(id) THEN NotFound
    ELSE ResolveTarget(cat, c, id, {})

\* failoverCandidates: the other providers of a model, which module Failover tries
\* in their sort order.  With a single grant only
\* the provider is looked at: the primary's resolution has matched the model.
FailoverCandidates(cat, c, id, alias, primary) ==
    {p \in Owners(cat, id) \ {primary} :
        IF GrantCount(c) > 1 THEN AllowsAny(c, p, {id, <<p>> \o id} \cup alias)
                             ELSE AllowsProvider(c, p)}

\* resolveWithCandidates: a name with a provider, or an alias of one, means that
\* provider and no other.
Target(cat, id) == IF id \in DOMAIN cat.aliases THEN cat.aliases[id] ELSE id
AliasOf(cat, id) == {id} \cap DOMAIN cat.aliases
ResolveWithCandidates(cat, c, id) ==
    LET primary == Resolve(cat, c, id)
    IN  IF primary = NotFound \/ Prefixed(Target(cat, id)) THEN {}
        ELSE FailoverCandidates(cat, c, Target(cat, id), AliasOf(cat, id), primary.provider)

Entry(id, p, model) == [id |-> id, provider |-> p, model |-> model]

\* aliasEntriesFor: an alias that the caller cannot use shadows nothing.
UsableAliases(cat, c) == {a \in DOMAIN cat.aliases : Resolve(cat, c, a) # NotFound}
AliasEntries(cat, c) ==
    {LET found == Resolve(cat, c, a) IN Entry(a, found.provider, found.model) :
        a \in UsableAliases(cat, c)}

\* The body of listFor's loop: the bare name if it means the model, and the
\* prefixed ones if it does not or several providers are visible.
ListedAs(cat, c, id) ==
    LET visible == Visible(cat, c, id)
        winners == Winners(visible, c, {id})
        bare    == id \notin UsableAliases(cat, c) /\ ~Prefixed(id) /\ ~cat.requirePrefix
    IN  (IF bare /\ winners # {} /\ AllowsAny(c, First(winners), {id})
           THEN {Entry(id, First(winners), id)} ELSE {})
        \cup
        (IF bare /\ Cardinality(visible) < 2 THEN {}
         ELSE {Entry(<<p>> \o id, p, id) :
                  p \in {q \in visible : AllowsAny(c, q, {<<q>> \o id, id})}})

ListFor(cat, c) ==
    (UNION {ListedAs(cat, c, id) : id \in UNION {cat.known[p] : p \in Providers}})
    \cup AliasEntries(cat, c)

-----------------------------------------------------------------------------
\* A name the listing shows resolves, for the same caller, to the model and the
\* provider it is listed under, whatever names providers, models and aliases
\* share.  The exception is a model whose name is also an alias that the caller
\* cannot use: it is listed, but resolve looks at the alias (registry.go:1935).
ListedResolves(cat, c) ==
    \A e \in ListFor(cat, c) :
        e.id \notin DOMAIN cat.aliases \ UsableAliases(cat, c) =>
            Resolve(cat, c, e.id) = [provider |-> e.provider, model |-> e.model]

\* A bare name is not denied to a caller that has a grant for a provider of the
\* model and the model together.
GrantedResolves(cat, c, id) ==
    (/\ id \notin DOMAIN cat.aliases /\ ~Prefixed(id) /\ ~cat.requirePrefix
     /\ \E p \in Owners(cat, id) : AllowsProviderModel(c, p, id))
        => Resolve(cat, c, id) # NotFound

\* Failover never leads to a provider for which no single grant covers the model
\* under one of its names, though a single grant's models are not looked at again
\* (failover.go:251-283).
CandidatesGranted(cat, c, id) ==
    \A p \in ResolveWithCandidates(cat, c, id) :
        LET target == Target(cat, id)
        IN  /\ target \in cat.known[p]
            /\ AllowsAny(c, p, {target, <<p>> \o target} \cup AliasOf(cat, id))
=============================================================================
