------------------------------- MODULE Access -------------------------------
(***************************************************************************)
(* auth.go: groups, personal grants and what a caller with several of them *)
(* may use.  A list of patterns is the set of what it matches; the empty   *)
(* list restricts nothing.  A group is [providers, models, paths], a       *)
(* caller is [members, personal]: its groups, primary first, and its       *)
(* personal grant, if any.                                                 *)
(***************************************************************************)
EXTENDS Sequences, SequencesExt

\* The value of personal for a caller without a personal grant.
NoGrant == [providers |-> {}, models |-> {}, exists |-> FALSE]

\* Every caller has a primary group.
IsCaller(c) ==
    c.members \in Seq(ToSet(c.members)) /\ c.members # <<>> /\ c.personal.exists \in BOOLEAN

\* matchesGlob
Matches(patterns, x) == patterns = {} \/ x \in patterns

\* unionOrAll: one list without a restriction lifts all of them.
UnionOrAll(lists) == IF {} \in lists THEN {} ELSE UNION lists

\* The grants of effectiveGroup; a lone group without a personal grant is
\* itself the effective group.
Grants(c) ==
    {[providers |-> m.providers, models |-> m.models] : m \in ToSet(c.members)}
    \cup (IF c.personal.exists
          THEN {[providers |-> c.personal.providers, models |-> c.personal.models]} ELSE {})
GrantCount(c) == Len(c.members) + (IF c.personal.exists THEN 1 ELSE 0)

AllowsProvider(c, p) == Matches(UnionOrAll({g.providers : g \in Grants(c)}), p)
HasModelRestriction(c) == UnionOrAll({g.models : g \in Grants(c)}) # {}
AllowsProviderModel(c, p, m) == \E g \in Grants(c) : Matches(g.providers, p) /\ Matches(g.models, m)

\* allowsPassthroughPath of one group; a personal grant has the primary's paths.
GroupPath(g, path) == Matches(g.paths, path)
PersonalPath(c, p, path) ==
    c.personal.exists /\ Matches(c.personal.providers, p) /\ GroupPath(Head(c.members), path)

\* The member groups that allow a provider and a path together.
MembersFor(c, p, path) ==
    {g \in ToSet(c.members) : Matches(g.providers, p) /\ GroupPath(g, path)}

AllowsPathForProvider(c, p, path) == MembersFor(c, p, path) # {} \/ PersonalPath(c, p, path)

HasModelRestrictionForPath(c, p, path) ==
    /\ \A g \in MembersFor(c, p, path) : g.models # {}
    /\ PersonalPath(c, p, path) => c.personal.models # {}

\* Faulty variant: the rule before path and model were coupled: any grant's model
AllowsModelForPathMixed(c, p, path, m) == AllowsProviderModel(c, p, m)
AllowsModelForPath(c, p, path, m) ==
    \/ \E g \in MembersFor(c, p, path) : Matches(g.models, m)
    \/ PersonalPath(c, p, path) /\ Matches(c.personal.models, m)
=============================================================================
