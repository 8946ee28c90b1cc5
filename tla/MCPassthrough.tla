--------------------------- MODULE MCPassthrough ---------------------------
(* Instances of Passthrough for TLC.                                       *)
EXTENDS Passthrough
CONSTANTS r0, r1, r2, i0

Groups == [providers : {{}, {"p"}}, models : {{}, {"m"}}, paths : {{}, {"chat"}}]
Callers ==
    [members : {<<g>> : g \in Groups} \cup (Groups \X Groups),
     personal : {NoGrant} \cup [providers : {{}, {"p"}}, models : {{}, {"m"}}, exists : {TRUE}]]
Bodies ==
    {[model |-> m, cut |-> c, bytes |-> TRUE] : m \in {"m", "n", "none"}, c \in BOOLEAN}
    \cup {[model |-> "none", cut |-> FALSE, bytes |-> FALSE]}
Anyone == [members |-> <<[providers |-> {}, models |-> {}, paths |-> {}]>>, personal |-> NoGrant]

MCProviderNames == <<"p", "q">>

\* q/m may be a model of q or, as the name of a model, of p; a and m are aliases.
Catalogues ==
    [known : [{"p", "q"} -> SUBSET {<<"m">>, <<"q", "m">>}],
     aliases : {[x \in {} |-> x], [x \in {<<"a">>} |-> <<"m">>], [x \in {<<"m">>} |-> <<"q", "n">>],
                [x \in {<<"m">>} |-> <<"q", "m">>]},
     requirePrefix : BOOLEAN]
NameGroups == [providers : {{}, {"p"}}, models : {{}, {<<"m">>}, {<<"q", "m">>}, {<<"a">>}}, paths : {{}}]
NameCallers ==
    [members : {<<g>> : g \in NameGroups} \cup (NameGroups \X NameGroups), personal : {NoGrant}]
    \cup [members : {<<g>> : g \in NameGroups},
          personal : [providers : {{"q"}}, models : {{<<"m">>}}, exists : {TRUE}]]
OneCatalogue ==
    [known |-> [p \in {"p", "q"} |-> {<<p>>}], aliases |-> [x \in {} |-> x], requirePrefix |-> FALSE]

\* r0 asks with all kinds of grants, the others without a restriction; r1 has a
\* cost budget, r0 may have one.
Plain(p, model, budgeted) ==
    [caller |-> Anyone, provider |-> p, path |-> "chat",
     body |-> [model |-> model, cut |-> FALSE, bytes |-> TRUE], budgeted |-> budgeted]
MCAsks ==
    [r \in Requests |->
       CASE r = r0 -> [caller : Callers, provider : {"p", "q"}, path : {"chat", "files"},
                       body : Bodies, budgeted : BOOLEAN]
         [] r = r1 -> {Plain("p", "m", TRUE)}
         [] r = r2 -> {Plain("q", "n", FALSE)}
         [] r = i0 -> [caller : NameCallers, catalogue : Catalogues,
                       name : {<<"m">>, <<"p", "m">>, <<"a">>}]
         [] OTHER -> [caller : {Anyone}, catalogue : {OneCatalogue}, name : {<<"p">>, <<"q">>}]]

\* A behaviour has r0 or i0 alone, or r1 and r2, or the other media requests.
MCInit ==
    /\ Idle
    /\ \E some \in {{r0}, {i0}, {r1, r2}, Media \ {i0}} :
         at = [r \in Requests |-> IF r \in some THEN "new" ELSE "done"]
MCSpec == MCInit /\ [][Next]_vars
=============================================================================
