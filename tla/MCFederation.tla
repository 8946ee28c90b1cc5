---------------------------- MODULE MCFederation ----------------------------
(* Instances of Federation for TLC.                                        *)
EXTENDS Federation, TLC
CONSTANTS a, ab, old, r1, r2, p1, p2
MCName == a :> <<"a">> @@ ab :> <<"a", "b">> @@ old :> <<"old">>
\* a_b_x may be listed by a and by ab.
MCOffers == a :> {<<"b", "x">>} @@ ab :> {<<"x">>, <<>>} @@ old :> {}
MCAllowed == r1 :> {a, ab} @@ r2 :> {a, old}
MCMethods == r1 :> {"list", "call", "other"} @@ r2 :> {"list"}
MCCalls == {<<"a", "b", "x">>, <<"z", "x">>}

\* Sweeps and federated requests share only the tracker, whose calls are atomic:
\* a behaviour has either the ones or the others.
SweepsOnly == \A r \in Requests : state[r] = "done" /\ answer[r] = "none"

MCInit ==
    \/ Init
    \/ /\ HealthInit
       /\ state = [r \in Requests |-> "done"]
       /\ ctx = [r \in Requests |-> "live"]
       /\ job = [r \in Requests |-> [s \in Servers |-> NoJob]]
       /\ tools = [r \in Requests |-> [s \in Servers |-> {}]]
       /\ merged = [r \in Requests |-> <<>>]
       /\ failed = [r \in Requests |-> {}] /\ dialed = [r \in Requests |-> {}]
       /\ sem = [r \in Requests |-> 0] /\ gate = 0
       /\ called = [r \in Requests |-> <<>>]
       /\ replied = [r \in Requests |-> "none"] /\ ran = [r \in Requests |-> 0]
       /\ answer = [r \in Requests |-> "none"]

MCNext ==
    \/ ~SweepsOnly /\ FederatedNext
    \/ SweepsOnly /\ HealthNext /\ UNCHANGED fedVars

MCSpec == MCInit /\ [][MCNext]_vars /\ Fairness
=============================================================================
