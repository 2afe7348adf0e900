-------------------------- MODULE MCSessionPolicy --------------------------
(* An instance of SessionPolicy: allow lists with every kind of entry.      *)
EXTENDS SessionPolicy

Org   == Host(<<"org">>)
AOrg  == Host(<<"a", "org">>)
BAOrg == Host(<<"b", "a", "org">>)
Gw    == Host(<<"gw">>)

AllowLists ==
  { [enabled |-> FALSE, allow |-> {}],
    [enabled |-> TRUE,  allow |-> {}],
    [enabled |-> TRUE,  allow |-> {Host(<<"*", "org">>), Host(<<"org", "">>), Host(<<"", "org">>), Unknown}],
    [enabled |-> TRUE,  allow |-> {Host(<<"*", "*", "org">>), Host(<<"**", "a", "org">>), Org, Range4(2, 1), Range4(0, 3)}],
    [enabled |-> TRUE,  allow |-> {Host(<<"*">>), Range4(1, 2)}] }

AnyLabels == {"", "a", "b", "gw", "org"} \union Globs
WorkerHosts == {Gw}
Endpoints == {Org, AOrg, BAOrg, Gw} \union {[kind |-> "address", address |-> a] : a \in Addresses}
AnyCluster == {{}, {"cilium"}, {"gke"}}
=============================================================================
