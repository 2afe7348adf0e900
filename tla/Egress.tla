------------------------------- MODULE Egress -------------------------------
(***************************************************************************)
(* What a session may reach, as its allow list says it (api/types.rs) and   *)
(* as the providers' policy objects enforce it (network_policy/*.rs).       *)
(*                                                                          *)
(* A host is a sequence of labels, at least one.  In a glob a label "*", or  *)
(* "**", stands for a run of labels or for one label, depending on who reads *)
(* it; globs of a part of a label are left out.  An address is a number of   *)
(* AddressBits bits, an address range one of them with a prefix length.      *)
(***************************************************************************)
EXTENDS Naturals, Sequences

AddressBits == 2
Addresses   == 0 .. (2 ^ AddressBits - 1)

\* The destinations of api/types.rs; a malformed one parses as no name or range.
Host(labels)    == [kind |-> "hostname", labels |-> labels]
Range4(a, bits) == [kind |-> "ipv4", address |-> a, prefix |-> bits]
Unknown         == [kind |-> "unknown"]

Globs == {"*", "**"}

GlobsOf(p) == {i \in DOMAIN p : p[i] \in Globs}

\* Does pattern p match host h, when its globs at the places in runs stand for one
\* or more labels and its other globs for exactly one?  "at" aligns h with p.
Matches(p, h, runs) ==
  \E at \in [DOMAIN h -> DOMAIN p] :
    /\ at[1] = 1 /\ at[Len(h)] = Len(p)
    /\ \A j \in DOMAIN h : p[at[j]] \in {h[j]} \union Globs
    /\ \A j \in DOMAIN h \ {1} :
         at[j] = at[j - 1] + 1 \/ (at[j] = at[j - 1] /\ at[j] \in runs)

InRange(a, range) ==
  a \div 2 ^ (AddressBits - range.prefix) = range.address \div 2 ^ (AddressBits - range.prefix)

-----------------------------------------------------------------------------
\* The allow list as it is written.

\* The dot of the root, a last label that is empty, is stripped from a name once.
Unrooted(labels) ==
  IF Len(labels) > 1 /\ labels[Len(labels)] = ""
  THEN [i \in 1..Len(labels) - 1 |-> labels[i]]
  ELSE labels

WellFormed(labels) == "" \notin {labels[i] : i \in DOMAIN labels}

Allows(d, target) ==
  CASE d.kind = "hostname" /\ target.kind = "hostname" ->
         LET name == Unrooted(d.labels)
         IN  WellFormed(name) /\ Matches(name, target.labels, GlobsOf(name))
    [] d.kind = "ipv4" /\ target.kind = "address" ->
         d.prefix <= AddressBits /\ InRange(target.address, d)
    [] OTHER -> FALSE

AllowedBy(list, targets) == {t \in targets : \E d \in list : Allows(d, t)}

-----------------------------------------------------------------------------
\* The allow list reduced to what every provider can express: a name with an
\* empty label inside it and a prefix that is too long are dropped.

HostnameGlobs(list) ==
  {Unrooted(d.labels) : d \in {e \in list : e.kind = "hostname" /\ WellFormed(Unrooted(e.labels))}}
Cidrs(list)         == {d \in list : d.kind = "ipv4" /\ d.prefix <= AddressBits}

\* mutant: the glob is handed on as the session wrote it.
CiliumFqdnAsWritten(glob) == glob

\* Cilium spans levels only in a leading "**."; "*." with no other glob becomes that.
CiliumFqdn(glob) ==
  IF Len(glob) > 1 /\ glob[1] = "*" /\ GlobsOf(glob) = {1}
  THEN <<"**">> \o Tail(glob)
  ELSE glob

Kinds(provider) == IF provider = "cilium" THEN {"CiliumNetworkPolicy"}
                   ELSE {"NetworkPolicy", "FQDNNetworkPolicy"}

CiliumManifests(list) ==
  [k \in {"CiliumNetworkPolicy"} |->
     [names |-> {CiliumFqdn(g) : g \in HostnameGlobs(list)}, ranges |-> Cidrs(list)]]

\* GKE's second object is there only if there are names.
GkeManifests(list) ==
  LET names == HostnameGlobs(list)
  IN  [k \in {"NetworkPolicy"} \union (IF names = {} THEN {} ELSE {"FQDNNetworkPolicy"}) |->
         IF k = "NetworkPolicy" THEN [names |-> {}, ranges |-> Cidrs(list)]
                                ELSE [names |-> names, ranges |-> {}]]

\* The objects for a list, by kind.
Manifests(provider, list) ==
  IF provider = "cilium" THEN CiliumManifests(list) ELSE GkeManifests(list)

-----------------------------------------------------------------------------
\* What an object lets through: in both providers a glob stops at a dot, but
\* for Cilium's leading "**" and its pattern "*", which stands for every name.

Runs(kind, p) == IF kind = "CiliumNetworkPolicy" /\ (p[1] = "**" \/ p = <<"*">>) THEN {1} ELSE {}

NameMatches(kind, p, h) == Matches(p, h, Runs(kind, p))

Passes(kind, spec, target) ==
  IF target.kind = "hostname"
  THEN \E p \in spec.names : NameMatches(kind, p, target.labels)
  ELSE \E range \in spec.ranges : InRange(target.address, range)
=============================================================================
