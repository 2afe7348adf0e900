------------------------- MODULE SessionPolicyProofs -------------------------
(***************************************************************************)
(* For any policies, infrastructure, clusters and number of faults: a       *)
(* session's pod reaches what its allow lists say, and runs without them     *)
(* only as configured.                                                       *)
(***************************************************************************)
EXTENDS SessionPolicy, TLAPS

\* The allow lists a start may have, and the objects they lead to.
Lists == {p.allow : p \in Policies} \union {{}}
Specs == UNION {{Manifests(p, Allowed(l))[k] : k \in DOMAIN Manifests(p, Allowed(l))} :
                  p \in Providers, l \in Lists}

PodRecords == [state: {"none", "live", "terminating"}, labelled: BOOLEAN, enabled: BOOLEAN,
               lists: SUBSET Lists, unserved: BOOLEAN]
Starts     == [allow: Lists, enabled: BOOLEAN, provider: Providers \union {"none"},
               unserved: BOOLEAN, owner: Owners]

\* The provider that is acted upon, however often the process is restarted.
Acting == CASE mode = "off" -> "none" [] mode = "auto" -> Detect [] OTHER -> mode

TypeInv ==
  /\ mode \in Modes /\ literal \in BOOLEAN /\ served \subseteq Providers
  /\ policy \in Policies /\ wanted \in BOOLEAN /\ poolLives \in BOOLEAN
  /\ detected \in Providers \union {"unset"}
  /\ pc \in {"idle", "detect", "apply", "create"}
  /\ start \in Starts
  /\ DOMAIN objects \subseteq AllKinds
  /\ \A k \in DOMAIN objects : objects[k] \in [owner: Owners, spec: Specs]
  /\ objects = [k \in DOMAIN objects |-> objects[k]]
  /\ pod \in PodRecords /\ late \in PodRecords
  /\ faults \in 0..MaxFaults

\* Once there are objects, or a pod labelled for them, the provider is settled.
ProviderInv ==
  /\ detected # "unset" => mode = "auto" /\ detected = Detect
  /\ start.provider \in {"none", Acting}
  /\ DOMAIN objects # {} => Acting # "none" /\ DOMAIN objects \subseteq Kinds(Acting)
  /\ pod.labelled \/ late.labelled => Acting # "none"

\* What apply has left to write, all of it or the second object alone.
TodoInv ==
  IF pc = "apply"
  THEN /\ start.provider # "none"
       /\ \/ todo = ApplyOrder(start.provider, Allowed(start.allow))
          \/ /\ todo = <<"FQDNNetworkPolicy">>
             /\ start.provider = "gke" /\ HostnameGlobs(Allowed(start.allow)) # {}
  ELSE todo = <<>>

\* The pod, a late one and the running start: who there is, and who owns what.
PodInv ==
  /\ pc = "idle" => start = NoStart
  /\ pc # "idle" => poolLives
  /\ pc \in {"detect", "create"} => start.owner = "pool"
  /\ pc = "detect" => start.provider = "none"
  /\ pod.state = "none" => pod = NoPod
  /\ late # NoPod => late.state = "live" /\ poolLives /\ pod = NoPod /\ late.lists # {}
  /\ pod # NoPod => pod.lists # {}
  /\ start.owner = "pod" => pod.labelled /\ pod.lists = {start.allow}
  /\ start.owner = "gone" => pod = NoPod
  /\ start.owner # "pool" => late = NoPod
  /\ \A k \in DOMAIN objects : objects[k].owner = "pod" => pod.labelled

\* Object k is there, not about to be collected, and says what one of the lists asks for.
From(k, lists) ==
  /\ k \in DOMAIN objects
  /\ \E l \in lists : k \in DOMAIN Manifests(Acting, Allowed(l))
                       /\ objects[k].spec = Manifests(Acting, Allowed(l))[k]

\* The kinds that each of the lists asks for.
Needed(lists) == {k \in AllKinds : \A l \in lists : k \in DOMAIN Manifests(Acting, Allowed(l))}

\* A pod finds its objects: those all its lists ask for are there, as one of them says.
Furnished(p) ==
  p.labelled /\ poolLives => \A k \in Needed(p.lists) : From(k, p.lists) /\ objects[k].owner # "gone"

\* What the running start has written and still owns through the pool.
Done == IF pc = "create" /\ start.provider # "none" THEN DOMAIN Manifests(Acting, Allowed(start.allow))
        ELSE IF pc = "apply" /\ start.owner = "pool" /\ todo = <<"FQDNNetworkPolicy">> THEN {"NetworkPolicy"}
        ELSE {}

ObjectInv ==
  /\ Furnished(pod)
  /\ Furnished(late)
  /\ \A k \in Done : From(k, {start.allow}) /\ objects[k].owner = "pool"

\* A restricted pod, or one to be created, is without its label as configured.
Excused(r) == r.enabled => mode = "off" \/ (mode = "auto" /\ r.unserved)

EnforceInv ==
  /\ pod.labelled \/ Excused(pod)
  /\ late.labelled \/ Excused(late)
  /\ pc = "create" => start.provider # "none" \/ Excused(start)

IInv == TypeInv /\ ProviderInv /\ TodoInv /\ PodInv /\ ObjectInv /\ EnforceInv

-----------------------------------------------------------------------------
\* What the objects of a list let through.

\* What a destination of a list may be.
IsList(list) ==
  \A d \in list : /\ d.kind \in {"hostname", "ipv4", "unknown"}
                  /\ d.kind = "hostname" => d.labels \in Names

LEMMA AllowedLists == \A l \in Lists : IsList(Allowed(l))
  BY DestinationAssumption DEF Lists, Allowed, IsList

\* A name without the root's dot is a name still.
LEMMA UnrootedName ==
  ASSUME NEW g \in Names
  PROVE  Unrooted(g) \in Names
<1>1. g \in Seq(Labels) /\ Len(g) \in Nat /\ g # <<>>
  BY DEF Names
<1>2. CASE Len(g) > 1 /\ g[Len(g)] = ""
  <2> DEFINE n == Len(g) - 1
             u == [i \in 1..n |-> g[i]]
  <2>1. Unrooted(g) = u /\ n \in Nat /\ n >= 1
    <3>1. Unrooted(g) = u
      BY <1>2 DEF Unrooted
    <3>2. n \in Nat /\ n >= 1
      <4>1. \A m \in Nat : m > 1 => m - 1 \in Nat /\ m - 1 >= 1
        OBVIOUS
      <4> QED
        BY <1>1, <1>2, <4>1, Zenon
    <3> QED
      BY <3>1, <3>2
  <2>2. u \in Seq(Labels) /\ Len(u) = n
    BY <1>1, <2>1
  <2>3. u # <<>>
    BY <2>1, <2>2
  <2> QED
    BY <2>1, <2>2, <2>3 DEF Names
<1>3. CASE ~(Len(g) > 1 /\ g[Len(g)] = "")
  BY <1>3 DEF Unrooted
<1> QED
  BY <1>2, <1>3

\* Fewer runs match no more.
LEMMA MatchesMonotone ==
  ASSUME NEW p, NEW h, NEW runs, NEW more, runs \subseteq more, Matches(p, h, runs)
  PROVE  Matches(p, h, more)
  BY DEF Matches

LEMMA Prefixed ==
  ASSUME NEW S, NEW x \in S, NEW t \in Seq(S)
  PROVE  /\ <<x>> \o t \in Seq(S)
         /\ Len(<<x>> \o t) = Len(t) + 1
         /\ (<<x>> \o t)[1] = x
         /\ \A i \in 1..Len(t) : (<<x>> \o t)[i + 1] = t[i]
  OBVIOUS

LEMMA OnlyOne ==
  ASSUME NEW S, NEW g \in Seq(S), 1 \in DOMAIN g, ~(Len(g) > 1)
  PROVE  g = <<g[1]>>
<1>1. Len(g) \in Nat /\ Len(g) >= 1
  OBVIOUS
<1>2. \A n \in Nat : n >= 1 /\ ~(n > 1) => n = 1
  OBVIOUS
<1>3. Len(g) = 1
  BY <1>1, <1>2, Zenon
<1> QED
  BY <1>3

\* A name's form for Cilium differs from it in its first label alone, a glob in both.
LEMMA CiliumForm ==
  ASSUME NEW g \in Names
  PROVE  LET p == CiliumFqdn(g) IN
         /\ p \in Names /\ Len(p) = Len(g) /\ DOMAIN p = DOMAIN g
         /\ \A i \in DOMAIN g : p[i] = g[i] \/ (i = 1 /\ g[i] \in Globs /\ p[i] \in Globs)
<1>1. CASE Len(g) > 1 /\ g[1] = "*" /\ GlobsOf(g) = {1}
  <2>1. CiliumFqdn(g) = <<"**">> \o Tail(g)
    BY <1>1 DEF CiliumFqdn
  <2>2. Tail(g) \in Seq(Labels) /\ Len(Tail(g)) = Len(g) - 1
        /\ \A i \in 1..Len(g) - 1 : Tail(g)[i] = g[i + 1]
    BY <1>1 DEF Names
  <2> DEFINE p == <<"**">> \o Tail(g)
  <2>3. p \in Seq(Labels) /\ Len(p) = Len(g) /\ p[1] = "**"
        /\ \A i \in 2..Len(g) : p[i] = Tail(g)[i - 1]
    <3> DEFINE t == Tail(g)
    <3>1. t \in Seq(Labels) /\ Len(t) = Len(g) - 1 /\ Len(g) \in Nat
      BY <2>2 DEF Names
    <3> HIDE DEF t
    <3>2. "**" \in Labels
      BY LabelAssumption DEF Globs
    <3>3. /\ <<"**">> \o t \in Seq(Labels)
          /\ Len(<<"**">> \o t) = Len(t) + 1
          /\ (<<"**">> \o t)[1] = "**"
          /\ \A i \in 1..Len(t) : (<<"**">> \o t)[i + 1] = t[i]
      BY <3>1, <3>2, Prefixed
    <3>4. ASSUME NEW i \in 2..Len(g) PROVE (<<"**">> \o t)[i] = t[i - 1]
      <4>1. i - 1 \in 1..Len(t) /\ (i - 1) + 1 = i
        BY <3>1
      <4> QED
        BY <3>3, <4>1
    <3> QED
      BY <3>1, <3>3, <3>4 DEF t
  <2>4. DOMAIN p = 1..Len(g) /\ DOMAIN g = 1..Len(g) /\ Len(g) \in Nat
    BY <2>3 DEF Names
  <2>5. p # <<>>
    BY <2>3, <1>1
  <2>6. \A i \in 2..Len(g) : p[i] = g[i]
    BY <2>2, <2>3, <2>4
  <2> HIDE DEF p
  <2>7. p \in Names /\ DOMAIN p = DOMAIN g
    BY <2>3, <2>4, <2>5 DEF Names
  <2>8. \A i \in DOMAIN g : p[i] = g[i] \/ (i = 1 /\ g[i] \in Globs /\ p[i] \in Globs)
    BY <2>3, <2>4, <2>6, <1>1 DEF Globs
  <2>9. CiliumFqdn(g) = p
    BY <2>1 DEF p
  <2> QED
    BY <2>3, <2>7, <2>8, <2>9
<1>2. CASE ~(Len(g) > 1 /\ g[1] = "*" /\ GlobsOf(g) = {1})
  BY <1>2 DEF CiliumFqdn
<1> QED
  BY <1>1, <1>2

\* Labels that differ in globs alone match the same hosts.
LEMMA MatchesForm ==
  ASSUME NEW p \in Names, NEW g \in Names, NEW h, NEW runs,
         Len(p) = Len(g), DOMAIN p = DOMAIN g,
         \A i \in DOMAIN g : p[i] = g[i] \/ (g[i] \in Globs /\ p[i] \in Globs),
         Matches(p, h, runs)
  PROVE  Matches(g, h, runs)
<1>1. PICK at \in [DOMAIN h -> DOMAIN p] :
        /\ at[1] = 1 /\ at[Len(h)] = Len(p)
        /\ \A j \in DOMAIN h : p[at[j]] \in {h[j]} \union Globs
        /\ \A j \in DOMAIN h \ {1} :
             at[j] = at[j - 1] + 1 \/ (at[j] = at[j - 1] /\ at[j] \in runs)
  BY DEF Matches
<1>2. \A j \in DOMAIN h : g[at[j]] \in {h[j]} \union Globs
  BY <1>1
<1> QED
  BY <1>1, <1>2 DEF Matches

\* Cilium spans levels only where the session's glob does.
LEMMA CiliumRuns ==
  ASSUME NEW g \in Names
  PROVE  Runs("CiliumNetworkPolicy", CiliumFqdn(g)) \subseteq GlobsOf(g)
<1>1. 1 \in DOMAIN g /\ 1 \in DOMAIN CiliumFqdn(g)
  BY CiliumForm DEF Names
<1>2. CiliumFqdn(g)[1] \in Globs => g[1] \in Globs
  BY <1>1, CiliumForm
<1>3. CiliumFqdn(g) = <<"*">> => CiliumFqdn(g)[1] = "*"
  OBVIOUS
<1> QED
  BY <1>1, <1>2, <1>3 DEF Runs, GlobsOf, Globs

LEMMA LeadingGlobRuns ==
  ASSUME NEW g \in Names, GlobsOf(g) = {1}
  PROVE  Runs("CiliumNetworkPolicy", CiliumFqdn(g)) = {1}
<1>1. 1 \in DOMAIN g /\ g[1] \in Globs
  BY DEF GlobsOf
<1>2. CASE Len(g) > 1 /\ g[1] = "*"
  <2>1. CiliumFqdn(g) = <<"**">> \o Tail(g)
    BY <1>2 DEF CiliumFqdn
  <2>2. Tail(g) \in Seq(Labels)
    BY <1>2 DEF Names
  <2>3. CiliumFqdn(g)[1] = "**"
    BY <2>1, <2>2
  <2> QED
    BY <2>3 DEF Runs
<1>3. CASE ~(Len(g) > 1 /\ g[1] = "*")
  <2>1. CiliumFqdn(g) = g
    BY <1>3 DEF CiliumFqdn
  <2>2. CASE g[1] = "*"
    <3>1. g \in Seq(Labels) /\ ~(Len(g) > 1)
      BY <1>3, <2>2 DEF Names
    <3>2. g = <<g[1]>>
      BY <1>1, <3>1, OnlyOne
    <3>3. g = <<"*">>
      BY <3>2, <2>2
    <3> QED
      BY <2>1, <3>3 DEF Runs
  <2>3. CASE g[1] = "**"
    BY <2>1, <2>3 DEF Runs
  <2> QED
    BY <1>1, <2>2, <2>3 DEF Globs
<1> QED
  BY <1>2, <1>3

\* What one object lets through, some entry of the list it was written from allows.
LEMMA PassesAllowed ==
  ASSUME NEW list, IsList(list), NEW provider \in Providers,
         NEW k \in DOMAIN Manifests(provider, list),
         NEW t \in Targets, Passes(k, Manifests(provider, list)[k], t)
  PROVE  \E d \in list : Allows(d, t)
<1> DEFINE spec == Manifests(provider, list)[k]
<1>1. CASE t.kind = "hostname"
  <2>1. PICK p \in spec.names : Matches(p, t.labels, Runs(k, p))
    BY <1>1 DEF Passes, NameMatches
  <2>2. PICK d \in list :
          /\ d.kind = "hostname" /\ WellFormed(Unrooted(d.labels))
          /\ p = (IF provider = "cilium" THEN CiliumFqdn(Unrooted(d.labels)) ELSE Unrooted(d.labels))
    <3>1. CASE provider = "cilium"
      <4>1. spec.names = {CiliumFqdn(g) : g \in HostnameGlobs(list)}
        BY <3>1 DEF Manifests, CiliumManifests
      <4> QED
        BY <2>1, <3>1, <4>1 DEF HostnameGlobs
    <3>2. CASE provider # "cilium"
      <4>1. k \in {"NetworkPolicy", "FQDNNetworkPolicy"}
            /\ spec.names = IF k = "NetworkPolicy" THEN {} ELSE HostnameGlobs(list)
        BY <3>2 DEF Manifests, GkeManifests
      <4> QED
        BY <2>1, <3>2, <4>1 DEF HostnameGlobs
    <3> QED
      BY <3>1, <3>2
  <2> DEFINE g == Unrooted(d.labels)
  <2>3. g \in Names
    BY <2>2, UnrootedName DEF IsList
  <2>4. Matches(g, t.labels, GlobsOf(g))
    <3>1. CASE provider = "cilium"
      <4>1. k = "CiliumNetworkPolicy" /\ p = CiliumFqdn(g)
        BY <2>2, <3>1 DEF Manifests, CiliumManifests
      <4>2. Runs(k, p) \subseteq GlobsOf(g)
        BY <4>1, <2>3, CiliumRuns
      <4>3. Matches(g, t.labels, Runs(k, p))
        BY <2>1, <2>3, <4>1, CiliumForm, MatchesForm
      <4> QED
        BY <4>2, <4>3, MatchesMonotone
    <3>2. CASE provider # "cilium"
      <4>1. Runs(k, p) = {}
        BY <3>2 DEF Manifests, GkeManifests, Runs
      <4> QED
        BY <2>1, <2>2, <3>2, <4>1, MatchesMonotone
    <3> QED
      BY <3>1, <3>2
  <2>5. Allows(d, t)
    BY <1>1, <2>2, <2>4 DEF Allows
  <2> QED
    BY <2>5
<1>2. CASE t.kind = "address"
  <2>1. PICK d \in spec.ranges : InRange(t.address, d)
    BY <1>2 DEF Passes
  <2>2. spec.ranges \subseteq Cidrs(list)
    BY DEF Manifests, CiliumManifests, GkeManifests
  <2>3. d \in list /\ d.kind = "ipv4" /\ d.prefix <= AddressBits
    BY <2>1, <2>2 DEF Cidrs
  <2>4. Allows(d, t)
    BY <1>2, <2>1, <2>3 DEF Allows
  <2> QED
    BY <2>3, <2>4
<1> QED
  BY <1>1, <1>2, TargetAssumption

\* An entry the provider enforces as written passes through the kind of object
\* that holds its sort of entry; every list with the entry asks for that kind.
KindFor(provider, t) ==
  IF provider = "cilium" THEN "CiliumNetworkPolicy"
  ELSE IF t.kind = "hostname" THEN "FQDNNetworkPolicy" ELSE "NetworkPolicy"

LEMMA EntryAsksFor ==
  ASSUME NEW list, NEW provider \in Providers, NEW t \in Targets,
         NEW d \in list, Allows(d, t)
  PROVE  KindFor(provider, t) \in DOMAIN Manifests(provider, list)
<1>1. t.kind = "hostname" => Unrooted(d.labels) \in HostnameGlobs(list)
  BY DEF Allows, HostnameGlobs
<1> QED
  BY <1>1 DEF KindFor, Manifests, CiliumManifests, GkeManifests

LEMMA AllowedPasses ==
  ASSUME NEW list, IsList(list), NEW provider \in Providers, NEW t \in Targets,
         NEW d \in list, Allows(d, t),
         d.kind = "hostname" => \/ GlobsOf(Unrooted(d.labels)) = {}
                                \/ GlobsOf(Unrooted(d.labels)) = {1} /\ provider = "cilium"
  PROVE  LET k == KindFor(provider, t) IN Passes(k, Manifests(provider, list)[k], t)
<1> DEFINE k == KindFor(provider, t)
<1> DEFINE spec == Manifests(provider, list)[k]
<1>1. k \in DOMAIN Manifests(provider, list)
  BY EntryAsksFor
<1>2. CASE t.kind = "hostname"
  <2> DEFINE g == Unrooted(d.labels)
  <2>1. /\ d.kind = "hostname" /\ WellFormed(g)
        /\ Matches(g, t.labels, GlobsOf(g))
    BY <1>2 DEF Allows
  <2>2. g \in Names /\ g \in HostnameGlobs(list)
    BY <2>1, UnrootedName DEF IsList, HostnameGlobs
  <2>3. CASE provider = "cilium"
    <3> DEFINE p == CiliumFqdn(g)
    <3>1. k = "CiliumNetworkPolicy" /\ p \in spec.names
      BY <2>2, <2>3 DEF KindFor, Manifests, CiliumManifests
    <3>2. Matches(p, t.labels, GlobsOf(g))
      BY <2>1, <2>2, CiliumForm, MatchesForm
    <3>3. GlobsOf(g) \subseteq Runs(k, p)
      BY <2>1, <2>2, <3>1, LeadingGlobRuns
    <3>4. NameMatches(k, p, t.labels)
      BY <3>2, <3>3, MatchesMonotone DEF NameMatches
    <3> QED
      BY <1>2, <3>1, <3>4 DEF Passes
  <2>4. CASE provider # "cilium"
    <3>1. k = "FQDNNetworkPolicy" /\ spec.names = HostnameGlobs(list)
      BY <1>1, <1>2, <2>2, <2>4 DEF KindFor, Manifests, GkeManifests
    <3>2. NameMatches(k, g, t.labels)
      BY <2>1, <2>4, MatchesMonotone DEF NameMatches
    <3> QED
      BY <1>2, <2>2, <3>1, <3>2 DEF Passes
  <2> QED
    BY <2>3, <2>4
<1>3. CASE t.kind = "address"
  <2>1. d \in Cidrs(list) /\ InRange(t.address, d)
    BY <1>3 DEF Allows, Cidrs
  <2>2. spec.ranges = Cidrs(list)
    BY <1>1, <1>3 DEF KindFor, Manifests, CiliumManifests, GkeManifests
  <2> QED
    BY <1>3, <2>1, <2>2 DEF Passes
<1> QED
  BY <1>2, <1>3, TargetAssumption

-----------------------------------------------------------------------------
\* Typing.

LEMMA ManifestKinds ==
  ASSUME NEW p \in Providers, NEW list
  PROVE  /\ DOMAIN Manifests(p, list) \subseteq Kinds(p)
         /\ Kinds(p) \subseteq AllKinds
         /\ p = "cilium" \/ HostnameGlobs(list) # {} => DOMAIN Manifests(p, list) = Kinds(p)
  BY DEF Manifests, CiliumManifests, GkeManifests, Kinds, AllKinds, Providers

LEMMA NoRecords ==
  NoStart \in Starts /\ NoPod \in PodRecords
  BY DEF NoStart, NoPod, Starts, PodRecords, Lists, Owners

LEMMA InitIInv == Init => IInv
<1> SUFFICES ASSUME Init PROVE IInv
  OBVIOUS
<1> USE DEF Init
<1>1. TypeInv
  <2>1. served \subseteq Providers
    BY ClusterAssumption DEF Providers
  <2>2. DOMAIN objects = {} /\ objects = [k \in DOMAIN objects |-> objects[k]]
    OBVIOUS
  <2> QED
    BY <2>1, <2>2, NoRecords, MaxFaultsAssumption DEF TypeInv
<1>2. ProviderInv /\ TodoInv /\ PodInv /\ EnforceInv
  <2>1. DOMAIN objects = {} /\ start = NoStart /\ start.provider = "none" /\ start.owner = "pool"
    BY DEF NoStart
  <2>2. ~pod.labelled /\ ~late.labelled /\ ~pod.enabled /\ ~late.enabled
    BY DEF NoPod
  <2> QED
    BY <2>1, <2>2 DEF ProviderInv, TodoInv, PodInv, EnforceInv, Excused
<1>3. ObjectInv
  BY DEF ObjectInv, Furnished, Done, NoPod
<1> QED
  BY <1>1, <1>2, <1>3 DEF IInv

\* The pod that a start creates, and what a written object is.
LEMMA NewPodType ==
  ASSUME TypeInv
  PROVE  NewPod \in PodRecords
  BY DEF TypeInv, Starts, PodRecords, NewPod

\* A pod that an object is written over changes in its lists alone.
LEMMA UnderType ==
  ASSUME TypeInv, NEW p \in PodRecords, NEW last \in BOOLEAN
  PROVE  /\ Under(p, last) \in PodRecords /\ Under(p, last).state = p.state
         /\ Under(p, last).labelled = p.labelled /\ Under(p, last).enabled = p.enabled
         /\ Under(p, last).unserved = p.unserved
         /\ p = NoPod => Under(p, last) = NoPod
         /\ p # NoPod => Under(p, last).lists = IF last THEN {start.allow} ELSE p.lists \union {start.allow}
  BY DEF TypeInv, Starts, PodRecords, Under

LEMMA WrittenOver ==
  ASSUME TypeInv, CallApply
  PROVE  /\ pod'.labelled = pod.labelled /\ pod'.enabled = pod.enabled /\ pod'.unserved = pod.unserved
         /\ late'.labelled = late.labelled /\ late'.enabled = late.enabled
         /\ late'.unserved = late.unserved
<1>1. pod' = Under(pod, Len(todo) = 1) /\ late' = Under(late, Len(todo) = 1)
  BY DEF CallApply
<1>2. (Len(todo) = 1) \in BOOLEAN /\ pod \in PodRecords /\ late \in PodRecords
  BY DEF TypeInv
<1> QED
  BY <1>1, <1>2, UnderType

LEMMA WrittenType ==
  ASSUME IInv, pc = "apply"
  PROVE  /\ start.provider = Acting /\ start.provider \in Providers
         /\ todo # <<>>
         /\ todo[1] \in DOMAIN Manifests(start.provider, Allowed(start.allow))
         /\ Manifests(start.provider, Allowed(start.allow))[todo[1]] \in Specs
<1>1. start.provider = Acting /\ start.provider \in Providers /\ start.allow \in Lists
  BY DEF IInv, TypeInv, Starts, TodoInv, ProviderInv
<1>2. todo # <<>> /\ todo[1] \in DOMAIN Manifests(start.provider, Allowed(start.allow))
  <2>1. CASE start.provider = "cilium"
    <3>1. todo = <<"CiliumNetworkPolicy">>
      BY <2>1 DEF IInv, TodoInv, ApplyOrder
    <3> QED
      BY <2>1, <3>1 DEF Manifests, CiliumManifests
  <2>2. CASE start.provider = "gke"
    BY <2>2 DEF IInv, TodoInv, ApplyOrder, Manifests, GkeManifests
  <2> QED
    BY <1>1, <2>1, <2>2 DEF Providers
<1>3. ASSUME NEW p \in Providers, NEW l \in Lists, NEW k \in DOMAIN Manifests(p, Allowed(l))
      PROVE  Manifests(p, Allowed(l))[k] \in Specs
  <2> DEFINE Of(q, m) == {Manifests(q, Allowed(m))[i] : i \in DOMAIN Manifests(q, Allowed(m))}
  <2>1. Specs = UNION {Of(q, m) : q \in Providers, m \in Lists}
    BY DEF Specs
  <2>2. Manifests(p, Allowed(l))[k] \in Of(p, l)
    OBVIOUS
  <2> HIDE DEF Of
  <2> QED
    BY <2>1, <2>2
<1> QED
  BY <1>1, <1>2, <1>3

LEMMA StepType == IInv /\ [Next]_vars => TypeInv'
<1> SUFFICES ASSUME IInv, [Next]_vars PROVE TypeInv'
  OBVIOUS
<1> USE DEF world
<1>1. TypeInv
  BY DEF IInv
<1>2. ASSUME NEW kind \in AllKinds, Collect(kind) PROVE TypeInv'
  BY <1>1, <1>2 DEF TypeInv, Collect, Without
<1>3. CASE PodDeleted
  BY <1>1, <1>3 DEF TypeInv, PodDeleted, PodRecords
<1>4. CASE PodGone
  <2>1. \A k \in DOMAIN objects : [objects[k] EXCEPT !.owner = Orphaned(@)] \in [owner: Owners, spec: Specs]
    BY <1>1 DEF TypeInv, Orphaned, Owners
  <2>2. start' \in Starts
    BY <1>1, <1>4 DEF TypeInv, PodGone, Starts, Orphaned, Owners
  <2> QED
    BY <1>1, <1>4, <2>1, <2>2, NoRecords DEF TypeInv, PodGone
<1>5. CASE LateCreation
  BY <1>1, <1>5, NoRecords DEF TypeInv, LateCreation
<1>6. CASE PoolDeleted
  BY <1>1, <1>6, NoRecords DEF TypeInv, PoolDeleted, PodRecords
<1>7. CASE PolicyChanges \/ SessionEnds
  BY <1>1, <1>7 DEF TypeInv, PolicyChanges, SessionEnds
<1>8. ASSUME NEW p \in Providers, ProviderEnabled(p) PROVE TypeInv'
  BY <1>1, <1>8 DEF TypeInv, ProviderEnabled
<1>9. CASE Begin
  <2>1. policy.allow \in Lists /\ policy.enabled \in BOOLEAN
    BY <1>1, PolicyAssumption DEF TypeInv, Lists
  <2>2. start' \in Starts
    BY <2>1, <1>9, NoRecords DEF Begin, Starts
  <2> QED
    BY <1>1, <1>9, <2>2 DEF TypeInv, Begin
<1>10. CASE CallProvider
  <2>1. NetworkPolicyProvider \in Providers \union {"none"}
    BY <1>1, ClusterAssumption DEF TypeInv, NetworkPolicyProvider, Detect, Providers
  <2>2. start' \in Starts
    <3>1. CASE start' = NoStart
      BY <3>1, NoRecords
    <3>2. CASE start' = [start EXCEPT !.provider = NetworkPolicyProvider, !.unserved = (served = {})]
      BY <1>1, <2>1, <3>2 DEF TypeInv, Starts
    <3> QED
      BY <1>10, <3>1, <3>2 DEF CallProvider, Stop
  <2>3. detected' \in Providers \union {"unset"} /\ pc' \in {"idle", "detect", "apply", "create"}
    BY <1>1, <1>10, <2>1 DEF TypeInv, CallProvider, Stop, Remembered, AfterProvider
  <2> QED
    BY <1>1, <1>10, <2>2, <2>3 DEF TypeInv, CallProvider
<1>11. CASE CallApply
  <2> DEFINE spec == Manifests(start.provider, Allowed(start.allow))[todo[1]]
  <2>1. todo[1] \in AllKinds /\ spec \in Specs
    BY <1>11, WrittenType, ManifestKinds DEF CallApply
  <2>2. start.owner \in Owners
    BY <1>1 DEF TypeInv, Starts
  <2>3. objects' = [k \in DOMAIN objects \union {todo[1]} |->
                      IF k = todo[1] THEN [owner |-> start.owner, spec |-> spec] ELSE objects[k]]
    BY <1>11 DEF CallApply, Written
  <2> HIDE DEF spec
  <2>4. /\ DOMAIN objects' \subseteq AllKinds
        /\ \A k \in DOMAIN objects' : objects'[k] \in [owner: Owners, spec: Specs]
        /\ objects' = [k \in DOMAIN objects' |-> objects'[k]]
    BY <1>1, <2>1, <2>2, <2>3 DEF TypeInv
  <2>5. start' \in Starts /\ pc' \in {"idle", "detect", "apply", "create"}
    BY <1>1, <1>11, NoRecords DEF TypeInv, CallApply, Stop
  <2>6. pod' \in PodRecords /\ late' \in PodRecords
    BY <1>1, <1>11, UnderType DEF TypeInv, CallApply
  <2> QED
    BY <1>1, <1>11, <2>4, <2>5, <2>6 DEF TypeInv, CallApply
<1>12. CASE ApplyRefused \/ CreateConflicts \/ CallFails \/ Crash
  BY <1>1, <1>12, NoRecords, MaxFaultsAssumption
     DEF TypeInv, ApplyRefused, CreateConflicts, CallFails, Crash, Fault, BreakOff, Stop
<1>13. CASE CallCreatePod
  <2>1. start' \in Starts /\ pc' \in {"idle", "detect", "apply", "create"}
    BY <1>1, <1>13, NoRecords DEF TypeInv, CallCreatePod, HandOver, Stop, Starts, Owners
  <2> QED
    BY <1>1, <1>13, <2>1, NewPodType, NoRecords DEF TypeInv, CallCreatePod
<1>14. CASE CreationTimesOut
  BY <1>1, <1>14, NoRecords, NewPodType, MaxFaultsAssumption
     DEF TypeInv, CreationTimesOut, Fault, BreakOff, Stop
<1>15. CASE UNCHANGED vars
  BY <1>1, <1>15 DEF TypeInv, vars
<1> QED
  BY <1>2, <1>3, <1>4, <1>5, <1>6, <1>7, <1>8, <1>9, <1>10, <1>11, <1>12, <1>13, <1>14, <1>15
     DEF Next, StartStep

-----------------------------------------------------------------------------
\* The provider.

LEMMA ActingStays ==
  ASSUME IInv, [Next]_vars
  PROVE  /\ mode' = mode
         /\ Acting' = Acting \/ (Acting = "none" /\ \E p \in Providers : ProviderEnabled(p))
<1>1. CASE \E p \in Providers : ProviderEnabled(p)
  <2>1. mode' = mode /\ served = {}
    BY <1>1 DEF ProviderEnabled
  <2> QED
    BY <1>1, <2>1 DEF Acting, Detect
<1>2. CASE ~\E p \in Providers : ProviderEnabled(p)
  <2>1. mode' = mode /\ served' = served
    BY <1>2 DEF Next, StartStep, world, vars, Collect, PodDeleted, PodGone, LateCreation, PoolDeleted,
                PolicyChanges, SessionEnds, Begin, CallProvider, CallApply, ApplyRefused,
                CallCreatePod, CreateConflicts, CallFails, CreationTimesOut, Crash
  <2> QED
    BY <2>1 DEF Acting, Detect
<1> QED
  BY <1>1, <1>2

LEMMA ActingRange == TypeInv => Acting \in Providers \union {"none"}
  BY ClusterAssumption DEF TypeInv, Acting, Detect, Providers

\* What a call of the provider answers is what is acted upon.
LEMMA AnswerIsActing == IInv => NetworkPolicyProvider = Acting
  BY ClusterAssumption DEF IInv, TypeInv, ProviderInv, NetworkPolicyProvider, Acting

LEMMA StepProvider == IInv /\ [Next]_vars => ProviderInv'
<1> SUFFICES ASSUME IInv, [Next]_vars PROVE ProviderInv'
  OBVIOUS
<1> USE DEF world
<1>1. ProviderInv /\ TypeInv
  BY DEF IInv
<1>2. CASE \E p \in Providers : ProviderEnabled(p)
  <2>1. PICK p \in Providers : ProviderEnabled(p)
    BY <1>2
  <2>2. Detect = "none" /\ mode' = mode
    BY <2>1 DEF ProviderEnabled, Detect
  <2>3. detected = "unset"
    BY <2>2, <1>1 DEF ProviderInv, TypeInv, Providers
  <2>4. start.provider = "none" \/ Acting' = Acting
    BY <1>1, ActingStays DEF ProviderInv
  <2>5. Acting # "none" => Acting' = Acting
    BY ActingStays
  <2> QED
    BY <1>1, <2>1, <2>3, <2>4, <2>5 DEF ProviderInv, ProviderEnabled
<1>3. CASE ~\E p \in Providers : ProviderEnabled(p)
  <2>1. Acting' = Acting /\ mode' = mode
    BY <1>3, ActingStays
  <2>2. served' = served /\ Detect' = Detect
    BY <1>3 DEF Next, StartStep, world, vars, Collect, PodDeleted, PodGone, LateCreation, PoolDeleted,
                PolicyChanges, SessionEnds, Begin, CallProvider, CallApply, ApplyRefused,
                CallCreatePod, CreateConflicts, CallFails, CreationTimesOut, Crash, Detect
  <2>3. detected' # "unset" => mode' = "auto" /\ detected' = Detect'
    <3>1. CASE CallProvider
      <4>1. Acting = Detect \/ mode # "auto"
        BY DEF Acting
      <4> QED
        BY <1>1, <2>1, <2>2, <3>1, <4>1, AnswerIsActing DEF ProviderInv, CallProvider, Remembered
    <3>2. CASE ~CallProvider
      <4>1. detected' \in {detected, "unset"}
        BY <1>3, <3>2 DEF Next, StartStep, vars, Collect, PodDeleted, PodGone, LateCreation, PoolDeleted,
                PolicyChanges, SessionEnds, Begin, CallApply, ApplyRefused,
                CallCreatePod, CreateConflicts, CallFails, CreationTimesOut, Crash
      <4> QED
        BY <1>1, <2>1, <2>2, <4>1 DEF ProviderInv
    <3> QED
      BY <3>1, <3>2
  <2>4. start'.provider \in {"none", start.provider, Acting}
    <3>0. NoStart.provider = "none"
      BY DEF NoStart
    <3>1. CASE CallProvider
      <4>1. start' = NoStart \/ start'.provider = Acting
        BY <1>1, <3>1, AnswerIsActing DEF CallProvider, Stop, TypeInv, Starts
      <4> QED
        BY <3>0, <4>1
    <3>2. CASE Begin
      <4>1. start'.provider = "none"
        BY <3>2 DEF Begin, NoStart
      <4> QED
        BY <4>1
    <3>3. CASE PodGone \/ CallCreatePod
      BY <1>1, <3>0, <3>3 DEF PodGone, CallCreatePod, HandOver, Stop, TypeInv, Starts
    <3>4. CASE ~(CallProvider \/ Begin \/ PodGone \/ CallCreatePod)
      <4>1. start' = start \/ start' = NoStart
        BY <1>3, <3>4 DEF Next, StartStep, vars, Collect, PodDeleted, LateCreation, PoolDeleted,
                PolicyChanges, SessionEnds, CallApply, ApplyRefused, BreakOff, Stop,
                CreateConflicts, CallFails, CreationTimesOut, Crash
      <4> QED
        BY <3>0, <4>1
    <3> QED
      BY <3>1, <3>2, <3>3, <3>4
  <2>5. DOMAIN objects' # {} => Acting # "none" /\ DOMAIN objects' \subseteq Kinds(Acting)
    <3>1. CASE CallApply
      <4>1. DOMAIN objects' = DOMAIN objects \union {todo[1]}
        BY <3>1 DEF CallApply, Written
      <4>2. Acting \in Providers /\ todo[1] \in Kinds(Acting)
        BY <3>1, WrittenType, ManifestKinds DEF CallApply
      <4>3. Acting # "none"
        BY <4>2 DEF Providers
      <4> QED
        BY <1>1, <4>1, <4>2, <4>3 DEF ProviderInv
    <3>2. CASE ~CallApply
      <4>1. DOMAIN objects' \subseteq DOMAIN objects
        BY <1>3, <3>2 DEF Next, StartStep, vars, Collect, Without, PodDeleted, PodGone, LateCreation, PoolDeleted,
                PolicyChanges, SessionEnds, Begin, CallProvider, ApplyRefused,
                CallCreatePod, CreateConflicts, CallFails, CreationTimesOut, Crash
      <4> QED
        BY <1>1, <4>1 DEF ProviderInv
    <3> QED
      BY <3>1, <3>2
  <2>6. pod'.labelled \/ late'.labelled => Acting # "none"
    <3>0. ~NoPod.labelled /\ (NewPod.labelled => Acting # "none")
      BY <1>1 DEF NoPod, NewPod, ProviderInv
    <3>1. pod' \in {pod, late, NoPod, NewPod} \/ pod'.labelled = pod.labelled
      BY <1>1, <1>3, WrittenOver DEF TypeInv, PodRecords, Next, StartStep, vars, Collect, PodDeleted, PodGone, LateCreation, PoolDeleted,
                PolicyChanges, SessionEnds, Begin, CallProvider, ApplyRefused,
                CallCreatePod, CreateConflicts, CallFails, CreationTimesOut, Crash
    <3>2. late' \in {late, NoPod, NewPod} \/ late'.labelled = late.labelled
      BY <1>1, <1>3, WrittenOver DEF TypeInv, PodRecords, Next, StartStep, vars, Collect, PodDeleted, PodGone, LateCreation, PoolDeleted,
                PolicyChanges, SessionEnds, Begin, CallProvider, ApplyRefused,
                CallCreatePod, CreateConflicts, CallFails, CreationTimesOut, Crash
    <3> QED
      BY <1>1, <3>0, <3>1, <3>2 DEF ProviderInv
  <2> QED
    BY <1>1, <2>1, <2>3, <2>4, <2>5, <2>6 DEF ProviderInv
<1> QED
  BY <1>2, <1>3

-----------------------------------------------------------------------------
\* The running start.

\* Every step leaves the start's way alone, ends it, or is one of its calls.
LEMMA StartMoves ==
  ASSUME IInv, [Next]_vars
  PROVE  \/ Begin \/ CallProvider \/ CallApply \/ CallCreatePod
         \/ Stop /\ (pc' = "idle")
         \/ PodGone
         \/ UNCHANGED <<pc, start, todo>>
  BY DEF Next, StartStep, vars, Collect, PodDeleted, LateCreation, PoolDeleted,
         PolicyChanges, SessionEnds, ApplyRefused, BreakOff, Stop, ProviderEnabled,
         CreateConflicts, CallFails, CreationTimesOut, Crash

LEMMA StepTodo == IInv /\ [Next]_vars => TodoInv'
<1> SUFFICES ASSUME IInv, [Next]_vars PROVE TodoInv'
  OBVIOUS
<1>0. TodoInv /\ TypeInv
  BY DEF IInv
<1>1. CASE Begin
  BY <1>0, <1>1 DEF TodoInv, Begin
<1>2. CASE CallProvider
  <2>1. CASE pc' = "apply"
    <3>1. /\ start' = [start EXCEPT !.provider = NetworkPolicyProvider, !.unserved = (served = {})]
          /\ NetworkPolicyProvider # "none"
          /\ todo' = ApplyOrder(NetworkPolicyProvider, Allowed(start.allow))
      BY <1>2, <2>1 DEF CallProvider, Stop, AfterProvider
    <3>2. start'.provider = NetworkPolicyProvider /\ start'.allow = start.allow
      BY <3>1, <1>0 DEF TypeInv, Starts
    <3> QED
      BY <2>1, <3>1, <3>2 DEF TodoInv
  <2>2. CASE pc' # "apply"
    <3>1. todo' = <<>>
      BY <1>2, <2>2 DEF CallProvider, Stop, AfterProvider
    <3> QED
      BY <2>2, <3>1 DEF TodoInv
  <2> QED
    BY <2>1, <2>2
<1>3. CASE CallApply
  <2>1. CASE Len(todo) > 1
    <3>1. pc' = "apply" /\ start' = start /\ todo' = Tail(todo) /\ pc = "apply"
      BY <1>3, <2>1 DEF CallApply
    <3>2. start.provider # "cilium" /\ HostnameGlobs(Allowed(start.allow)) # {}
          /\ todo = <<"NetworkPolicy", "FQDNNetworkPolicy">>
      BY <1>0, <2>1, <3>1 DEF TodoInv, ApplyOrder
    <3>3. todo' = <<"FQDNNetworkPolicy">>
      BY <3>1, <3>2
    <3>4. start.provider = "gke"
      BY <1>0, <3>1, <3>2 DEF TypeInv, Starts, TodoInv, Providers
    <3> QED
      BY <3>1, <3>2, <3>3, <3>4 DEF TodoInv
  <2>2. CASE ~(Len(todo) > 1)
    BY <1>3, <2>2 DEF CallApply, Stop, TodoInv
  <2> QED
    BY <2>1, <2>2
<1>4. CASE CallCreatePod
  <2>1. CASE start.provider = "none"
    BY <1>4, <2>1 DEF CallCreatePod, HandOver, Stop, TodoInv
  <2>2. CASE start.provider # "none"
    <3>1. /\ pc' = "apply" /\ todo' = ApplyOrder(start.provider, Allowed(start.allow))
          /\ start'.provider = start.provider /\ start'.allow = start.allow
      BY <1>0, <1>4, <2>2 DEF CallCreatePod, HandOver, TypeInv, Starts
    <3> QED
      BY <2>2, <3>1 DEF TodoInv
  <2> QED
    BY <2>1, <2>2
<1>5. CASE Stop
  BY <1>5 DEF Stop, TodoInv
<1>6. CASE PodGone
  <2>1. start'.provider = start.provider /\ start'.allow = start.allow /\ UNCHANGED <<pc, todo>>
    BY <1>0, <1>6 DEF PodGone, TypeInv, Starts
  <2> QED
    BY <1>0, <2>1 DEF TodoInv
<1>7. CASE UNCHANGED <<pc, start, todo>>
  BY <1>0, <1>7 DEF TodoInv
<1> QED
  BY <1>1, <1>2, <1>3, <1>4, <1>5, <1>6, <1>7, StartMoves

LEMMA StepPod == IInv /\ [Next]_vars => PodInv'
<1> SUFFICES ASSUME IInv, [Next]_vars PROVE PodInv'
  OBVIOUS
<1> USE DEF world
<1>0. PodInv /\ TypeInv /\ TodoInv
  BY DEF IInv
<1>n. /\ NoStart.owner = "pool" /\ NoStart.provider = "none"
      /\ NoPod.state = "none" /\ ~NoPod.labelled /\ NoPod \in PodRecords
      /\ NewPod.state = "live" /\ NewPod.lists = {start.allow} /\ NewPod # NoPod
      /\ NewPod.labelled <=> start.provider # "none"
  BY NoRecords DEF NoStart, NoPod, NewPod
<1>1. ASSUME NEW kind \in AllKinds, Collect(kind) PROVE PodInv'
  BY <1>0, <1>1 DEF PodInv, Collect, Without
<1>2. CASE PodDeleted
  <2>1. pod'.labelled = pod.labelled /\ pod'.lists = pod.lists /\ pod'.state # "none" /\ pod # NoPod
    BY <1>0, <1>n, <1>2 DEF PodDeleted, TypeInv, PodRecords
  <2> QED
    BY <1>0, <1>2, <2>1 DEF PodInv, PodDeleted
<1>3. CASE PodGone
  <2>1. pod # NoPod /\ late = NoPod /\ pod' = NoPod /\ UNCHANGED <<pc, late, poolLives>>
    BY <1>0, <1>n, <1>3 DEF PodGone, PodInv
  <2>2. /\ start'.provider = start.provider /\ start'.owner = Orphaned(start.owner)
        /\ start.owner = "pool" => start' = start
    BY <1>0, <1>3 DEF PodGone, TypeInv, Starts, Orphaned
  <2>3. start'.owner # "pod"
    BY <2>2 DEF Orphaned
  <2>4. \A k \in DOMAIN objects' : objects'[k].owner # "pod"
    BY <1>0, <1>3 DEF PodGone, TypeInv, Orphaned
  <2> QED
    BY <1>0, <1>n, <2>1, <2>2, <2>3, <2>4 DEF PodInv, Orphaned
<1>4. CASE LateCreation
  <2>1. late # NoPod /\ pod = NoPod /\ poolLives /\ pod' = late /\ late' = NoPod
    BY <1>0, <1>4 DEF LateCreation, PodInv
  <2> QED
    BY <1>0, <1>n, <1>4, <2>1 DEF PodInv, LateCreation
<1>5. CASE PoolDeleted
  <2>1. pod'.labelled = pod.labelled /\ pod'.lists = pod.lists /\ (pod # NoPod <=> pod'.state # "none")
        /\ (pod = NoPod => pod' = NoPod)
    BY <1>0, <1>n, <1>5 DEF PoolDeleted, PodInv, TypeInv, PodRecords
  <2> QED
    BY <1>0, <1>n, <1>5, <2>1 DEF PodInv, PoolDeleted
<1>6. CASE PolicyChanges \/ SessionEnds \/ \E p \in Providers : ProviderEnabled(p)
  BY <1>0, <1>6 DEF PodInv, PolicyChanges, SessionEnds, ProviderEnabled
<1>7. CASE Begin
  <2>1. start'.owner = "pool" /\ start'.provider = "none" /\ start'.allow = policy.allow
    BY <1>7 DEF Begin, NoStart
  <2> QED
    BY <1>0, <1>7, <2>1 DEF PodInv, Begin
<1>8. CASE CallProvider
  <2>1. /\ pc # "idle" /\ start.owner = "pool"
        /\ (pc' = "idle" /\ start' = NoStart)
            \/ (pc' \in {"apply", "create"} /\ start'.owner = "pool" /\ start'.allow = start.allow)
    BY <1>0, <1>8 DEF CallProvider, Stop, AfterProvider, PodInv, TypeInv, Starts
  <2> QED
    BY <1>0, <1>n, <1>8, <2>1 DEF PodInv, CallProvider
<1>9. CASE CallApply
  <2>1. \A k \in DOMAIN objects' : objects'[k].owner = start.owner
                                    \/ (k \in DOMAIN objects /\ objects'[k] = objects[k])
    BY <1>9 DEF CallApply, Written
  <2>2. \A k \in DOMAIN objects' : objects'[k].owner = "pod" => pod.labelled
    BY <1>0, <2>1 DEF PodInv
  <2>3. /\ pc # "idle"
        /\ \/ pc' = "idle" /\ start' = NoStart
           \/ pc' \in {"apply", "create"} /\ start' = start /\ (pc' = "create" => start.owner = "pool")
    BY <1>9 DEF CallApply, Stop
  <2>4. pod' = Under(pod, Len(todo) = 1) /\ late' = Under(late, Len(todo) = 1)
        /\ UNCHANGED poolLives
    BY <1>9 DEF CallApply
  <2>5. /\ pod' = NoPod <=> pod = NoPod
        /\ pod'.state = pod.state /\ pod'.labelled = pod.labelled
        /\ pod # NoPod => pod'.lists # {}
        /\ pod # NoPod /\ pod.lists = {start.allow} => pod'.lists = {start.allow}
    <3>1. (Len(todo) = 1) \in BOOLEAN /\ pod \in PodRecords
      BY <1>0 DEF TypeInv
    <3>2. /\ pod'.state = pod.state /\ pod'.labelled = pod.labelled
          /\ pod = NoPod => pod' = NoPod
          /\ pod # NoPod => pod'.lists = IF Len(todo) = 1 THEN {start.allow}
                                          ELSE pod.lists \union {start.allow}
      BY <1>0, <2>4, <3>1, UnderType
    <3>3. pod' = NoPod => pod = NoPod
      BY <1>0, <1>n, <3>2 DEF PodInv
    <3> QED
      BY <3>2, <3>3
  <2>6. /\ late' # NoPod => late # NoPod /\ late'.state = "live" /\ late'.lists # {}
        /\ late = NoPod => late' = NoPod
    BY <1>0, <2>4, UnderType DEF PodInv, TypeInv
  <2>7. \A k \in DOMAIN objects' : objects'[k].owner = "pod" => pod'.labelled
    BY <2>2, <2>5
  <2>8. pc # "idle" => poolLives
    BY <1>0 DEF PodInv
  <2> QED
    BY <1>0, <1>n, <2>3, <2>4, <2>5, <2>6, <2>7, <2>8 DEF PodInv
<1>10. CASE ApplyRefused \/ CreateConflicts \/ CallFails \/ Crash
  BY <1>0, <1>n, <1>10 DEF PodInv, ApplyRefused, CreateConflicts, CallFails, Crash, BreakOff, Stop
<1>11. CASE CallCreatePod
  <2>1. /\ poolLives /\ pod = NoPod /\ pod' = NewPod /\ late' = NoPod /\ UNCHANGED <<objects, poolLives>>
        /\ start.owner = "pool"
    BY <1>0, <1>11 DEF CallCreatePod, PodInv
  <2>2. \/ pc' = "idle" /\ start' = NoStart
        \/ /\ pc' = "apply" /\ start'.owner = "pod" /\ start'.allow = start.allow
           /\ start.provider # "none"
    BY <1>0, <1>11 DEF CallCreatePod, HandOver, Stop, TypeInv, Starts
  <2>3. \A k \in DOMAIN objects : objects[k].owner # "pod"
    BY <1>0, <1>n, <2>1 DEF PodInv
  <2> QED
    BY <1>n, <2>1, <2>2, <2>3 DEF PodInv
<1>12. CASE CreationTimesOut
  <2>1. /\ poolLives /\ pod = NoPod /\ pod' = pod /\ late' = NewPod /\ UNCHANGED <<objects, poolLives>>
        /\ pc' = "idle" /\ start' = NoStart
    BY <1>0, <1>12 DEF CreationTimesOut, PodInv, BreakOff, Stop
  <2> QED
    BY <1>0, <1>n, <2>1 DEF PodInv
<1>13. CASE UNCHANGED vars
  BY <1>0, <1>13 DEF PodInv, vars
<1> QED
  BY <1>1, <1>2, <1>3, <1>4, <1>5, <1>6, <1>7, <1>8, <1>9, <1>10, <1>11, <1>12, <1>13
     DEF Next, StartStep

-----------------------------------------------------------------------------
\* The objects and the pod they restrict.

\* An object that stays as it is, or changes hands, stays what its lists ask for.
LEMMA FromStays ==
  ASSUME NEW k, NEW lists, NEW more, lists \subseteq more, From(k, lists), Acting' = Acting,
         k \in DOMAIN objects', objects'[k].spec = objects[k].spec
  PROVE  From(k, more)'
  BY DEF From

\* The more lists, the fewer kinds all of them ask for.
LEMMA NeededShrinks ==
  ASSUME NEW lists, NEW more, lists \subseteq more
  PROVE  Needed(more) \subseteq Needed(lists)
  BY DEF Needed

LEMMA NeededStays ==
  ASSUME NEW lists, Acting' = Acting
  PROVE  Needed(lists)' = Needed(lists)
  BY DEF Needed

\* What a start has done before the pod is created furnishes the pod.
LEMMA CreateFurnishes ==
  ASSUME IInv, pc = "create", start.provider # "none"
  PROVE  \A k \in Needed({start.allow}) : From(k, {start.allow}) /\ objects[k].owner # "gone"
  BY DEF IInv, ObjectInv, Done, Needed

\* What a start writes is what its list asks for.
LEMMA WrittenFrom ==
  ASSUME IInv, CallApply, Acting' = Acting, NEW lists, start.allow \in lists,
         NEW written, written = todo[1]
  PROVE  /\ From(written, lists)' /\ objects'[written].owner = start.owner
         /\ \A k \in DOMAIN objects \ {written} : k \in DOMAIN objects' /\ objects'[k] = objects[k]
<1>1. /\ start.provider = Acting
      /\ written \in DOMAIN Manifests(Acting, Allowed(start.allow))
  BY WrittenType DEF CallApply
<1>2. objects' = [k \in DOMAIN objects \union {written} |->
                    IF k = written
                    THEN [owner |-> start.owner, spec |-> Manifests(Acting, Allowed(start.allow))[written]]
                    ELSE objects[k]]
  BY <1>1 DEF CallApply, Written
<1>3. /\ written \in DOMAIN objects' /\ objects'[written].owner = start.owner
      /\ objects'[written].spec = Manifests(Acting, Allowed(start.allow))[written]
  BY <1>2
<1>4. From(written, lists)'
  BY <1>1, <1>3 DEF From
<1> QED
  BY <1>2, <1>3, <1>4

\* No step takes an object from a furnished pod.
LEMMA StepObject == IInv /\ [Next]_vars => ObjectInv'
<1> SUFFICES ASSUME IInv, [Next]_vars PROVE ObjectInv'
  OBVIOUS
<1> USE DEF world
<1>0. ObjectInv /\ PodInv /\ TypeInv /\ TodoInv /\ ProviderInv
  BY DEF IInv
<1>n. /\ ~NoPod.labelled /\ NewPod.lists = {start.allow}
      /\ NewPod.labelled <=> start.provider # "none"
      /\ NoStart.provider = "none" /\ NoStart.owner = "pool"
  BY DEF NoPod, NewPod, NoStart
<1>1. ASSUME NEW p \in Providers, ProviderEnabled(p) PROVE ObjectInv'
  <2>1. CASE Acting = "none"
    <3>1. ~pod.labelled /\ ~late.labelled /\ start.provider = "none"
      BY <1>0, <2>1 DEF ProviderInv
    <3>2. pc # "apply"
      BY <1>0, <3>1 DEF TodoInv
    <3> QED
      BY <1>1, <3>1, <3>2 DEF ObjectInv, Furnished, Done, ProviderEnabled
  <2>2. CASE Acting # "none"
    <3>1. Acting' = Acting
      BY <2>2, ActingStays
    <3> QED
      BY <1>0, <1>1, <3>1 DEF ObjectInv, Furnished, Done, From, Needed, ProviderEnabled
  <2> QED
    BY <2>1, <2>2
<1> SUFFICES ASSUME ~\E p \in Providers : ProviderEnabled(p) PROVE ObjectInv'
  BY <1>1
<1>a. Acting' = Acting
  BY ActingStays
<1>2. ASSUME NEW kind \in AllKinds, Collect(kind) PROVE ObjectInv'
  <2>1. \A k \in DOMAIN objects :
          poolLives /\ objects[k].owner # "gone" => k \in DOMAIN objects' /\ objects'[k] = objects[k]
    BY <1>2 DEF Collect, Without
  <2>2. UNCHANGED <<pod, late, start, pc, todo, poolLives>> /\ (Done # {} => poolLives)
    BY <1>0, <1>2 DEF Collect, Done, PodInv
  <2>3. \A k, lists : From(k, lists) /\ poolLives /\ objects[k].owner # "gone" =>
                        From(k, lists)' /\ objects'[k].owner = objects[k].owner
    BY <2>1, <1>a, FromStays DEF From
  <2>4. Done' = Done
    BY <1>a, <2>2 DEF Done
  <2> QED
    BY <1>0, <1>a, <2>2, <2>3, <2>4, NeededStays DEF ObjectInv, Furnished
<1>3. CASE PodGone
  <2>1. pod' = NoPod /\ late' = NoPod /\ UNCHANGED <<pc, todo, poolLives>>
    BY <1>0, <1>3 DEF PodGone, PodInv, NoPod
  <2>2. \A k \in DOMAIN objects : /\ k \in DOMAIN objects' /\ objects'[k].spec = objects[k].spec
                                  /\ objects[k].owner = "pool" => objects'[k].owner = "pool"
    BY <1>0, <1>3 DEF PodGone, TypeInv, Orphaned
  <2>3. start'.provider = start.provider /\ start'.allow = start.allow
        /\ (start'.owner = "pool" <=> start.owner = "pool")
    BY <1>0, <1>3 DEF PodGone, TypeInv, Starts, Orphaned
  <2>4. Done' = Done
    BY <1>a, <2>1, <2>3 DEF Done
  <2>5. \A k \in Done : From(k, {start.allow}) /\ objects[k].owner = "pool"
    BY <1>0 DEF ObjectInv
  <2>6. \A k \in Done : From(k, {start.allow})' /\ objects'[k].owner = "pool"
    BY <1>a, <2>2, <2>3, <2>5 DEF From
  <2> QED
    BY <1>n, <2>1, <2>3, <2>4, <2>6 DEF ObjectInv, Furnished
<1>4. CASE CallApply
  <2>1. pc = "apply" /\ UNCHANGED poolLives /\ pc # "idle"
        /\ pod' = Under(pod, Len(todo) = 1) /\ late' = Under(late, Len(todo) = 1)
    BY <1>4 DEF CallApply
  <2>2. ASSUME NEW k \in Done', NEW list, list = start'.allow
        PROVE  From(k, {list})' /\ objects'[k].owner = "pool"
    <3> PICK written : written = todo[1]
      OBVIOUS
    <3>1. start' = start /\ start.owner = "pool" /\ start.provider # "none"
      <4>1. CASE pc' = "idle"
        BY <2>2, <4>1 DEF Done
      <4>2. CASE pc' # "idle"
        BY <1>0, <1>4, <2>1, <2>2, <4>2 DEF Done, CallApply, Stop, TodoInv
      <4> QED
        BY <4>1, <4>2
    <3>2. k = todo[1] \/ k \in Done
      <4>1. CASE Len(todo) > 1
        <5>1. todo = <<"NetworkPolicy", "FQDNNetworkPolicy">> /\ pc' = "apply"
          BY <1>0, <1>4, <2>1, <4>1 DEF TodoInv, ApplyOrder, CallApply
        <5> QED
          BY <2>2, <5>1 DEF Done
      <4>2. CASE ~(Len(todo) > 1)
        <5>1. pc' = "create" /\ k \in DOMAIN Manifests(Acting, Allowed(start.allow))
          BY <1>4, <1>a, <2>2, <3>1, <4>2 DEF CallApply, Done, Stop
        <5>2. start.provider = Acting
          BY <1>0, <3>1 DEF ProviderInv
        <5>3. CASE start.provider = "cilium"
          <6>1. k = "CiliumNetworkPolicy"
            BY <5>1, <5>2, <5>3 DEF Manifests, CiliumManifests
          <6>2. todo = <<"CiliumNetworkPolicy">>
            BY <1>0, <2>1, <5>3 DEF TodoInv, ApplyOrder
          <6> QED
            BY <6>1, <6>2
        <5>4. CASE start.provider # "cilium" /\ HostnameGlobs(Allowed(start.allow)) = {}
          <6>1. k = "NetworkPolicy"
            BY <5>1, <5>2, <5>4 DEF Manifests, GkeManifests
          <6>2. todo = <<"NetworkPolicy">>
            BY <1>0, <2>1, <5>4 DEF TodoInv, ApplyOrder
          <6> QED
            BY <6>1, <6>2
        <5>5. CASE start.provider # "cilium" /\ HostnameGlobs(Allowed(start.allow)) # {}
          <6>1. k \in {"NetworkPolicy", "FQDNNetworkPolicy"}
            BY <5>1, <5>2, <5>5 DEF Manifests, GkeManifests
          <6>2. todo = <<"FQDNNetworkPolicy">>
            BY <1>0, <2>1, <4>2, <5>5 DEF TodoInv, ApplyOrder
          <6> QED
            BY <2>1, <3>1, <6>1, <6>2 DEF Done
        <5> QED
          BY <5>3, <5>4, <5>5
      <4> QED
        BY <4>1, <4>2
    <3>3. CASE k = written
      BY <1>4, <1>a, <2>2, <3>1, <3>3, WrittenFrom
    <3>4. CASE k # written /\ k \in Done
      <4>1. From(k, {list}) /\ objects[k].owner = "pool"
        BY <1>0, <2>2, <3>1, <3>4 DEF ObjectInv
      <4>2. k \in DOMAIN objects' /\ objects'[k] = objects[k]
        <5>1. start.allow \in {list} /\ k \in DOMAIN objects
          BY <2>2, <3>1, <4>1 DEF From
        <5>2. \A i \in DOMAIN objects \ {written} : i \in DOMAIN objects' /\ objects'[i] = objects[i]
          BY <1>4, <1>a, <5>1, WrittenFrom
        <5> QED
          BY <3>4, <5>1, <5>2
      <4> QED
        BY <1>a, <4>1, <4>2 DEF From
    <3> QED
      BY <3>2, <3>3, <3>4
  <2>3. ASSUME NEW p \in {pod, late}, NEW q, q = Under(p, Len(todo) = 1),
               q.labelled, poolLives, NEW k \in Needed(q.lists)
        PROVE  From(k, q.lists)' /\ objects'[k].owner # "gone"
    <3>1. /\ p \in PodRecords /\ p # NoPod /\ p.labelled
          /\ q.lists = IF Len(todo) = 1 THEN {start.allow} ELSE p.lists \union {start.allow}
      <4>1. (Len(todo) = 1) \in BOOLEAN /\ p \in PodRecords
        BY <1>0, <2>3 DEF TypeInv
      <4>2. q.labelled = p.labelled
        BY <1>0, <2>3, <4>1, UnderType
      <4>3. p.labelled /\ p # NoPod
        BY <1>n, <2>3, <4>2
      <4> QED
        BY <1>0, <2>3, <4>1, <4>3, UnderType
    <3>2. CASE p.lists \subseteq q.lists
      <4>1. start.allow \in q.lists /\ start.owner # "gone"
        BY <1>0, <1>n, <2>3, <3>1 DEF PodInv
      <4> PICK written : written = todo[1]
        OBVIOUS
      <4>2. CASE k = written
        BY <1>4, <1>a, <4>1, <4>2, WrittenFrom
      <4>3. CASE k # written
        <5>1. From(k, p.lists) /\ objects[k].owner # "gone"
          BY <1>0, <2>3, <3>1, <3>2, NeededShrinks DEF ObjectInv, Furnished
        <5>2. k \in DOMAIN objects' /\ objects'[k] = objects[k]
          BY <1>4, <1>a, <4>1, <4>3, <5>1, WrittenFrom DEF From
        <5> QED
          BY <1>a, <3>2, <5>1, <5>2, FromStays
      <4> QED
        BY <4>2, <4>3
    <3>3. CASE ~(p.lists \subseteq q.lists)
      <4>1. Len(todo) = 1 /\ q.lists = {start.allow} /\ start.owner = "pool"
        BY <1>0, <1>n, <2>3, <3>1, <3>3 DEF PodInv, TypeInv, Starts, Owners
      <4>2. pc' = "create" /\ start' = start /\ start.provider # "none"
        BY <1>0, <1>4, <2>1, <4>1 DEF CallApply, TodoInv
      <4> PICK list : list = start.allow
        OBVIOUS
      <4>3. k \in DOMAIN Manifests(Acting, Allowed(list))
        BY <2>3, <4>1 DEF Needed
      <4>4. k \in Done'
        BY <1>a, <4>2, <4>3 DEF Done
      <4>5. From(k, {list})' /\ objects'[k].owner = "pool"
        BY <2>2, <4>2, <4>4
      <4> QED
        BY <4>1, <4>5
    <3> QED
      BY <3>2, <3>3
  <2>4. Furnished(pod)' /\ Furnished(late)'
    <3>1. \A q \in {pod', late'} : q.labelled /\ poolLives =>
            \A k \in Needed(q.lists) : From(k, q.lists)' /\ objects'[k].owner # "gone"
      BY <2>1, <2>3
    <3> QED
      BY <1>a, <2>1, <3>1, NeededStays DEF Furnished
  <2> QED
    BY <2>2, <2>4 DEF ObjectInv
<1> SUFFICES ASSUME ~(PodGone \/ CallApply \/ \E kind \in AllKinds : Collect(kind)) PROVE ObjectInv'
  BY <1>2, <1>3, <1>4
<1>o. objects' = objects
  BY DEF Next, StartStep, vars, PodDeleted, LateCreation, PoolDeleted,
         PolicyChanges, SessionEnds, Begin, CallProvider, ApplyRefused,
         CallCreatePod, CreateConflicts, CallFails, CreationTimesOut, Crash
<1>f. \A k, lists : From(k, lists)' <=> From(k, lists)
  BY <1>a, <1>o DEF From
<1>d. Done' \subseteq Done /\ (Done' # {} => start'.allow = start.allow)
  <2>1. CASE Begin \/ Stop
    <3>1. CASE Begin
      <4>1. start'.provider = "none" /\ pc' # "apply"
        BY <3>1 DEF Begin, NoStart
      <4> QED
        BY <4>1 DEF Done
    <3>2. CASE Stop
      BY <3>2 DEF Stop, Done
    <3> QED
      BY <2>1, <3>1, <3>2
  <2>2. CASE CallProvider
    <3>1. pc' # "apply" \/ todo' # <<"FQDNNetworkPolicy">>
      BY <2>2 DEF CallProvider, Stop, ApplyOrder
    <3>2. pc' = "create" => NetworkPolicyProvider = "none"
      BY <2>2 DEF CallProvider, AfterProvider, Stop
    <3>3. pc' = "create" => start'.provider = "none"
      BY <1>0, <2>2, <3>2 DEF CallProvider, Stop, TypeInv, Starts
    <3> QED
      BY <3>1, <3>3 DEF Done
  <2>3. CASE CallCreatePod
    <3>1. pc' # "create" /\ (pc' = "apply" => start'.owner # "pool")
      BY <1>0, <2>3 DEF CallCreatePod, HandOver, Stop, TypeInv, Starts
    <3> QED
      BY <3>1 DEF Done
  <2>4. CASE UNCHANGED <<pc, start, todo>>
    BY <1>a, <2>4 DEF Done
  <2> QED
    BY <2>1, <2>2, <2>3, <2>4, StartMoves
<1>6. ASSUME NEW k \in Done', NEW list, list = start'.allow
      PROVE  From(k, {list})' /\ objects'[k].owner = "pool"
  BY <1>0, <1>d, <1>f, <1>o, <1>6 DEF ObjectInv
<1>7. ASSUME NEW p \in {pod, late}, NEW lists, p.lists \subseteq lists,
             p.labelled, poolLives, NEW k \in Needed(lists)'
      PROVE  From(k, lists)' /\ objects'[k].owner # "gone"
  <2>1. k \in Needed(p.lists)
    BY <1>7, <1>a, NeededStays, NeededShrinks
  <2>2. From(k, p.lists) /\ objects[k].owner # "gone"
    BY <1>0, <1>7, <2>1 DEF ObjectInv, Furnished
  <2> QED
    BY <1>7, <1>a, <1>o, <2>2 DEF From
<1>8. ASSUME pc = "create", start.provider # "none", NEW list, list = start.allow,
             NEW k \in Needed({list})'
      PROVE  From(k, {list})' /\ objects'[k].owner # "gone"
  <2>1. k \in Needed({list})
    BY <1>8, <1>a, NeededStays
  <2>2. From(k, {list}) /\ objects[k].owner # "gone"
    BY <1>8, <2>1, CreateFurnishes
  <2> QED
    BY <1>f, <1>o, <2>2
<1>9. Furnished(pod)'
  <2>1. CASE CallCreatePod
    <3> PICK list : list = start.allow
      OBVIOUS
    <3>1. pc = "create" /\ pod'.lists = {list} /\ (pod'.labelled => start.provider # "none")
      BY <1>n, <2>1 DEF CallCreatePod
    <3> QED
      BY <1>8, <3>1 DEF Furnished
  <2>2. CASE ~CallCreatePod
    <3>1. poolLives' => poolLives
      BY DEF Next, StartStep, vars, PodDeleted, LateCreation, PoolDeleted,
             PolicyChanges, SessionEnds, Begin, CallProvider, ApplyRefused,
             CallCreatePod, CreateConflicts, CallFails, CreationTimesOut, Crash
    <3>2. pod' = late \/ (pod'.labelled = pod.labelled /\ pod'.lists = pod.lists) \/ ~poolLives'
      BY <1>0, <2>2 DEF TypeInv, PodRecords, Next, StartStep, vars, PodDeleted, LateCreation, PoolDeleted,
             PolicyChanges, SessionEnds, Begin, CallProvider, ApplyRefused,
             CreateConflicts, CallFails, CreationTimesOut, Crash
    <3> QED
      BY <1>7, <3>1, <3>2 DEF Furnished
  <2> QED
    BY <2>1, <2>2
<1>10. Furnished(late)'
  <2>1. CASE CreationTimesOut
    <3> PICK list : list = start.allow
      OBVIOUS
    <3>1. pc = "create" /\ late'.lists = {list} /\ (late'.labelled => start.provider # "none")
      BY <1>n, <2>1 DEF CreationTimesOut
    <3> QED
      BY <1>8, <3>1 DEF Furnished
  <2>2. CASE ~CreationTimesOut
    <3>1. poolLives' => poolLives
      BY DEF Next, StartStep, vars, PodDeleted, LateCreation, PoolDeleted,
             PolicyChanges, SessionEnds, Begin, CallProvider, ApplyRefused,
             CallCreatePod, CreateConflicts, CallFails, CreationTimesOut, Crash
    <3>2. late' \in {late, NoPod}
      BY <2>2 DEF Next, StartStep, vars, PodDeleted, LateCreation, PoolDeleted,
             PolicyChanges, SessionEnds, Begin, CallProvider, ApplyRefused,
             CallCreatePod, CreateConflicts, CallFails, CreationTimesOut, Crash
    <3> QED
      BY <1>7, <1>n, <3>1, <3>2 DEF Furnished
  <2> QED
    BY <2>1, <2>2
<1> QED
  BY <1>6, <1>9, <1>10 DEF ObjectInv

-----------------------------------------------------------------------------
\* What is enforced.

LEMMA StepEnforce == IInv /\ [Next]_vars => EnforceInv'
<1> SUFFICES ASSUME IInv, [Next]_vars PROVE EnforceInv'
  OBVIOUS
<1> USE DEF world
<1>0. EnforceInv /\ TypeInv /\ PodInv
  BY DEF IInv
<1>m. mode' = mode
  BY ActingStays
<1>n. /\ ~NoPod.enabled /\ ~NoPod.labelled
      /\ NewPod.enabled = start.enabled /\ NewPod.unserved = start.unserved
      /\ NewPod.labelled <=> start.provider # "none"
  BY DEF NoPod, NewPod
<1>1. pod'.labelled \/ Excused(pod)'
  <2>1. \/ pod' \in {pod, late, NoPod}
        \/ /\ pod'.labelled = pod.labelled /\ pod'.enabled = pod.enabled
           /\ pod'.unserved = pod.unserved
        \/ pod' = NewPod /\ pc = "create"
    BY <1>0, WrittenOver DEF TypeInv, PodRecords, Next, StartStep, vars, Collect, PodDeleted, PodGone, LateCreation,
         PoolDeleted, PolicyChanges, SessionEnds, ProviderEnabled, Begin, CallProvider,
         ApplyRefused, CallCreatePod, CreateConflicts, CallFails, CreationTimesOut, Crash
  <2> QED
    BY <1>0, <1>m, <1>n, <2>1 DEF EnforceInv, Excused
<1>2. late'.labelled \/ Excused(late)'
  <2>1. \/ late' \in {late, NoPod}
        \/ /\ late'.labelled = late.labelled /\ late'.enabled = late.enabled
           /\ late'.unserved = late.unserved
        \/ late' = NewPod /\ pc = "create"
    BY <1>0, WrittenOver DEF TypeInv, PodRecords, Next, StartStep, vars, Collect, PodDeleted, PodGone, LateCreation,
         PoolDeleted, PolicyChanges, SessionEnds, ProviderEnabled, Begin, CallProvider,
         ApplyRefused, CallCreatePod, CreateConflicts, CallFails, CreationTimesOut, Crash
  <2> QED
    BY <1>0, <1>m, <1>n, <2>1 DEF EnforceInv, Excused
<1>3. ASSUME pc' = "create" PROVE start'.provider # "none" \/ Excused(start)'
  <2>1. CASE Begin
    <3>1. ~policy.enabled /\ start'.enabled = policy.enabled
      BY <1>3, <2>1 DEF Begin, NoStart
    <3> QED
      BY <3>1 DEF Excused
  <2>2. CASE CallProvider
    <3>1. /\ start' = [start EXCEPT !.provider = NetworkPolicyProvider, !.unserved = (served = {})]
          /\ NetworkPolicyProvider = "none"
      BY <1>3, <2>2 DEF CallProvider, Stop, AfterProvider
    <3>2. Acting = "none"
      BY <3>1, AnswerIsActing
    <3>3. mode = "off" \/ (mode = "auto" /\ served = {})
      BY <1>0, <3>2, ClusterAssumption DEF TypeInv, Acting, Detect, Providers
    <3>4. start'.unserved = (served = {})
      BY <1>0, <3>1 DEF TypeInv, Starts
    <3> QED
      BY <1>m, <3>3, <3>4 DEF Excused
  <2>3. CASE CallApply
    <3>1. start' = start /\ pc = "apply"
      BY <1>3, <2>3 DEF CallApply, Stop
    <3>2. start.provider # "none"
      BY <3>1 DEF IInv, TodoInv
    <3> QED
      BY <3>1, <3>2
  <2>4. CASE CallCreatePod
    BY <1>3, <2>4 DEF CallCreatePod, HandOver, Stop
  <2>5. CASE PodGone
    <3>1. start'.provider = start.provider /\ start'.enabled = start.enabled
          /\ start'.unserved = start.unserved /\ pc' = pc
      BY <1>0, <2>5 DEF PodGone, TypeInv, Starts
    <3> QED
      BY <1>0, <1>3, <1>m, <3>1 DEF EnforceInv, Excused
  <2>6. CASE UNCHANGED <<pc, start, todo>>
    BY <1>0, <1>3, <1>m, <2>6 DEF EnforceInv, Excused
  <2>7. CASE pc' = "idle"
    BY <1>3, <2>7
  <2> QED
    BY <2>1, <2>2, <2>3, <2>4, <2>5, <2>6, <2>7, StartMoves
<1> QED
  BY <1>1, <1>2, <1>3 DEF EnforceInv

LEMMA StepIInv == IInv /\ [Next]_vars => IInv'
  BY StepType, StepProvider, StepTodo, StepPod, StepObject, StepEnforce DEF IInv

LEMMA AlwaysIInv == Spec => []IInv
  BY InitIInv, StepIInv, PTL DEF Spec

\* Every variable has its range, and only a pod that carries the label owns
\* objects: what apply hands over, and what becomes of it when the pod goes.
THEOREM TypeCorrect == Spec => []TypeOK
<1>1. ASSUME IInv PROVE TypeOK
  <2>1. pc = "apply" => todo # <<>> /\ start.provider # "none"
    BY <1>1, WrittenType DEF IInv, TodoInv
  <2>2. \A k \in DOMAIN objects : objects[k].owner \in Owners /\ (objects[k].owner = "pod" => pod.labelled)
    BY <1>1 DEF IInv, TypeInv, PodInv
  <2> QED
    BY <1>1, <2>1, <2>2 DEF IInv, TypeInv, TypeOK, Starts, PodRecords
<1> QED
  BY <1>1, AlwaysIInv, PTL

\* "a restricted session still gets its worker, unrestricted" only as configured:
\* whatever fails or comes late, start_worker leaves the label off only with
\* enforcement off, or left to a cluster that served no provider then.
THEOREM RestrictionKept == Spec => []Enforced
<1>1. IInv => Enforced
  BY DEF IInv, EnforceInv, Excused, Enforced
<1> QED
  BY <1>1, AlwaysIInv, PTL

\* A labelled pod has objects, and what one of them lets through, one of its
\* lists allows, if each list asks for every kind the provider has.
EveryKind == \A l \in Lists : Acting # "none" => DOMAIN Manifests(Acting, Allowed(l)) = Kinds(Acting)

LEMMA Narrow ==
  ASSUME IInv, EveryKind
  PROVE  NeverWider
<1> SUFFICES ASSUME poolLives, pod.labelled, NEW t \in Reachable
             PROVE  t \in AllowedBy(Allowed(UNION pod.lists), Targets)
  BY DEF NeverWider
<1>1. /\ Acting \in Providers /\ pod.lists \subseteq Lists /\ pod.lists # {}
      /\ DOMAIN objects = {} \/ DOMAIN objects \subseteq Kinds(Acting)
  <2>1. Acting # "none" /\ (DOMAIN objects # {} => DOMAIN objects \subseteq Kinds(Acting))
    BY DEF IInv, ProviderInv
  <2>2. pod # NoPod /\ pod.lists \subseteq Lists
    BY DEF NoPod, IInv, TypeInv, PodRecords
  <2> QED
    BY <2>1, <2>2, ActingRange DEF IInv, PodInv
<1>2. \A k \in Kinds(Acting) : k \in Needed(pod.lists)
  <2>1. \A l \in pod.lists : DOMAIN Manifests(Acting, Allowed(l)) = Kinds(Acting)
    BY <1>1 DEF EveryKind, Providers
  <2> QED
    BY <1>1, <2>1, ManifestKinds DEF Needed
<1>3. objects # <<>>
  <2>1. \E k : k \in Kinds(Acting)
    BY DEF Kinds
  <2>2. DOMAIN objects # {}
    BY <1>2, <2>1 DEF IInv, ObjectInv, Furnished, From
  <2> QED
    BY <2>2
<1>4. PICK k \in DOMAIN objects : t \in Targets /\ Passes(k, objects[k].spec, t)
  BY <1>3 DEF Reachable
<1>5. From(k, pod.lists)
  BY <1>1, <1>2 DEF IInv, ObjectInv, Furnished
<1>6. PICK l \in pod.lists : /\ k \in DOMAIN Manifests(Acting, Allowed(l))
                             /\ objects[k].spec = Manifests(Acting, Allowed(l))[k]
  BY <1>5 DEF From
<1>7. PICK d \in Allowed(l) : Allows(d, t)
  BY <1>1, <1>4, <1>6, AllowedLists, PassesAllowed
<1>8. d \in Allowed(UNION pod.lists)
  BY DEF Allowed
<1> QED
  BY <1>4, <1>7, <1>8 DEF AllowedBy

\* "Enforced narrower, never wider": whatever was interrupted, and however often
\* the session is claimed again over its pod, a labelled pod reaches only what the
\* last list applied in full and those begun since allow.  The infrastructure has to have a name: a
\* list without names asks for no FQDNNetworkPolicy, and apply leaves in place
\* the one that an interrupted start wrote for an earlier list.
THEOREM NarrowerNeverWider ==
  ASSUME HostnameGlobs(Infrastructure) # {}
  PROVE  Spec => []NeverWider
<1>1. ASSUME NEW l PROVE HostnameGlobs(Allowed(l)) # {}
  BY DEF HostnameGlobs, Allowed
<1>2. IInv => EveryKind
  BY <1>1, ManifestKinds, ActingRange DEF IInv, EveryKind
<1>3. IInv => NeverWider
  BY <1>2, Narrow
<1> QED
  BY <1>3, AlwaysIInv, PTL

\* Cilium's one object is written anew for every list, so that under it nothing
\* need be known of the infrastructure.
THEOREM NarrowerUnderCilium == Spec => [](mode = "cilium" => NeverWider)
<1>1. IInv /\ mode = "cilium" => EveryKind
  BY ManifestKinds DEF Acting, EveryKind, Providers
<1>2. IInv => (mode = "cilium" => NeverWider)
  BY <1>1, Narrow
<1> QED
  BY <1>2, AlwaysIInv, PTL

\* Narrower only where the provider says so: a labelled pod reaches what its
\* lists all allow in a form the provider enforces as written, the infrastructure
\* among it, also between the two objects of an apply, after interrupted ones and
\* while a start over the pod writes another list.
THEOREM PromisedReach == Spec => []ReachesWhatItMay
<1> SUFFICES ASSUME IInv, poolLives, pod.labelled, NEW t \in Targets,
                    \A list \in pod.lists : \E d \in Allowed(list) : Exact(d) /\ Allows(d, t)
             PROVE  t \in Reachable
  <2>1. IInv => ReachesWhatItMay
    BY DEF ReachesWhatItMay
  <2> QED
    BY <2>1, AlwaysIInv, PTL
<1> DEFINE k == KindFor(Acting, t)
<1>1. Acting \in Providers /\ pod.lists \subseteq Lists
  BY ActingRange DEF IInv, TypeInv, PodRecords, ProviderInv
<1>2. k \in Needed(pod.lists)
  <2>1. \A l \in pod.lists : k \in DOMAIN Manifests(Acting, Allowed(l))
    BY <1>1, EntryAsksFor
  <2>2. k \in AllKinds
    BY <1>1 DEF KindFor, AllKinds, Kinds, Providers
  <2> QED
    BY <2>1, <2>2 DEF Needed
<1>3. From(k, pod.lists)
  BY <1>2 DEF IInv, ObjectInv, Furnished
<1>4. PICK l \in pod.lists : objects[k].spec = Manifests(Acting, Allowed(l))[k]
  BY <1>3 DEF From
<1>5. PICK d \in Allowed(l) : Exact(d) /\ Allows(d, t)
  OBVIOUS
<1>6. "CiliumNetworkPolicy" \in DOMAIN objects => Acting = "cilium"
  BY <1>1 DEF IInv, ProviderInv, Kinds, Providers
<1>7. Passes(k, objects[k].spec, t)
  <2>1. IsList(Allowed(l))
    BY <1>1, AllowedLists
  <2>2. d.kind = "hostname" => \/ GlobsOf(Unrooted(d.labels)) = {}
                               \/ GlobsOf(Unrooted(d.labels)) = {1} /\ Acting = "cilium"
    BY <1>5, <1>6 DEF Exact
  <2> QED
    BY <1>1, <1>4, <1>5, <2>1, <2>2, AllowedPasses
<1>8. k \in DOMAIN objects /\ objects # <<>>
  BY <1>3 DEF From
<1> QED
  BY <1>7, <1>8 DEF Reachable
=============================================================================
