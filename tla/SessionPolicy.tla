--------------------------- MODULE SessionPolicy ---------------------------
(***************************************************************************)
(* The life of one session's policy objects (network_policy/mod.rs) around  *)
(* the life of its worker pod: start_worker (controller/reconcile.rs)       *)
(* applies them owned by the pool, creates the pod, and hands them to it;   *)
(* Kubernetes collects what lost its owner.  start_worker is one step per    *)
(* API call.  What the queue does to the claim is PoolReconciler's subject;  *)
(* here a claim returns the allow list the session has at that time.        *)
(***************************************************************************)
EXTENDS Egress, FiniteSets

CONSTANTS
  Modes,           \* the enforcements to check: "off", "auto", "cilium", "gke"
  Clusters,        \* sets of providers a cluster may serve at first
  Policies,        \* the [enabled, allow] a session may carry
  Labels,          \* what names and globs are made of
  Infrastructure,  \* destinations of the gateway and the download host
  Targets,         \* what a pod may try to reach
  MaxFaults        \* bound on failed calls and crashes

ASSUME MaxFaultsAssumption == MaxFaults \in Nat
ASSUME ClusterAssumption ==
  Modes \subseteq {"off", "auto", "cilium", "gke"} /\ Clusters \subseteq SUBSET {"cilium", "gke"}
ASSUME PolicyAssumption == \A p \in Policies : p.enabled \in BOOLEAN

ASSUME LabelAssumption == Globs \subseteq Labels

Names == Seq(Labels) \ {<<>>}

ASSUME DestinationAssumption ==
  \A d \in Infrastructure \union UNION {p.allow : p \in Policies} :
     d.kind \in {"hostname", "ipv4", "unknown"} /\ (d.kind = "hostname" => d.labels \in Names)
ASSUME TargetAssumption ==
  \A t \in Targets : t.kind \in {"hostname", "address"} /\ (t.kind = "hostname" => t.labels \in Names)

VARIABLES
  mode,      \* OperatorConfig::network_policy_enforcement
  literal,   \* the pool gives the download URL as a literal value
  served,    \* the providers whose kinds the cluster serves
  policy,    \* the session's network policy in the queue
  wanted,    \* the session is in the queue and needs its worker
  poolLives,
  detected,  \* the process's detected_network_policy_provider
  pc,        \* where start_worker is
  start,     \* what the running start_worker knows
  todo,      \* the kinds the running apply still has to write, in order
  objects,   \* the policy objects: kind |-> owner and spec
  pod,
  late,      \* a pod whose creation timed out and may still happen
  faults,
  brokeOff   \* history: the last start that got to the objects ended before their hand-over

vars  == <<mode, literal, served, policy, wanted, poolLives, detected, pc, start, todo,
           objects, pod, late, faults, brokeOff>>
world == <<mode, literal, served, policy, wanted, poolLives>>

Providers == {"cilium", "gke"}
AllKinds  == UNION {Kinds(p) : p \in Providers}
Owners    == {"pool", "pod", "gone"}  \* "gone": a pod that is no more
NoStart   == [allow |-> {}, enabled |-> FALSE, provider |-> "none", unserved |-> FALSE, owner |-> "pool"]
\* A pod's lists are history, the ones its objects may say: that of the last start
\* to write them all, before the pod or over it, and those of starts since that
\* wrote some.
NoPod     == [state |-> "none", labelled |-> FALSE, enabled |-> FALSE, lists |-> {}, unserved |-> FALSE]

Init ==
  /\ mode \in Modes
  /\ literal \in BOOLEAN
  /\ served \in Clusters
  /\ policy \in Policies
  /\ wanted = TRUE
  /\ poolLives = TRUE
  /\ detected = "unset"
  /\ pc = "idle"
  /\ start = NoStart
  /\ todo = <<>>
  /\ objects = <<>>
  /\ pod = NoPod
  /\ late = NoPod
  /\ faults = 0
  /\ brokeOff = FALSE

-----------------------------------------------------------------------------
\* Kubernetes: the policy objects and their owners.

Without(kinds) == [k \in DOMAIN objects \ kinds |-> objects[k]]

\* A forced server-side apply: the object becomes what the caller says.
Written(kind, owner, spec) ==
  [k \in DOMAIN objects \union {kind} |->
     IF k = kind THEN [owner |-> owner, spec |-> spec] ELSE objects[k]]

\* A kind is there to be written once its provider is enabled.
Served(kind) == kind = "NetworkPolicy"
                  \/ (kind = "FQDNNetworkPolicy" /\ "gke" \in served)
                  \/ (kind = "CiliumNetworkPolicy" /\ "cilium" \in served)

\* The garbage collector deletes an object whose only owner is no more.
Collect(kind) ==
  /\ kind \in DOMAIN objects
  /\ objects[kind].owner = "gone" \/ (objects[kind].owner = "pool" /\ ~poolLives)
  /\ objects' = Without({kind})
  /\ UNCHANGED <<world, detected, pc, start, todo, pod, late, faults, brokeOff>>

Orphaned(owner) == IF owner = "pod" THEN "gone" ELSE owner

\* The pod is deleted: by the operator, by a drain, or with its pool.
PodDeleted ==
  /\ pod.state = "live"
  /\ pod' = [pod EXCEPT !.state = "terminating"]
  /\ UNCHANGED <<world, detected, pc, start, todo, objects, late, faults, brokeOff>>

PodGone ==
  /\ pod.state = "terminating"
  /\ pod' = NoPod
  /\ objects' = [k \in DOMAIN objects |-> [objects[k] EXCEPT !.owner = Orphaned(@)]]
  /\ start' = [start EXCEPT !.owner = Orphaned(@)]
  /\ UNCHANGED <<world, detected, pc, todo, late, faults, brokeOff>>

\* A creation the client has given up on happens all the same.
LateCreation ==
  /\ late # NoPod
  /\ late' = NoPod
  /\ pod' = IF pod = NoPod /\ poolLives THEN late ELSE pod
  /\ UNCHANGED <<world, detected, pc, start, todo, objects, faults, brokeOff>>

\* The pool goes between two passes (its finalizer runs alone).  Its pods, and
\* the objects it owns, are garbage from here on.
PoolDeleted ==
  /\ poolLives
  /\ pc = "idle"
  /\ poolLives' = FALSE
  /\ pod' = [pod EXCEPT !.state = IF @ = "live" THEN "terminating" ELSE @]
  /\ late' = NoPod
  /\ UNCHANGED <<mode, literal, served, policy, wanted, detected, pc, start, todo, objects, faults, brokeOff>>

-----------------------------------------------------------------------------
\* The queue and the administrator.

PolicyChanges ==
  /\ policy' \in Policies \ {policy}
  /\ UNCHANGED <<mode, literal, served, wanted, poolLives, detected, pc, start, todo,
                 objects, pod, late, faults, brokeOff>>

SessionEnds ==
  /\ wanted
  /\ wanted' = FALSE
  /\ UNCHANGED <<mode, literal, served, policy, poolLives, detected, pc, start, todo,
                 objects, pod, late, faults, brokeOff>>

\* Once and for all: a cluster that serves GKE's kind does not serve Cilium's.
ProviderEnabled(p) ==
  /\ served = {}
  /\ served' = {p}
  /\ UNCHANGED <<mode, literal, policy, wanted, poolLives, detected, pc, start, todo,
                 objects, pod, late, faults, brokeOff>>

-----------------------------------------------------------------------------
\* start_worker.

Stop == pc' = "idle" /\ start' = NoStart /\ todo' = <<>>

\* A start that ends before its objects are handed over leaves them to the pool.
BreakOff == Stop /\ brokeOff' = (brokeOff \/ start.provider # "none")

\* A claim is planned without a look at the pods (plan.rs:324-342): a session that
\* is back in the queue is started anew while its pod still runs, or is still
\* terminating.  The claim returns the session's policy.
Begin ==
  /\ pc = "idle" /\ wanted /\ poolLives
  /\ pc' = IF policy.enabled THEN "detect" ELSE "create"
  /\ start' = [NoStart EXCEPT !.allow = policy.allow, !.enabled = policy.enabled]
  /\ UNCHANGED <<world, detected, todo, objects, pod, late, faults, brokeOff>>

\* GKE's kind is asked for first.
Detect == IF "gke" \in served THEN "gke" ELSE IF "cilium" \in served THEN "cilium" ELSE "none"

NetworkPolicyProvider ==
  CASE mode = "off"  -> "none"
    [] mode = "auto" -> IF detected # "unset" THEN detected ELSE Detect
    [] OTHER         -> mode

\* mutant: that there is no provider is remembered, too.
RememberedAnyway(p) == IF mode = "auto" THEN p ELSE detected

\* Only a successful detection is remembered.
Remembered(p) == IF mode = "auto" /\ p # "none" THEN p ELSE detected

\* mutant: the pod is created before its policy.
PodFirst(p) == "create"

\* The policy comes before the pod.
AfterProvider(p) == IF p = "none" THEN "create" ELSE "apply"

\* The order in which apply writes the kinds of a list's manifests.
ApplyOrder(provider, list) ==
  IF provider = "cilium" THEN <<"CiliumNetworkPolicy">>
  ELSE IF HostnameGlobs(list) = {} THEN <<"NetworkPolicy">> ELSE <<"NetworkPolicy", "FQDNNetworkPolicy">>

Allowed(list) == list \union Infrastructure

\* A policy has to name the host the worker downloads from, so its URL has to be
\* a literal in the pod.
HostUnknown(p) == p # "none" /\ ~literal

\* The provider is asked for, and the pod is built, labelled for its objects.
CallProvider ==
  /\ pc = "detect"
  /\ LET p == NetworkPolicyProvider IN
     /\ detected' = Remembered(p)
     /\ IF HostUnknown(p)
        THEN Stop
        ELSE /\ start' = [start EXCEPT !.provider = p, !.unserved = (served = {})]
             /\ pc' = AfterProvider(p)
             /\ todo' = IF p = "none" THEN <<>> ELSE ApplyOrder(p, Allowed(start.allow))
  /\ UNCHANGED <<world, objects, pod, late, faults, brokeOff>>

\* Pod p after an object is written for the start's list, the last one or not.
Under(p, last) ==
  IF p = NoPod THEN p
  ELSE [p EXCEPT !.lists = IF last THEN {start.allow} ELSE @ \union {start.allow}]

\* One object of the first apply (owned by the pool) or of the second one.  A pod
\* that is there already comes under it, and so will a late one.
CallApply ==
  /\ pc = "apply"
  /\ Served(todo[1])
  /\ pod' = Under(pod, Len(todo) = 1)
  /\ late' = Under(late, Len(todo) = 1)
  /\ objects' = Written(todo[1], start.owner, Manifests(start.provider, Allowed(start.allow))[todo[1]])
  /\ IF Len(todo) > 1 THEN todo' = Tail(todo) /\ UNCHANGED <<pc, start>>
     ELSE IF start.owner = "pool" THEN pc' = "create" /\ todo' = <<>> /\ UNCHANGED start
     ELSE Stop
  /\ brokeOff' = (brokeOff /\ (start.owner = "pool" \/ Len(todo) > 1))
  /\ UNCHANGED <<world, detected, faults>>

\* The cluster does not serve the kind: the apply fails, and the start with it.
ApplyRefused ==
  /\ pc = "apply"
  /\ ~Served(todo[1])
  /\ BreakOff
  /\ UNCHANGED <<world, detected, objects, pod, late, faults>>

\* mutant: the pool's overrides replace the label.
NewPodUnlabelled == [NoPod EXCEPT !.state = "live", !.enabled = start.enabled, !.lists = {start.allow}]

NewPod == [state    |-> "live",
           labelled |-> start.provider # "none",
           enabled  |-> start.enabled,
           lists    |-> {start.allow},
           unserved |-> start.unserved]

\* mutant: the objects stay with the pool.
HandOverNone == Stop

\* The created pod takes the objects over.
HandOver ==
  IF start.provider = "none" THEN Stop
  ELSE /\ pc' = "apply"
       /\ start' = [start EXCEPT !.owner = "pod"]
       /\ todo' = ApplyOrder(start.provider, Allowed(start.allow))

CallCreatePod ==
  /\ pc = "create"
  /\ pod = NoPod
  /\ pod' = NewPod
  /\ late' = NoPod
  /\ HandOver
  /\ UNCHANGED <<world, detected, objects, faults, brokeOff>>

\* A conflict is success, without a hand-over.
CreateConflicts ==
  /\ pc = "create"
  /\ pod # NoPod
  /\ BreakOff
  /\ UNCHANGED <<world, detected, objects, pod, late, faults>>

\* A call that never arrives, or a process that ends; an answer that is lost
\* after the effect is one that ends before the next call.
Fault ==
  /\ faults < MaxFaults
  /\ faults' = faults + 1

CallFails ==
  /\ pc # "idle"
  /\ Fault
  /\ BreakOff
  /\ UNCHANGED <<world, detected, objects, pod, late>>

CreationTimesOut ==
  /\ pc = "create"
  /\ pod = NoPod
  /\ Fault
  /\ late' = NewPod
  /\ BreakOff
  /\ UNCHANGED <<world, detected, objects, pod>>

Crash ==
  /\ Fault
  /\ BreakOff
  /\ detected' = "unset"
  /\ UNCHANGED <<world, objects, pod, late>>

StartStep == \/ Begin \/ CallProvider \/ CallApply \/ ApplyRefused \/ CallCreatePod \/ CreateConflicts

Next ==
  \/ StartStep
  \/ CallFails \/ CreationTimesOut \/ Crash
  \/ \E kind \in AllKinds : Collect(kind)
  \/ PodDeleted \/ PodGone \/ LateCreation \/ PoolDeleted
  \/ PolicyChanges \/ SessionEnds
  \/ \E p \in Providers : ProviderEnabled(p)

Spec == Init /\ [][Next]_vars

Fairness ==
  /\ WF_vars(StartStep)
  /\ WF_vars(PodGone)
  /\ \A kind \in AllKinds : WF_vars(Collect(kind))

FairSpec == Spec /\ Fairness

-----------------------------------------------------------------------------
\* What the pod can reach: everything, unless an object selects its label.

Reachable ==
  IF ~pod.labelled \/ objects = <<>> THEN Targets
  ELSE {t \in Targets : \E k \in DOMAIN objects : Passes(k, objects[k].spec, t)}

\* Every variable has its range; only a pod that carries the label owns objects.
TypeOK ==
  /\ mode \in Modes /\ literal \in BOOLEAN /\ served \subseteq Providers
  /\ policy \in Policies /\ wanted \in BOOLEAN /\ poolLives \in BOOLEAN
  /\ detected \in Providers \union {"unset"}
  /\ pc \in {"idle", "detect", "apply", "create"}
  /\ start.provider \in Providers \union {"none"} /\ start.owner \in Owners
  /\ pc = "apply" => todo # <<>> /\ start.provider # "none"
  /\ DOMAIN objects \subseteq AllKinds
  /\ \A k \in DOMAIN objects : objects[k].owner \in Owners /\ (objects[k].owner = "pod" => pod.labelled)
  /\ pod.state \in {"none", "live", "terminating"}
  /\ faults \in 0..MaxFaults

\* "Enforced narrower, never wider" (network_policy/mod.rs:28-29): a pod that
\* carries the label reaches only what the last allow list to be applied in full
\* lets it reach, be it its own start's or that of a claim over the running pod,
\* and the lists of starts that have been interrupted since, besides the
\* infrastructure; to its last moment, as long as the pool is there.
NeverWider ==
  poolLives /\ pod.labelled =>
    Reachable \subseteq AllowedBy(Allowed(UNION pod.lists), Targets)

\* A restricted session runs without its policy only as configured
\* (network_policy/mod.rs:10-18, context.rs:57-59): with enforcement off, or
\* left to a cluster that served no provider when this worker was started.
Enforced ==
  pod.enabled /\ ~pod.labelled => mode = "off" \/ (mode = "auto" /\ pod.unserved)

\* An entry the provider enforces as it is written: a range, a name, and with
\* Cilium a glob whose first label alone is one.
Exact(d) ==
  d.kind = "hostname" =>
    \/ GlobsOf(Unrooted(d.labels)) = {}
    \/ GlobsOf(Unrooted(d.labels)) = {1} /\ "CiliumNetworkPolicy" \in DOMAIN objects

\* Narrower only where the provider says so (cilium.rs:4-6, gke.rs:7-9), and
\* never without the infrastructure "no restricted session could start" without
\* (network_policy/mod.rs:24-25): a labelled pod reaches what it was promised at
\* every moment, also between the objects of one apply and while a later start
\* replaces one list by another.
ReachesWhatItMay ==
  poolLives /\ pod.labelled =>
    \A t \in Targets :
      (\A list \in pod.lists : \E d \in Allowed(list) : Exact(d) /\ Allows(d, t)) => t \in Reachable

\* The operator never deletes the objects (network_policy/mod.rs:38-41); handed
\* over to the pod they go with it; those of a start that broke off wait for the
\* next start of the session that does not, or for the pool's deletion.
PolicyCollected ==
  (~brokeOff /\ pod = NoPod /\ pc = "idle") ~> (objects = <<>> \/ brokeOff \/ pc # "idle")

\* "The policy objects have to exist before the worker pod starts and until it is
\* completely gone" (network_policy/mod.rs:36-38), also when the pool goes first.
PolicyOutlivesPod == pod.labelled => objects # <<>>
=============================================================================
