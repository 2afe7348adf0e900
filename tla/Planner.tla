------------------------------ MODULE Planner ------------------------------
(***************************************************************************)
(* The pure planner (controller/plan.rs): from one observation of the      *)
(* queue and of the pool's pods to the actions of one reconcile pass.      *)
(*                                                                         *)
(* A pod's status is reduced to the verdicts the planner and the           *)
(* reconciler draw from it:                                                *)
(*                                                                         *)
(*   health     phase      what the planner's predicates say               *)
(*   starting   Pending    the worker has not run, nothing wrong so far    *)
(*   unstarted  Pending    pod_startup_failure gives a verdict             *)
(*   running    Running    ready, at or under the restart limit            *)
(*   looping    Running    pod_crash_looping, at or under the limit        *)
(*   over       Running    pod_restart_count above the limit               *)
(*   succeeded  Succeeded  pod_succeeded                                   *)
(*   failed     Failed     evicted: the worker ran and never will again    *)
(***************************************************************************)
EXTENDS SessionQueue, FiniteSets

CONSTANTS
    Sessions,           \* session ids, ordered as their strings are
    MaxConcurrent       \* spec.maxConcurrentSessions

ASSUME SessionsAssumption == Sessions \subseteq Nat /\ IsFiniteSet(Sessions)
ASSUME MaxConcurrentAssumption == MaxConcurrent \in Nat

Healths == {"starting", "unstarted", "running", "looping", "over",
            "succeeded", "failed"}

RunningHealths == {"running", "looping", "over"}

Pods == [here     : BOOLEAN,
         deleting : BOOLEAN,                      \* metadata.deletionTimestamp
         health   : Healths,
         image    : {"current", "stale"},         \* against the pool's spec
         pin      : {"none", "pinned", "restored"}]

NoPod == [here |-> FALSE, deleting |-> FALSE, health |-> "starting",
          image |-> "current", pin |-> "none"]

Actions == {"Terminate", "Suspend", "StartWorker", "ReplaceSucceededPod",
            "StartupFailed", "GiveUp", "ReplaceDriftedPod", "Renew", "Claim",
            "DeleteOrphanPod"}

-----------------------------------------------------------------------------
Ours(r) == ClaimedBy(r, Us)

\* is_none_or(deadline - now < margin)
RenewDue(r) == r.deadline # "far"

IfDue(r, act) == IF RenewDue(r) THEN {act} ELSE {}

PlanNoRestart(r, p) == IF p.here THEN IfDue(r, "Renew") ELSE {}              \* mutant

\* What one of our claims on a live session asks for, given its pod.
PlanForWorker(r, p) ==
    CASE ~p.here                  -> {"StartWorker"}
      [] p.here /\ p.health = "succeeded" -> {"ReplaceSucceededPod"}
      [] p.here /\ p.health = "unstarted" -> IfDue(r, "Renew") \cup {"StartupFailed"}
      [] p.here /\ p.health = "over"      -> {"GiveUp"}
      [] p.here /\ p.health = "looping" /\ p.image = "stale" -> {"ReplaceDriftedPod"}
      [] OTHER                    -> IfDue(r, "Renew")

\* Suspended and terminated claims are wound down: no renewal, no slot.
PlanForOurs(r, p) ==
    CASE r.status = "terminated" -> {"Terminate"}
      [] r.status = "suspended"  -> {"Suspend"}
      [] OTHER                   -> PlanForWorker(r, p)

\* The claims that hold a slot; one that is given up frees it at once.
ActiveOurs(rows, pods) ==
    {s \in Sessions : /\ Ours(rows[s])
                      /\ NeedsWorker(rows[s])
                      /\ PlanForWorker(rows[s], pods[s]) # {"GiveUp"}}

\* Rows up for claiming: pending, and not left behind by a wound down session.
Claimable(rows) ==
    {s \in Sessions : /\ rows[s].live
                      /\ rows[s].phase = "pending"
                      /\ NeedsWorker(rows[s])}

\* Oldest first, ties by session id.
Before(created, s, t) == \/ created[s] < created[t]
                         \/ created[s] = created[t] /\ s < t

SlotsOffByOne(rows, pods) == MaxConcurrent + 1 - Cardinality(ActiveOurs(rows, pods))   \* mutant

\* max_concurrent.saturating_sub(active_ours)
Slots(rows, pods) ==
    LET active == Cardinality(ActiveOurs(rows, pods))
    IN  IF active < MaxConcurrent THEN MaxConcurrent - active ELSE 0

ToClaim(rows, pods, created) ==
    {s \in Claimable(rows) :
        Cardinality({t \in Claimable(rows) : Before(created, t, s)}) < Slots(rows, pods)}

OrphanedOnlyVanished(r, p) == p.here /\ ~r.live                             \* mutant

\* A pod whose row vanished, or is another acceptor's by now.
Orphaned(r, p) == p.here /\ (~r.live \/ (r.phase = "claimed" /\ r.acceptor # Us))

PlanFor(rows, pods, created, s) ==
    IF Ours(rows[s]) THEN PlanForOurs(rows[s], pods[s])
    ELSE IF s \in ToClaim(rows, pods, created) THEN {"Claim"}
    ELSE IF Orphaned(rows[s], pods[s]) THEN {"DeleteOrphanPod"}
    ELSE {}

Plan(rows, pods, created) == [s \in Sessions |-> PlanFor(rows, pods, created, s)]

\* The order of the action list: our claims, pods of sessions claimed by
\* others, new claims, pods without a row.
Stage(hasRow, acts) ==
    CASE acts = {"Claim"}                       -> 3
      [] acts = {"DeleteOrphanPod"} /\ hasRow   -> 2
      [] acts = {"DeleteOrphanPod"} /\ ~hasRow  -> 4
      [] OTHER                                  -> 1

=============================================================================
