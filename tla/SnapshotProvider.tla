-------------------------- MODULE SnapshotProvider --------------------------
(***************************************************************************)
(* What each resume policy keeps for a session outside its pod, and what   *)
(* the provider's operations do to it (snapshot/*.rs).                     *)
(*                                                                         *)
(*   volume    FilesystemSnapshot: the state PVC.  "stamped" carries the   *)
(*             suspended-at annotation, "expired" has carried it for the   *)
(*             TTL, "terminating" is deleted but still mounted by a pod.   *)
(*   trigger   GkeSnapshot: the manual trigger of the session's present    *)
(*             pod; "stuck" is an active one older than SNAPSHOT_GIVE_UP.  *)
(*   snapshot  GkeSnapshot: the Ready PodSnapshot.  "fresh" is newer than  *)
(*             the present pod, "old" predates it, "unlabelled" is fresh   *)
(*             but not yet labelled with the session.                      *)
(***************************************************************************)
EXTENDS Planner

CONSTANT Policy         \* spec.resume.policy

ASSUME PolicyAssumption ==
    Policy \in {"StartFresh", "FilesystemSnapshot", "GkeSnapshot"}

Artifacts == [volume   : {"none", "live", "stamped", "expired", "terminating"},
              trigger  : {"none", "active", "stuck", "failed"},
              snapshot : {"none", "unlabelled", "fresh", "old"}]

NoArtifacts == [volume |-> "none", trigger |-> "none", snapshot |-> "none"]

\* Deleting a PVC that a pod mounts only takes effect once the pod is gone.
DropVolume(a, mounted) ==
    [a EXCEPT !.volume = IF @ # "none" /\ mounted THEN "terminating" ELSE "none"]

-----------------------------------------------------------------------------
(* prepare: artifacts after it, and whether the new pod pins a snapshot.   *)

\* The volume is created, or un-stamped so that TTL GC leaves it alone.
Prepare(a) ==
    IF Policy = "FilesystemSnapshot"
    THEN [a EXCEPT !.volume = IF @ = "terminating" THEN @ ELSE "live"]
    ELSE a

\* The latest Ready snapshot labelled with the session is pinned.
PinFor(a) == Policy = "GkeSnapshot" /\ a.snapshot \in {"fresh", "old"}

\* A snapshot is expected and its restore is not confirmed on the pod.
ColdStarted(p) == Policy = "GkeSnapshot" /\ p.pin = "pinned"

\* phase Running and not being deleted
PodRunning(p) == p.here /\ p.health \in RunningHealths /\ ~p.deleting

-----------------------------------------------------------------------------
(* on_suspend: the outcome and the artifacts it leaves, for the pod as it  *)
(* was listed.                                                             *)

Outcome(result, a) == [result |-> result, art |-> a]

GkeSuspendAnySnapshot(a, p) ==                                             \* mutant
    IF a.snapshot # "none" THEN Outcome("Ready", a)
    ELSE Outcome("InProgress", [a EXCEPT !.trigger = "active"])

GkeSuspendForEver(a, p) ==                                                 \* mutant
    Outcome("InProgress", [a EXCEPT !.trigger = "active"])

\* A snapshot newer than the pod is durable already; else one trigger per pod
\* is fired, retried once spent, and given up on when there is nothing left
\* to checkpoint or it takes too long.
GkeSuspend(a, p) ==
    CASE a.snapshot = "fresh" -> Outcome("Ready", a)
      [] a.snapshot # "fresh" /\ a.trigger = "none" ->
            IF PodRunning(p) THEN Outcome("InProgress", [a EXCEPT !.trigger = "active"])
                             ELSE Outcome("Ready", a)
      [] a.snapshot = "unlabelled" /\ a.trigger # "none" ->
            Outcome("Ready", [a EXCEPT !.snapshot = "fresh"])
      [] a.snapshot \in {"none", "old"} /\ a.trigger = "failed" ->
            IF PodRunning(p) THEN Outcome("InProgress", [a EXCEPT !.trigger = "none"])
                             ELSE Outcome("Ready", a)
      [] a.snapshot \in {"none", "old"} /\ a.trigger = "stuck" -> Outcome("Ready", a)
      [] OTHER -> Outcome("InProgress", a)

\* The volume is durable as it is and only stamped; stamping one that does
\* not exist is an error.
FilesystemSuspend(a) ==
    CASE a.volume = "none"        -> Outcome("Error", a)
      [] a.volume = "terminating" -> Outcome("Ready", a)
      [] OTHER                    -> Outcome("Ready", [a EXCEPT !.volume = "stamped"])

OnSuspend(a, p) ==
    CASE Policy = "GkeSnapshot"        -> GkeSuspend(a, p)
      [] Policy = "FilesystemSnapshot" -> FilesystemSuspend(a)
      [] OTHER                         -> Outcome("Ready", a)

-----------------------------------------------------------------------------
(* on_terminate and gc.                                                    *)

DropTrigger(a) == [a EXCEPT !.trigger = "none"]

DropSnapshot(a) == [a EXCEPT !.snapshot = IF @ = "unlabelled" THEN @ ELSE "none"]

\* What on_terminate leaves: nothing, except a snapshot nobody labelled.
OnTerminate(a, mounted) ==
    CASE Policy = "GkeSnapshot"        -> DropSnapshot(DropTrigger(a))
      [] Policy = "FilesystemSnapshot" -> DropVolume(a, mounted)
      [] OTHER                         -> a

\* One that fails half way has deleted the triggers and no snapshot.
HalfOnTerminate(a) == IF Policy = "GkeSnapshot" THEN DropTrigger(a) ELSE a

NeverPastTtl(a) == FALSE                                                   \* mutant

\* Volumes suspended for longer than the TTL.
PastTtl(a) == Policy = "FilesystemSnapshot" /\ a.volume = "expired"

\* A new pod has its own trigger name, and all snapshots predate it.
UnderNewPod(a) ==
    [a EXCEPT !.trigger = "none",
              !.snapshot = IF @ = "fresh" THEN "old" ELSE IF @ = "old" THEN @ ELSE "none"]

\* A pod that goes takes the claim on a terminating volume with it.
WithoutPod(a) == [a EXCEPT !.volume = IF @ = "terminating" THEN "none" ELSE @]

=============================================================================
