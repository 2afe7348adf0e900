--------------------------- MODULE PoolReconciler ---------------------------
(***************************************************************************)
(* The reconcile loop of one pool (controller/reconcile.rs) against the    *)
(* session queue and the cluster it drives.                                *)
(*                                                                         *)
(* A pass lists the queue, lists the pods, collects garbage, plans,        *)
(* executes the plan, recycles cold-started pods and cleans up secrets.    *)
(* Every API call is a step of its own, so the queue, the kubelet and a    *)
(* crash of the operator interleave with a pass at any await point.  An    *)
(* action of the plan is run as the sequence of API calls its handler      *)
(* makes; a call that fails abandons the rest of its action only.          *)
(***************************************************************************)
EXTENDS SnapshotProvider, Sequences

CONSTANTS
    MaxFaults,      \* bound on failed calls, failed checkpoints and crashes
    Disturbances    \* the outside events an instance includes

ASSUME MaxFaultsAssumption == MaxFaults \in Nat
ASSUME DisturbancesAssumption ==
    Disturbances \subseteq {"rival", "vanish", "age", "kill", "evict", "rollout",
                            "badsnap", "badcall", "crash"}

VARIABLES
    row,        \* the queue, per session
    pod,        \* the session's worker pod, found by its deterministic name
    secret,     \* the session's token secret and its restore-retried marker
    art,        \* the resume policy's artifacts of the session
    pc,         \* where the pass is
    listed,     \* `sessions`: the queue as this pass listed it, until planned
    known,      \* the session ids of that listing
    seen,       \* `pods_by_session` and `orphan_pods`: the pods as listed
    plan,       \* actions still to execute
    left,       \* sessions the current loop (recycle or cleanup) has left
    cur,        \* the session of the running action
    calls,      \* API calls the running action has left
    pin,        \* start_worker's prepared.pod_annotations: a pin or nothing
    faults

vars == <<row, pod, secret, art, pc, listed, known, seen, plan, left, cur, calls, pin, faults>>

CallNames == {"claim", "prepare", "applySecret", "createPod", "onSuspend",
              "release", "deletePod", "deletePodForget", "deleteSecret",
              "deleteSecretForget", "onTerminate", "report",
              "recycleDropPin", "recycleKeepPin"}

\* The token secret; a recycle marks it with the flavour of the retry.
Secrets == {"absent", "plain", "withPin", "withoutPin"}

Phases == {"idle", "pods", "gc", "execute", "recycle", "cleanup"}

TypeOK ==
    /\ row \in [Sessions -> Rows]
    /\ pod \in [Sessions -> Pods]
    /\ secret \in [Sessions -> Secrets]
    /\ art \in [Sessions -> Artifacts]
    /\ pc \in Phases
    /\ listed \in [Sessions -> Rows]
    /\ known \in SUBSET Sessions
    /\ seen \in [Sessions -> Pods]
    /\ plan \in [Sessions -> SUBSET Actions]
    /\ left \in SUBSET Sessions
    /\ cur \in Sessions
    /\ calls \in Seq(CallNames)
    /\ pin \in BOOLEAN
    /\ faults \in 0..MaxFaults

Init ==
    /\ row = [s \in Sessions |-> GoneRow]
    /\ pod = [s \in Sessions |-> NoPod]
    /\ secret = [s \in Sessions |-> "absent"]
    /\ art = [s \in Sessions |-> NoArtifacts]
    /\ pc = "idle"
    /\ listed = [s \in Sessions |-> GoneRow]
    /\ known = {}
    /\ seen = [s \in Sessions |-> NoPod]
    /\ plan = [s \in Sessions |-> {}]
    /\ left = {}
    /\ cur \in Sessions
    /\ calls = <<>>
    /\ pin = FALSE
    /\ faults = 0

\* One more fault of a kind the instance includes.
Fault(kind) ==
    /\ kind \in Disturbances
    /\ faults < MaxFaults
    /\ faults' = faults + 1

-----------------------------------------------------------------------------
(* The pass.                                                               *)

\* list_all; the server expires stale claims before it answers.
ListSessions ==
    /\ pc = "idle"
    /\ row' = [s \in Sessions |-> ExpireStale(row[s])]
    /\ listed' = row'
    /\ known' = {s \in Sessions : row[s].live}
    /\ pc' = "pods"
    /\ UNCHANGED <<pod, secret, art, seen, plan, left, cur, calls, pin, faults>>

ListPods ==
    /\ pc = "pods"
    /\ seen' = pod
    /\ pc' = "gc"
    /\ UNCHANGED <<row, pod, secret, art, listed, known, plan, left, cur, calls, pin, faults>>

\* What the rest of the pass reads of a listed pod: whether it runs, its pin.
Planned(p) == [p EXCEPT !.image = "current", !.deleting = FALSE,
                        !.health = IF PodRunning(p) THEN "running" ELSE "starting"]

\* provider.gc, whose failure half way is only logged, then the plan.
GcAndPlan ==
    /\ pc = "gc"
    /\ \E dropped \in SUBSET {s \in Sessions : PastTtl(art[s])} :
        /\ \/ dropped = {s \in Sessions : PastTtl(art[s])} /\ UNCHANGED faults
           \/ dropped # {s \in Sessions : PastTtl(art[s])} /\ Fault("badcall")
        /\ art' = [s \in Sessions |-> IF s \in dropped
                                      THEN DropVolume(art[s], pod[s].here)
                                      ELSE art[s]]
    \* created_at is not kept: any order of creation, ties included
    /\ \E created \in [Sessions -> {0, 1}] : plan' = Plan(listed, seen, created)
    /\ listed' = [s \in Sessions |-> GoneRow]
    /\ seen' = [s \in Sessions |-> Planned(seen[s])]
    /\ pc' = "execute"
    /\ UNCHANGED <<row, pod, secret, known, left, cur, calls, pin>>

\* The calls each handler makes, in order.  Every teardown deletes the pod,
\* then the secret, then the entry of pods_by_session.
Teardown == <<"deletePod", "deleteSecretForget">>

StartWorkerPodFirst == <<"claim", "prepare", "createPod", "applySecret">>   \* mutant

StartWorkerCalls == <<"claim", "prepare", "applySecret", "createPod">>

SuspendReleasingFirst(p) == <<"release", "deletePod", "deleteSecretForget">>   \* mutant

SuspendKeepingClaim(p) == Teardown                                         \* mutant

\* A pod to checkpoint is checkpointed first; the claim goes last.
SuspendCalls(p) ==
    IF p.here THEN <<"onSuspend", "deletePod", "deleteSecretForget", "release">>
              ELSE <<"deletePod", "deleteSecretForget", "release">>

TerminateCalls == <<"release", "deletePod", "deleteSecretForget", "onTerminate">>

GiveUpCalls == <<"recycleDropPin", "release", "deletePod", "deleteSecretForget">>

StartupFailedUnacked == Teardown                                           \* mutant

StartupFailedCalls == <<"report">>

\* After the report is acknowledged.
ReportedCalls == <<"deletePodForget", "onTerminate", "deleteSecret">>

\* delete_session_artifacts: the secret is the retry handle, and goes last.
DeleteArtifacts == <<"onTerminate", "deleteSecret">>

Program(act, p) ==
    CASE act \in {"Claim", "StartWorker"} -> StartWorkerCalls
      [] act = "Renew"             -> <<"claim">>
      [] act = "Suspend"           -> SuspendCalls(p)
      [] act = "Terminate"         -> TerminateCalls
      [] act = "GiveUp"            -> GiveUpCalls
      [] act = "StartupFailed"     -> StartupFailedCalls
      [] act = "ReplaceDriftedPod" -> <<"deletePodForget">>
      [] act \in {"ReplaceSucceededPod", "DeleteOrphanPod"} -> <<"deletePod">>

\* Take the next action of the plan, stage by stage.
BeginAction(s) ==
    /\ pc = "execute" /\ calls = <<>>
    /\ plan[s] # {}
    /\ \A t \in Sessions :
          plan[t] # {} => Stage(s \in known, plan[s]) =< Stage(t \in known, plan[t])
    /\ \E act \in plan[s] :
        /\ "Renew" \in plan[s] => act = "Renew"
        /\ plan' = [plan EXCEPT ![s] = @ \ {act}]
        /\ calls' = Program(act, seen[s])
    /\ cur' = s
    /\ UNCHANGED <<row, pod, secret, art, pc, listed, known, seen, left, pin, faults>>

\* The pods that run without the restore they were pinned for.
Unrestored == {s \in Sessions : /\ s \in known
                                /\ PodRunning(seen[s])
                                /\ ColdStarted(seen[s])}

BeginRecycling ==
    /\ pc = "execute" /\ calls = <<>>
    /\ \A s \in Sessions : plan[s] = {}
    /\ left' = Unrestored
    /\ pc' = "recycle"
    /\ UNCHANGED <<row, pod, secret, art, listed, known, seen, plan, cur, calls, pin, faults>>

BeginRecycle(s) ==
    /\ pc = "recycle" /\ calls = <<>>
    /\ s \in left
    /\ left' = left \ {s}
    /\ cur' = s
    /\ calls' = <<"recycleKeepPin">>
    /\ UNCHANGED <<row, pod, secret, art, pc, listed, known, seen, plan, pin, faults>>

\* List the pool's secrets; those of sessions the pass did not list are due.
BeginCleaning ==
    /\ pc = "recycle" /\ calls = <<>>
    /\ left = {}
    /\ left' = {s \in Sessions : secret[s] # "absent"} \ known
    /\ seen' = [s \in Sessions |-> NoPod]
    /\ pc' = "cleanup"
    /\ UNCHANGED <<row, pod, secret, art, listed, known, plan, cur, calls, pin, faults>>

BeginCleanup(s) ==
    /\ pc = "cleanup" /\ calls = <<>>
    /\ s \in left
    /\ left' = left \ {s}
    /\ cur' = s
    /\ calls' = DeleteArtifacts
    /\ UNCHANGED <<row, pod, secret, art, pc, listed, known, seen, plan, pin, faults>>

\* All a pass knows is gone when it ends.
Forget ==
    /\ pc' = "idle"
    /\ listed' = [s \in Sessions |-> GoneRow]
    /\ known' = {}
    /\ seen' = [s \in Sessions |-> NoPod]
    /\ plan' = [s \in Sessions |-> {}]
    /\ left' = {}
    /\ calls' = <<>>
    /\ pin' = FALSE
    /\ UNCHANGED cur

EndPass ==
    /\ pc = "cleanup" /\ calls = <<>>
    /\ left = {}
    /\ Forget
    /\ UNCHANGED <<row, pod, secret, art, faults>>

-----------------------------------------------------------------------------
(* The API calls.  Each either takes effect and is answered, or takes      *)
(* effect and its answer is lost; CallFails is the call that never         *)
(* reached its server.                                                     *)

Calling(c) == calls # <<>> /\ Head(calls) = c

\* The caller goes on with `rest` and `pods`, or saw an error.
Return(rest, pods) ==
    \/ calls' = rest /\ seen' = pods /\ UNCHANGED faults
    \/ calls' = <<>> /\ UNCHANGED seen /\ Fault("badcall")

KeepPass == UNCHANGED <<pc, listed, known, plan, left, cur>>

\* mutant: 404 and 409 are ignored, as they are after a release.
CallClaimAnyway ==
    /\ Calling("claim")
    /\ row' = [row EXCEPT ![cur] = IF CanClaim(@, Us) THEN Claimed(@, Us) ELSE @]
    /\ Return(Tail(calls), seen)
    /\ KeepPass /\ UNCHANGED <<pod, secret, art, pin>>

\* claim, also as a renewal: 404 and 409 end the action.
CallClaim ==
    /\ Calling("claim")
    /\ row' = [row EXCEPT ![cur] = IF CanClaim(@, Us) THEN Claimed(@, Us) ELSE @]
    /\ Return(IF CanClaim(row[cur], Us) THEN Tail(calls) ELSE <<>>, seen)
    /\ KeepPass /\ UNCHANGED <<pod, secret, art, pin>>

CallPrepare ==
    /\ Calling("prepare")
    /\ art' = [art EXCEPT ![cur] = Prepare(@)]
    /\ pin' = PinFor(art[cur])
    /\ Return(Tail(calls), seen)
    /\ KeepPass /\ UNCHANGED <<row, pod, secret>>

\* The annotations of the crashed pod: dropped under a "without-pin" marker.
PinAgain(p, mark) == p                                                     \* mutant

PinUnder(p, mark) == p /\ mark # "withoutPin"

\* Applying the secret keeps its marker.
CallApplySecret ==
    /\ Calling("applySecret")
    /\ pin' = PinUnder(pin, secret[cur])
    /\ secret' = [secret EXCEPT ![cur] = IF @ = "absent" THEN "plain" ELSE @]
    /\ Return(Tail(calls), seen)
    /\ KeepPass /\ UNCHANGED <<row, pod, art>>

NewPod == [NoPod EXCEPT !.here = TRUE, !.pin = IF pin THEN "pinned" ELSE "none"]

\* 409 is success: whatever pod has the name is taken for the worker.
CallCreatePod ==
    /\ Calling("createPod")
    /\ \/ /\ pod[cur].here
          /\ Return(Tail(calls), seen)
          /\ UNCHANGED <<pod, art>>
       \/ /\ ~pod[cur].here
          /\ pod' = [pod EXCEPT ![cur] = NewPod]
          /\ art' = [art EXCEPT ![cur] = UnderNewPod(@)]
          /\ Return(Tail(calls), [seen EXCEPT ![cur] = NewPod])
    /\ pin' = FALSE
    /\ KeepPass /\ UNCHANGED <<row, secret>>

\* InProgress ends the action and keeps the claim and the pod.
CallOnSuspend ==
    /\ Calling("onSuspend")
    /\ LET outcome == OnSuspend(art[cur], seen[cur]) IN
        /\ art' = [art EXCEPT ![cur] = outcome.art]
        /\ Return(IF outcome.result = "Ready" THEN Tail(calls) ELSE <<>>, seen)
    /\ KeepPass /\ UNCHANGED <<row, pod, secret, pin>>

CallRelease ==
    /\ Calling("release")
    /\ row' = [row EXCEPT ![cur] = Released(@, Us)]
    /\ Return(Tail(calls), seen)
    /\ KeepPass /\ UNCHANGED <<pod, secret, art, pin>>

\* Deletion is graceful: the pod stays listed until the kubelet is done.
CallDeletePod ==
    /\ Calling("deletePod") \/ Calling("deletePodForget")
    /\ pod' = [pod EXCEPT ![cur].deleting = pod[cur].here]
    /\ Return(Tail(calls),
              IF Calling("deletePodForget") THEN [seen EXCEPT ![cur] = NoPod] ELSE seen)
    /\ KeepPass /\ UNCHANGED <<row, secret, art, pin>>

CallDeleteSecret ==
    /\ Calling("deleteSecret") \/ Calling("deleteSecretForget")
    /\ secret' = [secret EXCEPT ![cur] = "absent"]
    /\ Return(Tail(calls),
              IF Calling("deleteSecretForget") THEN [seen EXCEPT ![cur] = NoPod] ELSE seen)
    /\ KeepPass /\ UNCHANGED <<row, pod, art, pin>>

CallOnTerminate ==
    /\ Calling("onTerminate")
    /\ art' = [art EXCEPT ![cur] = OnTerminate(@, pod[cur].here)]
    /\ Return(Tail(calls), seen)
    /\ KeepPass /\ UNCHANGED <<row, pod, secret, pin>>

\* An acknowledged report takes the attempt out of the queue for good; 409
\* makes the pod an orphan, 404 keeps everything for a later pass.
CallReport ==
    /\ Calling("report")
    /\ row' = [row EXCEPT ![cur] = IF ClaimedBy(@, Us) THEN Reported(@) ELSE @]
    /\ Return(CASE ClaimedBy(row[cur], Us) -> ReportedCalls
                [] row[cur].live /\ ~ClaimedBy(row[cur], Us) -> Teardown
                [] OTHER -> <<>>, seen)
    /\ KeepPass /\ UNCHANGED <<pod, secret, art, pin>>

\* recycle_unrestored_pod: at most once while the secret lives.  GiveUp takes
\* it in place of giving the session back.
CallRecycle ==
    /\ Calling("recycleKeepPin") \/ Calling("recycleDropPin")
    /\ LET asked == Calling("recycleKeepPin") \/ (seen[cur].here /\ ColdStarted(seen[cur]))
           marker == IF Calling("recycleKeepPin") THEN "withPin" ELSE "withoutPin"
       IN  IF asked /\ secret[cur] = "plain"
           THEN /\ secret' = [secret EXCEPT ![cur] = marker]
                /\ Return(<<"deletePodForget">>, seen)
           ELSE Return(Tail(calls), seen) /\ UNCHANGED secret
    /\ KeepPass /\ UNCHANGED <<row, pod, art, pin>>

\* The server was not reached: no effect, except the first half of
\* on_terminate's two deletions.
CallFails ==
    /\ calls # <<>>
    /\ Fault("badcall")
    /\ calls' = <<>>
    /\ art' = IF Head(calls) = "onTerminate"
              THEN [art EXCEPT ![cur] = HalfOnTerminate(@)] ELSE art
    /\ KeepPass /\ UNCHANGED <<row, pod, secret, seen, pin>>

\* The process dies, loses leadership, or a list call fails the pass.
Crash ==
    /\ pc # "idle"
    /\ Fault("crash")
    /\ Forget
    /\ UNCHANGED <<row, pod, secret, art>>

-----------------------------------------------------------------------------
(* The queue and the cluster around the operator.                          *)

PassUntouched == UNCHANGED <<pc, listed, known, seen, plan, left, cur, calls, pin>>

Outside == PassUntouched /\ UNCHANGED faults

\* A session starts, or a suspended one is resumed: a new row.  Terminated
\* sessions do not come back.
Enqueue(s) ==
    /\ ~row[s].live /\ row[s].status # "terminated"
    /\ row' = [row EXCEPT ![s] = FreshRow("pending")]
    /\ Outside /\ UNCHANGED <<pod, secret, art>>

SetSessionStatus(s) ==
    /\ row[s].live
    /\ \/ row[s].status = "pending" /\ row' = [row EXCEPT ![s].status = "running"]
       \/ /\ NeedsWorker(row[s])
          /\ \E st \in {"suspended", "terminated"} : row' = [row EXCEPT ![s].status = st]
       \/ row[s].status = "suspended" /\ row' = [row EXCEPT ![s].status = "terminated"]
    /\ Outside /\ UNCHANGED <<pod, secret, art>>

\* The sweeper removes the row of a session nobody holds and that is over or
\* suspended; a deleted session vanishes in any state.
Tombstone(s) ==
    /\ row[s].live
    /\ \/ row[s].phase = "pending" /\ ~NeedsWorker(row[s])
       \/ "vanish" \in Disturbances
    /\ row' = [row EXCEPT ![s] = Tombstoned(@)]
    /\ Outside /\ UNCHANGED <<pod, secret, art>>

\* Another acceptor of the pool claims or releases the session.
RivalActs(s) ==
    /\ "rival" \in Disturbances
    /\ \/ CanClaim(row[s], Rival) /\ row' = [row EXCEPT ![s] = Claimed(@, Rival)]
       \/ ClaimedBy(row[s], Rival) /\ row' = [row EXCEPT ![s] = Released(@, Rival)]
    /\ Outside /\ UNCHANGED <<pod, secret, art>>

ClaimAges(s) ==
    /\ "age" \in Disturbances
    /\ row[s].live /\ row[s].deadline \in {"far", "near"}
    /\ row' = [row EXCEPT ![s] = Aged(@)]
    /\ Outside /\ UNCHANGED <<pod, secret, art>>

\* How the kubelet moves a pod that is not being deleted.
HealthStep == {<<"starting", "running">>, <<"starting", "unstarted">>,
               <<"unstarted", "running">>, <<"running", "succeeded">>,
               <<"running", "looping">>, <<"looping", "running">>,
               <<"looping", "over">>}

\* A pod starts with the volume it mounts, or not at all.
Startable(s) == Policy = "FilesystemSnapshot" => art[s].volume # "none"

\* A pinned pod that starts may or may not have been restored.
KubeletReports(s) ==
    /\ pod[s].here /\ ~pod[s].deleting
    /\ Startable(s) \/ pod[s].health # "starting"
    /\ \E h \in Healths :
        /\ \/ <<pod[s].health, h>> \in HealthStep
           \/ "evict" \in Disturbances /\ pod[s].health \in RunningHealths /\ h = "failed"
        /\ \/ pod' = [pod EXCEPT ![s].health = h]
           \/ /\ h = "running" /\ pod[s].health = "starting" /\ pod[s].pin = "pinned"
              /\ pod' = [pod EXCEPT ![s].health = h, ![s].pin = "restored"]
    /\ Outside /\ UNCHANGED <<row, secret, art>>

\* Someone else deletes the pod: a node drain, preemption, an administrator.
PodKilled(s) ==
    /\ "kill" \in Disturbances
    /\ pod[s].here /\ ~pod[s].deleting
    /\ pod' = [pod EXCEPT ![s].deleting = TRUE]
    /\ Outside /\ UNCHANGED <<row, secret, art>>

PodGone(s) ==
    /\ pod[s].here /\ pod[s].deleting
    /\ pod' = [pod EXCEPT ![s] = NoPod]
    /\ art' = [art EXCEPT ![s] = WithoutPod(@)]
    /\ Outside /\ UNCHANGED <<row, secret>>

\* The pool's worker image changes under the pod.
ImageRollout(s) ==
    /\ "rollout" \in Disturbances
    /\ pod[s].here /\ pod[s].image = "current"
    /\ pod' = [pod EXCEPT ![s].image = "stale"]
    /\ Outside /\ UNCHANGED <<row, secret, art>>

\* The checkpoint needs the pod alive; once captured, it stops the worker
\* and replaces the group's previous snapshot.
CheckpointDone(s) ==
    /\ art[s].trigger \in {"active", "stuck"} /\ PodRunning(pod[s])
    /\ \E snap \in {"fresh", "unlabelled"} : art' = [art EXCEPT ![s].snapshot = snap]
    /\ pod' = [pod EXCEPT ![s].health = "succeeded"]
    /\ Outside /\ UNCHANGED <<row, secret>>

CheckpointFails(s) ==
    /\ Fault("badsnap")
    /\ art[s].trigger \in {"active", "stuck"}
    /\ art[s].snapshot \in {"none", "old"}
    /\ art' = [art EXCEPT ![s].trigger = "failed"]
    /\ PassUntouched /\ UNCHANGED <<row, pod, secret>>

\* Thirty minutes after the trigger, or the TTL after the stamp.
ArtifactAges(s) ==
    /\ \/ art[s].trigger = "active" /\ art' = [art EXCEPT ![s].trigger = "stuck"]
       \/ art[s].volume = "stamped" /\ art' = [art EXCEPT ![s].volume = "expired"]
    /\ Outside /\ UNCHANGED <<row, pod, secret>>

-----------------------------------------------------------------------------
PassStep ==
    \/ ListSessions \/ ListPods \/ GcAndPlan
    \/ \E s \in Sessions : BeginAction(s) \/ BeginRecycle(s) \/ BeginCleanup(s)
    \/ BeginRecycling \/ BeginCleaning \/ EndPass

CallStep ==
    \/ CallClaim \/ CallPrepare \/ CallApplySecret \/ CallCreatePod
    \/ CallOnSuspend \/ CallRelease \/ CallDeletePod \/ CallDeleteSecret
    \/ CallOnTerminate \/ CallReport \/ CallRecycle

QueueStep == \E s \in Sessions :
    \/ Enqueue(s) \/ SetSessionStatus(s) \/ Tombstone(s)
    \/ RivalActs(s) \/ ClaimAges(s)

ClusterStep == \E s \in Sessions :
    \/ KubeletReports(s) \/ PodKilled(s) \/ PodGone(s) \/ ImageRollout(s)
    \/ CheckpointDone(s) \/ CheckpointFails(s) \/ ArtifactAges(s)

Next == PassStep \/ CallStep \/ CallFails \/ Crash \/ QueueStep \/ ClusterStep

Spec == Init /\ [][Next]_vars

\* The controller requeues every pass, errors included, so passes go on for
\* ever; the kubelet finishes deletions, and time passes for a trigger.
Fairness ==
    /\ WF_vars(PassStep \/ CallStep)
    /\ \A s \in Sessions : WF_vars(PodGone(s)) /\ WF_vars(ArtifactAges(s))

FairSpec == Spec /\ Fairness

-----------------------------------------------------------------------------
(* Properties.                                                             *)

\* A call of the operator marks this pod for deletion in this step.
Deletes(s) == pod[s].here /\ ~pod[s].deleting /\ pod'[s].deleting /\ calls' # calls

\* One of our claims on a session that still needs its worker.
Serving(s) == Ours(row[s]) /\ NeedsWorker(row[s])

\* One of our claims on a session that is being suspended.
Suspending(s) == Ours(row[s]) /\ row[s].status = "suspended"

\* A worker that is gone, going, over its restart limit, or will not run again.
Spent(p) == p.here => p.deleting \/ p.health \in {"over", "failed", "succeeded"}

\* The claim goes last: a session that has not ended, suspended ones included,
\* returns to the queue only once its worker is stopped, stopping or given up
\* on, or because the claim lapsed; else another acceptor could serve it beside
\* a worker of ours, or run into the image that kept the worker from starting
\* (Action::Suspend, Action::GiveUp, Action::StartupFailed in execute).
ReleasesLast ==
    [][\A s \in Sessions :
          /\ Ours(row[s]) /\ row[s].status # "terminated"
          /\ row[s].deadline # "past"
          /\ row'[s].live /\ row'[s].phase = "pending"
          => Spent(pod[s])]_vars

\* A worker pod that serves one of our claims has its token secret, except
\* while start_worker is about to write it: teardown, cleanup of vanished
\* sessions and adoption of an existing pod (409) never strip it.
WorkerHasToken ==
    \A s \in Sessions :
        Serving(s) /\ pod[s].here /\ ~pod[s].deleting =>
            \/ secret[s] # "absent"
            \/ cur = s /\ (Calling("prepare") \/ Calling("applySecret"))

\* A pod that cannot start is kept until the server took the report: it is
\* never torn down while the session is still our claim to serve
\* (Action::StartupFailed in execute).
StartupFailureAcked ==
    [][\A s \in Sessions :
          Deletes(s) /\ pod[s].health = "unstarted" => ~Serving(s)]_vars

\* The pool never holds more sessions to serve than maxConcurrentSessions.
SlotsRespected == Cardinality({s \in Sessions : Serving(s)}) =< MaxConcurrent

\* A suspend that goes on to tear down a pod it saw running has the state in
\* a snapshot newer than that pod, or has given the checkpoint up; a snapshot
\* from an earlier cycle never satisfies it (GkeSnapshotProvider::on_suspend).
SuspendNeedsFreshSnapshot ==
    /\ Policy = "GkeSnapshot"
    /\ calls = <<"deletePod", "deleteSecretForget", "release">>
    /\ PodRunning(seen[cur])
    => art[cur].snapshot = "fresh" \/ art[cur].trigger \in {"stuck", "failed"}

\* The retry of a crashed restore starts without the pin that crashed it
\* (recycle_unrestored_pod with drop_pin, start_worker).
UnpinnedRetryStartsCold ==
    [][\A s \in Sessions :
          ~pod[s].here /\ pod'[s].here /\ secret[s] = "withoutPin" =>
              pod'[s].pin = "none"]_vars

\* A pod of a session that left the queue or is another acceptor's.
Stray(s) == pod[s].here /\ (~row[s].live \/ row[s].acceptor = Rival)

\* Pods of sessions that left the queue or went to another acceptor are
\* eventually gone, or the session is back.
OrphansReaped == \A s \in Sessions : Stray(s) ~> ~Stray(s)

\* A claim of ours on a live session gets its worker pod, whatever single
\* call failed or wherever the operator crashed.
ClaimsServed == \A s \in Sessions : Serving(s) ~> (pod[s].here \/ ~Serving(s))

\* A suspended session does not hold its claim and its pod for ever.
SuspendCompletes == \A s \in Sessions : Suspending(s) ~> ~Suspending(s)

\* A volume stamped by a suspend is collected after its TTL, or the session
\* comes back for it (FilesystemSnapshotProvider::gc).
Shelved(s) == art[s].volume \in {"stamped", "expired"} /\ ~row[s].live

ShelvedVolumesCollected == \A s \in Sessions : Shelved(s) ~> ~Shelved(s)

\* What Contract knows of a session, of its worker and of the pass.
ClaimOf(r) ==
    IF ~r.live THEN "gone"
    ELSE IF r.phase = "pending" THEN "queued"
    ELSE IF r.acceptor # Us THEN "elsewhere"
    ELSE IF NeedsWorker(r) THEN "serve"
    ELSE IF r.status = "suspended" THEN "suspended" ELSE "ended"

Overdue == {s \in Sessions : ClaimedBy(row[s], Us) /\ row[s].deadline = "past"}

WorkerOf(p) ==
    IF ~p.here THEN "none"
    ELSE IF Spent(p) THEN "spent"
    ELSE IF p.health \in {"starting", "unstarted"} THEN "waiting" ELSE "begun"

StageOf(c) ==
    CASE c = "claim"                            -> "claim"
      [] c \in {"prepare", "applySecret"}       -> "start"
      [] c = "createPod"                        -> "create"
      [] c \in {"deletePod", "deletePodForget"} -> "stop"
      [] c \in {"release", "report"}            -> c
      [] OTHER                                  -> "rest"

HandOn(c) == IF c = <<>> THEN "idle" ELSE StageOf(Head(c))

Promises == INSTANCE Contract WITH
    claim   <- [s \in Sessions |-> ClaimOf(row[s])],
    overdue <- Overdue,
    worker  <- [s \in Sessions |-> WorkerOf(pod[s])],
    who     <- cur,
    at      <- HandOn(calls)

\* Whatever fails, crashes or moves meanwhile, every step of the pass is one
\* that the outpost's contract allows: only a granted claim leads to a worker,
\* workers that wait to start are not stopped under a claim to serve, claims
\* go back last (apply, execute, start_worker).
KeepsContract == Promises!Spec

\* The pod of a suspended session is kept alive while its checkpoint is being
\* captured.
CheckpointNotInterrupted ==
    [][\A s \in Sessions :
          /\ Deletes(s) /\ Suspending(s)
          /\ art[s].trigger = "active" /\ PodRunning(pod[s])
          => art[s].snapshot \in {"fresh", "unlabelled"}]_vars

\* Artifacts are deleted once a session is terminated, so the snapshot of one
\* that is only suspended is kept for its resume.
SuspendedStateKept ==
    [][\A s \in Sessions :
          row[s].status = "suspended" /\ art[s].snapshot = "fresh" =>
              art'[s].snapshot # "none"]_vars

=============================================================================
