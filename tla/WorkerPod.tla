----------------------------- MODULE WorkerPod -----------------------------
(***************************************************************************)
(* What runs inside the pod build_worker_pod describes (controller/pod.rs): *)
(* its init containers in order, the worker, and beside it the push sidecar  *)
(* of an image build (image_push.rs).  Two things outlive a container: the   *)
(* layer directory, which goes with the pod, and the home volume, which the  *)
(* next pod of the session mounts again.  Containers die at any step and     *)
(* are restarted by the kubelet; registry calls fail.                        *)
(***************************************************************************)
EXTENDS Naturals, Sequences

CONSTANTS
  MaxLayers,  \* bound on the layers captured
  MaxFaults   \* bound on deaths and failed calls

ASSUME BoundAssumption == MaxLayers \in Nat /\ MaxFaults \in Nat

VARIABLES
  config,     \* what the session and its pool ask for
  up,         \* there is a pod
  pods,       \* pods before this one
  stage,      \* how many init containers are through or, a sidecar, started
  worker,     \* the worker container runs
  inventory,  \* directory: the base image's paths are listed
  layer,      \* directory: the layer waiting to be pushed, 0 for none
  tmp,        \* directory: the result being written
  result,     \* directory: the result
  captured,   \* layers captured so far; the last one's number
  mine,       \* history: the last layer captured in this pod, or 0
  pc,         \* the sidecar
  digested,   \* the layer its push has digested
  response,   \* what it will answer
  blobs,      \* registry: blobs of the target repository
  manifests,  \* registry: images of the target repository, by layer
  home,       \* volume: "empty", "partial", "seeded", "used" by a worker
  marker,     \* volume: the marker of a finished copy
  seeding,    \* where the seeding script is
  faults

directory == <<inventory, layer, tmp, result, mine>>
sidecar   == <<pc, digested, response>>
registry  == <<blobs, manifests>>
volume    == <<home, marker, seeding>>
kubelet   == <<up, pods, stage, worker>>
vars      == <<config, kubelet, directory, sidecar, registry, volume, captured, faults>>

NoResult == [kind |-> "none", of |-> 0]
Image(n) == [kind |-> "image", of |-> n]
Error(n) == [kind |-> "error", of |-> n]

Configs == [build    : BOOLEAN,   \* spec.image_build
            seed     : BOOLEAN,   \* an empty volume under an image of the session's own
            sameRepo : BOOLEAN,   \* base image and target share a repository
            strict   : BOOLEAN,   \* the registry refuses a manifest without its blobs
            valid    : BOOLEAN]   \* from_env accepts the sidecar's settings

Init ==
  /\ config \in Configs
  /\ up = TRUE /\ pods = 0 /\ stage = 0 /\ worker = FALSE
  /\ inventory = FALSE /\ layer = 0 /\ tmp = NoResult /\ result = NoResult /\ mine = 0
  /\ captured = 0
  /\ pc = "off" /\ digested = 0 /\ response = NoResult
  /\ blobs = (IF config.sameRepo THEN {<<"base", 0>>} ELSE {}) /\ manifests = {}
  /\ home = "empty" /\ marker = FALSE /\ seeding = "off"
  /\ faults = 0

-----------------------------------------------------------------------------
\* The pod and its containers.

\* mutant: only the pod the volume was created for seeds it.
SeedsFirstPod == config.seed /\ pods = 0

\* The volume says whether it started empty, not the pod it was created for.
Seeds == config.seed

InitContainers ==
  (IF config.build THEN <<"base-image-paths", "push-layer">> ELSE <<>>)
    \o (IF Seeds THEN <<"seed-home">> ELSE <<>>)

Due(c) == up /\ stage < Len(InitContainers) /\ InitContainers[stage + 1] = c

\* The inventory is renamed into place.
ListPaths ==
  /\ Due("base-image-paths")
  /\ inventory' = TRUE
  /\ stage' = stage + 1
  /\ UNCHANGED <<config, up, pods, worker, layer, tmp, result, mine, sidecar, registry, volume,
                 captured, faults>>

\* A native sidecar only has to be started for the next container to run.
StartSidecar ==
  /\ Due("push-layer")
  /\ pc' = "start"
  /\ stage' = stage + 1
  /\ UNCHANGED <<config, up, pods, worker, directory, digested, response, registry, volume,
                 captured, faults>>

\* mutant: the marker is not looked at.
CopyAnyway == "copy"

AfterCheck == IF marker THEN "done" ELSE "copy"

SeedStep ==
  /\ Due("seed-home")
  /\ \/ seeding = "off"  /\ seeding' = AfterCheck /\ UNCHANGED <<home, marker, stage>>
     \/ /\ seeding = "copy"    /\ home' = "partial" /\ seeding' = "copying"
        /\ UNCHANGED <<marker, stage>>
     \/ /\ seeding = "copying" /\ home' = "seeded" /\ seeding' = "mark"
        /\ UNCHANGED <<marker, stage>>
     \/ seeding = "mark" /\ marker' = TRUE /\ seeding' = "done" /\ UNCHANGED <<home, stage>>
     \/ seeding = "done" /\ stage' = stage + 1 /\ seeding' = "off" /\ UNCHANGED <<home, marker>>
  /\ UNCHANGED <<config, up, pods, worker, directory, sidecar, registry, captured, faults>>

StartWorker ==
  /\ up /\ ~worker /\ stage = Len(InitContainers)
  /\ worker' = TRUE
  /\ UNCHANGED <<config, up, pods, stage, directory, sidecar, registry, volume, captured, faults>>

\* The session changes its home.
UseHome ==
  /\ worker
  /\ home' = "used"
  /\ UNCHANGED <<config, kubelet, directory, sidecar, registry, marker, seeding, captured, faults>>

\* The capture renames a layer into place.  It is taken to wait until the last one
\* is removed, not only until its result is there: it is code outside the repository.
Capture ==
  /\ worker /\ config.build
  /\ layer = 0 /\ captured < MaxLayers
  /\ captured' = captured + 1
  /\ layer' = captured'
  /\ mine' = captured'
  /\ UNCHANGED <<config, kubelet, inventory, tmp, result, sidecar, registry, volume, faults>>

-----------------------------------------------------------------------------
\* The sidecar: main and push.

At(step) == up /\ pc = step

SidecarOnly == UNCHANGED <<config, kubelet, inventory, mine, volume, captured, faults>>

\* With settings it does not accept it exits, and is started again.
SidecarReady ==
  /\ At("start") /\ config.valid
  /\ pc' = "poll"
  /\ SidecarOnly /\ UNCHANGED <<layer, tmp, result, digested, response, registry>>

DigestLayer ==
  /\ At("poll") /\ layer # 0
  /\ digested' = layer
  /\ pc' = "mount"
  /\ SidecarOnly /\ UNCHANGED <<layer, tmp, result, response, registry>>

\* mutant: a blob whose mount is declined is left out.
MountedOnly(accepted) == IF accepted THEN {<<"base", 0>>} ELSE {}

\* The base's blobs are mounted; a declined mount is made up for by a copy.
Mounted(accepted) == {<<"base", 0>>}

MountBlobs ==
  /\ At("mount")
  /\ \E accepted \in BOOLEAN :
        blobs' = blobs \union (IF config.sameRepo THEN {} ELSE Mounted(accepted))
  /\ pc' = "config"
  /\ SidecarOnly /\ UNCHANGED <<layer, tmp, result, digested, response, manifests>>

PushConfig ==
  /\ At("config")
  /\ blobs' = blobs \union {<<"config", digested>>}
  /\ pc' = "layer"
  /\ SidecarOnly /\ UNCHANGED <<layer, tmp, result, digested, response, manifests>>

\* The layer is read a second time; the registry checks it against its digest.
PushLayer ==
  /\ At("layer")
  /\ layer = digested
  /\ blobs' = blobs \union {<<"layer", digested>>}
  /\ pc' = "manifest"
  /\ SidecarOnly /\ UNCHANGED <<layer, tmp, result, digested, response, manifests>>

Blobs(n) == {<<"base", 0>>, <<"config", n>>, <<"layer", n>>}

\* The manifest comes last.
PushManifest ==
  /\ At("manifest")
  /\ config.strict => Blobs(digested) \subseteq blobs
  /\ manifests' = manifests \union {digested}
  /\ pc' = "check"
  /\ SidecarOnly /\ UNCHANGED <<layer, tmp, result, digested, response, blobs>>

\* It has to be served under its digest.
FetchManifest ==
  /\ At("check")
  /\ digested \in manifests
  /\ response' = Image(digested)
  /\ pc' = "write"
  /\ SidecarOnly /\ UNCHANGED <<layer, tmp, result, digested, registry>>

\* A step of push that fails is the answer.
PushFails ==
  /\ up /\ layer # 0 /\ pc \in {"poll", "mount", "config", "layer", "manifest", "check"}
  /\ faults < MaxFaults
  /\ faults' = faults + 1
  /\ response' = Error(layer)
  /\ pc' = "write"
  /\ UNCHANGED <<config, kubelet, directory, digested, registry, volume, captured>>

WriteResult ==
  /\ At("write")
  /\ tmp' = response
  /\ pc' = "rename"
  /\ SidecarOnly /\ UNCHANGED <<layer, result, digested, response, registry>>

\* mutant: the layer is taken away before its answer is in place.
RenameRemovingFirst ==
  \/ /\ At("rename") /\ layer # 0
     /\ layer' = 0 /\ result' = result /\ pc' = "rename"
  \/ /\ At("rename") /\ layer = 0
     /\ layer' = layer /\ result' = tmp /\ pc' = "poll"

\* mutant: the layer is left where it is.
RenameOnly ==
  /\ At("rename")
  /\ result' = tmp /\ pc' = "poll" /\ layer' = layer

RenameThenRemove ==
  \/ /\ At("rename")
     /\ result' = tmp /\ pc' = "remove" /\ layer' = layer
  \/ /\ At("remove")
     /\ layer' = 0 /\ pc' = "poll" /\ result' = result

\* The answer is renamed into place, then the layer is removed.
Answer ==
  /\ RenameThenRemove
  /\ SidecarOnly /\ UNCHANGED <<tmp, digested, response, registry>>

\* A layer that cannot be removed is pushed again.
RemoveFails ==
  /\ At("remove")
  /\ faults < MaxFaults
  /\ faults' = faults + 1
  /\ pc' = "poll"
  /\ UNCHANGED <<config, kubelet, directory, digested, response, registry, volume, captured>>

-----------------------------------------------------------------------------
\* What may go wrong: a container dies and is restarted; the pod's sandbox goes
\* and all containers run again; the pod goes and the operator makes another.

Deaths == faults < MaxFaults /\ faults' = faults + 1

SidecarDies ==
  /\ up /\ pc # "off"
  /\ Deaths
  /\ pc' = "start" /\ digested' = 0 /\ response' = NoResult
  /\ UNCHANGED <<config, kubelet, directory, registry, volume, captured>>

SeedingDies ==
  /\ seeding # "off"
  /\ Deaths
  /\ seeding' = "off"
  /\ UNCHANGED <<config, kubelet, directory, sidecar, registry, home, marker, captured>>

WorkerDies ==
  /\ worker
  /\ Deaths
  /\ worker' = FALSE
  /\ UNCHANGED <<config, up, pods, stage, directory, sidecar, registry, volume, captured>>

ContainersStop == /\ stage' = 0 /\ worker' = FALSE
                  /\ pc' = "off" /\ digested' = 0 /\ response' = NoResult
                  /\ seeding' = "off"

SandboxLost ==
  /\ up
  /\ Deaths
  /\ ContainersStop
  /\ UNCHANGED <<config, up, pods, directory, registry, home, marker, captured>>

\* mutant: the directory is on a volume of the session.
DirectoryStays == mine' = 0 /\ UNCHANGED <<inventory, layer, tmp, result>>

\* The directory is an emptyDir.
DirectoryGoes ==
  inventory' = FALSE /\ layer' = 0 /\ tmp' = NoResult /\ result' = NoResult /\ mine' = 0

PodLost ==
  /\ up
  /\ Deaths
  /\ ContainersStop
  /\ up' = FALSE
  /\ DirectoryGoes
  /\ UNCHANGED <<config, pods, registry, home, marker, captured>>

\* build_worker_pod for the next pod; the volume is the session's.
NewPod ==
  /\ ~up
  /\ up' = TRUE
  /\ pods' = pods + 1
  /\ UNCHANGED <<config, stage, worker, directory, sidecar, registry, volume, captured, faults>>

StartUp     == ListPaths \/ StartSidecar \/ SeedStep \/ StartWorker
SidecarStep == \/ SidecarReady \/ DigestLayer \/ MountBlobs \/ PushConfig \/ PushLayer
               \/ PushManifest \/ FetchManifest \/ WriteResult \/ Answer

Next ==
  \/ StartUp \/ NewPod
  \/ UseHome \/ Capture
  \/ SidecarStep
  \/ PushFails \/ RemoveFails
  \/ SidecarDies \/ SeedingDies \/ WorkerDies \/ SandboxLost \/ PodLost

Spec == Init /\ [][Next]_vars

Fairness == WF_vars(StartUp) /\ WF_vars(NewPod) /\ WF_vars(SidecarStep)

FairSpec == Spec /\ Fairness

-----------------------------------------------------------------------------
\* Every variable has its range; a layer waiting is the last one of this pod.
TypeOK ==
  /\ config \in Configs
  /\ up \in BOOLEAN /\ pods \in 0..MaxFaults /\ worker \in BOOLEAN
  /\ stage \in 0..Len(InitContainers)
  /\ inventory \in BOOLEAN /\ layer \in {0, mine}
  /\ {tmp.kind, result.kind, response.kind} \subseteq {"none", "image", "error"}
  /\ captured \in 0..MaxLayers /\ mine \in 0..captured /\ digested \in 0..captured
  /\ pc \in {"off", "start", "poll", "mount", "config", "layer", "manifest", "check",
             "write", "rename", "remove"}
  /\ manifests \subseteq 1..captured
  /\ home \in {"empty", "partial", "seeded", "used"} /\ marker \in BOOLEAN
  /\ seeding \in {"off", "copy", "copying", "mark", "done"}
  /\ faults \in 0..MaxFaults

\* The capture gets an answer to what it wrote (image_push.rs:22-26): when its
\* layer is gone, the result in the directory is that layer's, whatever died.
LayerGoneIsAnswered == mine # 0 /\ layer = 0 => result.of = mine

\* An image that has been named is whole (image_push.rs:345-375): no manifest is
\* pushed ahead of a blob, no interrupted push leaves one behind, and a result
\* naming an image names one the registry holds.
ImagesAreWhole ==
  /\ \A n \in manifests : Blobs(n) \subseteq blobs
  /\ result.kind = "image" => result.of \in manifests

\* "Must not overwrite a home the session has already changed" (pod.rs:125-127),
\* over any number of restarts, sandboxes and pods on the same volume.
HomeKept == [][home = "used" => home' = "used"]_vars

\* No worker runs ahead of its preparations (pod.rs:682-719): its home is copied
\* whole, and an image build has the base image's paths beside a sidecar.
WorkerIsPrepared ==
  worker => /\ config.seed => home \in {"seeded", "used"}
            /\ config.build => inventory /\ pc # "off"

\* Every layer is answered in the end (image_push.rs:127-148), unless the pod
\* goes first or the sidecar's settings are not accepted.
LayerAnswered == (layer # 0 /\ config.valid) ~> layer = 0
=============================================================================
