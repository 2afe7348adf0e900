--------------------------- MODULE WorkerPodProofs ---------------------------
(***************************************************************************)
(* What holds inside every worker pod, for any number of layers and of     *)
(* deaths, lost sandboxes, lost pods and failed registry calls.            *)
(***************************************************************************)
EXTENDS WorkerPod, SequenceTheorems, TLAPS

\* The shapes TypeOK leaves open.
Answers == [kind : {"none", "image", "error"}, of : Nat]

Shapes ==
  /\ TypeOK
  /\ tmp \in Answers /\ result \in Answers /\ response \in Answers

\* A pod is made only after one was lost.
PodInv ==
  /\ up => pods =< faults
  /\ ~up => /\ pods < faults
            /\ stage = 0 /\ ~worker /\ pc = "off" /\ seeding = "off" /\ mine = 0

\* What a step of the sidecar relies on: the layer it works on is there, and
\* what it wrote last is that layer's answer.
PushInv ==
  /\ pc \in {"mount", "config", "layer", "manifest", "check", "write", "rename", "remove"} => layer # 0
  /\ pc \in {"mount", "config", "layer", "manifest", "check"} => digested = layer
  /\ pc = "write" => response.of = layer
  /\ pc = "rename" => tmp.of = layer
  /\ pc = "remove" => result.of = layer
  /\ LayerGoneIsAnswered

\* Blobs are pushed in order, and an image is named once its manifest is there.
RegistryInv ==
  /\ config.sameRepo \/ pc \in {"config", "layer", "manifest", "check"} => <<"base", 0>> \in blobs
  /\ pc \in {"layer", "manifest", "check"} => <<"config", digested>> \in blobs
  /\ pc \in {"manifest", "check"} => <<"layer", digested>> \in blobs
  /\ ImagesAreWhole
  /\ response.kind = "image" => response.of \in manifests
  /\ tmp.kind = "image" => tmp.of \in manifests

\* How many containers come before the worker, and before the seeding.
Ahead == IF config.build THEN 2 ELSE 0
All   == Ahead + (IF config.seed THEN 1 ELSE 0)

\* The init containers went in order, and the marker is set on a whole home.
StageInv ==
  /\ worker => stage = All
  /\ config.build /\ stage >= 1 => inventory
  /\ config.build /\ stage >= 2 => pc # "off"
  /\ seeding # "off" => config.seed /\ stage = Ahead
  /\ seeding \in {"copy", "copying", "mark"} => ~marker
  /\ seeding = "mark" => home = "seeded"
  /\ seeding = "done" => marker
  /\ marker => home \in {"seeded", "used"}
  /\ config.seed => /\ stage = All => marker
                    /\ home = "used" => marker

IInv == Shapes /\ PodInv /\ PushInv /\ RegistryInv /\ StageInv

-----------------------------------------------------------------------------
\* The init containers, container by container.
LEMMA Containers ==
  ASSUME config \in Configs
  PROVE  /\ Len(InitContainers) = All
         /\ config.build => /\ InitContainers[1] = "base-image-paths"
                            /\ InitContainers[2] = "push-layer"
         /\ config.seed => InitContainers[Ahead + 1] = "seed-home"
<1> DEFINE names  == {"base-image-paths", "push-layer", "seed-home"}
           first  == IF config.build THEN <<"base-image-paths", "push-layer">> ELSE <<>>
           second == IF config.seed THEN <<"seed-home">> ELSE <<>>
           both   == first \o second
<1>1. /\ first \in Seq(names)
      /\ Len(first) = Ahead
      /\ config.build => first[1] = "base-image-paths" /\ first[2] = "push-layer"
  <2>1. CASE config.build
    BY <2>1 DEF Ahead
  <2>2. CASE ~config.build
    BY <2>2 DEF Ahead
  <2> QED
    BY <2>1, <2>2
<1>2. /\ second \in Seq(names)
      /\ Len(second) = IF config.seed THEN 1 ELSE 0
      /\ config.seed => second[1] = "seed-home"
  <2>1. CASE config.seed
    BY <2>1
  <2>2. CASE ~config.seed
    BY <2>2
  <2> QED
    BY <2>1, <2>2
<1>3. InitContainers = both
  BY DEF InitContainers, Seeds
<1>4. /\ Len(both) = Len(first) + Len(second)
      /\ \A i \in 1..Len(first) + Len(second) :
            both[i] = IF i =< Len(first) THEN first[i] ELSE second[i - Len(first)]
  BY <1>1, <1>2, ConcatProperties
<1> HIDE DEF names, first, second, both
<1>5. Len(first) \in Nat /\ Len(second) \in Nat
  BY <1>1, <1>2
<1>6. \A i \in 1..Len(first) : both[i] = first[i]
  BY <1>5, <1>4
<1>7. Len(second) >= 1 => both[Len(first) + 1] = second[1]
  <2> HAVE Len(second) >= 1
  <2>1. Len(first) + 1 \in 1..Len(first) + Len(second) /\ ~(Len(first) + 1 =< Len(first))
    BY <1>5
  <2>2. both[Len(first) + 1] = second[Len(first) + 1 - Len(first)]
    BY <1>4, <2>1
  <2> QED
    BY <1>5, <2>2
<1>8. config.build => /\ InitContainers[1] = "base-image-paths"
                      /\ InitContainers[2] = "push-layer"
  <2> HAVE config.build
  <2>1. Len(first) = 2 /\ first[1] = "base-image-paths" /\ first[2] = "push-layer"
    BY <1>1 DEF Ahead
  <2>2. both[1] = first[1] /\ both[2] = first[2]
    BY <1>6, <2>1
  <2> QED
    BY <1>3, <2>1, <2>2
<1>9. config.seed => InitContainers[Ahead + 1] = "seed-home"
  <2> HAVE config.seed
  <2>1. Len(second) = 1 /\ second[1] = "seed-home"
    BY <1>2
  <2>2. both[Ahead + 1] = second[1]
    BY <1>1, <1>7, <2>1
  <2> QED
    BY <1>3, <2>1, <2>2
<1> QED
  BY <1>1, <1>2, <1>3, <1>4, <1>8, <1>9 DEF All

\* When each of them is due.
LEMMA WhenDue ==
  ASSUME Shapes
  PROVE  /\ All \in Nat /\ stage \in 0..All /\ Len(InitContainers) = All
         /\ Due("base-image-paths") => config.build /\ stage = 0
         /\ Due("push-layer") => config.build /\ stage = 1
         /\ Due("seed-home") => config.seed /\ stage = Ahead /\ stage + 1 = All
         /\ \A c : Due(c) => up /\ stage + 1 \in 1..All
<1>1. config \in Configs /\ stage \in 0..Len(InitContainers)
  BY DEF Shapes, TypeOK
<1>2. /\ Len(InitContainers) = All
      /\ config.build => /\ InitContainers[1] = "base-image-paths"
                         /\ InitContainers[2] = "push-layer"
      /\ config.seed => InitContainers[Ahead + 1] = "seed-home"
  BY <1>1, Containers
<1>3. All \in Nat /\ Ahead \in Nat
  BY DEF All, Ahead
<1>4. CASE config.build
  BY <1>1, <1>2, <1>3, <1>4 DEF Due, All, Ahead
<1>5. CASE ~config.build
  BY <1>1, <1>2, <1>3, <1>5 DEF Due, All, Ahead
<1> QED
  BY <1>4, <1>5

-----------------------------------------------------------------------------
\* In the beginning there is one pod, and nothing has happened in it.
LEMMA InitIInv == Init => IInv
<1> SUFFICES ASSUME Init PROVE IInv
  OBVIOUS
<1> USE BoundAssumption DEF Init, NoResult
<1>1. config \in Configs /\ Len(InitContainers) = All /\ All \in Nat
  BY Containers DEF All, Ahead
<1>2. Shapes
  <2>1. /\ up \in BOOLEAN /\ worker \in BOOLEAN /\ inventory \in BOOLEAN
        /\ marker \in BOOLEAN
    BY Zenon
  <2> QED
    BY <1>1, <2>1 DEF Shapes, TypeOK, Answers
<1>3. PodInv
  BY DEF PodInv
<1>4. PushInv /\ RegistryInv
  BY DEF PushInv, RegistryInv, LayerGoneIsAnswered, ImagesAreWhole
<1>5. StageInv
  BY <1>1 DEF StageInv, All, Ahead
<1> QED
  BY <1>2, <1>3, <1>4, <1>5 DEF IInv

\* Every step keeps the types.
LEMMA NextShapes ==
  ASSUME Shapes, PodInv, PushInv, StageInv, [Next]_vars
  PROVE  Shapes'
<1> USE BoundAssumption, WhenDue DEF Shapes, TypeOK, PodInv, PushInv, Answers, kubelet, directory, sidecar, registry, volume
<1>0. config' \in Configs /\ Len(InitContainers') = All /\ All \in Nat /\ config' = config
  <2>1. config' = config
    BY DEF Next, vars, StartUp, SidecarStep, ListPaths, StartSidecar, SeedStep, StartWorker,
           NewPod, UseHome, Capture, SidecarReady, DigestLayer, MountBlobs, PushConfig, PushLayer,
           PushManifest, FetchManifest, WriteResult, Answer, SidecarOnly, PushFails, RemoveFails, SidecarDies,
           SeedingDies, WorkerDies, SandboxLost, PodLost
  <2>2. InitContainers' = InitContainers
    BY <2>1 DEF InitContainers, Seeds
  <2> QED
    BY <2>1, <2>2, WhenDue
<1>1. ASSUME ListPaths PROVE Shapes'
  BY <1>0, <1>1 DEF ListPaths
<1>2. ASSUME StartSidecar PROVE Shapes'
  BY <1>0, <1>2 DEF StartSidecar
<1>3. ASSUME SeedStep PROVE Shapes'
  <2>1. marker' \in BOOLEAN
    BY <1>3, Zenon DEF SeedStep
  <2> QED
    BY <1>0, <1>3, <2>1 DEF SeedStep, AfterCheck
<1>4. ASSUME StartWorker PROVE Shapes'
  BY <1>0, <1>4 DEF StartWorker
<1>5. ASSUME NewPod PROVE Shapes'
  BY <1>0, <1>5 DEF NewPod
<1>6. ASSUME UseHome PROVE Shapes'
  BY <1>0, <1>6 DEF UseHome
<1>7. ASSUME Capture PROVE Shapes'
  BY <1>0, <1>7 DEF Capture
<1>8. ASSUME SidecarReady PROVE Shapes'
  BY <1>0, <1>8 DEF SidecarReady, At, SidecarOnly
<1>9. ASSUME DigestLayer PROVE Shapes'
  BY <1>0, <1>9 DEF DigestLayer, At, SidecarOnly
<1>10. ASSUME MountBlobs PROVE Shapes'
  BY <1>0, <1>10 DEF MountBlobs, Mounted, At, SidecarOnly
<1>11. ASSUME PushConfig PROVE Shapes'
  BY <1>0, <1>11 DEF PushConfig, At, SidecarOnly
<1>12. ASSUME PushLayer PROVE Shapes'
  BY <1>0, <1>12 DEF PushLayer, At, SidecarOnly
<1>13. ASSUME PushManifest PROVE Shapes'
  BY <1>0, <1>13 DEF PushManifest, At, SidecarOnly
<1>f. ASSUME FetchManifest PROVE Shapes'
  BY <1>0, <1>f DEF FetchManifest, Image, At, SidecarOnly
<1>14. ASSUME WriteResult PROVE Shapes'
  BY <1>0, <1>14 DEF WriteResult, At, SidecarOnly
<1>15. ASSUME Answer PROVE Shapes'
  BY <1>0, <1>15 DEF Answer, RenameThenRemove, At, SidecarOnly
<1>16. ASSUME PushFails PROVE Shapes'
  BY <1>0, <1>16 DEF PushFails, Error
<1>17. ASSUME RemoveFails PROVE Shapes'
  BY <1>0, <1>17 DEF RemoveFails, At
<1>18. ASSUME SidecarDies PROVE Shapes'
  BY <1>0, <1>18 DEF SidecarDies, Deaths, NoResult
<1>19. ASSUME SeedingDies PROVE Shapes'
  BY <1>0, <1>19 DEF SeedingDies, Deaths
<1>20. ASSUME WorkerDies PROVE Shapes'
  <2>1. worker' \in BOOLEAN
    BY <1>20, Zenon DEF WorkerDies
  <2> QED
    BY <1>0, <1>20, <2>1 DEF WorkerDies, Deaths
<1>21. ASSUME SandboxLost PROVE Shapes'
  <2>1. worker' \in BOOLEAN
    BY <1>21, Zenon DEF SandboxLost, ContainersStop
  <2> QED
    BY <1>0, <1>21, <2>1 DEF SandboxLost, ContainersStop, Deaths, NoResult
<1>22. ASSUME PodLost PROVE Shapes'
  <2>1. worker' \in BOOLEAN /\ up' \in BOOLEAN /\ inventory' \in BOOLEAN
    BY <1>22, Zenon DEF PodLost, ContainersStop, DirectoryGoes
  <2> QED
    BY <1>0, <1>22, <2>1 DEF PodLost, ContainersStop, DirectoryGoes, Deaths, NoResult
<1>23. CASE UNCHANGED vars
  BY <1>0, <1>23 DEF vars
<1> QED
  BY <1>1, <1>2, <1>3, <1>4, <1>5, <1>6, <1>7, <1>8, <1>9, <1>10, <1>11, <1>12, <1>13, <1>f, <1>14, <1>15, <1>16, <1>17, <1>18, <1>19, <1>20, <1>21, <1>22, <1>23
    DEF Next, StartUp, SidecarStep

\* Every step keeps the count of pods; containers run in a pod only.
LEMMA NextPodInv ==
  ASSUME Shapes, PodInv, [Next]_vars
  PROVE  PodInv'
<1> USE BoundAssumption, WhenDue DEF Shapes, TypeOK, PodInv, kubelet, directory, sidecar, registry, volume
<1>1. ASSUME ListPaths PROVE PodInv'
  BY <1>1 DEF ListPaths
<1>2. ASSUME StartSidecar PROVE PodInv'
  BY <1>2 DEF StartSidecar
<1>3. ASSUME SeedStep PROVE PodInv'
  BY <1>3 DEF SeedStep, AfterCheck
<1>4. ASSUME StartWorker PROVE PodInv'
  BY <1>4 DEF StartWorker
<1>5. ASSUME NewPod PROVE PodInv'
  BY <1>5 DEF NewPod
<1>6. ASSUME UseHome PROVE PodInv'
  BY <1>6 DEF UseHome
<1>7. ASSUME Capture PROVE PodInv'
  BY <1>7 DEF Capture
<1>8. ASSUME SidecarReady PROVE PodInv'
  BY <1>8 DEF SidecarReady, At, SidecarOnly
<1>9. ASSUME DigestLayer PROVE PodInv'
  BY <1>9 DEF DigestLayer, At, SidecarOnly
<1>10. ASSUME MountBlobs PROVE PodInv'
  BY <1>10 DEF MountBlobs, Mounted, At, SidecarOnly
<1>11. ASSUME PushConfig PROVE PodInv'
  BY <1>11 DEF PushConfig, At, SidecarOnly
<1>12. ASSUME PushLayer PROVE PodInv'
  BY <1>12 DEF PushLayer, At, SidecarOnly
<1>13. ASSUME PushManifest PROVE PodInv'
  BY <1>13 DEF PushManifest, At, SidecarOnly
<1>f. ASSUME FetchManifest PROVE PodInv'
  BY <1>f DEF FetchManifest, Image, At, SidecarOnly
<1>14. ASSUME WriteResult PROVE PodInv'
  BY <1>14 DEF WriteResult, At, SidecarOnly
<1>15. ASSUME Answer PROVE PodInv'
  BY <1>15 DEF Answer, RenameThenRemove, At, SidecarOnly
<1>16. ASSUME PushFails PROVE PodInv'
  BY <1>16 DEF PushFails, Error
<1>17. ASSUME RemoveFails PROVE PodInv'
  BY <1>17 DEF RemoveFails, At
<1>18. ASSUME SidecarDies PROVE PodInv'
  BY <1>18 DEF SidecarDies, Deaths, NoResult
<1>19. ASSUME SeedingDies PROVE PodInv'
  BY <1>19 DEF SeedingDies, Deaths
<1>20. ASSUME WorkerDies PROVE PodInv'
  BY <1>20 DEF WorkerDies, Deaths
<1>21. ASSUME SandboxLost PROVE PodInv'
  BY <1>21 DEF SandboxLost, ContainersStop, Deaths, NoResult
<1>22. ASSUME PodLost PROVE PodInv'
  BY <1>22 DEF PodLost, ContainersStop, DirectoryGoes, Deaths, NoResult
<1>23. CASE UNCHANGED vars
  BY <1>23 DEF vars
<1> QED
  BY <1>1, <1>2, <1>3, <1>4, <1>5, <1>6, <1>7, <1>8, <1>9, <1>10, <1>11, <1>12, <1>13, <1>f, <1>14, <1>15, <1>16, <1>17, <1>18, <1>19, <1>20, <1>21, <1>22, <1>23
    DEF Next, StartUp, SidecarStep

\* Every step keeps the layer until it is answered.
LEMMA NextPushInv ==
  ASSUME Shapes, PodInv, PushInv, [Next]_vars
  PROVE  PushInv'
<1> USE BoundAssumption, WhenDue DEF Shapes, TypeOK, PodInv, PushInv, LayerGoneIsAnswered, Answers, kubelet, directory, sidecar, registry, volume
<1>1. ASSUME ListPaths PROVE PushInv'
  BY <1>1 DEF ListPaths
<1>2. ASSUME StartSidecar PROVE PushInv'
  BY <1>2 DEF StartSidecar
<1>3. ASSUME SeedStep PROVE PushInv'
  BY <1>3 DEF SeedStep, AfterCheck
<1>4. ASSUME StartWorker PROVE PushInv'
  BY <1>4 DEF StartWorker
<1>5. ASSUME NewPod PROVE PushInv'
  BY <1>5 DEF NewPod
<1>6. ASSUME UseHome PROVE PushInv'
  BY <1>6 DEF UseHome
<1>7. ASSUME Capture PROVE PushInv'
  BY <1>7 DEF Capture
<1>8. ASSUME SidecarReady PROVE PushInv'
  BY <1>8 DEF SidecarReady, At, SidecarOnly
<1>9. ASSUME DigestLayer PROVE PushInv'
  BY <1>9 DEF DigestLayer, At, SidecarOnly
<1>10. ASSUME MountBlobs PROVE PushInv'
  BY <1>10 DEF MountBlobs, Mounted, At, SidecarOnly
<1>11. ASSUME PushConfig PROVE PushInv'
  BY <1>11 DEF PushConfig, At, SidecarOnly
<1>12. ASSUME PushLayer PROVE PushInv'
  BY <1>12 DEF PushLayer, At, SidecarOnly
<1>13. ASSUME PushManifest PROVE PushInv'
  BY <1>13 DEF PushManifest, At, SidecarOnly
<1>f. ASSUME FetchManifest PROVE PushInv'
  BY <1>f DEF FetchManifest, Image, At, SidecarOnly
<1>14. ASSUME WriteResult PROVE PushInv'
  BY <1>14 DEF WriteResult, At, SidecarOnly
<1>15. ASSUME Answer PROVE PushInv'
  BY <1>15 DEF Answer, RenameThenRemove, At, SidecarOnly
<1>16. ASSUME PushFails PROVE PushInv'
  BY <1>16 DEF PushFails, Error
<1>17. ASSUME RemoveFails PROVE PushInv'
  BY <1>17 DEF RemoveFails, At
<1>18. ASSUME SidecarDies PROVE PushInv'
  BY <1>18 DEF SidecarDies, Deaths, NoResult
<1>19. ASSUME SeedingDies PROVE PushInv'
  BY <1>19 DEF SeedingDies, Deaths
<1>20. ASSUME WorkerDies PROVE PushInv'
  BY <1>20 DEF WorkerDies, Deaths
<1>21. ASSUME SandboxLost PROVE PushInv'
  BY <1>21 DEF SandboxLost, ContainersStop, Deaths, NoResult
<1>22. ASSUME PodLost PROVE PushInv'
  BY <1>22 DEF PodLost, ContainersStop, DirectoryGoes, Deaths, NoResult
<1>23. CASE UNCHANGED vars
  BY <1>23 DEF vars
<1> QED
  BY <1>1, <1>2, <1>3, <1>4, <1>5, <1>6, <1>7, <1>8, <1>9, <1>10, <1>11, <1>12, <1>13, <1>f, <1>14, <1>15, <1>16, <1>17, <1>18, <1>19, <1>20, <1>21, <1>22, <1>23
    DEF Next, StartUp, SidecarStep

\* Every step keeps the order of the blobs and their manifest.
LEMMA NextRegistryInv ==
  ASSUME Shapes, PushInv, RegistryInv, [Next]_vars
  PROVE  RegistryInv'
<1> USE BoundAssumption, WhenDue DEF Shapes, TypeOK, PushInv, RegistryInv, ImagesAreWhole, Blobs, Answers, kubelet, directory, sidecar, registry, volume
<1>1. ASSUME ListPaths PROVE RegistryInv'
  BY <1>1 DEF ListPaths
<1>2. ASSUME StartSidecar PROVE RegistryInv'
  BY <1>2 DEF StartSidecar
<1>3. ASSUME SeedStep PROVE RegistryInv'
  BY <1>3 DEF SeedStep, AfterCheck
<1>4. ASSUME StartWorker PROVE RegistryInv'
  BY <1>4 DEF StartWorker
<1>5. ASSUME NewPod PROVE RegistryInv'
  BY <1>5 DEF NewPod
<1>6. ASSUME UseHome PROVE RegistryInv'
  BY <1>6 DEF UseHome
<1>7. ASSUME Capture PROVE RegistryInv'
  BY <1>7 DEF Capture
<1>8. ASSUME SidecarReady PROVE RegistryInv'
  BY <1>8 DEF SidecarReady, At, SidecarOnly
<1>9. ASSUME DigestLayer PROVE RegistryInv'
  BY <1>9 DEF DigestLayer, At, SidecarOnly
<1>10. ASSUME MountBlobs PROVE RegistryInv'
  BY <1>10 DEF MountBlobs, Mounted, At, SidecarOnly
<1>11. ASSUME PushConfig PROVE RegistryInv'
  BY <1>11 DEF PushConfig, At, SidecarOnly
<1>12. ASSUME PushLayer PROVE RegistryInv'
  BY <1>12 DEF PushLayer, At, SidecarOnly
<1>13. ASSUME PushManifest PROVE RegistryInv'
  BY <1>13 DEF PushManifest, At, SidecarOnly
<1>f. ASSUME FetchManifest PROVE RegistryInv'
  BY <1>f DEF FetchManifest, Image, At, SidecarOnly
<1>14. ASSUME WriteResult PROVE RegistryInv'
  BY <1>14 DEF WriteResult, At, SidecarOnly
<1>15. ASSUME Answer PROVE RegistryInv'
  BY <1>15 DEF Answer, RenameThenRemove, At, SidecarOnly
<1>16. ASSUME PushFails PROVE RegistryInv'
  BY <1>16 DEF PushFails, Error
<1>17. ASSUME RemoveFails PROVE RegistryInv'
  BY <1>17 DEF RemoveFails, At
<1>18. ASSUME SidecarDies PROVE RegistryInv'
  BY <1>18 DEF SidecarDies, Deaths, NoResult
<1>19. ASSUME SeedingDies PROVE RegistryInv'
  BY <1>19 DEF SeedingDies, Deaths
<1>20. ASSUME WorkerDies PROVE RegistryInv'
  BY <1>20 DEF WorkerDies, Deaths
<1>21. ASSUME SandboxLost PROVE RegistryInv'
  BY <1>21 DEF SandboxLost, ContainersStop, Deaths, NoResult
<1>22. ASSUME PodLost PROVE RegistryInv'
  BY <1>22 DEF PodLost, ContainersStop, DirectoryGoes, Deaths, NoResult
<1>23. CASE UNCHANGED vars
  BY <1>23 DEF vars
<1> QED
  BY <1>1, <1>2, <1>3, <1>4, <1>5, <1>6, <1>7, <1>8, <1>9, <1>10, <1>11, <1>12, <1>13, <1>f, <1>14, <1>15, <1>16, <1>17, <1>18, <1>19, <1>20, <1>21, <1>22, <1>23
    DEF Next, StartUp, SidecarStep

\* Every step keeps the order of the containers and the marker's meaning.
LEMMA NextStageInv ==
  ASSUME Shapes, PodInv, StageInv, [Next]_vars
  PROVE  StageInv'
<1> USE BoundAssumption, WhenDue DEF Shapes, TypeOK, PodInv, StageInv, Configs, Ahead, All, kubelet, directory, sidecar, registry, volume
<1>1. ASSUME ListPaths PROVE StageInv'
  BY <1>1 DEF ListPaths
<1>2. ASSUME StartSidecar PROVE StageInv'
  BY <1>2 DEF StartSidecar
<1>3. ASSUME SeedStep PROVE StageInv'
  BY <1>3 DEF SeedStep, AfterCheck
<1>4. ASSUME StartWorker PROVE StageInv'
  BY <1>4 DEF StartWorker
<1>5. ASSUME NewPod PROVE StageInv'
  BY <1>5 DEF NewPod
<1>6. ASSUME UseHome PROVE StageInv'
  BY <1>6 DEF UseHome
<1>7. ASSUME Capture PROVE StageInv'
  BY <1>7 DEF Capture
<1>8. ASSUME SidecarReady PROVE StageInv'
  BY <1>8 DEF SidecarReady, At, SidecarOnly
<1>9. ASSUME DigestLayer PROVE StageInv'
  BY <1>9 DEF DigestLayer, At, SidecarOnly
<1>10. ASSUME MountBlobs PROVE StageInv'
  BY <1>10 DEF MountBlobs, Mounted, At, SidecarOnly
<1>11. ASSUME PushConfig PROVE StageInv'
  BY <1>11 DEF PushConfig, At, SidecarOnly
<1>12. ASSUME PushLayer PROVE StageInv'
  BY <1>12 DEF PushLayer, At, SidecarOnly
<1>13. ASSUME PushManifest PROVE StageInv'
  BY <1>13 DEF PushManifest, At, SidecarOnly
<1>f. ASSUME FetchManifest PROVE StageInv'
  BY <1>f DEF FetchManifest, Image, At, SidecarOnly
<1>14. ASSUME WriteResult PROVE StageInv'
  BY <1>14 DEF WriteResult, At, SidecarOnly
<1>15. ASSUME Answer PROVE StageInv'
  BY <1>15 DEF Answer, RenameThenRemove, At, SidecarOnly
<1>16. ASSUME PushFails PROVE StageInv'
  BY <1>16 DEF PushFails, Error
<1>17. ASSUME RemoveFails PROVE StageInv'
  BY <1>17 DEF RemoveFails, At
<1>18. ASSUME SidecarDies PROVE StageInv'
  BY <1>18 DEF SidecarDies, Deaths, NoResult
<1>19. ASSUME SeedingDies PROVE StageInv'
  BY <1>19 DEF SeedingDies, Deaths
<1>20. ASSUME WorkerDies PROVE StageInv'
  BY <1>20 DEF WorkerDies, Deaths
<1>21. ASSUME SandboxLost PROVE StageInv'
  BY <1>21 DEF SandboxLost, ContainersStop, Deaths, NoResult
<1>22. ASSUME PodLost PROVE StageInv'
  BY <1>22 DEF PodLost, ContainersStop, DirectoryGoes, Deaths, NoResult
<1>23. CASE UNCHANGED vars
  BY <1>23 DEF vars
<1> QED
  BY <1>1, <1>2, <1>3, <1>4, <1>5, <1>6, <1>7, <1>8, <1>9, <1>10, <1>11, <1>12, <1>13, <1>f, <1>14, <1>15, <1>16, <1>17, <1>18, <1>19, <1>20, <1>21, <1>22, <1>23
    DEF Next, StartUp, SidecarStep

-----------------------------------------------------------------------------
\* The inductive invariant of the worker pod.
THEOREM Invariant == Spec => []IInv
<1>1. IInv /\ [Next]_vars => IInv'
  BY NextShapes, NextPodInv, NextPushInv, NextRegistryInv, NextStageInv DEF IInv
<1> QED
  BY InitIInv, <1>1, PTL DEF Spec

\* Every reachable state is well typed, and a waiting layer is this pod's last.
THEOREM TypeCorrect == Spec => []TypeOK
<1>1. IInv => TypeOK
  BY DEF IInv, Shapes
<1> QED
  BY <1>1, Invariant, PTL

\* Whatever dies while a layer is pushed, the layer is not taken away before its
\* own answer is in place (image_push.rs:133-145).
THEOREM AnsweredBeforeGone == Spec => []LayerGoneIsAnswered
<1>1. IInv => LayerGoneIsAnswered
  BY DEF IInv, PushInv
<1> QED
  BY <1>1, Invariant, PTL

\* No manifest is ahead of its blobs and no answer ahead of its manifest, however
\* pushes are interrupted and repeated (push).
THEOREM WholeImages == Spec => []ImagesAreWhole
<1>1. IInv => ImagesAreWhole
  BY DEF IInv, RegistryInv
<1> QED
  BY <1>1, Invariant, PTL

\* No worker starts before its home is whole and its inventory and sidecar are
\* there (build_worker_pod).
THEOREM Prepared == Spec => []WorkerIsPrepared
<1>1. IInv => WorkerIsPrepared
  <2> SUFFICES ASSUME IInv, worker PROVE WorkerIsPrepared
    BY DEF WorkerIsPrepared
  <2> QED
    BY DEF IInv, Shapes, TypeOK, StageInv, All, Ahead, Configs, WorkerIsPrepared
<1> QED
  BY <1>1, Invariant, PTL

\* A home a session has used is never copied over, by no later container,
\* sandbox or pod (seed_home).
THEOREM UsedHomeStays == Spec => HomeKept
<1>1. IInv /\ [Next]_vars => [home = "used" => home' = "used"]_vars
  <2> SUFFICES ASSUME IInv, Next, home = "used" PROVE home' = "used"
    BY DEF vars
  <2> USE DEF volume
  <2>1. CASE SeedStep
    BY <2>1, WhenDue DEF SeedStep, IInv, Shapes, TypeOK, StageInv
  <2>2. CASE (StartUp /\ ~SeedStep) \/ NewPod \/ UseHome \/ Capture
    BY <2>2 DEF StartUp, ListPaths, StartSidecar, StartWorker, NewPod, UseHome, Capture
  <2>3. CASE SidecarStep \/ PushFails \/ RemoveFails
    BY <2>3 DEF SidecarStep, SidecarReady, DigestLayer, MountBlobs, PushConfig, PushLayer,
                PushManifest, FetchManifest, WriteResult, Answer, SidecarOnly, PushFails, RemoveFails
  <2>4. CASE SidecarDies \/ SeedingDies \/ WorkerDies \/ SandboxLost \/ PodLost
    BY <2>4 DEF SidecarDies, SeedingDies, WorkerDies, SandboxLost, PodLost
  <2> QED
    BY <2>1, <2>2, <2>3, <2>4 DEF Next
<1> QED
  BY <1>1, Invariant, PTL DEF Spec, HomeKept

=============================================================================
