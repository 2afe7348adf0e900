------------------------ MODULE PoolReconcilerProofs ------------------------
(***************************************************************************)
(* Proofs about PoolReconciler, for any set of sessions, any limit, any    *)
(* resume policy, any disturbances and any number of faults.               *)
(***************************************************************************)
EXTENDS PoolReconciler, TLAPS

-----------------------------------------------------------------------------
(* What the operators of the lower modules return.                         *)

\* Every queue operation leaves a consistent row.
LEMMA RowOps ==
    ASSUME NEW r \in Rows, NEW a \in {Us, Rival}
    PROVE  /\ Unclaimed(r) \in Rows
           /\ ExpireStale(r) \in Rows
           /\ Claimed(r, a) \in Rows
           /\ Released(r, a) \in Rows
           /\ Tombstoned(r) \in Rows
           /\ Reported(r) \in Rows
<1> USE AcceptorsDistinct DEF Rows, Statuses, Deadlines
<1>1. Unclaimed(r) \in Rows
  BY DEF Unclaimed
<1>2. ExpireStale(r) \in Rows
  BY <1>1 DEF ExpireStale
<1>3. Claimed(r, a) \in Rows
  BY DEF Claimed
<1>4. Released(r, a) \in Rows
  BY <1>1 DEF Released
<1>5. Tombstoned(r) \in Rows
  BY DEF Tombstoned, Unclaimed
<1>6. Reported(r) \in Rows
  BY <1>5 DEF Reported
<1> QED
  BY <1>1, <1>2, <1>3, <1>4, <1>5, <1>6

\* The rows the environment writes.
LEMMA RowEdits ==
    /\ GoneRow \in Rows
    /\ FreshRow("pending") \in Rows
    /\ \A r \in Rows : r.deadline \in {"far", "near"} => Aged(r) \in Rows
    /\ \A r \in Rows, st \in Statuses : [r EXCEPT !.status = st] \in Rows
<1> USE AcceptorsDistinct DEF Rows, Statuses, Deadlines
<1>1. FreshRow("pending") \in Rows
  BY DEF FreshRow
<1>2. GoneRow \in Rows
  BY DEF GoneRow, FreshRow
<1>3. ASSUME NEW r \in Rows, r.deadline \in {"far", "near"} PROVE Aged(r) \in Rows
  BY <1>3 DEF Aged
<1>4. ASSUME NEW r \in Rows, NEW st \in Statuses PROVE [r EXCEPT !.status = st] \in Rows
  OBVIOUS
<1> QED
  BY <1>1, <1>2, <1>3, <1>4

\* Every provider operation leaves a well formed set of artifacts.
LEMMA ArtifactOps ==
    ASSUME NEW a \in Artifacts, NEW p \in Pods, NEW mounted \in BOOLEAN
    PROVE  /\ DropVolume(a, mounted) \in Artifacts
           /\ Prepare(a) \in Artifacts
           /\ OnSuspend(a, p).art \in Artifacts
           /\ OnTerminate(a, mounted) \in Artifacts
           /\ HalfOnTerminate(a) \in Artifacts
           /\ UnderNewPod(a) \in Artifacts
           /\ WithoutPod(a) \in Artifacts
<1>1. DropVolume(a, mounted) \in Artifacts
  BY DEF DropVolume, Artifacts
<1>2. Prepare(a) \in Artifacts
  BY DEF Prepare, Artifacts
<1>3. GkeSuspend(a, p).art \in Artifacts
  BY DEF GkeSuspend, Outcome, Artifacts
<1>4. FilesystemSuspend(a).art \in Artifacts
  BY DEF FilesystemSuspend, Outcome, Artifacts
<1>5. OnSuspend(a, p).art \in Artifacts
  BY <1>3, <1>4 DEF OnSuspend, Outcome
<1>6. DropTrigger(a) \in Artifacts
  BY DEF DropTrigger, Artifacts
<1>7. DropSnapshot(DropTrigger(a)) \in Artifacts
  BY <1>6 DEF DropSnapshot, Artifacts
<1>8. OnTerminate(a, mounted) \in Artifacts
  BY <1>1, <1>7 DEF OnTerminate
<1>9. HalfOnTerminate(a) \in Artifacts
  BY <1>6 DEF HalfOnTerminate
<1>10. UnderNewPod(a) \in Artifacts
  BY DEF UnderNewPod, Artifacts
<1>11. WithoutPod(a) \in Artifacts
  BY DEF WithoutPod, Artifacts
<1> QED
  BY <1>1, <1>2, <1>5, <1>8, <1>9, <1>10, <1>11

\* Pods stay well formed under what the operator and the kubelet do to them.
LEMMA PodOps ==
    /\ NoPod \in Pods
    /\ NewPod \in Pods
    /\ \A p \in Pods : Planned(p) \in Pods
    /\ \A p \in Pods, d \in BOOLEAN : [p EXCEPT !.deleting = d] \in Pods
    /\ \A p \in Pods, h \in Healths : [p EXCEPT !.health = h] \in Pods
<1> USE DEF Pods, Healths
<1>1. NoPod \in Pods
  BY DEF NoPod
<1>2. NewPod \in Pods
  BY DEF NewPod, NoPod
<1>3. \A p \in Pods : Planned(p) \in Pods
  BY DEF Planned
<1>4. \A p \in Pods, d \in BOOLEAN : [p EXCEPT !.deleting = d] \in Pods
  OBVIOUS
<1>5. \A p \in Pods, h \in Healths : [p EXCEPT !.health = h] \in Pods
  OBVIOUS
<1> QED
  BY <1>1, <1>2, <1>3, <1>4, <1>5

\* The actions a plan may hold for one session: one, or a renewal before the
\* report of a startup failure.
Agendas == {{}, {"Renew", "StartupFailed"}} \cup {{act} : act \in Actions}

\* The planner never asks for two conflicting actions on a session, and asks
\* for a GiveUp or a Terminate only on the grounds it is meant for.
LEMMA PlanShape ==
    ASSUME NEW rows, NEW pods, NEW created, NEW s \in Sessions
    PROVE  LET acts == PlanFor(rows, pods, created, s) IN
           /\ acts \in Agendas
           /\ "GiveUp" \in acts => pods[s].here /\ pods[s].health = "over"
           /\ "Terminate" \in acts => rows[s].status = "terminated"
<1>1. ASSUME NEW r, NEW act \in Actions
      PROVE  IfDue(r, act) \in {{}, {act}}
  BY DEF IfDue
<1>2. LET acts == PlanForWorker(rows[s], pods[s]) IN
      /\ acts \in Agendas
      /\ "GiveUp" \in acts => pods[s].here /\ pods[s].health = "over"
      /\ "Terminate" \notin acts
  BY <1>1 DEF PlanForWorker, Agendas, Actions
<1>3. LET acts == PlanForOurs(rows[s], pods[s]) IN
      /\ acts \in Agendas
      /\ "GiveUp" \in acts => pods[s].here /\ pods[s].health = "over"
      /\ "Terminate" \in acts => rows[s].status = "terminated"
  BY <1>2 DEF PlanForOurs, Agendas, Actions
<1> QED
  BY <1>3 DEF PlanFor, Agendas, Actions

-----------------------------------------------------------------------------
(* The running action.                                                     *)

\* All that can be left of an action.
Stacks == {
    <<>>,
    <<"claim", "prepare", "applySecret", "createPod">>,
    <<"prepare", "applySecret", "createPod">>,
    <<"applySecret", "createPod">>,
    <<"createPod">>,
    <<"claim">>,
    <<"onSuspend", "deletePod", "deleteSecretForget", "release">>,
    <<"deletePod", "deleteSecretForget", "release">>,
    <<"deleteSecretForget", "release">>,
    <<"release">>,
    <<"release", "deletePod", "deleteSecretForget", "onTerminate">>,
    <<"deletePod", "deleteSecretForget", "onTerminate">>,
    <<"deleteSecretForget", "onTerminate">>,
    <<"onTerminate">>,
    <<"recycleDropPin", "release", "deletePod", "deleteSecretForget">>,
    <<"release", "deletePod", "deleteSecretForget">>,
    <<"deletePod", "deleteSecretForget">>,
    <<"deleteSecretForget">>,
    <<"report">>,
    <<"deletePodForget", "onTerminate", "deleteSecret">>,
    <<"onTerminate", "deleteSecret">>,
    <<"deleteSecret">>,
    <<"deletePod">>,
    <<"deletePodForget">>,
    <<"recycleKeepPin">>}

\* What is left when the first call returns.
LEMMA StackTails ==
    /\ Tail(<<"claim", "prepare", "applySecret", "createPod">>)
         = <<"prepare", "applySecret", "createPod">>
    /\ Tail(<<"prepare", "applySecret", "createPod">>)
         = <<"applySecret", "createPod">>
    /\ Tail(<<"applySecret", "createPod">>) = <<"createPod">>
    /\ Tail(<<"createPod">>) = <<>>
    /\ Tail(<<"claim">>) = <<>>
    /\ Tail(<<"onSuspend", "deletePod", "deleteSecretForget", "release">>)
         = <<"deletePod", "deleteSecretForget", "release">>
    /\ Tail(<<"deletePod", "deleteSecretForget", "release">>)
         = <<"deleteSecretForget", "release">>
    /\ Tail(<<"deleteSecretForget", "release">>) = <<"release">>
    /\ Tail(<<"release">>) = <<>>
    /\ Tail(<<"release", "deletePod", "deleteSecretForget", "onTerminate">>)
         = <<"deletePod", "deleteSecretForget", "onTerminate">>
    /\ Tail(<<"deletePod", "deleteSecretForget", "onTerminate">>)
         = <<"deleteSecretForget", "onTerminate">>
    /\ Tail(<<"deleteSecretForget", "onTerminate">>) = <<"onTerminate">>
    /\ Tail(<<"onTerminate">>) = <<>>
    /\ Tail(<<"recycleDropPin", "release", "deletePod", "deleteSecretForget">>)
         = <<"release", "deletePod", "deleteSecretForget">>
    /\ Tail(<<"release", "deletePod", "deleteSecretForget">>)
         = <<"deletePod", "deleteSecretForget">>
    /\ Tail(<<"deletePod", "deleteSecretForget">>) = <<"deleteSecretForget">>
    /\ Tail(<<"deleteSecretForget">>) = <<>>
    /\ Tail(<<"report">>) = <<>>
    /\ Tail(<<"deletePodForget", "onTerminate", "deleteSecret">>)
         = <<"onTerminate", "deleteSecret">>
    /\ Tail(<<"onTerminate", "deleteSecret">>) = <<"deleteSecret">>
    /\ Tail(<<"deleteSecret">>) = <<>>
    /\ Tail(<<"deletePod">>) = <<>>
    /\ Tail(<<"deletePodForget">>) = <<>>
    /\ Tail(<<"recycleKeepPin">>) = <<>>
  OBVIOUS

\* Each of them is a sequence of calls.
LEMMA StackSeqs ==
    /\ <<>> \in Seq(CallNames)
    /\ <<"claim", "prepare", "applySecret", "createPod">> \in Seq(CallNames)
    /\ <<"prepare", "applySecret", "createPod">> \in Seq(CallNames)
    /\ <<"applySecret", "createPod">> \in Seq(CallNames)
    /\ <<"createPod">> \in Seq(CallNames)
    /\ <<"claim">> \in Seq(CallNames)
    /\ <<"onSuspend", "deletePod", "deleteSecretForget", "release">> \in Seq(CallNames)
    /\ <<"deletePod", "deleteSecretForget", "release">> \in Seq(CallNames)
    /\ <<"deleteSecretForget", "release">> \in Seq(CallNames)
    /\ <<"release">> \in Seq(CallNames)
    /\ <<"release", "deletePod", "deleteSecretForget", "onTerminate">> \in Seq(CallNames)
    /\ <<"deletePod", "deleteSecretForget", "onTerminate">> \in Seq(CallNames)
    /\ <<"deleteSecretForget", "onTerminate">> \in Seq(CallNames)
    /\ <<"onTerminate">> \in Seq(CallNames)
    /\ <<"recycleDropPin", "release", "deletePod", "deleteSecretForget">> \in Seq(CallNames)
    /\ <<"release", "deletePod", "deleteSecretForget">> \in Seq(CallNames)
    /\ <<"deletePod", "deleteSecretForget">> \in Seq(CallNames)
    /\ <<"deleteSecretForget">> \in Seq(CallNames)
    /\ <<"report">> \in Seq(CallNames)
    /\ <<"deletePodForget", "onTerminate", "deleteSecret">> \in Seq(CallNames)
    /\ <<"onTerminate", "deleteSecret">> \in Seq(CallNames)
    /\ <<"deleteSecret">> \in Seq(CallNames)
    /\ <<"deletePod">> \in Seq(CallNames)
    /\ <<"deletePodForget">> \in Seq(CallNames)
    /\ <<"recycleKeepPin">> \in Seq(CallNames)
  BY DEF CallNames

\* A stack is a sequence of calls, and stays a stack when its first call
\* returns.
LEMMA StackOps ==
    ASSUME NEW c \in Stacks
    PROVE  /\ c \in Seq(CallNames)
           /\ c # <<>> => Tail(c) \in Stacks
<1>1. c \in Seq(CallNames)
  BY StackSeqs DEF Stacks
<1>2. c # <<>> => Tail(c) \in Stacks
  BY StackTails DEF Stacks
<1> QED
  BY <1>1, <1>2

\* The first call tells where in its handler an action is.
LEMMA StackHeads ==
    ASSUME NEW c \in Stacks, c # <<>>
    PROVE  /\ Head(c) \in CallNames
           /\ Head(c) = "claim" =>
                c \in {<<"claim", "prepare", "applySecret", "createPod">>,
                      <<"claim">>}
           /\ Head(c) = "prepare" => c = <<"prepare", "applySecret", "createPod">>
           /\ Head(c) = "applySecret" => c = <<"applySecret", "createPod">>
           /\ Head(c) = "createPod" => c = <<"createPod">>
           /\ Head(c) = "onSuspend" => c = <<"onSuspend", "deletePod", "deleteSecretForget", "release">>
           /\ Head(c) = "deletePod" =>
                c \in {<<"deletePod", "deleteSecretForget", "release">>,
                      <<"deletePod", "deleteSecretForget", "onTerminate">>,
                      <<"deletePod", "deleteSecretForget">>,
                      <<"deletePod">>}
           /\ Head(c) = "deleteSecretForget" =>
                c \in {<<"deleteSecretForget", "release">>,
                      <<"deleteSecretForget", "onTerminate">>,
                      <<"deleteSecretForget">>}
           /\ Head(c) = "release" =>
                c \in {<<"release">>,
                      <<"release", "deletePod", "deleteSecretForget", "onTerminate">>,
                      <<"release", "deletePod", "deleteSecretForget">>}
           /\ Head(c) = "onTerminate" =>
                c \in {<<"onTerminate">>,
                      <<"onTerminate", "deleteSecret">>}
           /\ Head(c) = "recycleDropPin" => c = <<"recycleDropPin", "release", "deletePod", "deleteSecretForget">>
           /\ Head(c) = "report" => c = <<"report">>
           /\ Head(c) = "deletePodForget" =>
                c \in {<<"deletePodForget", "onTerminate", "deleteSecret">>,
                      <<"deletePodForget">>}
           /\ Head(c) = "deleteSecret" => c = <<"deleteSecret">>
           /\ Head(c) = "recycleKeepPin" => c = <<"recycleKeepPin">>
  BY DEF Stacks, CallNames

\* Every handler starts on a stack.
LEMMA ProgramStacks ==
    ASSUME NEW act \in Actions, NEW p
    PROVE  Program(act, p) \in Stacks
  BY DEF Program, Actions, Stacks, StartWorkerCalls, SuspendCalls, TerminateCalls,
         GiveUpCalls, StartupFailedCalls

-----------------------------------------------------------------------------
(* Types.  `calls` is known more precisely than TypeOK says: it is a stack,*)
(* and empty until the plan is executed.                                   *)

CallsInv ==
    /\ calls \in Stacks
    /\ pc \in {"idle", "pods", "gc"} => calls = <<>>

Types == TypeOK /\ CallsInv

\* The types hold initially.
LEMMA InitTypes == Init => Types
<1> SUFFICES ASSUME Init PROVE Types
  OBVIOUS
<1>1. <<>> \in Stacks /\ <<>> \in Seq(CallNames)
  BY StackSeqs DEF Stacks
<1>2. NoArtifacts \in Artifacts
  BY DEF NoArtifacts, Artifacts
<1>3. GoneRow \in Rows /\ NoPod \in Pods
  BY RowEdits, PodOps
<1>4. TypeOK
  <2>1. /\ row \in [Sessions -> Rows] /\ listed \in [Sessions -> Rows]
        /\ pod \in [Sessions -> Pods] /\ seen \in [Sessions -> Pods]
        /\ art \in [Sessions -> Artifacts]
    BY <1>2, <1>3 DEF Init
  <2>2. plan \in [Sessions -> SUBSET Actions] /\ secret \in [Sessions -> Secrets]
    BY DEF Init, Secrets
  <2>3. /\ known \in SUBSET Sessions /\ left \in SUBSET Sessions
        /\ cur \in Sessions /\ calls \in Seq(CallNames)
        /\ faults \in 0..MaxFaults /\ pc \in Phases
    BY <1>1, MaxFaultsAssumption DEF Init, Phases
  <2>4. pin \in BOOLEAN
    BY DEF Init
  <2> QED
    BY <2>1, <2>2, <2>3, <2>4 DEF TypeOK
<1>5. CallsInv
  BY <1>1 DEF Init, CallsInv
<1> QED
  BY <1>4, <1>5 DEF Types

\* What a call's return may do to the caller.
LEMMA ReturnTypes ==
    ASSUME Types, NEW rest \in Stacks, NEW pods \in [Sessions -> Pods],
           Return(rest, pods), UNCHANGED pc, calls # <<>>
    PROVE  /\ calls' \in Stacks /\ calls' \in Seq(CallNames)
           /\ CallsInv'
           /\ seen' \in [Sessions -> Pods]
           /\ faults' \in 0..MaxFaults
<1>1. <<>> \in Stacks
  BY DEF Stacks
<1>2. calls' \in Stacks
  BY <1>1 DEF Return
<1>3. calls' \in Seq(CallNames)
  BY <1>2, StackOps
<1>4. CallsInv'
  BY <1>2 DEF CallsInv, Types
<1>5. seen' \in [Sessions -> Pods]
  BY DEF Return, Types, TypeOK
<1>6. faults' \in 0..MaxFaults
  BY MaxFaultsAssumption DEF Return, Fault, Types, TypeOK
<1> QED
  BY <1>2, <1>3, <1>4, <1>5, <1>6

\* The steps that open and close the parts of a pass keep the types.
LEMMA PassStepTypes == Types /\ PassStep => Types'
<1> SUFFICES ASSUME Types, PassStep PROVE Types'
  OBVIOUS
<1>0. <<>> \in Stacks /\ <<>> \in Seq(CallNames)
  BY StackSeqs DEF Stacks
<1> USE <1>0 DEF Types, CallsInv, TypeOK
<1>1. CASE ListSessions
  <2>1. \A s \in Sessions : ExpireStale(row[s]) \in Rows
    BY RowOps
  <2> QED
    BY <1>1, <2>1 DEF ListSessions, Phases
<1>2. CASE ListPods
  BY <1>2 DEF ListPods, Phases
<1>3. CASE GcAndPlan
  <2>1. plan' \in [Sessions -> SUBSET Actions]
    <3>1. PICK created \in [Sessions -> {0, 1}] : plan' = Plan(listed, seen, created)
      BY <1>3 DEF GcAndPlan
    <3>2. \A s \in Sessions : PlanFor(listed, seen, created, s) \in SUBSET Actions
      BY PlanShape DEF Agendas, Actions
    <3> QED
      BY <3>1, <3>2 DEF Plan
  <2>2. art' \in [Sessions -> Artifacts]
    <3>1. \A s \in Sessions : pod[s].here \in BOOLEAN /\ pod[s] \in Pods
      BY DEF Pods
    <3>2. \A s \in Sessions : DropVolume(art[s], pod[s].here) \in Artifacts
      BY <3>1, ArtifactOps
    <3> QED
      BY <1>3, <3>2 DEF GcAndPlan
  <2>3. seen' \in [Sessions -> Pods]
    BY <1>3, PodOps DEF GcAndPlan
  <2>4. listed' \in [Sessions -> Rows]
    BY <1>3, RowEdits DEF GcAndPlan
  <2>5. faults' \in 0..MaxFaults
    BY <1>3, MaxFaultsAssumption DEF GcAndPlan, Fault
  <2> QED
    BY <1>3, <2>1, <2>2, <2>3, <2>4, <2>5 DEF GcAndPlan, Phases
<1>4. ASSUME NEW s \in Sessions, BeginAction(s) PROVE Types'
  <2>1. PICK act \in plan[s] : /\ plan' = [plan EXCEPT ![s] = @ \ {act}]
                               /\ calls' = Program(act, seen[s])
    BY <1>4 DEF BeginAction
  <2>2. calls' \in Stacks
    BY <2>1, ProgramStacks
  <2>3. calls' \in Seq(CallNames)
    BY <2>2, StackOps
  <2>4. plan' \in [Sessions -> SUBSET Actions]
    BY <2>1
  <2> QED
    BY <1>4, <2>2, <2>3, <2>4 DEF BeginAction
<1>5. ASSUME NEW s \in Sessions, BeginRecycle(s) PROVE Types'
  BY <1>5, StackSeqs DEF BeginRecycle, Stacks
<1>6. ASSUME NEW s \in Sessions, BeginCleanup(s) PROVE Types'
  BY <1>6, StackSeqs DEF BeginCleanup, Stacks, DeleteArtifacts
<1>7. CASE BeginRecycling
  BY <1>7 DEF BeginRecycling, Phases, Unrestored
<1>8. CASE BeginCleaning
  BY <1>8, PodOps DEF BeginCleaning, Phases
<1>9. CASE EndPass
  BY <1>9, PodOps, RowEdits DEF EndPass, Forget, Phases
<1> QED
  BY <1>1, <1>2, <1>3, <1>4, <1>5, <1>6, <1>7, <1>8, <1>9 DEF PassStep

\* Every API call keeps the types, answered or not.
LEMMA CallStepTypes == Types /\ CallStep => Types'
<1> SUFFICES ASSUME Types, CallStep PROVE Types'
  OBVIOUS
<1>0. /\ <<>> \in Stacks /\ Teardown \in Stacks /\ ReportedCalls \in Stacks
      /\ <<"deletePodForget">> \in Stacks
      /\ calls # <<>> => Tail(calls) \in Stacks
  BY StackOps DEF Types, CallsInv, Stacks, Teardown, ReportedCalls
<1>a. cur \in Sessions /\ row[cur] \in Rows /\ pod[cur] \in Pods /\ art[cur] \in Artifacts
  BY DEF Types, TypeOK
<1>b. pod[cur].here \in BOOLEAN /\ seen[cur] \in Pods
  BY <1>a DEF Types, TypeOK, Pods
<1>c. ASSUME NEW rest \in Stacks, NEW pods \in [Sessions -> Pods], Return(rest, pods),
             KeepPass, calls # <<>>
      PROVE  /\ CallsInv' /\ calls' \in Seq(CallNames)
             /\ seen' \in [Sessions -> Pods] /\ faults' \in 0..MaxFaults
             /\ pc' \in Phases /\ listed' \in [Sessions -> Rows]
             /\ known' \in SUBSET Sessions /\ plan' \in [Sessions -> SUBSET Actions]
             /\ left' \in SUBSET Sessions /\ cur' \in Sessions
  BY <1>c, ReturnTypes DEF KeepPass, Types, TypeOK
<1>d. seen \in [Sessions -> Pods] /\ [seen EXCEPT ![cur] = NoPod] \in [Sessions -> Pods]
  BY PodOps DEF Types, TypeOK
<1> USE <1>0, <1>a, <1>b, <1>d DEF Types, TypeOK, Calling
<1>1. CASE CallClaim
  <2>1. Claimed(row[cur], Us) \in Rows
    BY RowOps
  <2> QED
    BY <1>1, <1>c, <2>1 DEF CallClaim
<1>2. CASE CallPrepare
  <2>1. Prepare(art[cur]) \in Artifacts
    BY ArtifactOps
  <2>2. PinFor(art[cur]) \in BOOLEAN
    BY DEF PinFor
  <2> QED
    BY <1>2, <1>c, <2>1, <2>2 DEF CallPrepare
<1>3. CASE CallApplySecret
  <2>1. PinUnder(pin, secret[cur]) \in BOOLEAN
    BY DEF PinUnder
  <2> QED
    BY <1>3, <1>c, <2>1 DEF CallApplySecret, Secrets
<1>4. CASE CallCreatePod
  <2>1. UnderNewPod(art[cur]) \in Artifacts /\ NewPod \in Pods
    BY ArtifactOps, PodOps
  <2>2. CASE pod[cur].here
    BY <1>4, <1>c, <2>2 DEF CallCreatePod
  <2>3. CASE ~pod[cur].here
    BY <1>4, <1>c, <2>1, <2>3 DEF CallCreatePod
  <2> QED
    BY <2>2, <2>3
<1>5. CASE CallOnSuspend
  <2>1. OnSuspend(art[cur], seen[cur]).art \in Artifacts
    BY ArtifactOps
  <2> QED
    BY <1>5, <1>c, <2>1 DEF CallOnSuspend
<1>6. CASE CallRelease
  <2>1. Released(row[cur], Us) \in Rows
    BY RowOps
  <2> QED
    BY <1>6, <1>c, <2>1 DEF CallRelease
<1>7. CASE CallDeletePod
  <2>1. [pod[cur] EXCEPT !.deleting = pod[cur].here] \in Pods
    BY PodOps
  <2> QED
    BY <1>7, <1>c, <2>1 DEF CallDeletePod
<1>8. CASE CallDeleteSecret
  BY <1>8, <1>c DEF CallDeleteSecret, Secrets
<1>9. CASE CallOnTerminate
  <2>1. OnTerminate(art[cur], pod[cur].here) \in Artifacts
    BY ArtifactOps
  <2> QED
    BY <1>9, <1>c, <2>1 DEF CallOnTerminate
<1>10. CASE CallReport
  <2>1. Reported(row[cur]) \in Rows
    BY RowOps
  <2> QED
    BY <1>10, <1>c, <2>1 DEF CallReport
<1>11. CASE CallRecycle
  BY <1>11, <1>c DEF CallRecycle, Secrets
<1> QED
  BY <1>1, <1>2, <1>3, <1>4, <1>5, <1>6, <1>7, <1>8, <1>9, <1>10, <1>11 DEF CallStep

\* So do failed calls and crashes.
LEMMA FaultTypes == Types /\ (CallFails \/ Crash) => Types'
<1> SUFFICES ASSUME Types, CallFails \/ Crash PROVE Types'
  OBVIOUS
<1>0. <<>> \in Stacks /\ <<>> \in Seq(CallNames)
  BY StackSeqs DEF Stacks
<1> USE <1>0, MaxFaultsAssumption DEF Types, CallsInv, TypeOK, Fault
<1>1. CASE CallFails
  <2>1. HalfOnTerminate(art[cur]) \in Artifacts
    <3>1. NoPod \in Pods /\ TRUE \in BOOLEAN
      BY PodOps
    <3> QED
      BY <3>1, ArtifactOps
  <2> QED
    BY <1>1, <2>1 DEF CallFails, KeepPass
<1>2. CASE Crash
  <2>1. Forget /\ UNCHANGED <<row, pod, secret, art>> /\ faults' \in 0..MaxFaults
    BY <1>2 DEF Crash
  <2> QED
    BY <2>1, PodOps, RowEdits DEF Forget, Phases
<1> QED
  BY <1>1, <1>2

\* So does the queue.
LEMMA QueueStepTypes == Types /\ QueueStep => Types'
<1> SUFFICES ASSUME Types, NEW s \in Sessions,
                    \/ Enqueue(s) \/ SetSessionStatus(s) \/ Tombstone(s)
                    \/ RivalActs(s) \/ ClaimAges(s)
             PROVE  Types'
  BY DEF QueueStep
<1>1. row' \in [Sessions -> Rows]
  <2>0. row[s] \in Rows /\ row \in [Sessions -> Rows]
    BY DEF Types, TypeOK
  <2>1. CASE Enqueue(s)
    BY <2>0, <2>1, RowEdits DEF Enqueue
  <2>2. CASE SetSessionStatus(s)
    BY <2>0, <2>2, RowEdits DEF SetSessionStatus, Statuses
  <2>3. CASE Tombstone(s)
    BY <2>0, <2>3, RowOps DEF Tombstone
  <2>4. CASE RivalActs(s)
    BY <2>0, <2>4, RowOps DEF RivalActs
  <2>5. CASE ClaimAges(s)
    BY <2>0, <2>5, RowEdits DEF ClaimAges
  <2> QED
    BY <2>1, <2>2, <2>3, <2>4, <2>5
<1>2. Outside /\ UNCHANGED <<pod, secret, art>>
  BY DEF Enqueue, SetSessionStatus, Tombstone, RivalActs, ClaimAges
<1> QED
  BY <1>1, <1>2 DEF Outside, PassUntouched, Types, CallsInv, TypeOK

\* So does the cluster.
LEMMA ClusterStepTypes == Types /\ ClusterStep => Types'
<1> SUFFICES ASSUME Types, NEW s \in Sessions,
                    \/ KubeletReports(s) \/ PodKilled(s) \/ PodGone(s) \/ ImageRollout(s)
                    \/ CheckpointDone(s) \/ CheckpointFails(s) \/ ArtifactAges(s)
             PROVE  Types'
  BY DEF ClusterStep
<1>0. pod[s] \in Pods /\ pod \in [Sessions -> Pods]
  BY DEF Types, TypeOK
<1>a. art[s] \in Artifacts /\ art \in [Sessions -> Artifacts]
  BY DEF Types, TypeOK
<1>1. pod' \in [Sessions -> Pods] /\ art' \in [Sessions -> Artifacts]
  <2>1. CASE KubeletReports(s)
    BY <1>0, <1>a, <2>1 DEF KubeletReports, Pods
  <2>2. CASE PodKilled(s)
    BY <1>0, <1>a, <2>2 DEF PodKilled, Pods
  <2>3. CASE PodGone(s)
    <3>1. WithoutPod(art[s]) \in Artifacts /\ NoPod \in Pods
      BY <1>0, <1>a, ArtifactOps, PodOps DEF Pods
    <3> QED
      BY <1>0, <1>a, <2>3, <3>1 DEF PodGone
  <2>4. CASE ImageRollout(s)
    BY <1>0, <1>a, <2>4 DEF ImageRollout, Pods
  <2>5. CASE CheckpointDone(s)
    BY <1>0, <1>a, <2>5 DEF CheckpointDone, Pods, Artifacts, Healths
  <2>6. CASE CheckpointFails(s)
    BY <1>0, <1>a, <2>6 DEF CheckpointFails, Artifacts
  <2>7. CASE ArtifactAges(s)
    BY <1>0, <1>a, <2>7 DEF ArtifactAges, Artifacts
  <2> QED
    BY <2>1, <2>2, <2>3, <2>4, <2>5, <2>6, <2>7
<1>2. PassUntouched /\ UNCHANGED <<row, secret>>
  BY DEF KubeletReports, PodKilled, PodGone, ImageRollout, CheckpointDone,
         CheckpointFails, ArtifactAges, Outside
<1>3. faults' \in 0..MaxFaults
  BY MaxFaultsAssumption DEF KubeletReports, PodKilled, PodGone, ImageRollout,
         CheckpointDone, CheckpointFails, ArtifactAges, Outside, Fault, Types, TypeOK
<1> QED
  BY <1>1, <1>2, <1>3 DEF PassUntouched, Types, CallsInv, TypeOK

\* The types are inductive.
LEMMA NextTypes == Types /\ [Next]_vars => Types'
<1>1. Types /\ UNCHANGED vars => Types'
  BY DEF vars, Types, CallsInv, TypeOK
<1> QED
  BY <1>1, PassStepTypes, CallStepTypes, FaultTypes, QueueStepTypes, ClusterStepTypes
     DEF Next

\* Every reachable state is well typed: in particular a queue row never has an
\* acceptor without a deadline or a deadline without an acceptor, and an action
\* is never left in the middle of a sequence of calls its handler does not make.
THEOREM TypeCorrect == Spec => []TypeOK
<1>1. Types => TypeOK
  BY DEF Types
<1> QED
  BY <1>1, InitTypes, NextTypes, PTL DEF Spec

-----------------------------------------------------------------------------
(* Why the claim of a session goes back only with its worker stopped.  The *)
(* release of a Suspend comes after its own deletions; the release of a    *)
(* Terminate is for a terminated session, which stays terminated; that of  *)
(* a GiveUp is for a pod listed over its limit, and nothing brings such a  *)
(* pod back before the claim is released: no other action of the plan is   *)
(* on the same session.                                                    *)

\* The plan holds one agenda per session, only while it is executed, and what
\* is left of the running action's is at most a startup-failure report.
PlanInv ==
    /\ \A s \in Sessions : plan[s] \in Agendas
    /\ pc # "execute" => \A s \in Sessions : plan[s] = {}
    /\ calls # <<>> => plan[cur] \subseteq {"StartupFailed"}

\* From here on a release is due of a worker that is given up on or deleted.
SpentStacks == {<<"recycleDropPin", "release", "deletePod", "deleteSecretForget">>,
                <<"release", "deletePod", "deleteSecretForget">>,
                <<"deleteSecretForget", "release">>,
                <<"release">>}

\* The grounds of a GiveUp and of a Terminate still stand, from the listing
\* they were found in to the call that acts on them.
GroundsInv ==
    /\ pc = "gc" => \A s \in Sessions :
          seen[s].here /\ seen[s].health = "over" => Spent(pod[s])
    /\ pc \in {"pods", "gc"} => \A s \in Sessions :
          listed[s].status = "terminated" => row[s].status = "terminated"
    /\ \A s \in Sessions : "GiveUp" \in plan[s] => Spent(pod[s])
    /\ \A s \in Sessions : "Terminate" \in plan[s] => row[s].status = "terminated"
    /\ calls \in SpentStacks => Spent(pod[cur])
    /\ calls = TerminateCalls => row[cur].status = "terminated"

\* start_worker has looked at the marker before it creates the pod, and the
\* marker does not change in between.
PinInv == calls = <<"createPod">> /\ secret[cur] = "withoutPin" => ~pin

Inv == Types /\ PlanInv /\ GroundsInv /\ PinInv

\* A call touches the pod of the running action only, and brings it about
\* only as the last call of start_worker.
LEMMA CallFrame ==
    ASSUME Types, CallStep
    PROVE  /\ KeepPass /\ calls # <<>>
           /\ \A s \in Sessions : s # cur => pod'[s] = pod[s]
           /\ ~CallCreatePod /\ ~CallDeletePod => UNCHANGED pod
           /\ \/ calls' \in {<<>>, Tail(calls), <<"deletePodForget">>}
              \/ CallReport /\ calls' \in {ReportedCalls, Teardown}
<1> USE DEF Types, TypeOK, Calling, Return
<1>1. CASE CallClaim
  BY <1>1 DEF CallClaim
<1>2. CASE CallPrepare
  BY <1>2 DEF CallPrepare
<1>3. CASE CallApplySecret
  BY <1>3 DEF CallApplySecret
<1>4. CASE CallCreatePod
  BY <1>4 DEF CallCreatePod
<1>5. CASE CallOnSuspend
  BY <1>5 DEF CallOnSuspend
<1>6. CASE CallRelease
  BY <1>6 DEF CallRelease
<1>7. CASE CallDeletePod
  BY <1>7 DEF CallDeletePod
<1>8. CASE CallDeleteSecret
  BY <1>8 DEF CallDeleteSecret
<1>9. CASE CallOnTerminate
  BY <1>9 DEF CallOnTerminate
<1>10. CASE CallReport
  BY <1>10 DEF CallReport
<1>11. CASE CallRecycle
  BY <1>11 DEF CallRecycle
<1> QED
  BY <1>1, <1>2, <1>3, <1>4, <1>5, <1>6, <1>7, <1>8, <1>9, <1>10, <1>11 DEF CallStep

\* The queue and the cluster leave the pass alone.
LEMMA OutsideFrame == QueueStep \/ ClusterStep => PassUntouched
  BY DEF QueueStep, ClusterStep, Enqueue, SetSessionStatus, Tombstone, RivalActs,
         ClaimAges, KubeletReports, PodKilled, PodGone, ImageRollout, CheckpointDone,
         CheckpointFails, ArtifactAges, Outside

\* Every step keeps the plan in shape.
LEMMA NextPlanInv == Types /\ PlanInv /\ [Next]_vars => PlanInv'
<1> SUFFICES ASSUME Types, PlanInv, [Next]_vars PROVE PlanInv'
  OBVIOUS
<1> USE DEF PlanInv
<1>0. {} \in Agendas
  BY DEF Agendas
<1>1. CASE ListSessions \/ ListPods \/ BeginRecycling \/ BeginCleaning
  BY <1>1 DEF ListSessions, ListPods, BeginRecycling, BeginCleaning
<1>2. CASE GcAndPlan
  <2>1. PICK created \in [Sessions -> {0, 1}] : plan' = Plan(listed, seen, created)
    BY <1>2 DEF GcAndPlan
  <2>2. \A s \in Sessions : plan'[s] \in Agendas
    BY <2>1, PlanShape DEF Plan
  <2> QED
    BY <1>2, <2>2 DEF GcAndPlan, Types, CallsInv
<1>3. ASSUME NEW s \in Sessions, BeginAction(s) PROVE PlanInv'
  <2>1. PICK act \in plan[s] : /\ "Renew" \in plan[s] => act = "Renew"
                               /\ plan' = [plan EXCEPT ![s] = @ \ {act}]
    BY <1>3 DEF BeginAction
  <2>2. plan[s] \ {act} \in {{}, {"StartupFailed"}}
    BY <2>1 DEF Agendas
  <2>3. plan'[s] = plan[s] \ {act} /\ \A t \in Sessions \ {s} : plan'[t] = plan[t]
    BY <2>1 DEF Types, TypeOK
  <2>4. \A t \in Sessions : plan'[t] \in Agendas
    BY <2>2, <2>3 DEF Agendas, Actions
  <2> QED
    BY <1>3, <2>2, <2>3, <2>4 DEF BeginAction
<1>4. ASSUME NEW s \in Sessions, BeginRecycle(s) \/ BeginCleanup(s) PROVE PlanInv'
  BY <1>4 DEF BeginRecycle, BeginCleanup
<1>5. CASE EndPass \/ Crash
  BY <1>0, <1>5 DEF EndPass, Crash, Forget
<1>6. CASE CallStep
  BY <1>6, CallFrame DEF KeepPass
<1>7. CASE CallFails
  BY <1>7 DEF CallFails, KeepPass
<1>8. CASE QueueStep \/ ClusterStep
  BY <1>8, OutsideFrame DEF PassUntouched
<1>9. CASE UNCHANGED vars
  BY <1>9 DEF vars
<1> QED
  BY <1>1, <1>2, <1>3, <1>4, <1>5, <1>6, <1>7, <1>8, <1>9 DEF Next, PassStep

\* A worker that is spent stays so, whatever the cluster does to it.
LEMMA SpentStays ==
    ASSUME Types, ClusterStep, NEW s \in Sessions, Spent(pod[s])
    PROVE  Spent(pod'[s])
<1>1. PICK t \in Sessions :
         \/ KubeletReports(t) \/ PodKilled(t) \/ PodGone(t) \/ ImageRollout(t)
         \/ CheckpointDone(t) \/ CheckpointFails(t) \/ ArtifactAges(t)
  BY DEF ClusterStep
<1>2. pod[s] \in Pods /\ pod[t] \in Pods
  BY DEF Types, TypeOK
<1> USE DEF Types, TypeOK, Spent
<1>3. CASE s # t
  BY <1>1, <1>3 DEF KubeletReports, PodKilled, PodGone, ImageRollout,
                    CheckpointDone, CheckpointFails, ArtifactAges
<1>4. CASE s = t /\ KubeletReports(t)
  <2>1. pod[s].here /\ ~pod[s].deleting
    BY <1>4 DEF KubeletReports
  <2>2. pod[s].health \in {"over", "failed", "succeeded"}
    BY <2>1
  <2>3. PICK h \in Healths :
          /\ \/ <<pod[s].health, h>> \in HealthStep
             \/ "evict" \in Disturbances /\ pod[s].health \in RunningHealths /\ h = "failed"
          /\ \/ pod' = [pod EXCEPT ![s].health = h]
             \/ h = "running"
    BY <1>4 DEF KubeletReports
  <2>4. \A g : <<pod[s].health, g>> \notin HealthStep
    BY <2>2 DEF HealthStep
  <2>5. h = "failed" /\ pod' = [pod EXCEPT ![s].health = h]
    BY <2>3, <2>4
  <2> QED
    BY <1>2, <2>5 DEF Pods
<1>5. CASE s = t /\ (PodKilled(t) \/ PodGone(t))
  BY <1>2, <1>5 DEF PodKilled, PodGone, NoPod, Pods
<1>6. CASE s = t /\ (ImageRollout(t) \/ CheckpointDone(t))
  <2>1. pod' = [pod EXCEPT ![s].image = "stale"] \/ pod' = [pod EXCEPT ![s].health = "succeeded"]
    BY <1>6 DEF ImageRollout, CheckpointDone
  <2>2. CASE pod' = [pod EXCEPT ![s].image = "stale"]
    BY <1>2, <2>2 DEF Pods
  <2>3. CASE pod' = [pod EXCEPT ![s].health = "succeeded"]
    BY <1>2, <2>3 DEF Pods
  <2> QED
    BY <2>1, <2>2, <2>3
<1>7. CASE s = t /\ (CheckpointFails(t) \/ ArtifactAges(t))
  BY <1>7 DEF CheckpointFails, ArtifactAges
<1> QED
  BY <1>1, <1>3, <1>4, <1>5, <1>6, <1>7

\* A terminated session stays terminated.
LEMMA TerminatedStays ==
    ASSUME Types, [Next]_vars, NEW s \in Sessions, row[s].status = "terminated"
    PROVE  row'[s].status = "terminated"
<1>0. row \in [Sessions -> Rows] /\ row[s] \in Rows /\ cur \in Sessions
  BY DEF Types, TypeOK
<1>1. ASSUME NEW r \in Rows, r.status = "terminated"
      PROVE  /\ ExpireStale(r).status = "terminated"
             /\ Claimed(r, Us).status = "terminated" /\ Claimed(r, Rival).status = "terminated"
             /\ Released(r, Us).status = "terminated" /\ Released(r, Rival).status = "terminated"
             /\ Tombstoned(r).status = "terminated" /\ Reported(r).status = "terminated"
             /\ Aged(r).status = "terminated"
  BY <1>1 DEF Rows, ExpireStale, Claimed, Released, Tombstoned, Reported, Unclaimed, Aged
<1>2. CASE UNCHANGED row
  BY <1>2
<1>3. CASE ListSessions
  BY <1>0, <1>1, <1>3 DEF ListSessions
<1>4. CASE CallClaim \/ CallRelease \/ CallReport
  BY <1>0, <1>1, <1>4 DEF CallClaim, CallRelease, CallReport
<1>5. CASE QueueStep
  <2>1. PICK t \in Sessions : \/ Enqueue(t) \/ SetSessionStatus(t) \/ Tombstone(t)
                              \/ RivalActs(t) \/ ClaimAges(t)
    BY <1>5 DEF QueueStep
  <2>2. CASE s # t
    BY <1>0, <2>1, <2>2 DEF Enqueue, SetSessionStatus, Tombstone, RivalActs, ClaimAges
  <2>3. CASE s = t
    BY <1>0, <1>1, <2>1, <2>3
       DEF Enqueue, SetSessionStatus, Tombstone, RivalActs, ClaimAges, NeedsWorker
  <2> QED
    BY <2>2, <2>3
<1>6. \/ UNCHANGED row \/ ListSessions \/ CallClaim \/ CallRelease \/ CallReport \/ QueueStep
  BY DEF Next, vars, PassStep, CallStep, ClusterStep, ListPods, GcAndPlan, BeginAction,
         BeginRecycle, BeginCleanup, BeginRecycling, BeginCleaning, EndPass, CallPrepare,
         CallApplySecret, CallCreatePod, CallOnSuspend, CallDeletePod, CallDeleteSecret,
         CallOnTerminate, CallRecycle, CallFails, Crash, KubeletReports, PodKilled,
         PodGone, ImageRollout, CheckpointDone, CheckpointFails, ArtifactAges
<1> QED
  BY <1>2, <1>3, <1>4, <1>5, <1>6

\* Where the stacks that end in a release come from.
LEMMA SpentStackOrigins ==
    ASSUME NEW c \in Stacks, c # <<>>
    PROVE  /\ Tail(c) \in SpentStacks =>
                c \in {<<"recycleDropPin", "release", "deletePod", "deleteSecretForget">>,
                       <<"deletePod", "deleteSecretForget", "release">>,
                       <<"deleteSecretForget", "release">>}
           /\ Tail(c) # TerminateCalls
<1> DEFINE origins == {<<"recycleDropPin", "release", "deletePod", "deleteSecretForget">>,
                       <<"deletePod", "deleteSecretForget", "release">>,
                       <<"deleteSecretForget", "release">>}
<1> DEFINE others == {<<>>,
                      <<"prepare", "applySecret", "createPod">>,
                      <<"applySecret", "createPod">>,
                      <<"createPod">>,
                      <<"deletePod", "deleteSecretForget", "release">>,
                      <<"deletePod", "deleteSecretForget", "onTerminate">>,
                      <<"deleteSecretForget", "onTerminate">>,
                      <<"onTerminate">>,
                      <<"deletePod", "deleteSecretForget">>,
                      <<"deleteSecretForget">>,
                      <<"onTerminate", "deleteSecret">>,
                      <<"deleteSecret">>}
<1>1. c \in origins \/ Tail(c) \in others
  BY StackTails DEF Stacks
<1>2. c \in origins => Tail(c) \in SpentStacks
  BY StackTails DEF SpentStacks
<1>3. \A d \in others : d \notin SpentStacks /\ d # TerminateCalls
  BY DEF SpentStacks, TerminateCalls
<1>4. \A d \in SpentStacks : d # TerminateCalls
  <2>1. TerminateCalls # <<"recycleDropPin", "release", "deletePod", "deleteSecretForget">>
    BY DEF TerminateCalls
  <2>2. /\ TerminateCalls # <<"release", "deletePod", "deleteSecretForget">>
        /\ TerminateCalls # <<"deleteSecretForget", "release">>
        /\ TerminateCalls # <<"release">>
    BY DEF TerminateCalls
  <2> QED
    BY <2>1, <2>2 DEF SpentStacks
<1> QED
  BY <1>1, <1>2, <1>3, <1>4

\* Of the handlers only GiveUp starts with such a stack.
LEMMA SpentPrograms ==
    ASSUME NEW act \in Actions, NEW p
    PROVE  /\ Program(act, p) \in SpentStacks => act = "GiveUp"
           /\ Program(act, p) = TerminateCalls => act = "Terminate"
  BY DEF Program, Actions, SpentStacks, StartWorkerCalls, SuspendCalls, TerminateCalls,
         GiveUpCalls, StartupFailedCalls

\* The other stacks a step can put in place do not.
LEMMA OtherStacks ==
    ASSUME NEW c \in {<<>>, <<"deletePodForget">>, <<"recycleKeepPin">>, DeleteArtifacts,
                      ReportedCalls, Teardown}
    PROVE  c \notin SpentStacks /\ c # TerminateCalls
  BY DEF SpentStacks, TerminateCalls, DeleteArtifacts, ReportedCalls, Teardown

\* The grounds of the plan hold initially.
LEMMA InitInv == Init => Inv
<1> SUFFICES ASSUME Init PROVE Inv
  OBVIOUS
<1>1. Types
  BY InitTypes
<1>2. PlanInv
  BY DEF Init, PlanInv, Agendas
<1>3. <<>> \notin SpentStacks /\ <<>> # TerminateCalls
  BY OtherStacks
<1>4. GroundsInv
  BY <1>3 DEF Init, GroundsInv
<1>5. <<>> # <<"createPod">>
  OBVIOUS
<1>6. PinInv
  BY <1>5 DEF Init, PinInv
<1> QED
  BY <1>1, <1>2, <1>4, <1>6 DEF Inv

\* A step of the pass acts on grounds that stand.
LEMMA PassStepGrounds ==
    ASSUME Types, PlanInv, GroundsInv, PassStep
    PROVE  GroundsInv'
<1>0. <<>> \notin SpentStacks /\ <<>> # TerminateCalls
  BY OtherStacks
<1> USE DEF GroundsInv
<1>1. CASE ListSessions
  <2>1. listed' = row' /\ pc' = "pods" /\ calls' = <<>> /\ plan' = plan
    BY <1>1 DEF ListSessions, Types, CallsInv
  <2>2. \A s \in Sessions : plan[s] = {}
    BY <1>1 DEF ListSessions, PlanInv
  <2> QED
    BY <1>0, <2>1, <2>2
<1>2. CASE ListPods
  <2>1. \A s \in Sessions : pod[s].here /\ pod[s].health = "over" => Spent(pod[s])
    BY DEF Spent
  <2> QED
    BY <1>2, <2>1 DEF ListPods
<1>3. CASE GcAndPlan
  <2>1. PICK created \in [Sessions -> {0, 1}] : plan' = Plan(listed, seen, created)
    BY <1>3 DEF GcAndPlan
  <2>2. \A s \in Sessions :
           /\ "GiveUp" \in plan'[s] => seen[s].here /\ seen[s].health = "over"
           /\ "Terminate" \in plan'[s] => listed[s].status = "terminated"
    BY <2>1, PlanShape DEF Plan
  <2>3. UNCHANGED <<row, pod, cur>> /\ pc = "gc" /\ pc' = "execute" /\ calls' = <<>>
    BY <1>3 DEF GcAndPlan, Types, CallsInv
  <2> QED
    BY <1>0, <2>2, <2>3
<1>4. ASSUME NEW s \in Sessions, BeginAction(s) PROVE GroundsInv'
  <2>1. PICK act \in plan[s] : /\ plan' = [plan EXCEPT ![s] = @ \ {act}]
                               /\ calls' = Program(act, seen[s])
    BY <1>4 DEF BeginAction
  <2>2. act \in Actions /\ \A t \in Sessions : plan'[t] \subseteq plan[t]
    BY <2>1 DEF Types, TypeOK
  <2>3. UNCHANGED <<row, pod>> /\ pc' = "execute" /\ cur' = s
    BY <1>4 DEF BeginAction
  <2>4. calls' \in SpentStacks => Spent(pod'[cur'])
    BY <2>1, <2>2, <2>3, SpentPrograms
  <2>5. calls' = TerminateCalls => row'[cur'].status = "terminated"
    BY <2>1, <2>2, <2>3, SpentPrograms
  <2> QED
    BY <2>2, <2>3, <2>4, <2>5
<1>5. ASSUME NEW s \in Sessions, BeginRecycle(s) \/ BeginCleanup(s) PROVE GroundsInv'
  <2>1. calls' \in {<<"recycleKeepPin">>, DeleteArtifacts}
    BY <1>5 DEF BeginRecycle, BeginCleanup
  <2>2. calls' \notin SpentStacks /\ calls' # TerminateCalls
    BY <2>1, OtherStacks
  <2> QED
    BY <1>5, <2>2 DEF BeginRecycle, BeginCleanup
<1>6. CASE BeginRecycling \/ BeginCleaning
  BY <1>6 DEF BeginRecycling, BeginCleaning
<1>7. CASE EndPass
  BY <1>0, <1>7 DEF EndPass, Forget
<1> QED
  BY <1>1, <1>2, <1>3, <1>4, <1>5, <1>6, <1>7 DEF PassStep

\* A call leaves the grounds of the other actions standing, and a deletion
\* makes those of the release after it.
LEMMA CallStepGrounds ==
    ASSUME Types, PlanInv, GroundsInv, CallStep
    PROVE  GroundsInv'
<1>0. KeepPass /\ calls # <<>> /\ calls \in Stacks /\ pc \notin {"pods", "gc"} /\ cur \in Sessions
  BY CallFrame DEF Types, CallsInv, TypeOK
<1>1. UNCHANGED <<pc, listed, plan, cur>>
  BY <1>0 DEF KeepPass
<1>2. ASSUME NEW s \in Sessions, "GiveUp" \in plan'[s] PROVE Spent(pod'[s])
  <2>1. s # cur
    BY <1>0, <1>1, <1>2 DEF PlanInv
  <2> QED
    BY <1>1, <1>2, <2>1, CallFrame DEF GroundsInv
<1>3. ASSUME NEW s \in Sessions, "Terminate" \in plan'[s] PROVE row'[s].status = "terminated"
  BY <1>1, <1>3, TerminatedStays DEF GroundsInv, Next
<1>4. ASSUME calls' \in SpentStacks PROVE Spent(pod'[cur'])
  <2>1. calls' = Tail(calls)
    BY <1>4, CallFrame, OtherStacks
  <2>2. calls \in {<<"recycleDropPin", "release", "deletePod", "deleteSecretForget">>,
                   <<"deletePod", "deleteSecretForget", "release">>,
                   <<"deleteSecretForget", "release">>}
    BY <1>0, <1>4, <2>1, SpentStackOrigins
  <2>3. CASE calls = <<"deletePod", "deleteSecretForget", "release">>
    <3>1. Head(calls) = "deletePod"
      BY <2>3
    <3>2. CallDeletePod
      BY <3>1 DEF CallStep, Calling, CallClaim, CallPrepare, CallApplySecret, CallCreatePod,
                  CallOnSuspend, CallRelease, CallDeleteSecret, CallOnTerminate, CallReport,
                  CallRecycle
    <3>3. pod' = [pod EXCEPT ![cur].deleting = pod[cur].here]
      BY <3>2 DEF CallDeletePod
    <3>4. pod[cur] \in Pods /\ pod \in [Sessions -> Pods]
      BY <1>0 DEF Types, TypeOK
    <3>5. pod'[cur].here = pod[cur].here /\ pod'[cur].deleting = pod[cur].here
      BY <1>0, <3>3, <3>4 DEF Pods
    <3> QED
      BY <1>1, <3>5 DEF Spent
  <2>4. CASE calls \in {<<"recycleDropPin", "release", "deletePod", "deleteSecretForget">>,
                        <<"deleteSecretForget", "release">>}
    <3>1. Head(calls) \in {"recycleDropPin", "deleteSecretForget"}
      BY <2>4
    <3>2. ~CallCreatePod /\ ~CallDeletePod
      BY <3>1 DEF CallCreatePod, CallDeletePod, Calling
    <3>3. Spent(pod[cur])
      BY <2>4 DEF GroundsInv, SpentStacks
    <3> QED
      BY <1>1, <3>2, <3>3, CallFrame
  <2> QED
    BY <2>2, <2>3, <2>4
<1>5. calls' # TerminateCalls
  <2>1. Tail(calls) # TerminateCalls
    BY <1>0, SpentStackOrigins
  <2> QED
    BY <2>1, CallFrame, OtherStacks
<1> QED
  BY <1>0, <1>1, <1>2, <1>3, <1>4, <1>5 DEF GroundsInv

\* Every step keeps the grounds of the plan.
LEMMA NextGroundsInv == Types /\ PlanInv /\ GroundsInv /\ [Next]_vars => GroundsInv'
<1> SUFFICES ASSUME Types, PlanInv, GroundsInv, [Next]_vars PROVE GroundsInv'
  OBVIOUS
<1>0. <<>> \notin SpentStacks /\ <<>> # TerminateCalls
  BY OtherStacks
<1>1. CASE CallFails
  BY <1>0, <1>1 DEF CallFails, KeepPass, GroundsInv
<1>2. CASE Crash
  BY <1>0, <1>2 DEF Crash, Forget, GroundsInv
<1>3. CASE QueueStep
  <2>1. PassUntouched /\ UNCHANGED pod
    BY <1>3, OutsideFrame DEF QueueStep, Enqueue, SetSessionStatus, Tombstone, RivalActs,
                              ClaimAges
  <2>2. \A s \in Sessions : row[s].status = "terminated" => row'[s].status = "terminated"
    BY TerminatedStays
  <2> QED
    BY <2>1, <2>2 DEF PassUntouched, GroundsInv, Types, TypeOK
<1>4. CASE ClusterStep
  <2>1. PassUntouched /\ UNCHANGED row
    BY <1>4, OutsideFrame DEF ClusterStep, KubeletReports, PodKilled, PodGone, ImageRollout,
                              CheckpointDone, CheckpointFails, ArtifactAges
  <2>2. \A s \in Sessions : Spent(pod[s]) => Spent(pod'[s])
    BY <1>4, SpentStays
  <2> QED
    BY <2>1, <2>2 DEF PassUntouched, GroundsInv, Types, TypeOK
<1>5. CASE UNCHANGED vars
  BY <1>5 DEF vars, GroundsInv
<1> QED
  BY <1>1, <1>2, <1>3, <1>4, <1>5, PassStepGrounds, CallStepGrounds DEF Next

\* Every step keeps the marker and the pin of a pod about to be created in
\* agreement.
LEMMA NextPinInv == Types /\ PinInv /\ [Next]_vars => PinInv'
<1> SUFFICES ASSUME Types, PinInv, [Next]_vars, calls' = <<"createPod">>,
                    secret'[cur'] = "withoutPin"
             PROVE  ~pin'
  BY DEF PinInv
<1>0. /\ <<"createPod">> # <<>> /\ <<"createPod">> # <<"recycleKeepPin">>
      /\ <<"createPod">> # DeleteArtifacts /\ <<"createPod">> # <<"deletePodForget">>
      /\ <<"createPod">> # ReportedCalls /\ <<"createPod">> # Teardown
  BY DEF DeleteArtifacts, ReportedCalls, Teardown
<1>1. ASSUME NEW act \in Actions, NEW p PROVE Program(act, p) # <<"createPod">>
  BY DEF Program, Actions, StartWorkerCalls, SuspendCalls, TerminateCalls, GiveUpCalls,
         StartupFailedCalls
<1>2. CASE PassStep
  <2>1. ASSUME NEW s \in Sessions, BeginAction(s) PROVE FALSE
    BY <1>1, <2>1 DEF BeginAction, Types, TypeOK
  <2>2. ASSUME NEW s \in Sessions, BeginRecycle(s) \/ BeginCleanup(s) PROVE FALSE
    BY <1>0, <2>2 DEF BeginRecycle, BeginCleanup
  <2>3. ~EndPass
    BY <1>0 DEF EndPass, Forget
  <2>4. ~GcAndPlan
    BY <1>0 DEF GcAndPlan, Types, CallsInv
  <2>5. CASE ListSessions \/ ListPods \/ BeginRecycling \/ BeginCleaning
    BY <1>0, <2>5 DEF ListSessions, ListPods, BeginRecycling, BeginCleaning, Types, CallsInv
  <2> QED
    BY <1>2, <2>1, <2>2, <2>3, <2>4, <2>5 DEF PassStep
<1>3. CASE CallStep
  <2>0. calls \in Stacks /\ calls # <<>> /\ cur \in Sessions
    BY <1>3, CallFrame DEF Types, CallsInv, TypeOK
  <2>1. Tail(calls) = <<"createPod">>
    BY <1>0, <1>3, CallFrame
  <2>2. calls = <<"applySecret", "createPod">>
    <3> DEFINE others == {<<>>,
                          <<"prepare", "applySecret", "createPod">>,
                          <<"applySecret", "createPod">>,
                          <<"deletePod", "deleteSecretForget", "release">>,
                          <<"deleteSecretForget", "release">>,
                          <<"release">>,
                          <<"deletePod", "deleteSecretForget", "onTerminate">>,
                          <<"deleteSecretForget", "onTerminate">>,
                          <<"onTerminate">>,
                          <<"release", "deletePod", "deleteSecretForget">>,
                          <<"deletePod", "deleteSecretForget">>,
                          <<"deleteSecretForget">>,
                          <<"onTerminate", "deleteSecret">>,
                          <<"deleteSecret">>}
    <3>1. calls = <<"applySecret", "createPod">> \/ Tail(calls) \in others
      BY <2>0, StackTails DEF Stacks
    <3>2. \A d \in others : d # <<"createPod">>
      OBVIOUS
    <3> QED
      BY <2>1, <3>1, <3>2
  <2>3. Head(calls) = "applySecret"
    BY <2>2
  <2>4. CallApplySecret
    BY <1>3, <2>3 DEF CallStep, Calling, CallClaim, CallPrepare, CallCreatePod,
                      CallOnSuspend, CallRelease, CallDeletePod, CallDeleteSecret,
                      CallOnTerminate, CallReport, CallRecycle
  <2>5. /\ pin' = PinUnder(pin, secret[cur]) /\ cur' = cur
        /\ secret' = [secret EXCEPT ![cur] = IF @ = "absent" THEN "plain" ELSE @]
    BY <2>4 DEF CallApplySecret, KeepPass
  <2>6. secret[cur] = "withoutPin"
    BY <2>0, <2>5 DEF Types, TypeOK
  <2> QED
    BY <2>5, <2>6 DEF PinUnder
<1>4. CASE CallFails \/ Crash
  BY <1>0, <1>4 DEF CallFails, Crash, Forget
<1>5. CASE QueueStep \/ ClusterStep \/ UNCHANGED vars
  <2>1. UNCHANGED <<calls, cur, pin, secret>>
    BY <1>5 DEF vars, QueueStep, ClusterStep, Enqueue, SetSessionStatus, Tombstone,
                RivalActs, ClaimAges, KubeletReports, PodKilled, PodGone, ImageRollout,
                CheckpointDone, CheckpointFails, ArtifactAges, Outside,
                PassUntouched
  <2> QED
    BY <2>1 DEF PinInv
<1> QED
  BY <1>2, <1>3, <1>4, <1>5 DEF Next

\* The inductive invariant.
THEOREM Invariant == Spec => []Inv
<1>1. Inv /\ [Next]_vars => Inv'
  BY NextTypes, NextPlanInv, NextGroundsInv, NextPinInv DEF Inv
<1> QED
  BY InitInv, <1>1, PTL DEF Spec

\* Whatever fails, crashes or interleaves: the operator gives the claim of a
\* session that has not ended back only with the worker stopped, stopping or
\* given up on; a claim that lapsed is the only other way into the queue
\* (execute).
THEOREM ReleaseOrder == Spec => ReleasesLast
<1> DEFINE A == \A s \in Sessions :
                   /\ Ours(row[s]) /\ row[s].status # "terminated"
                   /\ row[s].deadline # "past"
                   /\ row'[s].live /\ row'[s].phase = "pending"
                   => Spent(pod[s])
<1>1. Inv /\ [Next]_vars => [A]_vars
  <2> SUFFICES ASSUME Inv, Next, NEW s \in Sessions,
                      Ours(row[s]), row[s].status # "terminated",
                      row[s].deadline # "past",
                      row'[s].live, row'[s].phase = "pending"
               PROVE  Spent(pod[s])
    BY DEF vars
  <2>0. /\ Types /\ PlanInv /\ GroundsInv
        /\ row \in [Sessions -> Rows] /\ row[s] \in Rows /\ cur \in Sessions
        /\ row[s].live /\ row[s].phase = "claimed" /\ row[s].acceptor = Us
        /\ row[s].status # "terminated"
    BY DEF Inv, Types, TypeOK, Ours, ClaimedBy
  <2>1. CASE UNCHANGED row
    BY <2>0, <2>1
  <2>2. CASE ListSessions
    BY <2>0, <2>2 DEF ListSessions, ExpireStale, IsStale
  <2>3. CASE QueueStep
    <3>1. PICK t \in Sessions : \/ Enqueue(t) \/ SetSessionStatus(t) \/ Tombstone(t)
                                \/ RivalActs(t) \/ ClaimAges(t)
      BY <2>3 DEF QueueStep
    <3>2. CASE Enqueue(t)
      BY <2>0, <3>2 DEF Enqueue
    <3>3. CASE SetSessionStatus(t)
      BY <2>0, <3>3 DEF SetSessionStatus, Rows
    <3>4. CASE Tombstone(t)
      BY <2>0, <3>4 DEF Tombstone, Tombstoned, Unclaimed, Rows
    <3>5. CASE RivalActs(t)
      BY <2>0, <3>5, AcceptorsDistinct
         DEF RivalActs, Claimed, Released, ClaimedBy, CanClaim, IsStale, Rows
    <3>6. CASE ClaimAges(t)
      BY <2>0, <3>6 DEF ClaimAges, Aged, Rows
    <3> QED
      BY <3>1, <3>2, <3>3, <3>4, <3>5, <3>6
  <2>4. CASE CallClaim
    BY <2>0, <2>4 DEF CallClaim, Claimed, Rows
  <2>5. CASE CallReport
    BY <2>0, <2>5 DEF CallReport, ClaimedBy, Reported, Tombstoned, Unclaimed, Rows
  <2>6. CASE CallRelease
    <3>1. s = cur
      BY <2>0, <2>6 DEF CallRelease
    <3>2. calls \in Stacks /\ calls # <<>> /\ Head(calls) = "release"
      BY <2>0, <2>6 DEF CallRelease, Calling, Types, CallsInv
    <3>3. calls \in {<<"release">>, TerminateCalls,
                     <<"release", "deletePod", "deleteSecretForget">>}
      BY <3>2, StackHeads DEF TerminateCalls
    <3>4. calls # TerminateCalls
      BY <2>0, <3>1 DEF GroundsInv
    <3> QED
      BY <2>0, <3>1, <3>3, <3>4 DEF GroundsInv, SpentStacks
  <2>7. \/ UNCHANGED row \/ ListSessions \/ CallClaim \/ CallRelease \/ CallReport \/ QueueStep
    BY DEF Next, PassStep, CallStep, ClusterStep, ListPods, GcAndPlan, BeginAction,
           BeginRecycle, BeginCleanup, BeginRecycling, BeginCleaning, EndPass, CallPrepare,
           CallApplySecret, CallCreatePod, CallOnSuspend, CallDeletePod, CallDeleteSecret,
           CallOnTerminate, CallRecycle, CallFails, Crash, KubeletReports, PodKilled,
           PodGone, ImageRollout, CheckpointDone, CheckpointFails, ArtifactAges
  <2> QED
    BY <2>1, <2>2, <2>3, <2>4, <2>5, <2>6, <2>7
<1> QED
  BY <1>1, Invariant, PTL DEF Spec, ReleasesLast

\* The retry of a crashed restore starts cold, whatever happens between the
\* look at the marker and the creation of the pod (start_worker).
THEOREM RetryWithoutPin == Spec => UnpinnedRetryStartsCold
<1> DEFINE A == \A s \in Sessions :
                   ~pod[s].here /\ pod'[s].here /\ secret[s] = "withoutPin" =>
                       pod'[s].pin = "none"
<1>1. Inv /\ [Next]_vars => [A]_vars
  <2> SUFFICES ASSUME Inv, Next, NEW s \in Sessions,
                      ~pod[s].here, pod'[s].here, secret[s] = "withoutPin"
               PROVE  pod'[s].pin = "none"
    BY DEF vars
  <2>0. pod \in [Sessions -> Pods] /\ pod[s] \in Pods /\ cur \in Sessions /\ pin \in BOOLEAN
    BY DEF Inv, Types, TypeOK
  <2>1. CASE UNCHANGED pod
    BY <2>1
  <2>2. CASE ClusterStep
    <3>1. PICK t \in Sessions :
             \/ KubeletReports(t) \/ PodKilled(t) \/ PodGone(t) \/ ImageRollout(t)
             \/ CheckpointDone(t) \/ CheckpointFails(t) \/ ArtifactAges(t)
      BY <2>2 DEF ClusterStep
    <3>2. t # s => pod'[s] = pod[s]
      BY <2>0, <3>1 DEF KubeletReports, PodKilled, PodGone, ImageRollout, CheckpointDone,
                        CheckpointFails, ArtifactAges
    <3>3. t = s => UNCHANGED pod
      BY <2>0, <3>1 DEF KubeletReports, PodKilled, PodGone, ImageRollout, CheckpointDone,
                        CheckpointFails, ArtifactAges, PodRunning
    <3> QED
      BY <3>2, <3>3
  <2>3. CASE CallDeletePod
    BY <2>0, <2>3 DEF CallDeletePod, Pods
  <2>4. CASE CallCreatePod
    <3>1. s = cur /\ pod'[s] = NewPod
      BY <2>0, <2>4 DEF CallCreatePod
    <3>2. calls = <<"createPod">>
      BY <2>4, StackHeads DEF CallCreatePod, Calling, Inv, Types, CallsInv
    <3>3. ~pin
      BY <3>1, <3>2 DEF Inv, PinInv
    <3>4. NewPod.pin = "none"
      BY <3>3 DEF NewPod, NoPod
    <3> QED
      BY <3>1, <3>4
  <2>5. UNCHANGED pod \/ ClusterStep \/ CallDeletePod \/ CallCreatePod
    BY DEF Next, PassStep, CallStep, QueueStep, ListSessions, ListPods, GcAndPlan,
           BeginAction, BeginRecycle, BeginCleanup, BeginRecycling, BeginCleaning, EndPass,
           CallClaim, CallPrepare, CallApplySecret, CallOnSuspend, CallRelease,
           CallDeleteSecret, CallOnTerminate, CallReport, CallRecycle, CallFails, Crash,
           Enqueue, SetSessionStatus, Tombstone, RivalActs, ClaimAges
  <2> QED
    BY <2>1, <2>2, <2>3, <2>4, <2>5
<1> QED
  BY <1>1, Invariant, PTL DEF Spec, UnpinnedRetryStartsCold

-----------------------------------------------------------------------------
(* Why a suspend that tears a running pod down has its state.  The test of *)
(* on_suspend is of a moment ago; that it still holds needs that a snapshot*)
(* newer than the pod ends the pod, so no second checkpoint replaces it.   *)

\* A worker that will not run again, because it was checkpointed.
Settled(p) == p.here => p.deleting \/ p.health = "succeeded"

\* A snapshot that is newer than the pod belongs to a pod that is settled.
FreshInv == \A s \in Sessions : art[s].snapshot \in {"fresh", "unlabelled"} => Settled(pod[s])

\* What on_suspend left of the handler.
SuspendRest == <<"deletePod", "deleteSecretForget", "release">>

\* Only on_suspend's answer, and a Suspend that found no pod, leave it.
LEMMA SuspendRestOrigins ==
    /\ \A c \in Stacks : c # <<>> /\ Tail(c) = SuspendRest => Head(c) = "onSuspend"
    /\ \A act \in Actions : \A p : Program(act, p) = SuspendRest => ~p.here
    /\ \A c \in {<<>>, <<"deletePodForget">>, <<"recycleKeepPin">>, DeleteArtifacts,
                 ReportedCalls, Teardown} : c # SuspendRest
<1> DEFINE others == {<<>>,
                      <<"prepare", "applySecret", "createPod">>,
                      <<"applySecret", "createPod">>,
                      <<"createPod">>,
                      <<"deleteSecretForget", "release">>,
                      <<"release">>,
                      <<"deletePod", "deleteSecretForget", "onTerminate">>,
                      <<"deleteSecretForget", "onTerminate">>,
                      <<"onTerminate">>,
                      <<"release", "deletePod", "deleteSecretForget">>,
                      <<"deletePod", "deleteSecretForget">>,
                      <<"deleteSecretForget">>,
                      <<"onTerminate", "deleteSecret">>,
                      <<"deleteSecret">>}
<1>1. \A d \in others : d # SuspendRest
  BY DEF SuspendRest
<1>2. ASSUME NEW c \in Stacks, c # <<>>, Tail(c) = SuspendRest
      PROVE  Head(c) = "onSuspend"
  <2>1. \/ c = <<"onSuspend", "deletePod", "deleteSecretForget", "release">>
        \/ Tail(c) \in others
    BY <1>2, StackTails DEF Stacks
  <2>2. c = <<"onSuspend", "deletePod", "deleteSecretForget", "release">>
    <3> HIDE DEF others
    <3> QED
      BY <1>1, <1>2, <2>1
  <2> QED
    BY <2>2
<1>3. ASSUME NEW act \in Actions, NEW p, Program(act, p) = SuspendRest
      PROVE  ~p.here
  BY <1>3 DEF Program, Actions, SuspendRest, StartWorkerCalls, SuspendCalls, TerminateCalls,
              GiveUpCalls, StartupFailedCalls
<1>4. \A c \in {<<>>, <<"deletePodForget">>, <<"recycleKeepPin">>, DeleteArtifacts,
                ReportedCalls, Teardown} : c # SuspendRest
  BY DEF SuspendRest, DeleteArtifacts, ReportedCalls, Teardown
<1> QED
  BY <1>2, <1>3, <1>4

\* No provider operation makes a snapshot newer than the pod; on_suspend only
\* labels one that is, and a new pod leaves all behind.
LEMMA SnapshotOps ==
    ASSUME NEW a \in Artifacts, NEW p \in Pods, NEW mounted \in BOOLEAN
    PROVE  /\ DropVolume(a, mounted).snapshot = a.snapshot
           /\ Prepare(a).snapshot = a.snapshot
           /\ HalfOnTerminate(a).snapshot = a.snapshot
           /\ WithoutPod(a).snapshot = a.snapshot
           /\ OnTerminate(a, mounted).snapshot \in {a.snapshot, "none"}
           /\ UnderNewPod(a).snapshot \notin {"fresh", "unlabelled"}
           /\ OnSuspend(a, p).art.snapshot \in {"fresh", "unlabelled"} =>
                a.snapshot \in {"fresh", "unlabelled"}
<1>1. /\ DropVolume(a, mounted).snapshot = a.snapshot
      /\ Prepare(a).snapshot = a.snapshot
      /\ HalfOnTerminate(a).snapshot = a.snapshot
      /\ WithoutPod(a).snapshot = a.snapshot
  BY DEF DropVolume, Prepare, HalfOnTerminate, DropTrigger, WithoutPod, Artifacts
<1>2. OnTerminate(a, mounted).snapshot \in {a.snapshot, "none"}
  BY <1>1 DEF OnTerminate, DropTrigger, DropSnapshot, Artifacts
<1>3. UnderNewPod(a).snapshot \notin {"fresh", "unlabelled"}
  BY DEF UnderNewPod, Artifacts
<1>4. GkeSuspend(a, p).art.snapshot \in {"fresh", "unlabelled"} =>
        a.snapshot \in {"fresh", "unlabelled"}
  BY DEF GkeSuspend, Outcome, Artifacts
<1>5. FilesystemSuspend(a).art.snapshot = a.snapshot
  BY DEF FilesystemSuspend, Outcome, Artifacts
<1>6. OnSuspend(a, p).art.snapshot \in {"fresh", "unlabelled"} =>
        a.snapshot \in {"fresh", "unlabelled"}
  BY <1>4, <1>5 DEF OnSuspend, Outcome
<1> QED
  BY <1>1, <1>2, <1>3, <1>6

\* A settled worker stays so, whatever the cluster does to it.
LEMMA SettledStays ==
    ASSUME Types, ClusterStep, NEW s \in Sessions, Settled(pod[s])
    PROVE  Settled(pod'[s])
<1>1. PICK t \in Sessions :
         \/ KubeletReports(t) \/ PodKilled(t) \/ PodGone(t) \/ ImageRollout(t)
         \/ CheckpointDone(t) \/ CheckpointFails(t) \/ ArtifactAges(t)
  BY DEF ClusterStep
<1>2. pod[s] \in Pods /\ pod[t] \in Pods /\ pod \in [Sessions -> Pods]
  BY DEF Types, TypeOK
<1> USE DEF Settled
<1>3. CASE s # t
  BY <1>1, <1>2, <1>3 DEF KubeletReports, PodKilled, PodGone, ImageRollout,
                          CheckpointDone, CheckpointFails, ArtifactAges
<1>4. ASSUME s = t, KubeletReports(t) PROVE FALSE
  <2>1. pod[s].here /\ ~pod[s].deleting
    BY <1>4 DEF KubeletReports
  <2>2. pod[s].health = "succeeded"
    BY <2>1
  <2>3. PICK h \in Healths :
          \/ <<pod[s].health, h>> \in HealthStep
          \/ pod[s].health \in RunningHealths
    BY <1>4 DEF KubeletReports
  <2> QED
    BY <2>2, <2>3 DEF HealthStep, RunningHealths
<1>5. CASE s = t /\ (PodKilled(t) \/ PodGone(t))
  BY <1>2, <1>5 DEF PodKilled, PodGone, NoPod, Pods
<1>6. CASE s = t /\ ImageRollout(t)
  BY <1>2, <1>6 DEF ImageRollout, Pods
<1>7. CASE s = t /\ CheckpointDone(t)
  BY <1>2, <1>7 DEF CheckpointDone, Pods
<1>8. CASE s = t /\ (CheckpointFails(t) \/ ArtifactAges(t))
  BY <1>8 DEF CheckpointFails, ArtifactAges
<1> QED
  BY <1>1, <1>3, <1>4, <1>5, <1>6, <1>7, <1>8

\* Every step keeps a pod with a newer snapshot settled.
LEMMA NextFreshInv == Types /\ FreshInv /\ [Next]_vars => FreshInv'
<1> SUFFICES ASSUME Types, FreshInv, [Next]_vars, NEW s \in Sessions,
                    art'[s].snapshot \in {"fresh", "unlabelled"}
             PROVE  Settled(pod'[s])
  BY DEF FreshInv
<1>0. /\ art \in [Sessions -> Artifacts] /\ art[s] \in Artifacts /\ art[cur] \in Artifacts
      /\ pod \in [Sessions -> Pods] /\ pod[s] \in Pods /\ pod[cur] \in Pods
      /\ pod[cur].here \in BOOLEAN /\ seen[cur] \in Pods /\ cur \in Sessions
  BY DEF Types, TypeOK, Pods
<1>a. art[s].snapshot \in {"fresh", "unlabelled"} => Settled(pod[s])
  BY DEF FreshInv
<1>1. CASE UNCHANGED <<art, pod>>
  BY <1>1, <1>a
<1>2. CASE GcAndPlan
  <2>1. pod[s].here \in BOOLEAN /\ UNCHANGED pod
    BY <1>0, <1>2 DEF GcAndPlan, Pods
  <2>2. art'[s] = art[s] \/ art'[s] = DropVolume(art[s], pod[s].here)
    BY <1>0, <1>2 DEF GcAndPlan
  <2>3. art'[s].snapshot = art[s].snapshot
    BY <1>0, <2>1, <2>2, SnapshotOps
  <2> QED
    BY <1>a, <2>1, <2>3
<1>3. CASE CallPrepare \/ CallOnSuspend \/ CallOnTerminate \/ CallFails
  <2>1. UNCHANGED pod
    BY <1>3 DEF CallPrepare, CallOnSuspend, CallOnTerminate, CallFails
  <2>2. \/ art'[s] = art[s]
        \/ s = cur /\ art'[s] \in {Prepare(art[s]), OnSuspend(art[s], seen[s]).art,
                                   OnTerminate(art[s], pod[s].here), HalfOnTerminate(art[s])}
    BY <1>0, <1>3 DEF CallPrepare, CallOnSuspend, CallOnTerminate, CallFails
  <2>3. art[s].snapshot \in {"fresh", "unlabelled"}
    BY <1>0, <2>2, SnapshotOps
  <2> QED
    BY <1>a, <2>1, <2>3
<1>4. CASE CallCreatePod
  <2>1. CASE UNCHANGED <<pod, art>>
    BY <2>1, <1>1
  <2>2. CASE art' = [art EXCEPT ![cur] = UnderNewPod(@)] /\ pod' = [pod EXCEPT ![cur] = NewPod]
    <3>1. s # cur
      BY <1>0, <2>2, SnapshotOps
    <3> QED
      BY <1>0, <1>a, <2>2, <3>1
  <2> QED
    BY <1>4, <2>1, <2>2 DEF CallCreatePod
<1>5. CASE CallDeletePod
  <2>1. UNCHANGED art /\ pod' = [pod EXCEPT ![cur].deleting = pod[cur].here]
    BY <1>5 DEF CallDeletePod
  <2> QED
    BY <1>0, <1>a, <2>1 DEF Settled, Pods
<1>6. CASE ClusterStep
  <2>1. PICK t \in Sessions :
           \/ KubeletReports(t) \/ PodKilled(t) \/ PodGone(t) \/ ImageRollout(t)
           \/ CheckpointDone(t) \/ CheckpointFails(t) \/ ArtifactAges(t)
    BY <1>6 DEF ClusterStep
  <2>2. CASE CheckpointDone(t)
    <3>1. s # t => art'[s] = art[s]
      BY <1>0, <2>2 DEF CheckpointDone
    <3>2. s = t => pod'[s].health = "succeeded"
      BY <1>0, <2>2 DEF CheckpointDone, Pods
    <3> QED
      BY <1>6, <1>a, <3>1, <3>2, SettledStays DEF Settled
  <2>3. CASE CheckpointFails(t) \/ ArtifactAges(t)
    BY <1>0, <1>a, <2>3 DEF CheckpointFails, ArtifactAges, Artifacts
  <2>4. CASE PodGone(t)
    <3>1. art'[s] = art[s] \/ art'[s] = WithoutPod(art[s])
      BY <1>0, <2>4 DEF PodGone
    <3> QED
      BY <1>0, <1>6, <1>a, <3>1, SnapshotOps, SettledStays
  <2>5. CASE KubeletReports(t) \/ PodKilled(t) \/ ImageRollout(t)
    BY <1>6, <1>a, <2>5, SettledStays DEF KubeletReports, PodKilled, ImageRollout
  <2> QED
    BY <2>1, <2>2, <2>3, <2>4, <2>5
<1> QED
  BY <1>1, <1>2, <1>3, <1>4, <1>5, <1>6
     DEF Next, vars, PassStep, CallStep, QueueStep, ListSessions, ListPods, BeginAction,
         BeginRecycle, BeginCleanup, BeginRecycling, BeginCleaning, EndPass, CallClaim,
         CallApplySecret, CallRelease, CallDeleteSecret, CallReport, CallRecycle, Crash,
         Enqueue, SetSessionStatus, Tombstone, RivalActs, ClaimAges

\* What on_suspend answers of a running pod: the snapshot is newer, or the
\* checkpoint is given up.
LEMMA ReadyMeansSaved ==
    ASSUME NEW a \in Artifacts, NEW p \in Pods, PodRunning(p),
           GkeSuspend(a, p).result = "Ready"
    PROVE  GkeSuspend(a, p).art.snapshot = "fresh" \/ GkeSuspend(a, p).art.trigger = "stuck"
<1> USE DEF Outcome, Artifacts
<1>1. CASE a.snapshot = "fresh"
  BY <1>1 DEF GkeSuspend
<1>2. CASE a.snapshot # "fresh" /\ a.trigger = "none"
  BY <1>2 DEF GkeSuspend
<1>3. CASE a.snapshot = "unlabelled" /\ a.trigger # "none"
  BY <1>3 DEF GkeSuspend
<1>4. CASE a.snapshot \in {"none", "old"} /\ a.trigger # "none"
  BY <1>4 DEF GkeSuspend
<1> QED
  BY <1>1, <1>2, <1>3, <1>4

\* Every step keeps the state of a suspend that goes on.
LEMMA NextSuspendSaved ==
    Types /\ FreshInv /\ SuspendNeedsFreshSnapshot /\ [Next]_vars
        => SuspendNeedsFreshSnapshot'
<1> SUFFICES ASSUME Types, FreshInv, SuspendNeedsFreshSnapshot, [Next]_vars,
                    Policy = "GkeSnapshot", calls' = SuspendRest, PodRunning(seen'[cur'])
             PROVE  art'[cur'].snapshot = "fresh" \/ art'[cur'].trigger \in {"stuck", "failed"}
  BY DEF SuspendNeedsFreshSnapshot, SuspendRest
<1>0. /\ art \in [Sessions -> Artifacts] /\ art[cur] \in Artifacts
      /\ pod \in [Sessions -> Pods] /\ pod[cur] \in Pods
      /\ seen \in [Sessions -> Pods] /\ seen[cur] \in Pods /\ cur \in Sessions
      /\ calls \in Stacks
  BY DEF Types, TypeOK, CallsInv
<1>1. <<>> # SuspendRest
  BY DEF SuspendRest
<1>2. CASE PassStep
  <2>1. ASSUME NEW s \in Sessions, BeginAction(s) PROVE FALSE
    <3>1. PICK act \in Actions : calls' = Program(act, seen[s])
      BY <2>1 DEF BeginAction, Types, TypeOK
    <3>2. ~seen[s].here
      BY <3>1, SuspendRestOrigins
    <3>3. UNCHANGED seen /\ cur' = s
      BY <2>1 DEF BeginAction
    <3> QED
      BY <3>2, <3>3 DEF PodRunning
  <2>2. ASSUME NEW s \in Sessions, BeginRecycle(s) \/ BeginCleanup(s) PROVE FALSE
    BY <2>2, SuspendRestOrigins DEF BeginRecycle, BeginCleanup
  <2>3. ~EndPass
    BY <1>1 DEF EndPass, Forget
  <2>4. ~ListSessions /\ ~ListPods /\ ~GcAndPlan /\ ~BeginRecycling /\ ~BeginCleaning
    BY <1>1 DEF ListSessions, ListPods, GcAndPlan, BeginRecycling, BeginCleaning, Types,
                CallsInv
  <2> QED
    BY <1>2, <2>1, <2>2, <2>3, <2>4 DEF PassStep
<1>3. CASE CallStep
  <2>1. KeepPass /\ calls # <<>> /\ Tail(calls) = SuspendRest
    BY <1>3, CallFrame, SuspendRestOrigins
  <2>2. Head(calls) = "onSuspend"
    BY <1>0, <2>1, SuspendRestOrigins
  <2>3. CallOnSuspend
    BY <1>3, <2>2 DEF CallStep, Calling, CallClaim, CallPrepare, CallCreatePod,
                      CallApplySecret, CallRelease, CallDeletePod, CallDeleteSecret,
                      CallOnTerminate, CallReport, CallRecycle
  <2>4. UNCHANGED <<cur, seen>>
    BY <2>1, <2>3 DEF KeepPass, CallOnSuspend, Return
  <2>5. /\ GkeSuspend(art[cur], seen[cur]).result = "Ready"
        /\ art' = [art EXCEPT ![cur] = GkeSuspend(art[cur], seen[cur]).art]
    BY <1>1, <2>3 DEF CallOnSuspend, OnSuspend, Return
  <2> QED
    BY <1>0, <2>4, <2>5, ReadyMeansSaved
<1>4. CASE CallFails \/ Crash
  BY <1>1, <1>4 DEF CallFails, Crash, Forget
<1>5. CASE QueueStep \/ UNCHANGED vars
  <2>1. UNCHANGED <<calls, seen, cur, art>>
    BY <1>5, OutsideFrame DEF PassUntouched, vars, QueueStep, Enqueue, SetSessionStatus,
                              Tombstone, RivalActs, ClaimAges
  <2> QED
    BY <2>1 DEF SuspendNeedsFreshSnapshot, SuspendRest
<1>6. CASE ClusterStep
  <2>1. UNCHANGED <<calls, seen, cur>>
    BY <1>6, OutsideFrame DEF PassUntouched
  <2>2. art[cur].snapshot = "fresh" \/ art[cur].trigger \in {"stuck", "failed"}
    BY <2>1 DEF SuspendNeedsFreshSnapshot, SuspendRest
  <2>3. PICK t \in Sessions :
           \/ KubeletReports(t) \/ PodKilled(t) \/ PodGone(t) \/ ImageRollout(t)
           \/ CheckpointDone(t) \/ CheckpointFails(t) \/ ArtifactAges(t)
    BY <1>6 DEF ClusterStep
  <2>4. CASE t # cur
    BY <1>0, <2>1, <2>2, <2>3, <2>4 DEF KubeletReports, PodKilled, PodGone, ImageRollout,
                             CheckpointDone, CheckpointFails, ArtifactAges
  <2>5. CASE t = cur /\ CheckpointDone(t)
    <3>1. ~Settled(pod[cur])
      BY <2>5 DEF CheckpointDone, PodRunning, Settled, RunningHealths
    <3>2. art[cur].snapshot # "fresh"
      BY <1>0, <3>1 DEF FreshInv
    <3>3. art'[cur].trigger = art[cur].trigger
      BY <1>0, <2>5 DEF CheckpointDone, Artifacts
    <3> QED
      BY <2>1, <2>2, <3>2, <3>3
  <2>6. CASE t = cur /\ (CheckpointFails(t) \/ ArtifactAges(t) \/ PodGone(t))
    BY <1>0, <2>1, <2>2, <2>6 DEF CheckpointFails, ArtifactAges, PodGone, WithoutPod, Artifacts
  <2>7. CASE KubeletReports(t) \/ PodKilled(t) \/ ImageRollout(t)
    BY <2>1, <2>2, <2>7 DEF KubeletReports, PodKilled, ImageRollout
  <2> QED
    BY <2>3, <2>4, <2>5, <2>6, <2>7
<1> QED
  BY <1>2, <1>3, <1>4, <1>5, <1>6 DEF Next

\* A suspend that goes on to tear down a pod it saw running has its state in
\* a snapshot newer than that pod, or gave the checkpoint up, whatever the
\* cluster does between the answer and the deletion
\* (GkeSnapshotProvider::on_suspend, Action::Suspend in execute).
THEOREM StateSaved == Spec => []SuspendNeedsFreshSnapshot
<1> DEFINE I == Types /\ FreshInv /\ SuspendNeedsFreshSnapshot
<1>1. Init => I
  <2> SUFFICES ASSUME Init PROVE I
    OBVIOUS
  <2>1. FreshInv
    BY DEF Init, FreshInv, NoArtifacts
  <2>2. SuspendNeedsFreshSnapshot
    BY SuspendRestOrigins DEF Init, SuspendNeedsFreshSnapshot, SuspendRest
  <2> QED
    BY <2>1, <2>2, InitTypes
<1>2. I /\ [Next]_vars => I'
  BY NextTypes, NextFreshInv, NextSuspendSaved
<1> QED
  BY <1>1, <1>2, PTL DEF Spec

-----------------------------------------------------------------------------
(* Why no pod that cannot start is torn down before its report is taken.   *)
(* A session to serve is torn down only by the action for its pod, and all *)
(* but the report's want a pod that has started, which no cluster undoes.  *)
(* The recycle loop of GkeSnapshot acts on the listed pod by name: one     *)
(* that ran has started or is gone, unless this very pass replaced it and  *)
(* does not know, because the answer to the creation was lost.             *)

\* One of our claims on a session to serve, as a row.
ToServe(r) == Ours(r) /\ NeedsWorker(r)

\* A worker that has started, or is on its way out: it will not fail to start.
Begun(p) == p.here => p.deleting \/ p.health \notin {"starting", "unstarted"}

\* The pod of this session may be torn down without a report.
Sparing(s) == ToServe(row[s]) => Begun(pod[s])

\* The actions that tear down, and what of their calls still will.
Teardowns == {"Suspend", "Terminate", "GiveUp", "ReplaceDriftedPod",
              "ReplaceSucceededPod", "DeleteOrphanPod"}

TeardownStacks == {
    <<"onSuspend", "deletePod", "deleteSecretForget", "release">>,
    <<"deletePod", "deleteSecretForget", "release">>,
    <<"release", "deletePod", "deleteSecretForget", "onTerminate">>,
    <<"deletePod", "deleteSecretForget", "onTerminate">>,
    <<"recycleDropPin", "release", "deletePod", "deleteSecretForget">>,
    <<"release", "deletePod", "deleteSecretForget">>,
    <<"deletePod", "deleteSecretForget">>,
    <<"deletePodForget", "onTerminate", "deleteSecret">>,
    <<"deletePod">>,
    <<"recycleKeepPin">>,
    <<"deletePodForget">>}

\* No call fails where the recycle loop is in play.
RecyclesAsListed == Policy = "GkeSnapshot" => "badcall" \notin Disturbances

\* From the listing to the call: a teardown spares what has no report yet.
AckInv ==
    /\ pc \in {"pods", "gc"} => \A s \in Sessions :
          ToServe(row[s]) => ToServe(listed[s])
    /\ pc = "gc" => \A s \in Sessions :
          seen[s].here /\ seen[s].health \notin {"starting", "unstarted"} => Begun(pod[s])
    /\ \A s \in Sessions : plan[s] \cap Teardowns # {} => Sparing(s)
    /\ calls \in TeardownStacks => Sparing(cur)
    /\ pc = "execute" /\ Policy = "GkeSnapshot" => \A s \in Sessions :
          PodRunning(seen[s]) => Begun(pod[s])
    /\ pc = "recycle" => \A s \in left : Sparing(s)
    /\ pc = "recycle" /\ calls # <<>> => cur \notin left

\* The planner tears a session we serve down only over a pod that started.
LEMMA TeardownPlans ==
    ASSUME NEW rows, NEW pods, NEW created, NEW s \in Sessions,
           PlanFor(rows, pods, created, s) \cap Teardowns # {}
    PROVE  \/ ~ToServe(rows[s])
           \/ pods[s].here /\ pods[s].health \notin {"starting", "unstarted"}
<1>1. ASSUME ToServe(rows[s])
      PROVE  pods[s].here /\ pods[s].health \notin {"starting", "unstarted"}
  <2>1. PlanForWorker(rows[s], pods[s]) \cap Teardowns # {}
    BY <1>1 DEF ToServe, PlanFor, PlanForOurs, NeedsWorker
  <2>2. IfDue(rows[s], "Renew") \cap Teardowns = {}
    BY DEF IfDue, Teardowns
  <2>3. CASE ~pods[s].here
    BY <2>1, <2>3 DEF PlanForWorker, Teardowns
  <2>4. CASE pods[s].here /\ pods[s].health = "unstarted"
    <3>1. PlanForWorker(rows[s], pods[s]) = IfDue(rows[s], "Renew") \cup {"StartupFailed"}
      BY <2>4 DEF PlanForWorker
    <3> QED
      BY <2>1, <2>2, <3>1 DEF Teardowns
  <2>5. CASE pods[s].here /\ pods[s].health = "starting"
    <3>1. PlanForWorker(rows[s], pods[s]) = IfDue(rows[s], "Renew")
      BY <2>5 DEF PlanForWorker
    <3> QED
      BY <2>1, <2>2, <3>1
  <2> QED
    BY <2>3, <2>4, <2>5
<1> QED
  BY <1>1

\* Where the stacks that tear down come from.
LEMMA TeardownOrigins ==
    /\ \A c \in Stacks : c # <<>> /\ Tail(c) \in TeardownStacks =>
          c \in TeardownStacks
    /\ \A act \in Actions : \A p : Program(act, p) \in TeardownStacks => act \in Teardowns
    /\ <<>> \notin TeardownStacks /\ DeleteArtifacts \notin TeardownStacks
    /\ \A c \in TeardownStacks :
          /\ c # <<"claim">> /\ c # <<"claim", "prepare", "applySecret", "createPod">>
          /\ c # <<"createPod">>
<1> DEFINE others == {<<>>,
                      <<"prepare", "applySecret", "createPod">>,
                      <<"applySecret", "createPod">>,
                      <<"createPod">>,
                      <<"deleteSecretForget", "release">>,
                      <<"release">>,
                      <<"deleteSecretForget", "onTerminate">>,
                      <<"onTerminate">>,
                      <<"deleteSecretForget">>,
                      <<"onTerminate", "deleteSecret">>,
                      <<"deleteSecret">>}
<1>1. \A d \in others : d \notin TeardownStacks
  BY DEF TeardownStacks
<1>2. ASSUME NEW c \in Stacks, c # <<>>, Tail(c) \in TeardownStacks
      PROVE  c \in TeardownStacks
  <2>1. c \in TeardownStacks \/ Tail(c) \in others
    BY <1>2, StackTails DEF Stacks, TeardownStacks
  <2> HIDE DEF others
  <2> QED
    BY <1>1, <1>2, <2>1
<1>3. ASSUME NEW act \in Actions, NEW p, Program(act, p) \in TeardownStacks
      PROVE  act \in Teardowns
  <2>1. act \in {"Claim", "StartWorker", "Renew", "StartupFailed"} =>
          Program(act, p) \in {<<"claim", "prepare", "applySecret", "createPod">>,
                               <<"claim">>, <<"report">>}
    BY DEF Program, StartWorkerCalls, StartupFailedCalls
  <2>2. \A c \in {<<"claim", "prepare", "applySecret", "createPod">>, <<"claim">>,
                  <<"report">>} : c \notin TeardownStacks
    BY DEF TeardownStacks
  <2> QED
    BY <1>3, <2>1, <2>2 DEF Actions, Teardowns
<1>4. DeleteArtifacts \in others
  BY DEF DeleteArtifacts
<1>5. \A c \in TeardownStacks :
          /\ c # <<"claim">> /\ c # <<"claim", "prepare", "applySecret", "createPod">>
          /\ c # <<"createPod">>
  BY DEF TeardownStacks
<1> QED
  BY <1>1, <1>2, <1>3, <1>4, <1>5

\* A worker that has started is never one that cannot start.
LEMMA BegunStays ==
    ASSUME Types, ClusterStep, NEW s \in Sessions, Begun(pod[s])
    PROVE  Begun(pod'[s])
<1>1. PICK t \in Sessions :
         \/ KubeletReports(t) \/ PodKilled(t) \/ PodGone(t) \/ ImageRollout(t)
         \/ CheckpointDone(t) \/ CheckpointFails(t) \/ ArtifactAges(t)
  BY DEF ClusterStep
<1>2. pod[s] \in Pods /\ pod[t] \in Pods /\ pod \in [Sessions -> Pods]
  BY DEF Types, TypeOK
<1> USE DEF Begun
<1>3. CASE s # t
  BY <1>1, <1>2, <1>3 DEF KubeletReports, PodKilled, PodGone, ImageRollout,
                          CheckpointDone, CheckpointFails, ArtifactAges
<1>4. CASE s = t /\ KubeletReports(t)
  <2>1. pod[s].here /\ ~pod[s].deleting /\ pod[s].health \notin {"starting", "unstarted"}
    BY <1>4 DEF KubeletReports
  <2>2. PICK h \in Healths :
          /\ \/ <<pod[s].health, h>> \in HealthStep
             \/ pod[s].health \in RunningHealths /\ h = "failed"
          /\ \/ pod' = [pod EXCEPT ![s].health = h]
             \/ pod' = [pod EXCEPT ![s].health = h, ![s].pin = "restored"]
    BY <1>4 DEF KubeletReports
  <2>3. h \notin {"starting", "unstarted"}
    BY <2>1, <2>2 DEF HealthStep
  <2>4. pod'[s].health = h
    BY <1>2, <2>2 DEF Pods
  <2> QED
    BY <2>3, <2>4
<1>5. CASE s = t /\ (PodKilled(t) \/ PodGone(t))
  BY <1>2, <1>5 DEF PodKilled, PodGone, NoPod, Pods
<1>6. CASE s = t /\ ImageRollout(t)
  BY <1>2, <1>6 DEF ImageRollout, Pods
<1>7. CASE s = t /\ CheckpointDone(t)
  BY <1>2, <1>7 DEF CheckpointDone, Pods
<1>8. CASE s = t /\ (CheckpointFails(t) \/ ArtifactAges(t))
  BY <1>8 DEF CheckpointFails, ArtifactAges
<1> QED
  BY <1>1, <1>3, <1>4, <1>5, <1>6, <1>7, <1>8

\* No operation of the queue but our claim makes a row one to serve.
LEMMA ToServeOps ==
    ASSUME NEW r \in Rows, ~ToServe(r)
    PROVE  /\ ~ToServe(ExpireStale(r)) /\ ~ToServe(Tombstoned(r)) /\ ~ToServe(Reported(r))
           /\ ~ToServe(Released(r, Us)) /\ ~ToServe(Released(r, Rival))
           /\ ~ToServe(Claimed(r, Rival)) /\ ~ToServe(Aged(r))
           /\ ~ToServe(FreshRow("pending"))
           /\ r.status = "pending" => ~ToServe([r EXCEPT !.status = "running"])
           /\ ~ToServe([r EXCEPT !.status = "suspended"])
           /\ ~ToServe([r EXCEPT !.status = "terminated"])
<1> USE DEF ToServe, Ours, ClaimedBy, NeedsWorker, Rows
<1>1. ~ToServe(Unclaimed(r)) /\ ~ToServe(FreshRow("pending"))
  BY DEF Unclaimed, FreshRow
<1>2. ~ToServe(ExpireStale(r)) /\ ~ToServe(Released(r, Us)) /\ ~ToServe(Released(r, Rival))
  BY <1>1 DEF ExpireStale, Released
<1>3. ~ToServe(Tombstoned(r))
  BY DEF Tombstoned, Unclaimed
<1>4. ~ToServe(Reported(r))
  BY DEF Reported, Tombstoned, Unclaimed
<1>5. ~ToServe(Claimed(r, Rival))
  BY AcceptorsDistinct DEF Claimed
<1>6. ~ToServe(Aged(r))
  BY DEF Aged
<1>7. /\ r.status = "pending" => ~ToServe([r EXCEPT !.status = "running"])
      /\ ~ToServe([r EXCEPT !.status = "suspended"])
      /\ ~ToServe([r EXCEPT !.status = "terminated"])
  OBVIOUS
<1> QED
  BY <1>1, <1>2, <1>3, <1>4, <1>5, <1>6, <1>7

\* Only a claim of ours makes a session one to serve.
LEMMA ServingStays ==
    ASSUME Types, Next, NEW s \in Sessions, ~ToServe(row[s])
    PROVE  ToServe(row'[s]) => CallClaim /\ s = cur
<1>0. row \in [Sessions -> Rows] /\ row[s] \in Rows /\ cur \in Sessions
  BY DEF Types, TypeOK
<1>1. CASE UNCHANGED row
  BY <1>1
<1>2. CASE ListSessions
  BY <1>0, <1>2, ToServeOps DEF ListSessions
<1>3. CASE CallClaim
  <2>1. s # cur => row'[s] = row[s]
    BY <1>0, <1>3 DEF CallClaim
  <2> QED
    BY <1>3, <2>1
<1>4. CASE CallRelease \/ CallReport
  <2>1. row'[s] \in {row[s], Released(row[s], Us), Reported(row[s])}
    BY <1>0, <1>4 DEF CallRelease, CallReport
  <2> QED
    BY <1>0, <2>1, ToServeOps
<1>5. CASE QueueStep
  <2>1. PICK t \in Sessions : \/ Enqueue(t) \/ SetSessionStatus(t) \/ Tombstone(t)
                              \/ RivalActs(t) \/ ClaimAges(t)
    BY <1>5 DEF QueueStep
  <2>2. \/ row'[s] = row[s]
        \/ row'[s] \in {FreshRow("pending"), Tombstoned(row[s]), Claimed(row[s], Rival),
                        Released(row[s], Rival), Aged(row[s]),
                        [row[s] EXCEPT !.status = "suspended"],
                        [row[s] EXCEPT !.status = "terminated"]}
        \/ row[s].status = "pending" /\ row'[s] = [row[s] EXCEPT !.status = "running"]
    BY <1>0, <2>1 DEF Enqueue, SetSessionStatus, Tombstone, RivalActs, ClaimAges
  <2> QED
    BY <1>0, <2>2, ToServeOps
<1>6. \/ UNCHANGED row \/ ListSessions \/ CallClaim \/ CallRelease \/ CallReport \/ QueueStep
  BY DEF Next, PassStep, CallStep, ClusterStep, ListPods, GcAndPlan, BeginAction,
         BeginRecycle, BeginCleanup, BeginRecycling, BeginCleaning, EndPass, CallPrepare,
         CallApplySecret, CallCreatePod, CallOnSuspend, CallDeletePod, CallDeleteSecret,
         CallOnTerminate, CallRecycle, CallFails, Crash, KubeletReports, PodKilled,
         PodGone, ImageRollout, CheckpointDone, CheckpointFails, ArtifactAges
<1> QED
  BY <1>1, <1>2, <1>3, <1>4, <1>5, <1>6

\* Only start_worker undoes a session's grounds for a teardown.
LEMMA SparingStays ==
    ASSUME Types, Next, NEW s \in Sessions, Sparing(s)
    PROVE  \/ ToServe(row'[s]) => Begun(pod'[s])
           \/ s = cur /\ (CallClaim \/ CallCreatePod)
<1>0. pod \in [Sessions -> Pods] /\ pod[s] \in Pods /\ cur \in Sessions
  BY DEF Types, TypeOK
<1>1. CASE ~ToServe(row[s])
  BY <1>1, ServingStays
<1>2. CASE Begun(pod[s])
  <2>1. CASE ClusterStep
    BY <1>2, <2>1, BegunStays
  <2>2. CASE CallDeletePod
    <3>1. \/ pod'[s].deleting = pod[s].here /\ pod'[s].here = pod[s].here
          \/ pod'[s] = pod[s]
      BY <1>0, <2>2 DEF CallDeletePod, Pods
    <3> QED
      BY <1>2, <3>1 DEF Sparing, Begun
  <2>3. CASE CallCreatePod
    BY <1>0, <1>2, <2>3 DEF CallCreatePod
  <2>4. CASE UNCHANGED pod
    BY <1>2, <2>4 DEF Sparing
  <2>5. ClusterStep \/ CallDeletePod \/ CallCreatePod \/ UNCHANGED pod
    BY CallFrame DEF Next, PassStep, QueueStep, ListSessions, ListPods, GcAndPlan,
       BeginAction, BeginRecycle, BeginCleanup, BeginRecycling, BeginCleaning, EndPass,
       CallFails, Crash, Enqueue, SetSessionStatus, Tombstone, RivalActs, ClaimAges
  <2> QED
    BY <2>1, <2>2, <2>3, <2>4, <2>5
<1> QED
  BY <1>1, <1>2 DEF Sparing

\* A step of the pass tears down on grounds that stand.
LEMMA PassStepAck ==
    ASSUME RecyclesAsListed, Types, PlanInv, AckInv, PassStep
    PROVE  AckInv'
<1>0. /\ pc \in {"idle", "pods", "gc"} => calls = <<>>
      /\ <<>> \notin TeardownStacks
  BY TeardownOrigins DEF Types, CallsInv
<1> USE DEF AckInv, Sparing
<1>1. CASE ListSessions
  <2>1. listed' = row' /\ pc' = "pods" /\ calls' = <<>> /\ plan' = plan
    BY <1>0, <1>1 DEF ListSessions
  <2>2. \A s \in Sessions : plan[s] = {}
    BY <1>1 DEF ListSessions, PlanInv
  <2> QED
    BY <1>0, <2>1, <2>2
<1>2. CASE ListPods
  <2>1. /\ UNCHANGED <<row, pod, listed, plan, cur, left>> /\ seen' = pod
        /\ pc = "pods" /\ pc' = "gc" /\ calls' = calls
    BY <1>2 DEF ListPods
  <2>2. \A s \in Sessions :
           pod[s].here /\ pod[s].health \notin {"starting", "unstarted"} => Begun(pod[s])
    BY DEF Begun
  <2> QED
    BY <1>0, <2>1, <2>2
<1>3. CASE GcAndPlan
  <2>1. PICK created \in [Sessions -> {0, 1}] : plan' = Plan(listed, seen, created)
    BY <1>3 DEF GcAndPlan
  <2>2. UNCHANGED <<row, pod, cur>> /\ pc = "gc" /\ pc' = "execute" /\ calls' = <<>>
    BY <1>0, <1>3 DEF GcAndPlan
  <2>3. ASSUME NEW s \in Sessions, plan'[s] \cap Teardowns # {}, ToServe(row[s])
        PROVE  Begun(pod[s])
    <3>1. PlanFor(listed, seen, created, s) \cap Teardowns # {}
      BY <2>1, <2>3 DEF Plan
    <3>2. ToServe(listed[s])
      BY <2>2, <2>3
    <3>3. seen[s].here /\ seen[s].health \notin {"starting", "unstarted"}
      BY <3>1, <3>2, TeardownPlans
    <3> QED
      BY <2>2, <3>3
  <2>4. ASSUME NEW s \in Sessions, PodRunning(seen'[s]) PROVE Begun(pod[s])
    <3>1. seen[s] \in Pods /\ seen'[s] = Planned(seen[s])
      BY <1>3 DEF GcAndPlan, Types, TypeOK
    <3>2. PodRunning(seen[s])
      BY <2>4, <3>1 DEF Planned, PodRunning, RunningHealths, Pods
    <3>3. seen[s].here /\ seen[s].health \notin {"starting", "unstarted"}
      BY <3>2 DEF PodRunning, RunningHealths
    <3> QED
      BY <2>2, <3>3
  <2> QED
    BY <1>0, <2>2, <2>3, <2>4
<1>4. ASSUME NEW s \in Sessions, BeginAction(s) PROVE AckInv'
  <2>1. PICK act \in plan[s] : /\ plan' = [plan EXCEPT ![s] = @ \ {act}]
                               /\ calls' = Program(act, seen[s])
    BY <1>4 DEF BeginAction
  <2>2. act \in Actions /\ \A t \in Sessions : plan'[t] \subseteq plan[t]
    BY <2>1 DEF Types, TypeOK
  <2>3. UNCHANGED <<row, pod, seen>> /\ pc = "execute" /\ pc' = "execute" /\ cur' = s
    BY <1>4 DEF BeginAction
  <2>4. calls' \in TeardownStacks => Sparing(s)
    BY <2>1, <2>2, TeardownOrigins
  <2> QED
    BY <2>2, <2>3, <2>4
<1>5. ASSUME NEW s \in Sessions, BeginCleanup(s) PROVE AckInv'
  <2>1. calls' = DeleteArtifacts /\ pc' = "cleanup" /\ UNCHANGED <<row, pod, plan>>
    BY <1>5 DEF BeginCleanup
  <2> QED
    BY <2>1, TeardownOrigins
<1>6. ASSUME NEW s \in Sessions, BeginRecycle(s) PROVE AckInv'
  <2>1. /\ pc = "recycle" /\ pc' = "recycle" /\ UNCHANGED <<row, pod, plan>>
        /\ s \in left /\ left' = left \ {s} /\ cur' = s
    BY <1>6 DEF BeginRecycle
  <2> QED
    BY <2>1
<1>7. CASE BeginRecycling
  <2>1. /\ UNCHANGED <<row, pod, plan, cur>> /\ calls' = <<>>
        /\ left' = Unrestored /\ pc = "execute" /\ pc' = "recycle"
    BY <1>7 DEF BeginRecycling
  <2>2. \A s \in Unrestored : Begun(pod[s])
    BY <2>1 DEF Unrestored, ColdStarted
  <2> QED
    BY <1>0, <2>1, <2>2
<1>8. CASE BeginCleaning
  BY <1>8 DEF BeginCleaning
<1>9. CASE EndPass
  BY <1>0, <1>9 DEF EndPass, Forget
<1> QED
  BY <1>1, <1>2, <1>3, <1>4, <1>5, <1>6, <1>7, <1>8, <1>9 DEF PassStep

\* A call leaves the grounds standing; an acknowledged or rejected report
\* makes those of the teardown after it.
LEMMA CallStepAck ==
    ASSUME RecyclesAsListed, Types, PlanInv, AckInv, CallStep
    PROVE  AckInv'
<1>0. KeepPass /\ calls # <<>> /\ calls \in Stacks /\ pc \notin {"pods", "gc"} /\ cur \in Sessions
  BY CallFrame DEF Types, CallsInv, TypeOK
<1>1. UNCHANGED <<pc, listed, plan, left, cur>>
  BY <1>0 DEF KeepPass
<1>2. \A s \in Sessions : Sparing(s) =>
         \/ ToServe(row'[s]) => Begun(pod'[s])
         \/ s = cur /\ (CallClaim \/ CallCreatePod)
  <2>1. Next
    BY DEF Next
  <2> QED
    BY <2>1, SparingStays
<1>3. ASSUME NEW s \in Sessions, plan'[s] \cap Teardowns # {}
      PROVE  ToServe(row'[s]) => Begun(pod'[s])
  <2>1. s # cur
    BY <1>0, <1>1, <1>3 DEF PlanInv, Teardowns
  <2> QED
    BY <1>1, <1>2, <1>3, <2>1 DEF AckInv
<1>a. pc = "recycle" => \A s \in left : s # cur /\ s \in Sessions
  BY <1>0 DEF AckInv, Types, TypeOK
<1>b. ASSUME NEW s \in left', pc' = "recycle" PROVE Sparing(s)'
  BY <1>1, <1>2, <1>a, <1>b DEF AckInv, Sparing
<1>c. ASSUME pc' = "execute", Policy = "GkeSnapshot", NEW s \in Sessions, PodRunning(seen'[s])
      PROVE  Begun(pod'[s])
  <2>0. /\ pod \in [Sessions -> Pods] /\ pod[s] \in Pods /\ seen \in [Sessions -> Pods]
        /\ "badcall" \notin Disturbances
    BY <1>c DEF Types, TypeOK, RecyclesAsListed
  <2>1. ~PodRunning(NoPod) /\ ~PodRunning(NewPod)
    BY DEF PodRunning, RunningHealths, NoPod, NewPod
  <2>2. seen' \in {seen, [seen EXCEPT ![cur] = NoPod], [seen EXCEPT ![cur] = NewPod]}
    BY DEF CallStep, CallClaim, CallPrepare, CallApplySecret, CallCreatePod, CallOnSuspend,
           CallRelease, CallDeletePod, CallDeleteSecret, CallOnTerminate, CallReport,
           CallRecycle, Return
  <2>3. PodRunning(seen[s])
    BY <1>0, <1>c, <2>0, <2>1, <2>2
  <2>4. Begun(pod[s])
    BY <1>1, <1>c, <2>3 DEF AckInv
  <2>5. CASE pod'[s] = pod[s]
    BY <2>4, <2>5
  <2>6. CASE s = cur /\ CallDeletePod
    BY <2>0, <2>4, <2>6 DEF CallDeletePod, Begun, Pods
  <2>7. CASE s = cur /\ CallCreatePod
    <3>1. CASE pod[cur].here
      BY <2>4, <2>7, <3>1 DEF CallCreatePod
    <3>2. CASE ~pod[cur].here
      <4>1. seen' = [seen EXCEPT ![cur] = NewPod]
        BY <2>0, <2>7, <3>2 DEF CallCreatePod, Return, Fault
      <4> QED
        BY <1>0, <1>c, <2>0, <2>1, <2>7, <4>1
    <3> QED
      BY <3>1, <3>2
  <2> QED
    BY <2>5, <2>6, <2>7, CallFrame
<1>d. pc' = "recycle" /\ calls' # <<>> => cur' \notin left'
  BY <1>0, <1>1 DEF AckInv
<1>4. CASE CallReport
  <2>1. \/ calls' = <<>>
        \/ calls' = ReportedCalls /\ row'[cur] = Reported(row[cur])
        \/ calls' = Teardown /\ ~ClaimedBy(row[cur], Us) /\ UNCHANGED row
        \/ calls' = <<>>
    BY <1>0, <1>4 DEF CallReport, Return, Types, TypeOK
  <2>2. ~ToServe(Reported(row[cur]))
    BY <1>0 DEF ToServe, Ours, ClaimedBy, Reported, Tombstoned, Unclaimed, Types, TypeOK, Rows
  <2>3. calls' # <<>> => ~ToServe(row'[cur])
    BY <2>1, <2>2 DEF ToServe, Ours
  <2> QED
    BY <1>0, <1>1, <1>3, <1>b, <1>c, <1>d, <2>3, TeardownOrigins DEF AckInv, Sparing
<1>5. CASE ~CallReport
  <2>1. calls' \in TeardownStacks => calls \in TeardownStacks
    <3>1. CASE CallRecycle
      <4>1. Head(calls) \in {"recycleKeepPin", "recycleDropPin"}
        BY <3>1 DEF CallRecycle, Calling
      <4> QED
        BY <1>0, <4>1, StackHeads DEF TeardownStacks
    <3>2. CASE ~CallRecycle
      <4>1. calls' \in {<<>>, Tail(calls)}
        BY <1>5, <3>2 DEF CallStep, CallClaim, CallPrepare, CallApplySecret, CallCreatePod,
                          CallOnSuspend, CallRelease, CallDeletePod, CallDeleteSecret,
                          CallOnTerminate, Return
      <4> QED
        BY <1>0, <4>1, TeardownOrigins
    <3> QED
      BY <3>1, <3>2
  <2>2. ASSUME calls' \in TeardownStacks PROVE ToServe(row'[cur]) => Begun(pod'[cur])
    <3>1. calls \in TeardownStacks
      BY <2>1, <2>2
    <3>2. ~CallClaim /\ ~CallCreatePod
      BY <1>0, <3>1, StackHeads, TeardownOrigins DEF CallClaim, CallCreatePod, Calling
    <3> QED
      BY <1>0, <1>2, <3>1, <3>2 DEF AckInv
  <2> QED
    BY <1>0, <1>1, <1>3, <1>b, <1>c, <1>d, <2>2 DEF AckInv, Sparing
<1> QED
  BY <1>4, <1>5

\* Every step keeps the grounds of the teardowns.
LEMMA NextAckInv ==
    ASSUME RecyclesAsListed, Types, PlanInv, AckInv, [Next]_vars
    PROVE  AckInv'
<1>0. <<>> \notin TeardownStacks /\ cur \in Sessions /\ left \in SUBSET Sessions
  BY TeardownOrigins DEF Types, TypeOK
<1>2. CASE CallFails
  <2>1. calls' = <<>> /\ KeepPass /\ UNCHANGED <<row, pod, seen>>
    BY <1>2 DEF CallFails
  <2> QED
    BY <1>0, <2>1 DEF KeepPass, AckInv, Sparing
<1>3. CASE Crash
  <2>1. /\ pc' = "idle" /\ calls' = <<>> /\ plan' = [s \in Sessions |-> {}]
    BY <1>3 DEF Crash, Forget
  <2> QED
    BY <1>0, <2>1 DEF AckInv
<1>4. CASE QueueStep \/ ClusterStep
  <2>1. UNCHANGED <<pc, listed, seen, plan, left, cur, calls>>
    BY <1>4, OutsideFrame DEF PassUntouched
  <2>2. ASSUME CallClaim \/ CallCreatePod PROVE FALSE
    <3>1. calls' \in {<<>>, Tail(calls)} /\ calls # <<>> /\ Head(calls) \in {"claim", "createPod"}
      BY <2>2 DEF CallClaim, CallCreatePod, Return, Calling
    <3>2. calls \in {<<"claim", "prepare", "applySecret", "createPod">>, <<"claim">>,
                     <<"createPod">>}
      BY <3>1, StackHeads DEF Types, CallsInv
    <3> QED
      BY <2>1, <3>1, <3>2, StackTails
  <2>3. \A s \in Sessions : Sparing(s) => (ToServe(row'[s]) => Begun(pod'[s]))
    <3>1. Next
      BY <1>4 DEF Next
    <3> QED
      BY <2>2, <3>1, SparingStays
  <2>4. \A s \in Sessions : Begun(pod[s]) => Begun(pod'[s])
    <3>1. CASE QueueStep
      <4>1. UNCHANGED pod
        BY <3>1 DEF QueueStep, Enqueue, SetSessionStatus, Tombstone, RivalActs, ClaimAges
      <4> QED
        BY <4>1
    <3>2. CASE ClusterStep
      BY <3>2, BegunStays
    <3> QED
      BY <1>4, <3>1, <3>2
  <2>5. pc \in {"pods", "gc"} => \A s \in Sessions : ToServe(row'[s]) => ToServe(listed[s])
    <3>1. Next
      BY <1>4 DEF Next
    <3> QED
      BY <2>2, <3>1, ServingStays DEF AckInv
  <2> QED
    BY <1>0, <2>1, <2>3, <2>4, <2>5 DEF AckInv, Sparing
<1>5. CASE UNCHANGED vars
  BY <1>5 DEF vars, AckInv, Sparing
<1> QED
  BY <1>2, <1>3, <1>4, <1>5, PassStepAck, CallStepAck DEF Next

\* Where no call fails, or no recycle loop runs, the grounds stand throughout.
LEMMA AckHolds ==
    ASSUME Policy # "GkeSnapshot" \/ "badcall" \notin Disturbances
    PROVE  Spec => []AckInv
<1>1. Init => AckInv
  BY TeardownOrigins DEF Init, AckInv, Teardowns
<1>2. Inv /\ AckInv /\ [Next]_vars => AckInv'
  BY NextAckInv DEF Inv, RecyclesAsListed
<1> QED
  BY <1>1, <1>2, Invariant, PTL DEF Spec

\* A pod that cannot start is torn down only with the server's answer to its
\* report, or once the session is no claim of ours to serve: no failure, crash
\* or step of the queue lets another handler delete it first; the recycle loop
\* of GkeSnapshot does only where calls fail (Action::StartupFailed in execute,
\* recycle_unrestored_pod).
THEOREM AckBeforeTeardown ==
    ASSUME Policy # "GkeSnapshot" \/ "badcall" \notin Disturbances
    PROVE  Spec => StartupFailureAcked
<1> DEFINE A == \A s \in Sessions :
                   Deletes(s) /\ pod[s].health = "unstarted" => ~Serving(s)
<1>1. Inv /\ AckInv /\ [Next]_vars => [A]_vars
  <2> SUFFICES ASSUME Inv, AckInv, Next, NEW s \in Sessions,
                      Deletes(s), pod[s].health = "unstarted"
               PROVE  ~Serving(s)
    BY DEF vars
  <2>0. /\ Types /\ calls \in Stacks /\ cur \in Sessions
        /\ pod \in [Sessions -> Pods] /\ pod[s] \in Pods
        /\ pod[s].here /\ ~pod[s].deleting /\ pod'[s].deleting /\ calls' # calls
    BY DEF Inv, Types, TypeOK, CallsInv, Deletes
  <2>1. CallStep
    <3>1. ~QueueStep /\ ~ClusterStep
      BY <2>0, OutsideFrame DEF PassUntouched
    <3>2. ~PassStep /\ ~CallFails /\ ~Crash
      BY <2>0 DEF PassStep, ListSessions, ListPods, GcAndPlan, BeginAction, BeginRecycle,
                  BeginCleanup, BeginRecycling, BeginCleaning, EndPass, CallFails, Crash
    <3> QED
      BY <3>1, <3>2 DEF Next
  <2>2. s = cur /\ (CallCreatePod \/ CallDeletePod)
    BY <2>0, <2>1, CallFrame
  <2>3. ~CallCreatePod
    BY <2>0, <2>2 DEF CallCreatePod
  <2>4. calls # <<>> /\ Head(calls) \in {"deletePod", "deletePodForget"}
    BY <2>2, <2>3 DEF CallDeletePod, Calling
  <2>5. calls \in TeardownStacks
    BY <2>0, <2>4, StackHeads DEF TeardownStacks
  <2>6. ~Begun(pod[cur])
    BY <2>0, <2>2 DEF Begun
  <2> QED
    BY <2>2, <2>5, <2>6 DEF AckInv, Sparing, ToServe, Serving
<1>2. Spec => []AckInv
  BY AckHolds
<1> QED
  BY <1>1, <1>2, Invariant, PTL DEF Spec, StartupFailureAcked

-----------------------------------------------------------------------------
(* The contract (Contract).  Its world is the queue and the cluster; each  *)
(* call of a pass is one of its operator's actions, and the two invariants *)
(* above are the guards of its Stop and its Release.                       *)

\* A claim of ours that is past its deadline.
Late(r) == ClaimedBy(r, Us) /\ r.deadline = "past"

\* What the contract lets the world do to a row.
Turns(r, q) ==
    /\ \/ ClaimOf(q) \in {ClaimOf(r), "gone"}
       \/ ClaimOf(r) = "gone" /\ ClaimOf(q) = "queued"
       \/ ClaimOf(r) \in {"queued", "elsewhere"} /\ ClaimOf(q) \in {"queued", "elsewhere"}
       \/ ClaimOf(r) = "serve" /\ ClaimOf(q) \in {"suspended", "ended"}
       \/ ClaimOf(r) = "suspended" /\ ClaimOf(q) = "ended"
       \/ /\ ClaimOf(r) \in {"serve", "suspended", "ended"} /\ Late(r)
          /\ ClaimOf(q) \in {"queued", "elsewhere"}
    /\ Late(r) /\ ClaimOf(q) \in {"serve", "suspended", "ended"} => Late(q)

\* What it lets it do to a pod.
Ages(p, q) ==
    \/ WorkerOf(q) = WorkerOf(p)
    \/ WorkerOf(p) = "waiting" /\ WorkerOf(q) \in {"begun", "spent"}
    \/ WorkerOf(p) = "begun" /\ WorkerOf(q) = "spent"
    \/ WorkerOf(p) = "spent" /\ WorkerOf(q) = "none"

\* Only our own claims are overdue.
LEMMA LateClaims ==
    ASSUME NEW r \in Rows, Late(r)
    PROVE  ClaimOf(r) \in {"serve", "suspended", "ended"}
  BY DEF Late, ClaimedBy, ClaimOf, Rows

\* Each operation of the queue is one the contract knows of.
LEMMA RowTurns ==
    ASSUME NEW r \in Rows
    PROVE  /\ Turns(r, r) /\ Turns(r, ExpireStale(r)) /\ Turns(r, Tombstoned(r))
           /\ ~r.live => Turns(r, FreshRow("pending"))
           /\ CanClaim(r, Rival) => Turns(r, Claimed(r, Rival))
           /\ ClaimedBy(r, Rival) => Turns(r, Released(r, Rival))
           /\ Turns(r, Aged(r))
           /\ r.status = "pending" => Turns(r, [r EXCEPT !.status = "running"])
           /\ NeedsWorker(r) => Turns(r, [r EXCEPT !.status = "suspended"])
           /\ Turns(r, [r EXCEPT !.status = "terminated"])
<1> USE AcceptorsDistinct
        DEF Turns, Late, ClaimOf, ClaimedBy, NeedsWorker, Rows, Statuses, Deadlines
<1>1. Turns(r, r)
  OBVIOUS
<1>2. Turns(r, ExpireStale(r))
  BY DEF ExpireStale, IsStale, Unclaimed
<1>3. Turns(r, Tombstoned(r))
  BY DEF Tombstoned, Unclaimed
<1>4. ~r.live => Turns(r, FreshRow("pending"))
  BY DEF FreshRow
<1>5. CanClaim(r, Rival) => Turns(r, Claimed(r, Rival))
  BY DEF CanClaim, IsStale, Claimed
<1>6. ClaimedBy(r, Rival) => Turns(r, Released(r, Rival))
  BY DEF Released, Unclaimed
<1>7. Turns(r, Aged(r))
  BY DEF Aged
<1>8. /\ r.status = "pending" => Turns(r, [r EXCEPT !.status = "running"])
      /\ NeedsWorker(r) => Turns(r, [r EXCEPT !.status = "suspended"])
      /\ Turns(r, [r EXCEPT !.status = "terminated"])
  OBVIOUS
<1> QED
  BY <1>1, <1>2, <1>3, <1>4, <1>5, <1>6, <1>7, <1>8

\* So is each step of the queue.
LEMMA RowsTurn ==
    ASSUME Types, QueueStep \/ ListSessions, NEW s \in Sessions
    PROVE  Turns(row[s], row'[s])
<1>0. row \in [Sessions -> Rows] /\ row[s] \in Rows
  BY DEF Types, TypeOK
<1>1. CASE ListSessions
  BY <1>0, <1>1, RowTurns DEF ListSessions
<1>2. CASE QueueStep
  <2>1. PICK t \in Sessions : \/ Enqueue(t) \/ SetSessionStatus(t) \/ Tombstone(t)
                              \/ RivalActs(t) \/ ClaimAges(t)
    BY <1>2 DEF QueueStep
  <2>2. CASE s # t
    <3>1. row'[s] = row[s]
      BY <1>0, <2>1, <2>2 DEF Enqueue, SetSessionStatus, Tombstone, RivalActs, ClaimAges
    <3> QED
      BY <1>0, <3>1, RowTurns
  <2>3. CASE s = t
    <3>1. \/ row'[s] \in {Tombstoned(row[s]), Aged(row[s]),
                          [row[s] EXCEPT !.status = "terminated"]}
          \/ ~row[s].live /\ row'[s] = FreshRow("pending")
          \/ CanClaim(row[s], Rival) /\ row'[s] = Claimed(row[s], Rival)
          \/ ClaimedBy(row[s], Rival) /\ row'[s] = Released(row[s], Rival)
          \/ row[s].status = "pending" /\ row'[s] = [row[s] EXCEPT !.status = "running"]
          \/ NeedsWorker(row[s]) /\ row'[s] = [row[s] EXCEPT !.status = "suspended"]
      BY <1>0, <2>1, <2>3 DEF Enqueue, SetSessionStatus, Tombstone, RivalActs, ClaimAges
    <3> QED
      BY <1>0, <3>1, RowTurns
  <2> QED
    BY <2>2, <2>3
<1> QED
  BY <1>1, <1>2

\* So is each step of the cluster.
LEMMA PodsAge ==
    ASSUME Types, ClusterStep, NEW s \in Sessions
    PROVE  Ages(pod[s], pod'[s])
<1>1. PICK t \in Sessions :
         \/ KubeletReports(t) \/ PodKilled(t) \/ PodGone(t) \/ ImageRollout(t)
         \/ CheckpointDone(t) \/ CheckpointFails(t) \/ ArtifactAges(t)
  BY DEF ClusterStep
<1>2. pod[s] \in Pods /\ pod[t] \in Pods /\ pod \in [Sessions -> Pods]
  BY DEF Types, TypeOK
<1> USE DEF Ages, WorkerOf, Spent
<1>3. CASE s # t
  BY <1>1, <1>2, <1>3 DEF KubeletReports, PodKilled, PodGone, ImageRollout,
                          CheckpointDone, CheckpointFails, ArtifactAges
<1>4. CASE s = t /\ KubeletReports(t)
  <2>1. pod[s].here /\ ~pod[s].deleting
    BY <1>4 DEF KubeletReports
  <2>2. PICK h \in Healths :
          /\ \/ <<pod[s].health, h>> \in HealthStep
             \/ pod[s].health \in RunningHealths /\ h = "failed"
          /\ \/ pod' = [pod EXCEPT ![s].health = h]
             \/ pod' = [pod EXCEPT ![s].health = h, ![s].pin = "restored"]
    BY <1>4 DEF KubeletReports
  <2>3. pod'[s].health = h /\ pod'[s].here /\ ~pod'[s].deleting
    BY <1>2, <2>1, <2>2 DEF Pods
  <2>4. \/ h = pod[s].health
        \/ pod[s].health \in {"starting", "unstarted"}
        \/ /\ pod[s].health \in {"running", "looping"}
           /\ h \notin {"starting", "unstarted"}
        \/ pod[s].health = "over" /\ h = "failed"
    BY <2>2 DEF HealthStep, RunningHealths
  <2> QED
    BY <2>1, <2>3, <2>4
<1>5. CASE s = t /\ (PodKilled(t) \/ PodGone(t))
  BY <1>2, <1>5 DEF PodKilled, PodGone, NoPod, Pods
<1>6. CASE s = t /\ ImageRollout(t)
  BY <1>2, <1>6 DEF ImageRollout, Pods
<1>7. CASE s = t /\ CheckpointDone(t)
  BY <1>2, <1>7 DEF CheckpointDone, PodRunning, RunningHealths, Pods
<1>8. CASE s = t /\ (CheckpointFails(t) \/ ArtifactAges(t))
  BY <1>8 DEF CheckpointFails, ArtifactAges
<1> QED
  BY <1>1, <1>3, <1>4, <1>5, <1>6, <1>7, <1>8

\* The queue and the cluster are the contract's world.
LEMMA WorldMaps ==
    ASSUME Types, QueueStep \/ ClusterStep \/ ListSessions
    PROVE  Promises!World
<1>0. /\ row \in [Sessions -> Rows] /\ row' \in [Sessions -> Rows]
      /\ pod \in [Sessions -> Pods]
  <2>1. Next
    BY DEF Next, PassStep
  <2> QED
    BY <2>1, NextTypes DEF Types, TypeOK
<1>1. UNCHANGED <<calls, cur>>
  BY OutsideFrame DEF PassUntouched, ListSessions
<1>2. ASSUME NEW s \in Sessions PROVE Turns(row[s], row'[s])
  <2>1. CASE ClusterStep
    <3>1. UNCHANGED row
      BY <2>1 DEF ClusterStep, KubeletReports, PodKilled, PodGone, ImageRollout,
                  CheckpointDone, CheckpointFails, ArtifactAges
    <3> QED
      BY <1>0, <3>1, RowTurns
  <2> QED
    BY <2>1, RowsTurn
<1>3. ASSUME NEW s \in Sessions PROVE Ages(pod[s], pod'[s])
  <2>1. CASE QueueStep \/ ListSessions
    <3>1. UNCHANGED pod
      BY <2>1 DEF QueueStep, ListSessions, Enqueue, SetSessionStatus, Tombstone, RivalActs,
                  ClaimAges
    <3> QED
      BY <3>1 DEF Ages
  <2> QED
    BY <2>1, PodsAge
<1>4. \A s \in Sessions : /\ (s \in Overdue) = Late(row[s])
                          /\ (s \in Overdue') = Late(row'[s])
  BY DEF Overdue, Late, ClaimedBy
<1>5. \A s \in Sessions : Promises!Drifts(s)
  BY <1>2, <1>4 DEF Promises!Drifts, Promises!Held, Turns
<1>6. \A s \in Sessions : Promises!Wanes(s)
  BY <1>3 DEF Promises!Wanes, Ages
<1>7. \A s \in Overdue : ClaimOf(row'[s]) \in Promises!Held => s \in Overdue'
  BY <1>2, <1>4 DEF Overdue, Promises!Held, Turns
<1>8. Overdue' \subseteq {s \in Sessions : ClaimOf(row'[s]) \in Promises!Held}
  BY <1>0, <1>4, LateClaims DEF Overdue, Promises!Held
<1> QED
  BY <1>1, <1>5, <1>6, <1>7, <1>8 DEF Promises!World, Overdue


\* What the operator has its hand on, before and after each call.
LEMMA Hands ==
    ASSUME NEW c \in Stacks, c # <<>>
    PROVE  /\ HandOn(c) = StageOf(Head(c))
           /\ Head(c) = "claim" => HandOn(Tail(c)) \in {"start", "idle"}
           /\ Head(c) = "prepare" => HandOn(Tail(c)) = "start"
           /\ Head(c) = "applySecret" => HandOn(Tail(c)) = "create"
           /\ Head(c) = "createPod" => Tail(c) = <<>>
           /\ Head(c) \notin {"claim", "prepare", "applySecret", "createPod", "report"} =>
                HandOn(Tail(c)) \in {"stop", "release", "rest", "idle"}
<1>1. HandOn(c) = StageOf(Head(c))
  BY DEF HandOn
<1>2. /\ HandOn(<<>>) = "idle"
      /\ HandOn(<<"prepare", "applySecret", "createPod">>) = "start"
      /\ HandOn(<<"applySecret", "createPod">>) = "start"
      /\ HandOn(<<"createPod">>) = "create"
  BY DEF HandOn, StageOf
<1> DEFINE others == {<<>>,
                      <<"deletePod", "deleteSecretForget", "release">>,
                      <<"deleteSecretForget", "release">>,
                      <<"release">>,
                      <<"deletePod", "deleteSecretForget", "onTerminate">>,
                      <<"deleteSecretForget", "onTerminate">>,
                      <<"onTerminate">>,
                      <<"release", "deletePod", "deleteSecretForget">>,
                      <<"deletePod", "deleteSecretForget">>,
                      <<"deleteSecretForget">>,
                      <<"onTerminate", "deleteSecret">>,
                      <<"deleteSecret">>}
<1>3. \A d \in others : HandOn(d) \in {"stop", "release", "rest", "idle"}
  BY DEF HandOn, StageOf
<1>4. Head(c) \notin {"claim", "prepare", "applySecret", "createPod", "report"} =>
        Tail(c) \in others
  <2> DEFINE starts == {<<"claim", "prepare", "applySecret", "createPod">>,
                        <<"prepare", "applySecret", "createPod">>,
                        <<"applySecret", "createPod">>, <<"createPod">>,
                        <<"claim">>, <<"report">>}
  <2>1. c \in starts \/ Tail(c) \in others
    BY StackTails DEF Stacks
  <2>2. \A d \in starts : Head(d) \in {"claim", "prepare", "applySecret", "createPod", "report"}
    OBVIOUS
  <2> HIDE DEF starts, others
  <2> QED
    BY <2>1, <2>2
<1>5. /\ Head(c) = "claim" => Tail(c) \in {<<>>, <<"prepare", "applySecret", "createPod">>}
      /\ Head(c) = "prepare" => Tail(c) = <<"applySecret", "createPod">>
      /\ Head(c) = "applySecret" => Tail(c) = <<"createPod">>
      /\ Head(c) = "createPod" => Tail(c) = <<>>
  BY StackHeads, StackTails
<1> HIDE DEF others
<1> QED
  BY <1>1, <1>2, <1>3, <1>4, <1>5

\* What it has its hand on when it begins.
LEMMA FirstHands ==
    /\ \A act \in Actions : \A p :
          HandOn(Program(act, p)) \in {"claim", "report", "release", "stop", "rest"}
    /\ HandOn(<<"recycleKeepPin">>) = "rest" /\ HandOn(DeleteArtifacts) = "rest"
    /\ HandOn(<<"deletePodForget">>) = "stop"
    /\ HandOn(ReportedCalls) = "stop" /\ HandOn(Teardown) = "stop"
    /\ HandOn(<<>>) = "idle"
<1> USE DEF HandOn, StageOf
<1>1. /\ HandOn(<<"recycleKeepPin">>) = "rest" /\ HandOn(DeleteArtifacts) = "rest"
      /\ HandOn(<<"deletePodForget">>) = "stop"
      /\ HandOn(ReportedCalls) = "stop" /\ HandOn(Teardown) = "stop"
      /\ HandOn(<<>>) = "idle"
  BY DEF DeleteArtifacts, ReportedCalls, Teardown
<1>2. /\ HandOn(StartWorkerCalls) = "claim" /\ HandOn(<<"claim">>) = "claim"
      /\ HandOn(TerminateCalls) = "release" /\ HandOn(GiveUpCalls) = "rest"
      /\ HandOn(StartupFailedCalls) = "report" /\ HandOn(<<"deletePod">>) = "stop"
  BY DEF StartWorkerCalls, TerminateCalls, GiveUpCalls, StartupFailedCalls
<1>3. \A p : HandOn(SuspendCalls(p)) \in {"rest", "stop"}
  BY DEF SuspendCalls
<1> HIDE DEF HandOn
<1>4. \A act \in Actions : \A p :
          HandOn(Program(act, p)) \in {"claim", "report", "release", "stop", "rest"}
  BY <1>1, <1>2, <1>3 DEF Program, Actions
<1> QED
  BY <1>1, <1>4

\* A pass begins its actions with its hand on nothing else.
LEMMA BeginMaps ==
    ASSUME Types, NEW s \in Sessions, BeginAction(s) \/ BeginRecycle(s) \/ BeginCleanup(s)
    PROVE  Promises!Begin(s)
<1>1. UNCHANGED <<row, pod>> /\ calls = <<>> /\ cur' = s
  BY DEF BeginAction, BeginRecycle, BeginCleanup
<1>2. HandOn(calls') \in {"claim", "report", "release", "stop", "rest"}
  <2>1. CASE BeginAction(s)
    <3>1. PICK act \in Actions : calls' = Program(act, seen[s])
      BY <2>1 DEF BeginAction, Types, TypeOK
    <3> QED
      BY <3>1, FirstHands
  <2>2. CASE BeginRecycle(s) \/ BeginCleanup(s)
    BY <2>2, FirstHands DEF BeginRecycle, BeginCleanup
  <2> QED
    BY <2>1, <2>2
<1>3. HandOn(calls) = "idle"
  BY <1>1, FirstHands
<1> QED
  BY <1>1, <1>2, <1>3 DEF Promises!Begin, Overdue

\* The rest of a pass changes nothing the contract sees.
LEMMA PassMaps ==
    ASSUME Types, ListPods \/ GcAndPlan \/ BeginRecycling \/ BeginCleaning \/ EndPass
    PROVE  UNCHANGED Promises!state
<1>1. UNCHANGED <<row, pod, calls, cur>>
  BY DEF ListPods, GcAndPlan, BeginRecycling, BeginCleaning, EndPass, Forget
<1> QED
  BY <1>1 DEF Promises!state, Overdue

\* A call that does not arrive, and a crash, take the hand off.
LEMMA BreakMaps ==
    ASSUME CallFails \/ Crash
    PROVE  Promises!Break
<1>1. UNCHANGED <<row, pod, cur>> /\ calls' = <<>>
  BY DEF CallFails, Crash, KeepPass, Forget
<1> QED
  BY <1>1, FirstHands DEF Promises!Break, Overdue

\* The calls that the contract calls a claim, a start, a creation.
LEMMA StartMaps ==
    ASSUME Types, CallClaim \/ CallPrepare \/ CallApplySecret \/ CallCreatePod
    PROVE  Promises!Claim \/ Promises!Prepare \/ Promises!Create
<1>0. /\ calls \in Stacks /\ calls # <<>> /\ cur \in Sessions
      /\ row \in [Sessions -> Rows] /\ row[cur] \in Rows
      /\ pod \in [Sessions -> Pods] /\ pod[cur] \in Pods
  BY DEF Types, TypeOK, CallsInv, CallClaim, CallPrepare, CallApplySecret, CallCreatePod,
         Calling
<1>1. UNCHANGED cur
  BY DEF CallClaim, CallPrepare, CallApplySecret, CallCreatePod, KeepPass
<1>2. CASE CallClaim
  <2>1. Head(calls) = "claim" /\ UNCHANGED pod
    BY <1>2 DEF CallClaim, Calling
  <2>2. HandOn(calls) = "claim"
    BY <1>0, <2>1, Hands DEF StageOf
  <2>3. CASE CanClaim(row[cur], Us)
    <3>1. HandOn(calls') \in {"start", "idle"}
      BY <1>0, <1>2, <2>1, <2>3, Hands, FirstHands DEF CallClaim, Return
    <3>2. row' = [row EXCEPT ![cur] = Claimed(row[cur], Us)]
      BY <1>2, <2>3 DEF CallClaim
    <3>3. /\ ClaimOf(row[cur]) # "gone"
          /\ ClaimOf(Claimed(row[cur], Us)) \in {"serve", "suspended", "ended"}
          /\ ClaimOf(row[cur]) \in {"serve", "suspended", "ended"} =>
                ClaimOf(Claimed(row[cur], Us)) = ClaimOf(row[cur])
      BY <1>0, <2>3 DEF ClaimOf, CanClaim, Claimed, NeedsWorker, Rows
    <3>4. Overdue' = Overdue \ {cur}
      BY <1>0, <3>2 DEF Overdue, Claimed, Rows, ClaimedBy
    <3>5. [s \in Sessions |-> ClaimOf(row[s])]'
            = [[s \in Sessions |-> ClaimOf(row[s])] EXCEPT
                 ![cur] = ClaimOf(Claimed(row[cur], Us))]
      BY <1>0, <3>2
    <3> QED
      BY <1>0, <1>1, <2>1, <2>2, <3>1, <3>3, <3>4, <3>5
         DEF Promises!Claim, Promises!Held
  <2>4. CASE ~CanClaim(row[cur], Us)
    <3>1. HandOn(calls') = "idle" /\ UNCHANGED row
      BY <1>0, <1>2, <2>4, FirstHands DEF CallClaim, Return
    <3> QED
      BY <1>1, <2>1, <2>2, <3>1 DEF Promises!Claim, Overdue
  <2> QED
    BY <2>3, <2>4
<1>3. CASE CallPrepare \/ CallApplySecret
  <2>1. /\ Head(calls) \in {"prepare", "applySecret"} /\ UNCHANGED <<row, pod>>
        /\ calls' \in {<<>>, Tail(calls)}
    BY <1>3 DEF CallPrepare, CallApplySecret, Calling, Return
  <2>2. HandOn(calls) = "start"
    BY <1>0, <2>1, Hands DEF StageOf
  <2>3. HandOn(Tail(calls)) \in {"start", "create"} /\ HandOn(<<>>) = "idle"
    BY <1>0, <2>1, Hands, FirstHands
  <2>4. HandOn(calls') \in {"start", "create", "idle"}
    BY <2>1, <2>3
  <2> QED
    BY <1>1, <2>1, <2>2, <2>4 DEF Promises!Prepare, Overdue
<1>4. CASE CallCreatePod
  <2>1. Head(calls) = "createPod" /\ UNCHANGED row /\ calls' \in {<<>>, Tail(calls)}
    BY <1>4 DEF CallCreatePod, Calling, Return
  <2>2. HandOn(calls) = "create" /\ HandOn(calls') = "idle"
    BY <1>0, <2>1, Hands, FirstHands DEF StageOf
  <2>3. WorkerOf(NewPod) = "waiting"
    BY DEF WorkerOf, Spent, NewPod, NoPod
  <2>4. /\ pod[cur].here => UNCHANGED pod /\ WorkerOf(pod[cur]) # "none"
        /\ ~pod[cur].here => /\ pod' = [pod EXCEPT ![cur] = NewPod]
                             /\ WorkerOf(pod[cur]) = "none"
    BY <1>0, <1>4 DEF CallCreatePod, WorkerOf, Pods
  <2>5. /\ \A s \in Sessions \ {cur} : pod'[s] = pod[s]
        /\ WorkerOf(pod'[cur]) = IF WorkerOf(pod[cur]) = "none" THEN "waiting"
                                                              ELSE WorkerOf(pod[cur])
    BY <1>0, <2>3, <2>4
  <2>6. [s \in Sessions |-> WorkerOf(pod[s])]'
          = [[s \in Sessions |-> WorkerOf(pod[s])] EXCEPT
               ![cur] = IF @ = "none" THEN "waiting" ELSE @]
    BY <1>0, <1>1, <2>5
  <2> QED
    BY <1>1, <2>1, <2>2, <2>6 DEF Promises!Create, Overdue
<1> QED
  BY <1>2, <1>3, <1>4

\* The calls it calls a stop: AckInv says that they spare a worker that waits.
LEMMA StopMaps ==
    ASSUME Types, AckInv, CallDeletePod
    PROVE  Promises!Stop
<1>0. /\ calls \in Stacks /\ calls # <<>> /\ cur \in Sessions
      /\ row \in [Sessions -> Rows] /\ row[cur] \in Rows
      /\ pod \in [Sessions -> Pods] /\ pod[cur] \in Pods
      /\ Head(calls) \in {"deletePod", "deletePodForget"}
      /\ UNCHANGED <<row, cur>> /\ calls' \in {<<>>, Tail(calls)}
  BY DEF Types, TypeOK, CallsInv, CallDeletePod, Calling, Return, KeepPass
<1>1. HandOn(calls) = "stop" /\ HandOn(calls') \in Promises!After
  BY <1>0, Hands, FirstHands DEF StageOf, Promises!After
<1>2. calls \in TeardownStacks
  BY <1>0, StackHeads DEF TeardownStacks
<1>3. ClaimOf(row[cur]) = "serve" => WorkerOf(pod[cur]) # "waiting"
  BY <1>0, <1>2 DEF AckInv, Sparing, ToServe, Ours, ClaimedBy, ClaimOf, Begun, WorkerOf,
                    Spent, Rows
<1>4. pod' = [pod EXCEPT ![cur].deleting = pod[cur].here]
  BY DEF CallDeletePod
<1>5. WorkerOf(pod'[cur]) = IF WorkerOf(pod[cur]) = "none" THEN "none" ELSE "spent"
  BY <1>0, <1>4 DEF WorkerOf, Spent, Pods
<1>6. [s \in Sessions |-> WorkerOf(pod[s])]'
        = [[s \in Sessions |-> WorkerOf(pod[s])] EXCEPT
             ![cur] = IF @ = "none" THEN "none" ELSE "spent"]
  BY <1>0, <1>4, <1>5
<1> QED
  BY <1>0, <1>1, <1>3, <1>6 DEF Promises!Stop, Overdue

\* Its releases: GroundsInv says that the worker is spent, or the session over.
LEMMA ReleaseMaps ==
    ASSUME Types, GroundsInv, CallRelease
    PROVE  Promises!Release
<1>0. /\ calls \in Stacks /\ calls # <<>> /\ cur \in Sessions
      /\ row \in [Sessions -> Rows] /\ row[cur] \in Rows
      /\ Head(calls) = "release"
      /\ UNCHANGED <<pod, cur>> /\ calls' \in {<<>>, Tail(calls)}
  BY DEF Types, TypeOK, CallsInv, CallRelease, Calling, Return, KeepPass
<1>1. HandOn(calls) = "release" /\ HandOn(calls') \in Promises!After
  BY <1>0, Hands, FirstHands DEF StageOf, Promises!After
<1>2. \/ calls = TerminateCalls
      \/ calls \in SpentStacks
  BY <1>0, StackHeads DEF TerminateCalls, SpentStacks
<1>3. row[cur].status = "terminated" \/ Spent(pod[cur])
  BY <1>2 DEF GroundsInv
<1>4. ClaimOf(row[cur]) \in {"serve", "suspended"} => WorkerOf(pod[cur]) \in {"none", "spent"}
  BY <1>3 DEF ClaimOf, NeedsWorker, WorkerOf
<1>5. row' = [row EXCEPT ![cur] = Released(row[cur], Us)]
  BY DEF CallRelease
<1>6. ClaimOf(Released(row[cur], Us))
        = IF ClaimOf(row[cur]) \in Promises!Held THEN "queued" ELSE ClaimOf(row[cur])
  BY <1>0 DEF Released, Unclaimed, ClaimedBy, ClaimOf, Promises!Held, Rows
<1>7. [s \in Sessions |-> ClaimOf(row[s])]'
        = [[s \in Sessions |-> ClaimOf(row[s])] EXCEPT
             ![cur] = IF @ \in Promises!Held THEN "queued" ELSE @]
  BY <1>0, <1>5, <1>6
<1>8. Overdue' = Overdue \ {cur}
  BY <1>0, <1>5 DEF Overdue, Released, Unclaimed, ClaimedBy, Rows
<1> QED
  BY <1>0, <1>1, <1>4, <1>7, <1>8 DEF Promises!Release

\* Its reports, acknowledged or not.
LEMMA ReportMaps ==
    ASSUME Types, CallReport
    PROVE  Promises!Report
<1>0. /\ calls \in Stacks /\ calls # <<>> /\ cur \in Sessions
      /\ row \in [Sessions -> Rows] /\ row[cur] \in Rows
      /\ Head(calls) = "report" /\ UNCHANGED <<pod, cur>>
  BY DEF Types, TypeOK, CallsInv, CallReport, Calling, KeepPass
<1>1. calls' \in {<<>>, ReportedCalls, Teardown}
  BY DEF CallReport, Return
<1>2. HandOn(calls) = "report" /\ HandOn(calls') \in {"stop", "idle"}
  BY <1>0, <1>1, Hands, FirstHands DEF StageOf
<1>3. row' = [row EXCEPT ![cur] = IF ClaimedBy(@, Us) THEN Reported(@) ELSE @]
  BY DEF CallReport
<1>4. ClaimOf(IF ClaimedBy(row[cur], Us) THEN Reported(row[cur]) ELSE row[cur])
        = IF ClaimOf(row[cur]) \in Promises!Held THEN "gone" ELSE ClaimOf(row[cur])
  BY <1>0 DEF Reported, Tombstoned, Unclaimed, ClaimedBy, ClaimOf, Promises!Held, Rows
<1>5. [s \in Sessions |-> ClaimOf(row[s])]'
        = [[s \in Sessions |-> ClaimOf(row[s])] EXCEPT
             ![cur] = IF @ \in Promises!Held THEN "gone" ELSE @]
  BY <1>0, <1>3, <1>4
<1>6. Overdue' = Overdue \ {cur}
  BY <1>0, <1>3 DEF Overdue, Reported, Tombstoned, Unclaimed, ClaimedBy, Rows
<1> QED
  BY <1>0, <1>2, <1>5, <1>6 DEF Promises!Report

\* The calls that concern neither claims nor workers.
LEMMA RestMaps ==
    ASSUME Types, CallDeleteSecret \/ CallOnSuspend \/ CallOnTerminate \/ CallRecycle
    PROVE  Promises!Rest
<1>0. /\ calls \in Stacks /\ calls # <<>>
      /\ Head(calls) \in {"deleteSecret", "deleteSecretForget", "onSuspend", "onTerminate",
                          "recycleKeepPin", "recycleDropPin"}
      /\ UNCHANGED <<row, pod, cur>>
      /\ calls' \in {<<>>, Tail(calls), <<"deletePodForget">>}
  BY DEF Types, CallsInv, CallDeleteSecret, CallOnSuspend, CallOnTerminate, CallRecycle,
         Calling, Return, KeepPass
<1>1. HandOn(calls) = "rest" /\ HandOn(calls') \in Promises!After
  BY <1>0, Hands, FirstHands DEF StageOf, Promises!After
<1> QED
  BY <1>0, <1>1 DEF Promises!Rest, Overdue

\* Every step of the reconciler is one of the contract, or changes nothing of
\* what it speaks of.
LEMMA StepMaps == Inv /\ AckInv /\ [Next]_vars => [Promises!Next]_(Promises!state)
<1> SUFFICES ASSUME Inv, AckInv, [Next]_vars PROVE [Promises!Next]_(Promises!state)
  OBVIOUS
<1> USE DEF Promises!Next, Promises!Operator
<1>0. Types /\ GroundsInv
  BY DEF Inv
<1>1. CASE QueueStep \/ ClusterStep \/ ListSessions
  BY <1>0, <1>1, WorldMaps
<1>2. ASSUME NEW s \in Sessions, BeginAction(s) \/ BeginRecycle(s) \/ BeginCleanup(s)
      PROVE  Promises!Next
  BY <1>0, <1>2, BeginMaps
<1>3. CASE ListPods \/ GcAndPlan \/ BeginRecycling \/ BeginCleaning \/ EndPass
  BY <1>0, <1>3, PassMaps
<1>4. CASE CallFails \/ Crash
  BY <1>4, BreakMaps
<1>5. CASE CallClaim \/ CallPrepare \/ CallApplySecret \/ CallCreatePod
  BY <1>0, <1>5, StartMaps
<1>6. CASE CallDeletePod
  BY <1>0, <1>6, StopMaps
<1>7. CASE CallRelease
  BY <1>0, <1>7, ReleaseMaps
<1>8. CASE CallReport
  BY <1>0, <1>8, ReportMaps
<1>9. CASE CallDeleteSecret \/ CallOnSuspend \/ CallOnTerminate \/ CallRecycle
  BY <1>0, <1>9, RestMaps
<1>10. CASE UNCHANGED vars
  BY <1>10 DEF vars, Promises!state, Overdue
<1> QED
  BY <1>1, <1>2, <1>3, <1>4, <1>5, <1>6, <1>7, <1>8, <1>9, <1>10 DEF Next, PassStep, CallStep

\* The reconciler starts where the contract does.
LEMMA InitMaps == Init => Promises!Init
  BY FirstHands DEF Init, Promises!Init, ClaimOf, GoneRow, FreshRow, Overdue, ClaimedBy,
     WorkerOf, NoPod

\* The reconciler implements the outpost's contract: whatever fails, crashes or
\* moves under a pass, only a granted claim leads to a worker, a worker that
\* waits to start is not stopped under a claim to serve, and a claim goes back
\* last (apply, execute, start_worker).
THEOREM ContractKept ==
    ASSUME Policy # "GkeSnapshot" \/ "badcall" \notin Disturbances
    PROVE  Spec => KeepsContract
<1>1. Spec => []AckInv
  BY AckHolds
<1> QED
  BY <1>1, InitMaps, StepMaps, Invariant, PTL DEF Spec, KeepsContract, Promises!Spec

=============================================================================
