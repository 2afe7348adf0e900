------------------------- MODULE SlotsAndTokensProofs -------------------------
(***************************************************************************)
(* Proofs about PoolReconciler, continued: the invariants that hold up to  *)
(* certain faults, for any set of sessions and any limit.  The pool stays  *)
(* within maxConcurrentSessions as long as no call fails; a worker has its *)
(* token as long as no second fault follows a failed call.                 *)
(***************************************************************************)
EXTENDS PoolReconcilerProofs, FiniteSetTheorems

-----------------------------------------------------------------------------
(* How many sessions a plan claims.                                        *)

\* A part of a set of sessions is no larger than the set.
LEMMA Fewer ==
    ASSUME NEW A \in SUBSET Sessions, NEW B \in SUBSET A
    PROVE  /\ IsFiniteSet(A) /\ IsFiniteSet(B)
           /\ Cardinality(A) \in Nat /\ Cardinality(B) \in Nat
           /\ Cardinality(B) =< Cardinality(A)
<1>1. IsFiniteSet(A)
  BY SessionsAssumption, FS_Subset
<1>2. IsFiniteSet(B) /\ Cardinality(B) =< Cardinality(A)
  BY <1>1, FS_Subset
<1> QED
  BY <1>1, <1>2, FS_CardinalityType

\* Oldest first, the planner claims no more sessions than slots are free: the
\* number of claimable sessions before one tells the claimed ones apart, and
\* there are only so many numbers below the slots.
LEMMA ClaimsFitSlots ==
    ASSUME NEW rows, NEW pods, NEW created \in [Sessions -> {0, 1}]
    PROVE  /\ ToClaim(rows, pods, created) \in SUBSET Sessions
           /\ Slots(rows, pods) \in Nat
           /\ Cardinality(ToClaim(rows, pods, created)) =< Slots(rows, pods)
<1> DEFINE open == Claimable(rows)
           taken == ToClaim(rows, pods, created)
           free == Slots(rows, pods)
           earlier(s) == {t \in open : Before(created, t, s)}
           rank == [s \in taken |-> Cardinality(earlier(s))]
<1>1. open \in SUBSET Sessions /\ taken \in SUBSET open /\ taken \in SUBSET Sessions
  BY DEF Claimable, ToClaim
<1>a. ASSUME NEW s \in Sessions PROVE s \in Int /\ created[s] \in Int
  <2>1. s \in Nat /\ created[s] \in {0, 1}
    BY SessionsAssumption
  <2> QED
    BY <2>1
<1>2. free \in Nat
  <2>1. ActiveOurs(rows, pods) \in SUBSET Sessions
    BY DEF ActiveOurs
  <2>2. Cardinality(ActiveOurs(rows, pods)) \in Nat
    BY <2>1, Fewer
  <2> QED
    BY <2>2, MaxConcurrentAssumption DEF Slots
<1>3. ASSUME NEW s \in open, NEW t \in open, Before(created, s, t)
      PROVE  Cardinality(earlier(s)) < Cardinality(earlier(t))
  <2>0. s \in Sessions /\ t \in Sessions
    BY <1>1
  <2>1. s \in Int /\ t \in Int /\ created[s] \in Int /\ created[t] \in Int
    BY <1>a, <2>0
  <2>2. s \notin earlier(s)
    BY <2>1 DEF Before
  <2>3. \A u \in open : Before(created, u, s) => Before(created, u, t)
    <3> TAKE u \in open
    <3>0. u \in Sessions
      BY <1>1
    <3>1. u \in Int /\ created[u] \in Int
      BY <1>a, <3>0
    <3> QED
      BY <1>3, <2>1, <3>1 DEF Before
  <2>4. earlier(s) \cup {s} \in SUBSET earlier(t)
    BY <1>3, <2>3
  <2>5. earlier(s) \in SUBSET Sessions /\ earlier(t) \in SUBSET Sessions
    BY <1>1
  <2> HIDE DEF open, earlier
  <2>6. IsFiniteSet(earlier(s)) /\ Cardinality(earlier(s)) \in Nat
    BY <2>5, Fewer
  <2>7. Cardinality(earlier(s) \cup {s}) = Cardinality(earlier(s)) + 1
    BY <2>2, <2>6, FS_AddElement
  <2>8. /\ Cardinality(earlier(t)) \in Nat
        /\ Cardinality(earlier(s) \cup {s}) =< Cardinality(earlier(t))
    BY <2>4, <2>5, Fewer
  <2> QED
    BY <2>6, <2>7, <2>8
<1>4. ASSUME NEW s \in taken, NEW t \in taken, s # t PROVE rank[s] # rank[t]
  <2>0. s \in Sessions /\ t \in Sessions
    BY <1>1
  <2>1. s \in Int /\ t \in Int /\ created[s] \in Int /\ created[t] \in Int
    BY <1>a, <2>0
  <2>2. Before(created, s, t) \/ Before(created, t, s)
    BY <1>4, <2>1 DEF Before
  <2>3. s \in open /\ t \in open
    BY <1>1
  <2>4. /\ Cardinality(earlier(s)) \in Nat
        /\ Cardinality(earlier(t)) \in Nat
    <3>1. earlier(s) \in SUBSET Sessions /\ earlier(t) \in SUBSET Sessions
      BY <1>1
    <3> HIDE DEF earlier
    <3> QED
      BY <3>1, Fewer
  <2>5. rank[s] = Cardinality(earlier(s)) /\ rank[t] = Cardinality(earlier(t))
    OBVIOUS
  <2>6. \/ Cardinality(earlier(s)) < Cardinality(earlier(t))
        \/ Cardinality(earlier(t)) < Cardinality(earlier(s))
    BY <1>3, <2>2, <2>3
  <2> HIDE DEF rank, earlier
  <2> QED
    BY <2>4, <2>5, <2>6
<1>5. rank \in [taken -> 0..(free - 1)]
  <2>1. ASSUME NEW s \in taken PROVE Cardinality(earlier(s)) \in 0..(free - 1)
    <3>1. earlier(s) \in SUBSET Sessions
      BY <1>1
    <3>2. Cardinality(earlier(s)) < free
      BY DEF ToClaim
    <3> HIDE DEF earlier, free
    <3>3. Cardinality(earlier(s)) \in Nat
      BY <3>1, Fewer
    <3> QED
      BY <1>2, <3>2, <3>3
  <2> QED
    BY <2>1
<1>6. IsFiniteSet(0..(free - 1)) /\ Cardinality(0..(free - 1)) = free
  <2> HIDE DEF free
  <2>1. /\ IsFiniteSet(0..(free - 1))
        /\ Cardinality(0..(free - 1)) = IF 0 > free - 1 THEN 0 ELSE (free - 1) - 0 + 1
    BY <1>2, FS_Interval
  <2> QED
    BY <1>2, <2>1
<1>7. IsFiniteSet(taken) /\ Cardinality(taken) \in Nat
  <2> HIDE DEF taken
  <2> QED
    BY <1>1, Fewer
<1>8. Cardinality(taken) =< free
  <2> HIDE DEF taken, free, rank
  <2> SUFFICES ASSUME free < Cardinality(taken) PROVE FALSE
    BY <1>2, <1>7
  <2>1. \E s, t \in taken : s # t /\ rank[s] = rank[t]
    BY <1>5, <1>6, <1>7, FS_PigeonHole
  <2> QED
    BY <1>4, <2>1
<1> QED
  BY <1>1, <1>2, <1>8

-----------------------------------------------------------------------------
(* Why the pool stays within maxConcurrentSessions.  The sessions to serve *)
(* and those a running or planned claim call may make ours again are       *)
(* within the limit at any moment.  The planner counts a slot as free when *)
(* its worker is to be given up, so the new claims are within the limit    *)
(* only without those; they come last in the plan, when every claim to     *)
(* give up has been given back.  A release that fails breaks this, and so  *)
(* does a recycle that keeps the claim of a worker to give up, which only  *)
(* GkeSnapshot does.                                                       *)

ClaimStacks == {<<"claim", "prepare", "applySecret", "createPod">>, <<"claim">>}

GiveUpStacks == {<<"recycleDropPin", "release", "deletePod", "deleteSecretForget">>,
                 <<"release", "deletePod", "deleteSecretForget">>}

\* Ours to serve, or about to be claimed again.
Holding(s) == \/ ToServe(row[s])
              \/ plan[s] \cap {"Renew", "StartWorker"} # {}
              \/ s = cur /\ calls \in ClaimStacks

\* About to be given back for good.
Leaving(s) == \/ "GiveUp" \in plan[s]
              \/ s = cur /\ calls \in GiveUpStacks

\* Will be held once the plan is executed.
Wanting(s) == (Holding(s) \/ "Claim" \in plan[s]) /\ ~Leaving(s)

Holders == {s \in Sessions : Holding(s)}

Wanters == {s \in Sessions : Wanting(s)}

ListedToServe == {s \in Sessions : ToServe(listed[s])}

SlotInv ==
    /\ pc \in {"pods", "gc"} =>
          /\ \A s \in Sessions : ToServe(row[s]) => ToServe(listed[s])
          /\ Cardinality(ListedToServe) =< MaxConcurrent
    /\ Cardinality(Holders) =< MaxConcurrent
    /\ Cardinality(Wanters) =< MaxConcurrent

\* The stacks a claim and a give-up go through.
LEMMA SlotStacks ==
    /\ \A c \in Stacks : c # <<>> => Tail(c) \notin ClaimStacks
    /\ \A act \in Actions : \A p :
          Program(act, p) \in ClaimStacks => act \in {"Claim", "StartWorker", "Renew"}
    /\ \A p : Program("GiveUp", p) \in GiveUpStacks
    /\ \A c \in GiveUpStacks :
          /\ c # <<>> /\ c \notin ClaimStacks
          /\ Head(c) = "recycleDropPin" => Tail(c) \in GiveUpStacks
          /\ Head(c) \in {"recycleDropPin", "release"}
    /\ \A c \in {<<>>, <<"deletePodForget">>, <<"recycleKeepPin">>, DeleteArtifacts,
                 ReportedCalls, Teardown} : c \notin ClaimStacks /\ c \notin GiveUpStacks
    /\ <<"claim", "prepare", "applySecret", "createPod">> \notin GiveUpStacks
<1> DEFINE others == {<<>>,
                      <<"prepare", "applySecret", "createPod">>,
                      <<"applySecret", "createPod">>,
                      <<"createPod">>,
                      <<"deletePod", "deleteSecretForget", "release">>,
                      <<"deleteSecretForget", "release">>,
                      <<"release">>,
                      <<"deletePod", "deleteSecretForget", "onTerminate">>,
                      <<"deleteSecretForget", "onTerminate">>,
                      <<"onTerminate">>,
                      <<"release", "deletePod", "deleteSecretForget">>,
                      <<"deletePod", "deleteSecretForget">>,
                      <<"deleteSecretForget">>,
                      <<"onTerminate", "deleteSecret">>,
                      <<"deleteSecret">>}
<1>1. \A c \in Stacks : c # <<>> => Tail(c) \in others
  BY StackTails DEF Stacks
<1>2. \A d \in others : d \notin ClaimStacks
  BY DEF ClaimStacks
<1>3. ASSUME NEW act \in Actions, NEW p, Program(act, p) \in ClaimStacks
      PROVE  act \in {"Claim", "StartWorker", "Renew"}
  <2>1. act \notin {"Claim", "StartWorker", "Renew"} =>
          Program(act, p) \in {
              <<"onSuspend", "deletePod", "deleteSecretForget", "release">>,
              <<"deletePod", "deleteSecretForget", "release">>,
              <<"release", "deletePod", "deleteSecretForget", "onTerminate">>,
              <<"recycleDropPin", "release", "deletePod", "deleteSecretForget">>,
              <<"report">>, <<"deletePodForget">>, <<"deletePod">>}
    BY DEF Program, Actions, SuspendCalls, TerminateCalls, GiveUpCalls, StartupFailedCalls
  <2>2. \A c \in {<<"onSuspend", "deletePod", "deleteSecretForget", "release">>,
                  <<"deletePod", "deleteSecretForget", "release">>,
                  <<"release", "deletePod", "deleteSecretForget", "onTerminate">>,
                  <<"recycleDropPin", "release", "deletePod", "deleteSecretForget">>,
                  <<"report">>, <<"deletePodForget">>, <<"deletePod">>} : c \notin ClaimStacks
    BY DEF ClaimStacks
  <2> QED
    BY <1>3, <2>1, <2>2
<1>4. \A p : Program("GiveUp", p) \in GiveUpStacks
  BY DEF Program, GiveUpCalls, GiveUpStacks
<1>5. \A c \in GiveUpStacks :
          /\ c # <<>> /\ c \notin ClaimStacks
          /\ Head(c) = "recycleDropPin" => Tail(c) \in GiveUpStacks
          /\ Head(c) \in {"recycleDropPin", "release"}
  <2>1. \A c \in GiveUpStacks : c # <<>> /\ c \notin ClaimStacks
    BY DEF GiveUpStacks, ClaimStacks
  <2>2. <<"release", "deletePod", "deleteSecretForget">> \in GiveUpStacks
    BY DEF GiveUpStacks
  <2>3. \A c \in GiveUpStacks : Head(c) = "recycleDropPin" => Tail(c) \in GiveUpStacks
    <3> SUFFICES ASSUME NEW c \in GiveUpStacks, Head(c) = "recycleDropPin"
                 PROVE  Tail(c) \in GiveUpStacks
      OBVIOUS
    <3>1. c # <<"release", "deletePod", "deleteSecretForget">>
      OBVIOUS
    <3>2. c = <<"recycleDropPin", "release", "deletePod", "deleteSecretForget">>
      BY <3>1 DEF GiveUpStacks
    <3> QED
      BY <2>2, <3>2, StackTails
  <2>4. \A c \in GiveUpStacks : Head(c) \in {"recycleDropPin", "release"}
    BY DEF GiveUpStacks
  <2> QED
    BY <2>1, <2>3, <2>4
<1>6. \A c \in {<<>>, <<"deletePodForget">>, <<"recycleKeepPin">>, DeleteArtifacts,
                ReportedCalls, Teardown} : c \notin ClaimStacks /\ c \notin GiveUpStacks
  BY DEF ClaimStacks, GiveUpStacks, DeleteArtifacts, ReportedCalls, Teardown
<1>7. <<"claim", "prepare", "applySecret", "createPod">> \notin GiveUpStacks
  BY DEF GiveUpStacks
<1> HIDE DEF others
<1> QED
  BY <1>1, <1>2, <1>3, <1>4, <1>5, <1>6, <1>7

\* What the plan asks of a session by its listed row: a claim call only where
\* the row was ours to serve or free, and of the former all but those to give
\* up hold a slot.
LEMMA PlannedSlots ==
    ASSUME NEW rows \in [Sessions -> Rows], NEW pods, NEW created, NEW s \in Sessions
    PROVE  LET acts == PlanFor(rows, pods, created, s) IN
           /\ acts \cap {"Renew", "StartWorker"} # {} => ToServe(rows[s])
           /\ "Claim" \in acts => s \in ToClaim(rows, pods, created)
           /\ ToServe(rows[s]) /\ "GiveUp" \notin acts => s \in ActiveOurs(rows, pods)
<1>1. /\ "Claim" \notin PlanForWorker(rows[s], pods[s])
      /\ PlanForWorker(rows[s], pods[s]) = {"GiveUp"}
           => "GiveUp" \in PlanForWorker(rows[s], pods[s])
  BY DEF PlanForWorker, IfDue
<1>2. /\ "Claim" \notin PlanForOurs(rows[s], pods[s])
      /\ PlanForOurs(rows[s], pods[s]) \cap {"Renew", "StartWorker"} # {} =>
             rows[s].status \notin {"suspended", "terminated"}
      /\ NeedsWorker(rows[s]) =>
             PlanForOurs(rows[s], pods[s]) = PlanForWorker(rows[s], pods[s])
  BY <1>1 DEF PlanForOurs, NeedsWorker
<1>3. rows[s].status \notin {"suspended", "terminated"} => NeedsWorker(rows[s])
  <2>1. rows[s] \in Rows
    OBVIOUS
  <2> QED
    BY <2>1 DEF Rows, Statuses, NeedsWorker
<1> QED
  BY <1>1, <1>2, <1>3 DEF PlanFor, ToServe, ActiveOurs

\* The sessions held and wanted come from those held or wanted before.
Shrinks ==
    /\ Holders' \subseteq Holders \/ Holders' \subseteq Wanters
    /\ Wanters' \subseteq Wanters \/ Wanters' \subseteq Holders

\* The pass adds no session to those held and wanted but when it plans; the
\* first new claim is begun when no claim is left to give up.
LEMMA PassStepSlots ==
    ASSUME Types, PlanInv, PassStep, ~GcAndPlan
    PROVE  Shrinks
<1>0. /\ row \in [Sessions -> Rows] /\ plan \in [Sessions -> SUBSET Actions]
      /\ pc \in {"idle", "pods", "gc"} => calls = <<>>
  BY DEF Types, TypeOK, CallsInv
<1>a. /\ <<>> \notin ClaimStacks /\ <<>> \notin GiveUpStacks
      /\ <<"recycleKeepPin">> \notin ClaimStacks /\ DeleteArtifacts \notin ClaimStacks
  BY SlotStacks
<1> USE DEF Shrinks, Holders, Wanters, Holding, Wanting, Leaving
<1>1. CASE ListSessions
  <2>1. \A s \in Sessions : ToServe(row'[s]) => ToServe(row[s])
    <3>1. Next /\ ~CallClaim
      BY <1>0, <1>1 DEF Next, PassStep, ListSessions, CallClaim, Calling
    <3> QED
      BY <3>1, ServingStays
  <2>2. UNCHANGED <<plan, cur, calls>>
    BY <1>1 DEF ListSessions
  <2> QED
    BY <2>1, <2>2
<1>2. CASE ListPods \/ BeginRecycling \/ BeginCleaning
  BY <1>2 DEF ListPods, BeginRecycling, BeginCleaning
<1>3. ASSUME NEW s \in Sessions, BeginAction(s) PROVE Shrinks
  <2>1. PICK act \in plan[s] : /\ plan' = [plan EXCEPT ![s] = @ \ {act}]
                               /\ calls' = Program(act, seen[s])
    BY <1>3 DEF BeginAction
  <2>2. act \in Actions /\ calls = <<>> /\ cur' = s /\ UNCHANGED row
    BY <1>0, <1>3, <2>1 DEF BeginAction
  <2>3. /\ plan'[s] = plan[s] \ {act}
        /\ \A t \in Sessions : plan'[t] \subseteq plan[t]
        /\ \A t \in Sessions : t # s => plan'[t] = plan[t]
    BY <1>0, <2>1
  <2>4. calls' \in ClaimStacks => act \in {"Claim", "StartWorker", "Renew"}
    BY <2>1, <2>2, SlotStacks
  <2>5. act = "GiveUp" => calls' \in GiveUpStacks
    BY <2>1, SlotStacks
  <2>6. \A t \in Sessions : Leaving(t) => Leaving(t)'
    BY <1>a, <2>2, <2>3, <2>5
  <2>7. \A t \in Sessions : Holding(t)' => Holding(t) \/ (t = s /\ act = "Claim")
    BY <2>2, <2>3, <2>4, <1>a
  <2>8. Wanters' \subseteq Wanters
    BY <2>1, <2>2, <2>3, <2>6, <2>7
  <2>9. CASE act = "Claim"
    <3>1. plan[s] = {"Claim"}
      BY <2>1, <2>9 DEF PlanInv, Agendas
    <3>2. ASSUME NEW t \in Sessions PROVE "GiveUp" \notin plan[t]
      <4> SUFFICES ASSUME "GiveUp" \in plan[t] PROVE FALSE
        OBVIOUS
      <4>1. plan[t] = {"GiveUp"}
        BY DEF PlanInv, Agendas
      <4>2. Stage(s \in known, {"Claim"}) =< Stage(t \in known, {"GiveUp"})
        BY <1>3, <3>1, <4>1 DEF BeginAction
      <4>3. Stage(t \in known, {"GiveUp"}) = 1 /\ Stage(s \in known, {"Claim"}) = 3
        BY DEF Stage
      <4> QED
        BY <4>2, <4>3
    <3>3. \A t \in Sessions : ~Leaving(t)
      BY <1>a, <2>2, <3>2
    <3>4. Holders' \subseteq Wanters
      BY <2>1, <2>7, <2>9, <3>3
    <3> QED
      BY <2>8, <3>4
  <2>10. CASE act # "Claim"
    BY <2>7, <2>8, <2>10
  <2> QED
    BY <2>9, <2>10
<1>4. ASSUME NEW s \in Sessions, BeginRecycle(s) \/ BeginCleanup(s) PROVE Shrinks
  <2>1. /\ calls = <<>> /\ UNCHANGED <<row, plan>> /\ pc # "execute"
        /\ calls' \in {<<"recycleKeepPin">>, DeleteArtifacts}
    BY <1>4 DEF BeginRecycle, BeginCleanup
  <2> QED
    BY <1>a, <2>1
<1>5. CASE EndPass
  <2>1. calls' = <<>> /\ plan' = [s \in Sessions |-> {}] /\ UNCHANGED row
    BY <1>5 DEF EndPass, Forget
  <2> QED
    BY <1>a, <2>1
<1> QED
  BY <1>1, <1>2, <1>3, <1>4, <1>5 DEF PassStep

\* Nor does a call that is answered: a claim call was counted before, and the
\* last call of a give-up gives the claim back.
LEMMA CallStepSlots ==
    ASSUME "badcall" \notin Disturbances, Policy # "GkeSnapshot", Types, PlanInv, CallStep
    PROVE  Shrinks
<1>0. /\ row \in [Sessions -> Rows] /\ cur \in Sessions /\ calls \in Stacks
      /\ KeepPass /\ calls # <<>>
  BY CallFrame DEF Types, TypeOK, CallsInv
<1>1. UNCHANGED <<plan, cur>> /\ plan[cur] \subseteq {"StartupFailed"}
  BY <1>0 DEF KeepPass, PlanInv
<1>2. calls' \notin ClaimStacks
  BY <1>0, CallFrame, SlotStacks
<1>3. \A s \in Sessions : ToServe(row'[s]) => ToServe(row[s]) \/ (s = cur /\ calls \in ClaimStacks)
  <2>1. Next
    BY DEF Next
  <2>2. CallClaim => calls \in ClaimStacks
    BY <1>0, StackHeads DEF CallClaim, Calling, ClaimStacks
  <2> QED
    BY <2>1, <2>2, ServingStays
<1>4. \A s \in Sessions : Holding(s)' => Holding(s)
  BY <1>1, <1>2, <1>3 DEF Holding
<1>5. ASSUME calls \in GiveUpStacks PROVE calls' \in GiveUpStacks \/ ~ToServe(row'[cur])
  <2>1. Head(calls) \in {"recycleDropPin", "release"}
    BY <1>5, SlotStacks
  <2>2. CallRecycle \/ CallRelease
    BY <1>0, <2>1 DEF CallStep, Calling, CallClaim, CallPrepare, CallApplySecret,
       CallCreatePod, CallOnSuspend, CallDeletePod, CallDeleteSecret, CallOnTerminate,
       CallReport
  <2>3. CASE CallRecycle
    <3>1. Calling("recycleDropPin") /\ ~Calling("recycleKeepPin") /\ ~ColdStarted(seen[cur])
      BY <2>1, <2>3 DEF CallRecycle, Calling, ColdStarted
    <3>2. calls' = Tail(calls)
      BY <2>3, <3>1 DEF CallRecycle, Return, Fault
    <3> QED
      BY <1>5, <3>1, <3>2, SlotStacks DEF Calling
  <2>4. CASE CallRelease
    <3>1. row'[cur] = Released(row[cur], Us) /\ row[cur] \in Rows
      BY <1>0, <2>4 DEF CallRelease
    <3>2. ~ToServe(Released(row[cur], Us))
      BY <3>1 DEF ToServe, Ours, ClaimedBy, Released, Unclaimed, Rows
    <3> QED
      BY <3>1, <3>2
  <2> QED
    BY <2>2, <2>3, <2>4
<1>6. \A s \in Sessions : Wanting(s)' => Wanting(s)
  <2> SUFFICES ASSUME NEW s \in Sessions, Wanting(s)' PROVE Wanting(s)
    OBVIOUS
  <2>1. Holding(s) \/ "Claim" \in plan[s]
    BY <1>1, <1>4 DEF Wanting
  <2>2. ASSUME s = cur, calls \in GiveUpStacks PROVE FALSE
    <3>1. ~ToServe(row'[cur])
      BY <1>1, <1>5, <2>2 DEF Wanting, Leaving
    <3> QED
      BY <1>1, <1>2, <2>2, <3>1 DEF Wanting, Holding
  <2>3. ~Leaving(s)
    BY <1>1, <2>2 DEF Wanting, Leaving
  <2> QED
    BY <2>1, <2>3 DEF Wanting
<1> QED
  BY <1>4, <1>6 DEF Shrinks, Holders, Wanters

\* The plan is within the limit: what it keeps or renews was ours to serve when
\* listed, and its new claims fit the slots the others leave.
LEMMA PlanSlots ==
    ASSUME Types, PlanInv, SlotInv, GcAndPlan
    PROVE  SlotInv'
<1>1. PICK created \in [Sessions -> {0, 1}] : plan' = Plan(listed, seen, created)
  BY DEF GcAndPlan
<1>2. /\ pc = "gc" /\ pc' = "execute" /\ calls = <<>> /\ UNCHANGED <<row, cur, calls>>
      /\ listed \in [Sessions -> Rows]
  BY DEF GcAndPlan, Types, TypeOK, CallsInv
<1>3. <<>> \notin ClaimStacks /\ <<>> \notin GiveUpStacks
  BY SlotStacks
<1>4. ASSUME NEW s \in Sessions
      PROVE  /\ plan'[s] \cap {"Renew", "StartWorker"} # {} => ToServe(listed[s])
             /\ "Claim" \in plan'[s] => s \in ToClaim(listed, seen, created)
             /\ ToServe(listed[s]) /\ "GiveUp" \notin plan'[s] => s \in ActiveOurs(listed, seen)
  BY <1>1, <1>2, PlannedSlots DEF Plan
<1>5. \A s \in Sessions : ToServe(row'[s]) => ToServe(listed[s])
  BY <1>2 DEF SlotInv
<1>6. \A s \in Sessions : Holding(s)' => ToServe(listed[s])
  BY <1>2, <1>3, <1>4, <1>5 DEF Holding
<1>7. \A s \in Sessions : Wanting(s)' =>
         s \in ActiveOurs(listed, seen) \/ s \in ToClaim(listed, seen, created)
  BY <1>4, <1>6 DEF Wanting, Leaving
<1>8. Cardinality(ListedToServe) =< MaxConcurrent
  BY <1>2 DEF SlotInv
<1>9. Cardinality(Holders') =< MaxConcurrent
  <2>1. Holders' \in SUBSET ListedToServe /\ ListedToServe \in SUBSET Sessions
    BY <1>6 DEF Holders, ListedToServe
  <2>2. /\ Cardinality(Holders') =< Cardinality(ListedToServe)
        /\ Cardinality(Holders') \in Nat /\ Cardinality(ListedToServe) \in Nat
    BY <2>1, Fewer
  <2> QED
    BY <1>8, <2>2, MaxConcurrentAssumption
<1>10. Cardinality(Wanters') =< MaxConcurrent
  <2> DEFINE active == ActiveOurs(listed, seen)
             taken == ToClaim(listed, seen, created)
             free == Slots(listed, seen)
  <2>1. active \in SUBSET ListedToServe /\ ListedToServe \in SUBSET Sessions
    BY DEF ActiveOurs, ListedToServe, ToServe
  <2>2. /\ Cardinality(active) =< Cardinality(ListedToServe)
        /\ Cardinality(active) \in Nat /\ Cardinality(ListedToServe) \in Nat
        /\ IsFiniteSet(active)
    BY <2>1, Fewer
  <2>3. /\ taken \in SUBSET Sessions /\ free \in Nat
        /\ Cardinality(taken) =< free
    BY ClaimsFitSlots
  <2>4. IsFiniteSet(taken) /\ Cardinality(taken) \in Nat
    BY <2>3, Fewer
  <2>5. Cardinality(active) + free =< MaxConcurrent
    BY <1>8, <2>2, MaxConcurrentAssumption DEF Slots
  <2>6. active \cup taken \in SUBSET Sessions /\ Wanters' \in SUBSET (active \cup taken)
    BY <1>7, <2>1, <2>3 DEF Wanters
  <2>7. /\ Cardinality(Wanters') =< Cardinality(active \cup taken)
        /\ Cardinality(Wanters') \in Nat /\ Cardinality(active \cup taken) \in Nat
    BY <2>6, Fewer
  <2> HIDE DEF active, taken, free
  <2>8. active \cap taken \in SUBSET Sessions
    BY <2>3
  <2>9. Cardinality(active \cap taken) \in Nat
    BY <2>8, Fewer
  <2>10. Cardinality(active \cup taken)
           = Cardinality(active) + Cardinality(taken) - Cardinality(active \cap taken)
    BY <2>2, <2>4, FS_Union
  <2> QED
    BY <2>2, <2>3, <2>4, <2>5, <2>7, <2>9, <2>10, MaxConcurrentAssumption
<1> QED
  BY <1>2, <1>9, <1>10 DEF SlotInv

\* Every step keeps the sessions held and wanted within the limit.
LEMMA NextSlotInv ==
    ASSUME "badcall" \notin Disturbances, Policy # "GkeSnapshot",
           Types, PlanInv, SlotInv, [Next]_vars
    PROVE  SlotInv'
<1>0. Holders \in SUBSET Sessions /\ Wanters \in SUBSET Sessions
  BY DEF Holders, Wanters
<1>a. <<>> \notin ClaimStacks /\ <<>> \notin GiveUpStacks
  BY SlotStacks
<1>1. ASSUME Shrinks
      PROVE  Cardinality(Holders') =< MaxConcurrent /\ Cardinality(Wanters') =< MaxConcurrent
  <2>1. ASSUME NEW A \in SUBSET Sessions, NEW B \in SUBSET A, Cardinality(A) =< MaxConcurrent
        PROVE  Cardinality(B) =< MaxConcurrent
    <3>1. /\ Cardinality(A) \in Nat /\ Cardinality(B) \in Nat
          /\ Cardinality(B) =< Cardinality(A)
      BY Fewer
    <3> QED
      BY <2>1, <3>1, MaxConcurrentAssumption
  <2> QED
    BY <1>0, <1>1, <2>1 DEF Shrinks, SlotInv
<1>2. ASSUME UNCHANGED <<plan, cur, calls>>,
             \A s \in Sessions : ToServe(row'[s]) => ToServe(row[s])
      PROVE  Shrinks
  BY <1>2 DEF Shrinks, Holders, Wanters, Holding, Wanting, Leaving
<1>3. CASE GcAndPlan
  BY <1>3, PlanSlots
<1>4. CASE PassStep /\ ~GcAndPlan
  <2>1. Shrinks
    BY <1>4, PassStepSlots
  <2>2. CASE ListSessions
    <3>1. ListedToServe' \in SUBSET Holders
      <4>1. calls = <<>> /\ listed' = row' /\ \A s \in Sessions : ToServe(row'[s]) => ToServe(row[s])
        <5>1. Next /\ calls = <<>>
          BY <2>2 DEF Next, PassStep, ListSessions, Types, CallsInv
        <5>2. ~CallClaim
          BY <5>1 DEF CallClaim, Calling
        <5> QED
          BY <2>2, <5>1, <5>2, ServingStays DEF ListSessions
      <4> QED
        BY <4>1 DEF ListedToServe, Holders, Holding
    <3>2. /\ Cardinality(Holders) \in Nat /\ Cardinality(ListedToServe') \in Nat
          /\ Cardinality(ListedToServe') =< Cardinality(Holders)
      BY <1>0, <3>1, Fewer
    <3>3. Cardinality(ListedToServe') =< MaxConcurrent
      BY <3>2, MaxConcurrentAssumption DEF SlotInv
    <3>4. pc' = "pods" /\ listed' = row'
      BY <2>2 DEF ListSessions
    <3> QED
      BY <1>1, <2>1, <3>3, <3>4 DEF SlotInv
  <2>3. CASE ListPods
    <3>1. pc = "pods" /\ UNCHANGED <<row, listed>>
      BY <2>3 DEF ListPods
    <3> QED
      BY <1>1, <2>1, <3>1 DEF SlotInv, ListedToServe
  <2>4. CASE ~ListSessions /\ ~ListPods
    <3>1. pc' \notin {"pods", "gc"}
      BY <1>4, <2>4 DEF PassStep, BeginAction, BeginRecycle, BeginCleanup, BeginRecycling,
                        BeginCleaning, EndPass, Forget
    <3> QED
      BY <1>1, <2>1, <3>1 DEF SlotInv
  <2> QED
    BY <2>2, <2>3, <2>4
<1>5. CASE CallStep
  <2>1. Shrinks
    BY <1>5, CallStepSlots
  <2>2. pc' \notin {"pods", "gc"}
    BY <1>5, CallFrame DEF KeepPass, Types, CallsInv
  <2> QED
    BY <1>1, <2>1, <2>2 DEF SlotInv
<1>6. ~CallFails
  BY DEF CallFails, Fault
<1>7. CASE Crash
  <2>1. calls' = <<>> /\ pc' = "idle" /\ plan' = [s \in Sessions |-> {}] /\ UNCHANGED row
    BY <1>7 DEF Crash, Forget
  <2>2. Shrinks
    BY <1>a, <2>1 DEF Shrinks, Holders, Wanters, Holding, Wanting, Leaving
  <2> QED
    BY <1>1, <2>1, <2>2 DEF SlotInv
<1>8. CASE QueueStep \/ ClusterStep \/ UNCHANGED vars
  <2>1. UNCHANGED <<pc, listed, plan, cur, calls>>
    BY <1>8, OutsideFrame DEF PassUntouched, vars
  <2>2. \A s \in Sessions : ToServe(row'[s]) => ToServe(row[s])
    <3>1. CASE UNCHANGED vars
      BY <3>1 DEF vars
    <3>2. CASE QueueStep \/ ClusterStep
      <4>1. Next
        BY <3>2 DEF Next
      <4>2. ASSUME CallClaim PROVE FALSE
        <5>1. calls' \in {<<>>, Tail(calls)} /\ calls # <<>> /\ Head(calls) = "claim"
          BY <4>2 DEF CallClaim, Return, Calling
        <5>2. calls \in {<<"claim", "prepare", "applySecret", "createPod">>, <<"claim">>}
          BY <5>1, StackHeads DEF Types, CallsInv
        <5> QED
          BY <2>1, <5>1, <5>2, StackTails
      <4> QED
        BY <4>1, <4>2, ServingStays
    <3> QED
      BY <1>8, <3>1, <3>2
  <2>3. Shrinks
    BY <1>2, <2>1, <2>2
  <2> QED
    BY <1>1, <2>1, <2>2, <2>3 DEF SlotInv, ListedToServe
<1> QED
  BY <1>3, <1>4, <1>5, <1>6, <1>7, <1>8 DEF Next

\* Without failing calls the pool never holds more sessions to serve than
\* maxConcurrentSessions: not while it gives workers up and hands their slots
\* on in the same plan, not when the operator crashes in between, not when
\* claims lapse, vanish or change hands under a planned renewal
\* (plan, Action::GiveUp in execute).
THEOREM LimitKept ==
    ASSUME "badcall" \notin Disturbances, Policy # "GkeSnapshot"
    PROVE  Spec => []SlotsRespected
<1>1. Init => SlotInv
  <2> SUFFICES ASSUME Init PROVE SlotInv
    OBVIOUS
  <2>1. \A s \in Sessions : ~ToServe(row[s])
    BY DEF Init, GoneRow, FreshRow, ToServe, Ours, ClaimedBy
  <2>2. <<>> \notin ClaimStacks
    BY SlotStacks
  <2>3. Holders = {} /\ Wanters = {}
    BY <2>1, <2>2 DEF Init, Holders, Wanters, Holding, Wanting
  <2> QED
    BY <2>3, FS_EmptySet, MaxConcurrentAssumption DEF Init, SlotInv
<1>2. Inv /\ SlotInv /\ [Next]_vars => SlotInv'
  BY NextSlotInv DEF Inv
<1>3. SlotInv => SlotsRespected
  <2> SUFFICES ASSUME SlotInv PROVE SlotsRespected
    OBVIOUS
  <2>1. /\ Holders \in SUBSET Sessions
        /\ {s \in Sessions : Serving(s)} \in SUBSET Holders
    BY DEF Holders, Holding, ToServe, Serving
  <2>2. /\ Cardinality(Holders) \in Nat /\ Cardinality({s \in Sessions : Serving(s)}) \in Nat
        /\ Cardinality({s \in Sessions : Serving(s)}) =< Cardinality(Holders)
    BY <2>1, Fewer
  <2> QED
    BY <2>2, MaxConcurrentAssumption DEF SlotInv, SlotsRespected
<1> QED
  BY <1>1, <1>2, <1>3, Invariant, PTL DEF Spec

-----------------------------------------------------------------------------
(* Why a worker that serves a claim of ours has its token.  As long as no  *)
(* call has failed, no pod is without a secret but those on their way out: *)
(* every handler deletes the pod first, and the cleanup of sessions that   *)
(* left the queue comes after the deletion of their pods.  A failed call   *)
(* may leave an orphan's pod behind whose secret is then cleaned up; the   *)
(* session is not ours to serve by then, and start_worker writes a secret  *)
(* right after it claims.  Only a second fault in between breaks this.     *)

\* No worker that is to stay.
Bare(s) == ~(pod[s].here /\ ~pod[s].deleting)

Tokened(s) == Bare(s) \/ secret[s] # "absent"

\* No call has failed.
Calm == faults = 0 \/ "badcall" \notin Disturbances

StartStacks == {
    <<"claim", "prepare", "applySecret", "createPod">>,
    <<"prepare", "applySecret", "createPod">>,
    <<"applySecret", "createPod">>,
    <<"createPod">>,
    <<"claim">>}

\* The secret goes next, after the pod.
ForgetStacks == {<<"deleteSecretForget", "release">>,
                 <<"deleteSecretForget", "onTerminate">>,
                 <<"deleteSecretForget">>}

DropStacks == {<<"onTerminate", "deleteSecret">>, <<"deleteSecret">>}

\* What the running action's remaining calls rely on.
StackTokens ==
    /\ calls = <<"createPod">> => secret[cur] # "absent"
    /\ calls = <<"claim">> => Tokened(cur)
    /\ calls \in StartStacks => cur \in known
    /\ calls \in ForgetStacks => Bare(cur)
    /\ calls \in DropStacks \cup {ReportedCalls} => ~ToServe(row[cur])
    /\ calls \in DropStacks /\ Calm => Bare(cur)

\* What the rest of the pass relies on: sessions it did not list are not ours
\* to serve, and their pods go before their secrets.
ListTokens ==
    /\ pc \in {"pods", "gc"} => \A s \in Sessions :
          /\ s \notin known => ~listed[s].live
          /\ ToServe(listed[s]) => Tokened(s)
    /\ pc = "gc" => \A s \in Sessions : Bare(s) \/ seen[s].here
    /\ \A s \in Sessions : "Renew" \in plan[s] => Tokened(s)
    /\ \A s \in Sessions \ known :
          /\ plan[s] \subseteq {"DeleteOrphanPod"}
          /\ pc # "idle" => ~ToServe(row[s])
          /\ Calm /\ pc \in {"execute", "recycle", "cleanup"} =>
                Bare(s) \/ plan[s] # {} \/ (s = cur /\ calls = <<"deletePod">>)
    /\ pc = "cleanup" => left \cap known = {}

TokenInv ==
    /\ Calm => \A s \in Sessions : Tokened(s)
    /\ WorkerHasToken
    /\ StackTokens
    /\ ListTokens

\* Where the stacks these are about come from.
LEMMA TokenStacks ==
    /\ \A c \in Stacks : c # <<>> =>
          /\ Tail(c) \in StartStacks => c \in StartStacks
          /\ Tail(c) # <<"claim">>
          /\ Tail(c) = <<"createPod">> => Head(c) = "applySecret"
          /\ Tail(c) \in ForgetStacks => Head(c) = "deletePod"
          /\ Tail(c) \in DropStacks =>
                c \in {ReportedCalls, <<"onTerminate", "deleteSecret">>}
          /\ Tail(c) # ReportedCalls
    /\ \A act \in Actions : \A p :
          /\ Program(act, p) \in StartStacks => act \in {"Claim", "StartWorker", "Renew"}
          /\ Program(act, p) = <<"claim">> => act = "Renew"
          /\ Program(act, p) # <<"createPod">>
          /\ Program(act, p) \notin ForgetStacks \cup DropStacks \cup {ReportedCalls}
    /\ \A c \in {<<>>, <<"deletePodForget">>, <<"recycleKeepPin">>, Teardown} :
          c \notin StartStacks \cup ForgetStacks \cup DropStacks \cup {ReportedCalls}
    /\ DeleteArtifacts \in DropStacks
    /\ \A c \in DropStacks \cup {ReportedCalls} : c \notin StartStacks \cup ForgetStacks
    /\ ReportedCalls \notin DropStacks
    /\ <<"createPod">> \in StartStacks /\ <<"claim">> \in StartStacks
<1> DEFINE others == {<<>>,
                      <<"deletePod", "deleteSecretForget", "release">>,
                      <<"release">>,
                      <<"deletePod", "deleteSecretForget", "onTerminate">>,
                      <<"onTerminate">>,
                      <<"release", "deletePod", "deleteSecretForget">>,
                      <<"deletePod", "deleteSecretForget">>,
                      <<"onSuspend", "deletePod", "deleteSecretForget", "release">>,
                      <<"release", "deletePod", "deleteSecretForget", "onTerminate">>,
                      <<"recycleDropPin", "release", "deletePod", "deleteSecretForget">>,
                      <<"report">>, <<"deletePod">>, <<"deletePodForget">>,
                      <<"recycleKeepPin">>}
<1>1. \A d \in others : d \notin StartStacks \cup ForgetStacks \cup DropStacks \cup {ReportedCalls}
  BY DEF StartStacks, ForgetStacks, DropStacks, ReportedCalls
<1>2. /\ \A c \in DropStacks \cup {ReportedCalls} : c \notin StartStacks \cup ForgetStacks
      /\ \A c \in ForgetStacks : c \notin StartStacks
      /\ ReportedCalls \notin DropStacks
  BY DEF StartStacks, ForgetStacks, DropStacks, ReportedCalls
<1>3. <<"createPod">> \in StartStacks /\ <<"claim">> \in StartStacks
  BY DEF StartStacks
<1>4. Teardown \in others /\ DeleteArtifacts \in DropStacks
  BY DEF Teardown, DeleteArtifacts, DropStacks
<1>5. ASSUME NEW c \in Stacks, c # <<>>
      PROVE  \/ Tail(c) \in others
             \/ /\ c \in StartStacks /\ Tail(c) \in StartStacks
                /\ Tail(c) # <<"claim">>
                /\ Tail(c) = <<"createPod">> => Head(c) = "applySecret"
             \/ Tail(c) \in ForgetStacks /\ Head(c) = "deletePod"
             \/ /\ Tail(c) \in DropStacks
                /\ c \in {ReportedCalls, <<"onTerminate", "deleteSecret">>}
  <2> DEFINE final == {<<"createPod">>, <<"claim">>, <<"release">>, <<"onTerminate">>,
                       <<"deleteSecretForget">>, <<"report">>, <<"deleteSecret">>,
                       <<"deletePod">>, <<"deletePodForget">>, <<"recycleKeepPin">>}
             rest == {<<"onSuspend", "deletePod", "deleteSecretForget", "release">>,
                      <<"deleteSecretForget", "release">>,
                      <<"release", "deletePod", "deleteSecretForget", "onTerminate">>,
                      <<"deleteSecretForget", "onTerminate">>,
                      <<"recycleDropPin", "release", "deletePod", "deleteSecretForget">>,
                      <<"release", "deletePod", "deleteSecretForget">>}
             starts == {<<"claim", "prepare", "applySecret", "createPod">>,
                        <<"prepare", "applySecret", "createPod">>}
             deletes == {<<"deletePod", "deleteSecretForget", "release">>,
                         <<"deletePod", "deleteSecretForget", "onTerminate">>,
                         <<"deletePod", "deleteSecretForget">>}
             drops == {<<"deletePodForget", "onTerminate", "deleteSecret">>,
                       <<"onTerminate", "deleteSecret">>}
  <2>1. \/ c \in final \/ c \in rest \/ c \in starts \/ c \in deletes \/ c \in drops
        \/ c = <<"applySecret", "createPod">>
    BY <1>5 DEF Stacks
  <2>2. c \in final \cup rest => Tail(c) \in others
    BY StackTails
  <2>3. c \in deletes => Tail(c) \in ForgetStacks /\ Head(c) = "deletePod"
    <3>1. c \in deletes => Tail(c) \in ForgetStacks
      BY StackTails DEF ForgetStacks
    <3>2. \A d \in deletes : Head(d) = "deletePod"
      OBVIOUS
    <3> QED
      BY <3>1, <3>2
  <2>4. c \in drops => /\ Tail(c) \in DropStacks
                       /\ c \in {ReportedCalls, <<"onTerminate", "deleteSecret">>}
    BY StackTails DEF DropStacks, ReportedCalls
  <2>5. c \in starts => /\ c \in StartStacks /\ Tail(c) \in StartStacks
                        /\ Tail(c) # <<"claim">> /\ Tail(c) # <<"createPod">>
    <3>1. c \in starts => Tail(c) \in {<<"prepare", "applySecret", "createPod">>,
                                      <<"applySecret", "createPod">>}
      BY StackTails
    <3>2. \A d \in {<<"prepare", "applySecret", "createPod">>, <<"applySecret", "createPod">>} :
             d \in StartStacks /\ d # <<"claim">> /\ d # <<"createPod">>
      BY DEF StartStacks
    <3>3. \A d \in starts : d \in StartStacks
      BY DEF StartStacks
    <3> HIDE DEF starts
    <3> QED
      BY <3>1, <3>2, <3>3
  <2>6. c = <<"applySecret", "createPod">> =>
           /\ c \in StartStacks /\ Tail(c) \in StartStacks
           /\ Tail(c) # <<"claim">> /\ Head(c) = "applySecret"
    BY StackTails DEF StartStacks
  <2> HIDE DEF final, rest, starts, deletes, drops, others
  <2> QED
    BY <2>1, <2>2, <2>3, <2>4, <2>5, <2>6
<1>6. ASSUME NEW act \in Actions, NEW p
      PROVE  \/ act \notin {"Claim", "StartWorker", "Renew"} /\ Program(act, p) \in others
             \/ act = "Renew" /\ Program(act, p) = <<"claim">>
             \/ /\ act \in {"Claim", "StartWorker"}
                /\ Program(act, p) = <<"claim", "prepare", "applySecret", "createPod">>
  BY DEF Program, Actions, StartWorkerCalls, SuspendCalls, TerminateCalls, GiveUpCalls,
         StartupFailedCalls
<1>7. /\ <<"claim", "prepare", "applySecret", "createPod">> # <<"claim">>
      /\ <<"claim", "prepare", "applySecret", "createPod">> # <<"createPod">>
      /\ <<"claim">> # <<"createPod">>
      /\ <<"claim", "prepare", "applySecret", "createPod">> \in StartStacks
  BY DEF StartStacks
<1>8. {<<>>, <<"deletePodForget">>, <<"recycleKeepPin">>} \subseteq others
  OBVIOUS
<1> HIDE DEF others
<1>9. ASSUME NEW c \in Stacks, c # <<>>
      PROVE  /\ Tail(c) \in StartStacks => c \in StartStacks
             /\ Tail(c) # <<"claim">>
             /\ Tail(c) = <<"createPod">> => Head(c) = "applySecret"
             /\ Tail(c) \in ForgetStacks => Head(c) = "deletePod"
             /\ Tail(c) \in DropStacks =>
                   c \in {ReportedCalls, <<"onTerminate", "deleteSecret">>}
             /\ Tail(c) # ReportedCalls
  <2>1. CASE Tail(c) \in others
    BY <1>1, <1>3, <2>1
  <2>2. CASE /\ c \in StartStacks /\ Tail(c) \in StartStacks
             /\ Tail(c) # <<"claim">>
             /\ Tail(c) = <<"createPod">> => Head(c) = "applySecret"
    BY <1>2, <2>2
  <2>3. CASE Tail(c) \in ForgetStacks /\ Head(c) = "deletePod"
    BY <1>2, <1>3, <2>3
  <2>4. CASE /\ Tail(c) \in DropStacks
             /\ c \in {ReportedCalls, <<"onTerminate", "deleteSecret">>}
    BY <1>2, <1>3, <2>4
  <2> QED
    BY <1>5, <1>9, <2>1, <2>2, <2>3, <2>4
<1>10. ASSUME NEW act \in Actions, NEW p
       PROVE  /\ Program(act, p) \in StartStacks => act \in {"Claim", "StartWorker", "Renew"}
              /\ Program(act, p) = <<"claim">> => act = "Renew"
              /\ Program(act, p) # <<"createPod">>
              /\ Program(act, p) \notin ForgetStacks \cup DropStacks \cup {ReportedCalls}
  <2>1. CASE act \notin {"Claim", "StartWorker", "Renew"} /\ Program(act, p) \in others
    BY <1>1, <1>3, <2>1
  <2>2. CASE act = "Renew" /\ Program(act, p) = <<"claim">>
    BY <1>2, <1>3, <1>7, <2>2
  <2>3. CASE /\ act \in {"Claim", "StartWorker"}
             /\ Program(act, p) = <<"claim", "prepare", "applySecret", "createPod">>
    BY <1>2, <1>7, <2>3
  <2> QED
    BY <1>6, <2>1, <2>2, <2>3
<1> QED
  BY <1>1, <1>2, <1>3, <1>4, <1>8, <1>9, <1>10

\* Who is called decides which step a call takes.
LEMMA CallHeads ==
    ASSUME Types, CallStep
    PROVE  /\ Head(calls) = "claim" => CallClaim
           /\ Head(calls) = "prepare" => CallPrepare
           /\ Head(calls) = "applySecret" => CallApplySecret
           /\ Head(calls) \in {"deletePod", "deletePodForget"} => CallDeletePod
           /\ CallClaim => Head(calls) = "claim"
           /\ CallCreatePod => calls = <<"createPod">>
           /\ CallDeleteSecret => calls \in ForgetStacks \cup {<<"deleteSecret">>}
<1>0. calls # <<>> /\ calls \in Stacks
  BY CallFrame DEF Types, CallsInv
<1>1. /\ Head(calls) = "claim" => CallClaim
      /\ Head(calls) = "prepare" => CallPrepare
      /\ Head(calls) = "applySecret" => CallApplySecret
      /\ Head(calls) \in {"deletePod", "deletePodForget"} => CallDeletePod
      /\ CallClaim => Head(calls) = "claim"
  BY DEF CallStep, CallClaim, CallPrepare, CallApplySecret, CallCreatePod, CallOnSuspend,
         CallRelease, CallDeletePod, CallDeleteSecret, CallOnTerminate, CallReport,
         CallRecycle, Calling
<1>2. CallCreatePod => calls = <<"createPod">>
  BY <1>0, StackHeads DEF CallCreatePod, Calling
<1>3. CallDeleteSecret => calls \in ForgetStacks \cup {<<"deleteSecret">>}
  BY <1>0, StackHeads DEF CallDeleteSecret, Calling, ForgetStacks
<1> QED
  BY <1>1, <1>2, <1>3

\* A worker that is to stay comes only from start_worker.
LEMMA BareStays ==
    ASSUME Types, Next, NEW s \in Sessions, Bare(s)
    PROVE  Bare(s)' \/ (s = cur /\ CallStep /\ CallCreatePod)
<1>0. pod \in [Sessions -> Pods] /\ pod[s] \in Pods /\ cur \in Sessions
  BY DEF Types, TypeOK
<1> USE DEF Bare
<1>1. CASE CallStep
  <2>1. CASE CallDeletePod
    BY <1>0, <2>1 DEF CallDeletePod, Pods
  <2>2. CASE CallCreatePod
    BY <1>0, <1>1, <2>2 DEF CallCreatePod
  <2> QED
    BY <1>1, <2>1, <2>2, CallFrame
<1>2. CASE ClusterStep
  <2>1. PICK t \in Sessions :
           \/ KubeletReports(t) \/ PodKilled(t) \/ PodGone(t) \/ ImageRollout(t)
           \/ CheckpointDone(t) \/ CheckpointFails(t) \/ ArtifactAges(t)
    BY <1>2 DEF ClusterStep
  <2>0. pod[t] \in Pods
    BY <1>0
  <2>2. CASE KubeletReports(t)
    BY <1>0, <2>0, <2>2 DEF KubeletReports, Pods
  <2>3. CASE PodKilled(t) \/ PodGone(t)
    BY <1>0, <2>0, <2>3 DEF PodKilled, PodGone, NoPod, Pods
  <2>4. CASE ImageRollout(t) \/ CheckpointDone(t)
    BY <1>0, <2>0, <2>4 DEF ImageRollout, CheckpointDone, Pods
  <2>5. CASE CheckpointFails(t) \/ ArtifactAges(t)
    BY <2>5 DEF CheckpointFails, ArtifactAges
  <2> QED
    BY <2>1, <2>2, <2>3, <2>4, <2>5
<1>3. CASE UNCHANGED pod
  BY <1>3
<1>4. CallStep \/ ClusterStep \/ UNCHANGED pod
  BY DEF Next, PassStep, QueueStep, ListSessions, ListPods, GcAndPlan, BeginAction,
         BeginRecycle, BeginCleanup, BeginRecycling, BeginCleaning, EndPass, CallFails,
         Crash, Forget, Enqueue, SetSessionStatus, Tombstone, RivalActs, ClaimAges
<1> QED
  BY <1>1, <1>2, <1>3, <1>4

\* Only calls write secrets, and only those of the running action's session.
LEMMA SecretFrame ==
    ASSUME Types, Next, NEW s \in Sessions, secret[s] # "absent"
    PROVE  secret'[s] # "absent" \/ (s = cur /\ CallStep /\ CallDeleteSecret)
<1>0. secret \in [Sessions -> Secrets] /\ cur \in Sessions
  BY DEF Types, TypeOK
<1>1. CASE CallApplySecret
  BY <1>0, <1>1 DEF CallApplySecret
<1>2. CASE CallRecycle
  <2>1. PICK mark \in {"withPin", "withoutPin"} :
           secret' = [secret EXCEPT ![cur] = mark] \/ UNCHANGED secret
    BY <1>2 DEF CallRecycle
  <2> QED
    BY <1>0, <2>1
<1>3. CASE CallStep /\ CallDeleteSecret
  BY <1>0, <1>3 DEF CallDeleteSecret
<1>4. CASE UNCHANGED secret
  BY <1>4
<1>5. \/ UNCHANGED secret \/ CallApplySecret \/ CallRecycle \/ (CallStep /\ CallDeleteSecret)
  BY DEF Next, PassStep, QueueStep, ClusterStep, CallStep, ListSessions, ListPods, GcAndPlan,
         BeginAction, BeginRecycle, BeginCleanup, BeginRecycling, BeginCleaning, EndPass,
         CallClaim, CallPrepare, CallCreatePod, CallOnSuspend, CallRelease, CallDeletePod,
         CallOnTerminate, CallReport, CallFails, Crash, Forget, Enqueue, SetSessionStatus,
         Tombstone, RivalActs, ClaimAges, KubeletReports, PodKilled, PodGone, ImageRollout,
         CheckpointDone, CheckpointFails, ArtifactAges
<1> QED
  BY <1>1, <1>2, <1>3, <1>4, <1>5

\* Once a failed call is out of the question, so are all that follow one.
LEMMA FaultsOnceCalm ==
    ASSUME "badcall" \notin Disturbances \/ MaxFaults =< 1, Types, Next
    PROVE  /\ faults' # faults => Calm
           /\ Calm' => Calm
           /\ CallFails => ~Calm'
<1>0. faults \in Nat /\ MaxFaults \in Nat /\ faults =< MaxFaults
  BY MaxFaultsAssumption DEF Types, TypeOK
<1>1. \/ faults' = faults
      \/ faults' = faults + 1 /\ faults < MaxFaults
  BY DEF Next, PassStep, QueueStep, ClusterStep, CallStep, ListSessions, ListPods, GcAndPlan,
         BeginAction, BeginRecycle, BeginCleanup, BeginRecycling, BeginCleaning, EndPass,
         CallClaim, CallPrepare, CallApplySecret, CallCreatePod, CallOnSuspend, CallRelease,
         CallDeletePod, CallDeleteSecret, CallOnTerminate, CallReport, CallRecycle, Return,
         Fault, CallFails, Crash, Outside, Enqueue, SetSessionStatus, Tombstone, RivalActs,
         ClaimAges, KubeletReports, PodKilled, PodGone, ImageRollout, CheckpointDone,
         CheckpointFails, ArtifactAges
<1>2. CallFails => faults' = faults + 1 /\ "badcall" \in Disturbances
  BY DEF CallFails, Fault
<1> QED
  BY <1>0, <1>1, <1>2 DEF Calm

\* A worker loses its secret only to the cleanup that a failed call led to.
LEMMA TokenedStays ==
    ASSUME Types, StackTokens, Next, NEW s \in Sessions, Tokened(s)
    PROVE  Tokened(s)' \/ (s = cur /\ CallStep /\ calls = <<"deleteSecret">> /\ ~Calm)
<1>1. CASE Bare(s)
  <2>1. CASE s = cur /\ CallStep /\ CallCreatePod
    <3>1. calls = <<"createPod">>
      BY <2>1, CallHeads
    <3>2. secret' = secret
      BY <2>1 DEF CallCreatePod
    <3> QED
      BY <2>1, <3>1, <3>2 DEF StackTokens, Tokened
  <2> QED
    BY <1>1, <2>1, BareStays DEF Tokened
<1>2. CASE secret[s] # "absent"
  <2>1. CASE s = cur /\ CallStep /\ CallDeleteSecret
    <3>1. calls \in ForgetStacks \cup {<<"deleteSecret">>}
      BY <2>1, CallHeads
    <3>2. Bare(cur) => Tokened(s)'
      <4>1. UNCHANGED pod
        BY <2>1 DEF CallDeleteSecret
      <4> QED
        BY <2>1, <4>1 DEF Bare, Tokened
    <3>3. <<"deleteSecret">> \in DropStacks
      BY DEF DropStacks
    <3> QED
      BY <2>1, <3>1, <3>2, <3>3 DEF StackTokens
  <2> QED
    BY <1>2, <2>1, SecretFrame DEF Tokened
<1> QED
  BY <1>1, <1>2 DEF Tokened

\* A step of the pass starts calls on grounds that stand.
LEMMA PassStepStackTokens ==
    ASSUME Types, PlanInv, TokenInv, PassStep
    PROVE  StackTokens'
<1>0. /\ plan \in [Sessions -> SUBSET Actions]
      /\ pc \in {"idle", "pods", "gc"} => calls = <<>>
  BY DEF Types, TypeOK, CallsInv
<1>a. ASSUME calls' \in {<<>>, <<"recycleKeepPin">>} PROVE StackTokens'
  BY <1>a, TokenStacks DEF StackTokens
<1>1. CASE ListSessions \/ ListPods \/ GcAndPlan \/ BeginRecycling \/ BeginCleaning \/ EndPass
  <2>1. calls' = <<>>
    BY <1>0, <1>1 DEF ListSessions, ListPods, GcAndPlan, BeginRecycling, BeginCleaning,
                      EndPass, Forget
  <2> QED
    BY <1>a, <2>1
<1>2. ASSUME NEW s \in Sessions, BeginAction(s) PROVE StackTokens'
  <2>1. PICK act \in plan[s] : calls' = Program(act, seen[s])
    BY <1>2 DEF BeginAction
  <2>2. act \in Actions /\ cur' = s /\ UNCHANGED <<row, pod, secret, known>>
    BY <1>0, <1>2 DEF BeginAction
  <2>3. calls' \in StartStacks => s \in known
    <3>1. s \notin known => act = "DeleteOrphanPod"
      BY DEF TokenInv, ListTokens
    <3> QED
      BY <2>1, <2>2, <3>1, TokenStacks
  <2>4. calls' = <<"claim">> => Tokened(s)
    <3>1. calls' = <<"claim">> => act = "Renew"
      BY <2>1, <2>2, TokenStacks
    <3> QED
      BY <2>1, <3>1 DEF TokenInv, ListTokens
  <2>5. /\ calls' # <<"createPod">>
        /\ calls' \notin ForgetStacks \cup DropStacks \cup {ReportedCalls}
    BY <2>1, <2>2, TokenStacks
  <2> QED
    BY <2>2, <2>3, <2>4, <2>5 DEF StackTokens, Tokened, Bare
<1>3. ASSUME NEW s \in Sessions, BeginRecycle(s) PROVE StackTokens'
  BY <1>3, <1>a DEF BeginRecycle
<1>4. ASSUME NEW s \in Sessions, BeginCleanup(s) PROVE StackTokens'
  <2>1. /\ calls' = DeleteArtifacts /\ cur' = s /\ calls = <<>> /\ pc = "cleanup"
        /\ UNCHANGED <<row, pod, secret, known, faults>> /\ s \in left
    BY <1>4 DEF BeginCleanup
  <2>2. s \notin known /\ plan[s] = {} /\ calls # <<"deletePod">>
    BY <2>1 DEF TokenInv, ListTokens, PlanInv
  <2>3. ~ToServe(row[s]) /\ (Calm => Bare(s))
    BY <2>1, <2>2 DEF TokenInv, ListTokens
  <2>4. calls' \notin StartStacks \cup ForgetStacks
    BY <2>1, TokenStacks
  <2>5. calls' # <<"createPod">> /\ calls' # <<"claim">>
    BY <2>4, TokenStacks
  <2> QED
    BY <2>1, <2>3, <2>4, <2>5 DEF StackTokens, Bare, Calm
<1> QED
  BY <1>1, <1>2, <1>3, <1>4 DEF PassStep

\* A call leaves, or makes, the grounds of the calls after it.
LEMMA CallStepStackTokens ==
    ASSUME "badcall" \notin Disturbances \/ MaxFaults =< 1,
           Types, PlanInv, TokenInv, CallStep
    PROVE  StackTokens'
<1>0. /\ KeepPass /\ calls # <<>> /\ calls \in Stacks /\ cur \in Sessions
      /\ row \in [Sessions -> Rows] /\ pod \in [Sessions -> Pods] /\ secret \in [Sessions -> Secrets]
  BY CallFrame DEF Types, TypeOK, CallsInv
<1>1. UNCHANGED <<known, cur>>
  BY <1>0 DEF KeepPass
<1>2. ASSUME calls' \in {<<>>, <<"deletePodForget">>, Teardown} PROVE StackTokens'
  <2>1. calls' \notin StartStacks \cup ForgetStacks \cup DropStacks \cup {ReportedCalls}
    BY <1>2, TokenStacks
  <2>2. calls' # <<"createPod">> /\ calls' # <<"claim">>
    BY <2>1, TokenStacks
  <2> QED
    BY <2>1, <2>2 DEF StackTokens
<1>3. CASE CallReport /\ calls' = ReportedCalls
  <2>1. row'[cur] = Reported(row[cur])
    <3>1. ReportedCalls # Teardown /\ ReportedCalls # <<>>
      BY DEF ReportedCalls, Teardown
    <3> QED
      BY <1>0, <1>3, <3>1 DEF CallReport, Return
  <2>2. ~ToServe(row'[cur])
    BY <1>0, <2>1 DEF ToServe, Ours, ClaimedBy, Reported, Tombstoned, Unclaimed, Rows
  <2>3. calls' \notin StartStacks \cup ForgetStacks \cup DropStacks
    BY <1>3, TokenStacks
  <2>4. calls' # <<"createPod">> /\ calls' # <<"claim">>
    BY <2>3, TokenStacks
  <2> QED
    BY <1>1, <2>2, <2>3, <2>4 DEF StackTokens
<1>4. CASE calls' = Tail(calls) /\ ~CallReport
  <2>0. Next
    BY DEF Next
  <2>1. calls' = <<"createPod">> => secret'[cur] # "absent"
    <3>1. calls' = <<"createPod">> => CallApplySecret
      BY <1>0, <1>4, TokenStacks, CallHeads
    <3> QED
      BY <1>0, <3>1 DEF CallApplySecret
  <2>2. calls' # <<"claim">> /\ calls' # ReportedCalls
    BY <1>0, <1>4, TokenStacks
  <2>3. calls' \in StartStacks => cur \in known
    BY <1>0, <1>4, TokenStacks DEF TokenInv, StackTokens
  <2>4. CallDeletePod => Bare(cur)'
    BY <1>0, <1>1 DEF CallDeletePod, Bare, Pods
  <2>5. calls' \in ForgetStacks => Bare(cur)'
    BY <1>0, <1>4, <2>4, TokenStacks, CallHeads
  <2>6. ASSUME calls' \in DropStacks
        PROVE  ~ToServe(row'[cur]) /\ (Calm' => Bare(cur)')
    <3>1. calls \in {ReportedCalls, <<"onTerminate", "deleteSecret">>}
      BY <1>0, <1>4, <2>6, TokenStacks
    <3>2. <<"onTerminate", "deleteSecret">> \in DropStacks
      BY DEF DropStacks
    <3>3. calls \in DropStacks \cup {ReportedCalls}
      BY <3>1, <3>2
    <3>4. calls \notin StartStacks
      BY <3>3, TokenStacks
    <3>5. ~ToServe(row'[cur])
      <4>1. ~ToServe(row[cur])
        BY <3>3 DEF TokenInv, StackTokens
      <4>2. ~CallClaim
        <5>1. Head(calls) # "claim"
          BY <3>1 DEF ReportedCalls
        <5> QED
          BY <5>1, CallHeads
      <4> QED
        BY <1>0, <2>0, <4>1, <4>2, ServingStays
    <3>6. Calm' => Bare(cur)'
      <4>1. CASE calls = ReportedCalls
        <5>1. Head(calls) = "deletePodForget"
          BY <4>1 DEF ReportedCalls
        <5> QED
          BY <2>4, <5>1, CallHeads
      <4>2. CASE calls = <<"onTerminate", "deleteSecret">>
        <5>1. Calm' => Calm
          BY <2>0, FaultsOnceCalm
        <5>2. Calm => Bare(cur)
          BY <3>2, <4>2 DEF TokenInv, StackTokens
        <5>3. ~CallCreatePod
          BY <3>4, CallHeads, TokenStacks
        <5> QED
          BY <1>0, <1>1, <2>0, <5>1, <5>2, <5>3, BareStays
      <4> QED
        BY <3>1, <4>1, <4>2
    <3> QED
      BY <3>5, <3>6
  <2> QED
    BY <1>1, <2>1, <2>2, <2>3, <2>5, <2>6 DEF StackTokens
<1>5. \/ calls' \in {<<>>, <<"deletePodForget">>, Teardown}
      \/ CallReport /\ calls' = ReportedCalls
      \/ calls' = Tail(calls) /\ ~CallReport
  <2>1. CallReport => calls' \in {<<>>, ReportedCalls, Teardown}
    BY DEF CallReport, Return
  <2> QED
    BY <2>1, CallFrame
<1> QED
  BY <1>2, <1>3, <1>4, <1>5

\* A call, answered or not, is behind its caller.
LEMMA CallsMoveOn ==
    ASSUME Types, CallStep
    PROVE  calls' # calls
<1>0. calls # <<>> /\ calls \in Stacks /\ calls \in Seq(CallNames)
  BY CallFrame DEF Types, CallsInv, TypeOK
<1>1. calls # Tail(calls)
  <2>1. Len(Tail(calls)) = Len(calls) - 1 /\ Len(calls) \in Nat
    BY <1>0
  <2> QED
    BY <2>1
<1>2. CASE CallReport
  <2>1. Head(calls) = "report"
    BY <1>2 DEF CallReport, Calling
  <2>2. calls' \in {<<>>, ReportedCalls, Teardown}
    BY <1>2 DEF CallReport, Return
  <2>3. Head(ReportedCalls) = "deletePodForget" /\ Head(Teardown) = "deletePod"
    BY DEF ReportedCalls, Teardown
  <2> QED
    BY <1>0, <2>1, <2>2, <2>3
<1>3. CASE CallRecycle
  <2>1. Head(calls) \in {"recycleKeepPin", "recycleDropPin"}
    BY <1>3 DEF CallRecycle, Calling
  <2>2. calls' \in {<<>>, <<"deletePodForget">>, Tail(calls)}
    BY <1>3 DEF CallRecycle, Return
  <2>3. Head(<<"deletePodForget">>) = "deletePodForget"
    OBVIOUS
  <2> QED
    BY <1>0, <1>1, <2>1, <2>2, <2>3
<1>4. CASE ~CallReport /\ ~CallRecycle
  <2>1. calls' \in {<<>>, Tail(calls)}
    BY <1>4 DEF CallStep, CallClaim, CallPrepare, CallApplySecret, CallCreatePod,
                CallOnSuspend, CallRelease, CallDeletePod, CallDeleteSecret,
                CallOnTerminate, Return
  <2> QED
    BY <1>0, <1>1, <2>1
<1> QED
  BY <1>2, <1>3, <1>4

\* Every step keeps the grounds of the running action.
LEMMA NextStackTokens ==
    ASSUME "badcall" \notin Disturbances \/ MaxFaults =< 1,
           Types, PlanInv, TokenInv, Next
    PROVE  StackTokens'
<1>1. CASE CallFails \/ Crash
  <2>1. calls' = <<>>
    BY <1>1 DEF CallFails, Crash, Forget
  <2> QED
    BY <2>1, TokenStacks DEF StackTokens
<1>2. CASE QueueStep \/ ClusterStep
  <2>1. UNCHANGED <<known, cur, calls>>
    BY <1>2, OutsideFrame DEF PassUntouched
  <2>2. ~CallStep /\ Next
    BY <1>2, <2>1, CallsMoveOn DEF Next
  <2>3. UNCHANGED secret
    BY <1>2 DEF QueueStep, ClusterStep, Enqueue, SetSessionStatus, Tombstone, RivalActs,
                ClaimAges, KubeletReports, PodKilled, PodGone, ImageRollout,
                CheckpointDone, CheckpointFails, ArtifactAges
  <2>4. cur \in Sessions
    BY DEF Types, TypeOK
  <2>5. /\ Bare(cur) => Bare(cur)'
        /\ Tokened(cur) => Tokened(cur)'
        /\ ~ToServe(row[cur]) => ~ToServe(row'[cur])
        /\ Calm' => Calm
    <3>1. Bare(cur) => Bare(cur)'
      BY <2>1, <2>2, <2>4, BareStays
    <3>2. Tokened(cur) => Tokened(cur)'
      BY <2>1, <2>2, <2>4, TokenedStays DEF TokenInv
    <3>3. ~ToServe(row[cur]) => ~ToServe(row'[cur])
      <4>1. ~CallClaim
        BY <2>1, CallsMoveOn DEF CallStep
      <4> QED
        BY <2>2, <2>4, <4>1, ServingStays
    <3>4. Calm' => Calm
      BY <2>2, FaultsOnceCalm
    <3> QED
      BY <3>1, <3>2, <3>3, <3>4
  <2> QED
    BY <2>1, <2>3, <2>5 DEF TokenInv, StackTokens, Tokened, Bare
<1> QED
  BY <1>1, <1>2, PassStepStackTokens, CallStepStackTokens DEF Next

\* What the plan asks of a session that was not listed: at most that its pod
\* go, and that it does if there is one.
LEMMA UnlistedPlans ==
    ASSUME NEW rows, NEW pods, NEW created, NEW s \in Sessions, ~rows[s].live
    PROVE  LET acts == PlanFor(rows, pods, created, s) IN
           /\ acts \subseteq {"DeleteOrphanPod"}
           /\ pods[s].here => acts # {}
<1>1. ~Ours(rows[s]) /\ s \notin ToClaim(rows, pods, created)
  BY DEF Ours, ClaimedBy, ToClaim, Claimable
<1> QED
  BY <1>1 DEF PlanFor, Orphaned

\* A step of the pass keeps what the pass relies on.
LEMMA PassStepListTokens ==
    ASSUME Types, PlanInv, TokenInv, PassStep
    PROVE  ListTokens'
<1>0. /\ plan \in [Sessions -> SUBSET Actions] /\ row \in [Sessions -> Rows]
      /\ listed \in [Sessions -> Rows]
      /\ pc \in {"idle", "pods", "gc"} => calls = <<>>
      /\ pc # "execute" => \A s \in Sessions : plan[s] = {}
  BY DEF Types, TypeOK, CallsInv, PlanInv
<1> USE DEF TokenInv, ListTokens, Tokened, Bare, Calm
<1>1. CASE ListSessions
  <2>1. /\ pc = "idle" /\ pc' = "pods" /\ listed' = row'
        /\ row' = [s \in Sessions |-> ExpireStale(row[s])]
        /\ known' = {s \in Sessions : row[s].live}
        /\ UNCHANGED <<pod, secret, plan>>
    BY <1>1 DEF ListSessions
  <2>2. ASSUME NEW s \in Sessions, ~row[s].live
        PROVE  ~row'[s].live /\ ~ToServe(row'[s])
    <3>1. row'[s] = row[s]
      BY <2>1, <2>2 DEF ExpireStale, IsStale
    <3> QED
      BY <2>2, <3>1 DEF ToServe, Ours, ClaimedBy
  <2>3. ASSUME NEW s \in Sessions, ToServe(listed'[s])
        PROVE  Tokened(s)
    <3>1. ToServe(row[s])
      <4>1. Next /\ ~CallClaim
        BY <1>0, <1>1, <2>1 DEF Next, PassStep, CallClaim, Calling
      <4> QED
        BY <2>1, <2>3, <4>1, ServingStays
    <3>2. ~Calling("prepare") /\ ~Calling("applySecret")
      BY <1>0, <2>1 DEF Calling
    <3> QED
      BY <3>1, <3>2 DEF WorkerHasToken, Serving, ToServe
  <2> QED
    BY <1>0, <2>1, <2>2, <2>3
<1>2. CASE ListPods
  BY <1>2 DEF ListPods
<1>3. CASE GcAndPlan
  <2>1. PICK created \in [Sessions -> {0, 1}] : plan' = Plan(listed, seen, created)
    BY <1>3 DEF GcAndPlan
  <2>2. /\ pc = "gc" /\ pc' = "execute" /\ faults' \in {faults, faults + 1}
        /\ UNCHANGED <<row, pod, secret, known>>
    BY <1>3 DEF GcAndPlan, Fault
  <2>3. ASSUME NEW s \in Sessions, "Renew" \in plan'[s] PROVE Tokened(s)
    <3>1. "Renew" \in PlanFor(listed, seen, created, s)
      BY <2>1, <2>3 DEF Plan
    <3>2. ToServe(listed[s])
      BY <1>0, <3>1, PlannedSlots
    <3> QED
      BY <2>2, <3>2
  <2>4. ASSUME NEW s \in Sessions \ known
        PROVE  /\ plan'[s] \subseteq {"DeleteOrphanPod"}
               /\ ~ToServe(row[s])
               /\ Bare(s) \/ plan'[s] # {}
    <3>1. ~listed[s].live /\ plan'[s] = PlanFor(listed, seen, created, s)
      BY <2>1, <2>2 DEF Plan
    <3>2. Bare(s) \/ seen[s].here
      BY <2>2
    <3> QED
      BY <2>2, <3>1, <3>2, UnlistedPlans
  <2> QED
    BY <2>2, <2>3, <2>4
<1>4. ASSUME NEW s \in Sessions, BeginAction(s) PROVE ListTokens'
  <2>1. PICK act \in plan[s] : /\ plan' = [plan EXCEPT ![s] = @ \ {act}]
                               /\ calls' = Program(act, seen[s])
    BY <1>4 DEF BeginAction
  <2>2. /\ cur' = s /\ calls = <<>> /\ pc = "execute"
        /\ UNCHANGED <<row, pod, secret, pc, known, faults>>
    BY <1>4 DEF BeginAction
  <2>3. /\ \A t \in Sessions : plan'[t] \subseteq plan[t]
        /\ \A t \in Sessions : t # s => plan'[t] = plan[t]
    BY <1>0, <2>1
  <2>4. s \notin known => calls' = <<"deletePod">>
    <3>1. s \notin known => act = "DeleteOrphanPod"
      BY <2>1
    <3> QED
      BY <2>1, <3>1 DEF Program
  <2>5. <<>> # <<"deletePod">>
    OBVIOUS
  <2> QED
    BY <2>2, <2>3, <2>4, <2>5
<1>5. ASSUME NEW s \in Sessions, BeginRecycle(s) \/ BeginCleanup(s) PROVE ListTokens'
  <2>1. /\ calls = <<>> /\ UNCHANGED <<row, pod, secret, pc, known, plan, faults>>
        /\ left' \subseteq left /\ pc \in {"recycle", "cleanup"}
    BY <1>5 DEF BeginRecycle, BeginCleanup
  <2>2. <<>> # <<"deletePod">>
    OBVIOUS
  <2> QED
    BY <2>1, <2>2
<1>6. CASE BeginRecycling \/ BeginCleaning
  <2>1. /\ calls = <<>> /\ UNCHANGED <<row, pod, secret, known, plan, faults, cur, calls>>
        /\ pc \in {"execute", "recycle"} /\ pc' \in {"recycle", "cleanup"}
        /\ pc' = "cleanup" => left' \cap known = {}
    BY <1>6 DEF BeginRecycling, BeginCleaning
  <2> QED
    BY <2>1
<1>7. CASE EndPass
  BY <1>7 DEF EndPass, Forget
<1> QED
  BY <1>1, <1>2, <1>3, <1>4, <1>5, <1>6, <1>7 DEF PassStep

\* So does every other step.
LEMMA NextListTokens ==
    ASSUME "badcall" \notin Disturbances \/ MaxFaults =< 1,
           Types, PlanInv, TokenInv, Next
    PROVE  ListTokens'
<1>1. CASE Crash
  BY <1>1 DEF Crash, Forget, ListTokens
<1>2. CASE CallStep \/ CallFails \/ QueueStep \/ ClusterStep
  <2>0. /\ cur \in Sessions /\ calls \in Stacks
        /\ pc \in {"pods", "gc"} => calls = <<>>
    BY DEF Types, TypeOK, CallsInv
  <2>1. /\ UNCHANGED <<pc, listed, known, plan, left, cur>>
        /\ pc = "gc" => UNCHANGED seen
    <3>1. CASE CallStep \/ CallFails
      BY <2>0, <3>1, CallFrame DEF CallFails, KeepPass
    <3>2. CASE QueueStep \/ ClusterStep
      BY <3>2, OutsideFrame DEF PassUntouched
    <3> QED
      BY <1>2, <3>1, <3>2
  <2>2. CallStep => calls # <<>> /\ plan[cur] \subseteq {"StartupFailed"}
    BY CallFrame DEF PlanInv
  <2>3. ASSUME NEW s \in Sessions, Tokened(s)
        PROVE  Tokened(s)' \/ (s = cur /\ CallStep)
    BY <2>3, TokenedStays DEF TokenInv
  <2>4. ASSUME NEW s \in Sessions, Bare(s)
        PROVE  Bare(s)' \/ (s = cur /\ CallStep /\ cur \in known)
    <3>1. CASE s = cur /\ CallStep /\ CallCreatePod
      <4>1. calls \in StartStacks
        BY <3>1, CallHeads, TokenStacks
      <4> QED
        BY <3>1, <4>1 DEF TokenInv, StackTokens
    <3> QED
      BY <2>4, <3>1, BareStays
  <2>5. ASSUME NEW s \in Sessions \ known, pc # "idle" PROVE ~ToServe(row'[s])
    <3>1. ~ToServe(row[s])
      BY <2>5 DEF TokenInv, ListTokens
    <3>2. ASSUME CallClaim, s = cur PROVE FALSE
      <4>1. calls \in StartStacks
        <5>1. calls # <<>> /\ Head(calls) = "claim"
          BY <3>2 DEF CallClaim, Calling
        <5> QED
          BY <2>0, <5>1, StackHeads DEF StartStacks
      <4> QED
        BY <2>5, <3>2, <4>1 DEF TokenInv, StackTokens
    <3> QED
      BY <3>1, <3>2, ServingStays
  <2>6. ASSUME NEW s \in Sessions \ known, Calm', pc \in {"execute", "recycle", "cleanup"}
        PROVE  Bare(s)' \/ plan[s] # {} \/ (s = cur /\ calls' = <<"deletePod">>)
    <3>1. Calm /\ ~CallFails
      BY <2>6, FaultsOnceCalm
    <3>2. Bare(s) \/ plan[s] # {} \/ (s = cur /\ calls = <<"deletePod">>)
      BY <2>6, <3>1 DEF TokenInv, ListTokens
    <3>3. CASE s = cur /\ calls = <<"deletePod">> /\ CallStep
      <4>1. CallDeletePod
        BY <3>3, CallHeads
      <4>2. pod' = [pod EXCEPT ![s].deleting = pod[s].here] /\ pod \in [Sessions -> Pods]
        BY <3>3, <4>1 DEF CallDeletePod, Types, TypeOK
      <4> QED
        BY <4>2 DEF Bare, Pods
    <3>4. CASE ~CallStep
      <4>1. calls' = calls
        BY <1>2, <3>1, <3>4, OutsideFrame DEF PassUntouched
      <4> QED
        BY <2>4, <3>2, <3>4, <4>1
    <3> QED
      BY <2>4, <2>6, <3>2, <3>3, <3>4
  <2>7. ASSUME NEW s \in Sessions, "Renew" \in plan[s] PROVE Tokened(s)'
    <3>1. Tokened(s) /\ ~(s = cur /\ CallStep)
      BY <2>2, <2>7 DEF TokenInv, ListTokens
    <3> QED
      BY <2>3, <3>1
  <2>8. ASSUME NEW s \in Sessions, pc \in {"pods", "gc"}
        PROVE  /\ Bare(s) => Bare(s)'
               /\ Tokened(s) => Tokened(s)'
    BY <2>0, <2>2, <2>3, <2>4, <2>8
  <2> HIDE DEF Tokened, Bare, Calm
  <2>9. /\ pc \in {"pods", "gc"} => \A s \in Sessions :
             /\ s \notin known => ~listed[s].live
             /\ ToServe(listed[s]) => Tokened(s)'
        /\ pc = "gc" => \A s \in Sessions : Bare(s)' \/ seen[s].here
        /\ \A s \in Sessions \ known : plan[s] \subseteq {"DeleteOrphanPod"}
        /\ pc = "cleanup" => left \cap known = {}
    BY <2>8 DEF TokenInv, ListTokens
  <2> QED
    BY <2>1, <2>5, <2>6, <2>7, <2>9 DEF ListTokens
<1> QED
  BY <1>1, <1>2, PassStepListTokens DEF Next


\* Whoever comes to serve a claim has a token, or is about to write it.
LEMMA NextServed ==
    ASSUME "badcall" \notin Disturbances \/ MaxFaults =< 1,
           Types, PlanInv, TokenInv, Next
    PROVE  WorkerHasToken'
<1>0. /\ calls \in Stacks /\ cur \in Sessions
      /\ row \in [Sessions -> Rows] /\ secret \in [Sessions -> Secrets]
      /\ pc \in {"idle", "pods", "gc"} => calls = <<>>
  BY DEF Types, TypeOK, CallsInv
<1>1. ASSUME NEW s \in Sessions, ToServe(row'[s]), ~Tokened(s)'
      PROVE  cur' = s /\ (Calling("prepare") \/ Calling("applySecret"))'
  <2>1. ASSUME Tokened(s) PROVE FALSE
    <3>1. s = cur /\ CallStep /\ calls = <<"deleteSecret">>
      BY <1>1, <2>1, TokenedStays DEF TokenInv
    <3>2. ~ToServe(row[s])
      BY <3>1 DEF TokenInv, StackTokens, DropStacks
    <3>3. ~CallClaim
      BY <3>1 DEF CallClaim, Calling
    <3> QED
      BY <1>1, <3>2, <3>3, ServingStays
  <2>2. ~Tokened(s) /\ ~Calm /\ faults' = faults
    <3>1. ~Tokened(s)
      BY <2>1
    <3>2. ~Calm
      BY <3>1 DEF TokenInv
    <3> QED
      BY <3>1, <3>2, FaultsOnceCalm
  <2>3. CASE CallClaim /\ s = cur
    <3>1. calls \in {<<"claim", "prepare", "applySecret", "createPod">>, <<"claim">>}
      BY <1>0, <2>3, StackHeads DEF CallClaim, Calling
    <3>2. calls # <<"claim">>
      BY <2>2, <2>3 DEF TokenInv, StackTokens
    <3>3. CASE CanClaim(row[cur], Us)
      <4>1. calls' = Tail(calls) /\ cur' = cur
        BY <2>2, <2>3, <3>3 DEF CallClaim, Return, Fault, KeepPass, Types, TypeOK
      <4>2. calls' = <<"prepare", "applySecret", "createPod">>
        BY <3>1, <3>2, <4>1, StackTails
      <4>3. calls' # <<>> /\ Head(calls') = "prepare"
        BY <4>2
      <4> QED
        BY <2>3, <4>1, <4>3 DEF Calling
    <3>4. CASE ~CanClaim(row[cur], Us)
      <4>1. row'[s] = row[s]
        BY <1>0, <2>3, <3>4 DEF CallClaim
      <4>2. ~Calling("prepare") /\ ~Calling("applySecret")
        BY <2>3 DEF CallClaim, Calling
      <4> QED
        BY <1>1, <2>2, <4>1, <4>2 DEF TokenInv, WorkerHasToken, Serving, ToServe, Tokened, Bare
    <3> QED
      BY <3>3, <3>4
  <2>4. CASE ~(CallClaim /\ s = cur)
    <3>1. ToServe(row[s])
      BY <1>1, <2>4, ServingStays
    <3>2. cur = s /\ (Calling("prepare") \/ Calling("applySecret"))
      BY <2>2, <3>1 DEF TokenInv, WorkerHasToken, Serving, ToServe, Tokened, Bare
    <3>3. calls # <<>> /\ Head(calls) \in {"prepare", "applySecret"}
      BY <3>2 DEF Calling
    <3>4. CASE CallStep
      <4>1. cur' = cur
        BY <3>4, CallFrame DEF KeepPass
      <4>2. CASE Head(calls) = "prepare"
        <5>1. CallPrepare
          BY <3>4, <4>2, CallHeads
        <5>2. calls' = Tail(calls)
          BY <2>2, <5>1 DEF CallPrepare, Return, Fault, Types, TypeOK
        <5>3. calls' = <<"applySecret", "createPod">>
          BY <1>0, <3>3, <4>2, <5>2, StackHeads, StackTails
        <5>4. calls' # <<>> /\ Head(calls') = "applySecret"
          BY <5>3
        <5> QED
          BY <3>2, <4>1, <5>4 DEF Calling
      <4>3. CASE Head(calls) = "applySecret"
        <5>1. CallApplySecret
          BY <3>4, <4>3, CallHeads
        <5>2. secret'[cur] # "absent"
          BY <1>0, <5>1 DEF CallApplySecret
        <5> QED
          BY <1>1, <3>2, <5>2 DEF Tokened
      <4> QED
        BY <3>3, <4>2, <4>3
    <3>5. CASE QueueStep \/ ClusterStep
      <4>1. UNCHANGED <<cur, calls>>
        BY <3>5, OutsideFrame DEF PassUntouched
      <4> QED
        BY <3>2, <4>1 DEF Calling
    <3>6. ~PassStep
      BY <3>3 DEF PassStep, ListSessions, ListPods, GcAndPlan, BeginAction, BeginRecycle,
                  BeginCleanup, BeginRecycling, BeginCleaning, EndPass, Types, CallsInv
    <3>7. ~CallFails /\ ~Crash
      BY <2>2 DEF CallFails, Crash, Fault, Types, TypeOK
    <3> QED
      BY <3>4, <3>5, <3>6, <3>7 DEF Next
  <2> QED
    BY <2>3, <2>4
<1> QED
  BY <1>1 DEF WorkerHasToken, Serving, ToServe, Tokened, Bare

\* Every step keeps the tokens.
LEMMA NextTokenInv ==
    ASSUME "badcall" \notin Disturbances \/ MaxFaults =< 1
    PROVE  Types /\ PlanInv /\ TokenInv /\ [Next]_vars => TokenInv'
<1> SUFFICES ASSUME Types, PlanInv, TokenInv, [Next]_vars PROVE TokenInv'
  OBVIOUS
<1>1. CASE Next
  <2>1. ASSUME Calm', NEW s \in Sessions PROVE Tokened(s)'
    <3>1. Calm
      BY <1>1, <2>1, FaultsOnceCalm
    <3> QED
      BY <1>1, <3>1, TokenedStays DEF TokenInv
  <2> QED
    BY <1>1, <2>1, NextServed, NextStackTokens, NextListTokens DEF TokenInv
<1>2. CASE UNCHANGED vars
  <2> USE <1>2 DEF vars
  <2>1. \A s \in Sessions : (Tokened(s)' <=> Tokened(s)) /\ (Bare(s)' <=> Bare(s))
    BY DEF Tokened, Bare
  <2>2. Calm' <=> Calm
    BY DEF Calm
  <2>3. WorkerHasToken'
    BY DEF TokenInv, WorkerHasToken, Serving, Calling
  <2>4. StackTokens'
    BY DEF TokenInv, StackTokens, Tokened, Bare, Calm
  <2>5. ListTokens'
    BY DEF TokenInv, ListTokens, Tokened, Bare, Calm
  <2> QED
    BY <2>1, <2>2, <2>3, <2>4, <2>5 DEF TokenInv
<1> QED
  BY <1>1, <1>2

\* Unless a second fault follows a failed call, a worker that is to stay for a
\* claim of ours has its token secret, or start_worker is about to write it:
\* whatever the server, the cluster and one crash do between the listing, the
\* cleanup of sessions that left the queue and the start of a worker
\* (start_worker, delete_orphaned_artifacts, recycle_unrestored_pod).
THEOREM TokenKept ==
    ASSUME "badcall" \notin Disturbances \/ MaxFaults =< 1
    PROVE  Spec => []WorkerHasToken
<1>1. Init => TokenInv
  <2> SUFFICES ASSUME Init PROVE TokenInv
    OBVIOUS
  <2>1. \A s \in Sessions : Tokened(s) /\ Bare(s) /\ ~ToServe(row[s])
    BY DEF Init, GoneRow, FreshRow, NoPod, ToServe, Ours, ClaimedBy, Tokened, Bare
  <2>2. StackTokens
    BY <2>1, TokenStacks DEF Init, StackTokens
  <2>3. ListTokens
    BY <2>1 DEF Init, ListTokens
  <2>4. WorkerHasToken
    BY <2>1 DEF WorkerHasToken, Serving, ToServe
  <2> QED
    BY <2>1, <2>2, <2>3, <2>4 DEF TokenInv
<1>2. Inv /\ TokenInv /\ [Next]_vars => TokenInv'
  BY NextTokenInv DEF Inv
<1>3. TokenInv => WorkerHasToken
  BY DEF TokenInv
<1> QED
  BY <1>1, <1>2, <1>3, Invariant, PTL DEF Spec

=============================================================================
