--------------------------- MODULE FailoverProofs ---------------------------
(***************************************************************************)
(* The acceptor id across leaders, for any replicas and durations.         *)
(***************************************************************************)
EXTENDS Failover, ElectorProofs

\* Only a leader has an id or is about to apply one, and it applies one only
\* where none is stored: so long as no two replicas lead, nobody else can.
IdentityInv ==
    /\ DOMAIN cell = Replicas /\ DOMAIN draft = Replicas
    /\ \A i \in Replicas : cell[i] # 0 \/ draft[i] # 0 => i \in Leaders
    /\ ~overlapped => /\ \A i, j \in Leaders : i = j
                      /\ \A i \in Replicas : draft[i] # 0 => stored = 0
                      /\ OneIdentity

\* A leader stops leading only by ending its process.
LEMMA LeadersEnd ==
    ASSUME TypeOK, Next, NEW i \in Leaders, i \notin Leaders'
    PROVE  i \in Ending
<1> USE DEF TypeOK, Leaders, Ending
<1>1. CASE Tick
  BY <1>1 DEF Tick
<1>2. ASSUME NEW j \in Replicas, StartAttempt(j) \/ GetLease(j) PROVE i \in Ending
  BY <1>2 DEF StartAttempt, GetLease, Refused, Exit, Sleep
<1>3. ASSUME NEW j \in Replicas, PutLease(j) \/ CallFails(j) PROVE i \in Ending
  BY <1>3 DEF PutLease, CallFails, Succeed, Refused, Failed, Exit, Sleep
<1>4. ASSUME NEW j \in Replicas, Crash(j) \/ Restart(j) PROVE i \in Ending
  BY <1>4 DEF Crash, Restart, Exit, Sleep
<1> QED
  BY <1>1, <1>2, <1>3, <1>4 DEF Next

\* Every step of a replica that leads or of the election keeps the invariant.
LEMMA NextIdentityInv ==
    ASSUME TypeOK, IdentityInv, [FailoverNext]_allVars
    PROVE  IdentityInv'
<1> USE DEF IdentityInv, OneIdentity
<1>1. CASE ElectorStep
  <2>1. \A i \in Leaders : i \in Leaders' \/ i \in Ending
    BY <1>1, LeadersEnd DEF ElectorStep
  <2>2. \A i \in Replicas : i \notin Ending => cell'[i] = cell[i] /\ draft'[i] = draft[i]
    BY <1>1 DEF ElectorStep
  <2>3. \A i \in Replicas : i \in Ending => cell'[i] = 0 /\ draft'[i] = 0
    BY <1>1 DEF ElectorStep
  <2>4. \A i \in Replicas : cell'[i] # 0 \/ draft'[i] # 0 => i \in Leaders'
    BY <2>1, <2>2, <2>3
  <2>5. DOMAIN cell' = Replicas /\ DOMAIN draft' = Replicas
    BY <1>1 DEF ElectorStep
  <2>6. ~overlapped' => ~overlapped /\ \A i, j \in Leaders' : i = j
    BY <1>1 DEF ElectorStep
  <2>7. ASSUME ~overlapped, stored' # stored
        PROVE  \A i \in Replicas : cell'[i] = 0 /\ draft'[i] = 0
    <3>1. PICK i \in Ending : draft[i] # 0
      BY <1>1, <2>7 DEF ElectorStep
    <3>2. i \in Replicas
      BY DEF Ending
    <3>3. \A j \in Replicas : cell[j] # 0 \/ draft[j] # 0 => j = i
      BY <2>7, <3>1, <3>2
    <3> QED
      BY <2>2, <2>3, <3>3
  <2>8. ~overlapped' => /\ \A i \in Replicas : draft'[i] # 0 => stored' = 0
                        /\ \A i \in Replicas : cell'[i] \in {0, stored'}
    BY <2>2, <2>3, <2>6, <2>7
  <2> QED
    BY <2>4, <2>5, <2>6, <2>8
<1>2. ASSUME NEW i \in Replicas, GetId(i) PROVE IdentityInv'
  BY <1>2 DEF GetId, Leaders, vars
<1>3. ASSUME NEW i \in Replicas, ApplyId(i) PROVE IdentityInv'
  BY <1>3 DEF ApplyId, Leaders, vars
<1>4. ASSUME NEW i \in Replicas, IdCallFails(i) PROVE IdentityInv'
  BY <1>4 DEF IdCallFails, NoId, Leaders, vars
<1>5. CASE UNCHANGED allVars
  BY <1>5 DEF allVars, identity, vars, Leaders
<1> QED
  BY <1>1, <1>2, <1>3, <1>4, <1>5 DEF FailoverNext

\* The identity goes with the election and takes nothing from it, so what is
\* proved of the lease holds here too (main.rs).
THEOREM FailoverIsElection == FailoverSpec => Spec
<1>1. [FailoverNext]_allVars => [Next]_vars
  BY DEF FailoverNext, ElectorStep, GetId, ApplyId, IdCallFails, allVars
<1> QED
  BY <1>1, PTL DEF FailoverSpec, FailoverInit, Spec

LEMMA IdentityInvariant == FailoverSpec => []IdentityInv
<1>1. FailoverInit => IdentityInv
  BY DEF FailoverInit, Init, IdentityInv, OneIdentity, Leaders
<1>2. TypeOK /\ IdentityInv /\ [FailoverNext]_allVars => IdentityInv'
  BY NextIdentityInv
<1>3. Inv => TypeOK
  BY DEF Inv
<1> QED
  BY <1>1, <1>2, <1>3, FailoverIsElection, Invariant, PTL DEF FailoverSpec

\* Unless two replicas led at once, every process acts under the stored id
\* (acceptor_id).
THEOREM SameIdentity == FailoverSpec => []OneIdentity
<1>1. IdentityInv => OneIdentity
  BY DEF IdentityInv, OneIdentity
<1> QED
  BY <1>1, IdentityInvariant, PTL

\* ... and the stored id stays (acceptor_id).
THEOREM StoredIdentityStays == FailoverSpec => IdentityKept
<1>1. IdentityInv /\ [FailoverNext]_allVars
        => [stored # 0 /\ ~overlapped => stored' = stored]_allVars
  <2> SUFFICES ASSUME IdentityInv, FailoverNext, stored # 0, ~overlapped
               PROVE  stored' = stored
    BY DEF allVars
  <2>1. CASE ElectorStep
    BY <2>1 DEF ElectorStep, IdentityInv, Ending
  <2>2. ASSUME NEW i \in Replicas, GetId(i) \/ ApplyId(i) \/ IdCallFails(i)
        PROVE  stored' = stored
    BY <2>2 DEF GetId, ApplyId, IdCallFails, IdentityInv
  <2> QED
    BY <2>1, <2>2 DEF FailoverNext
<1> QED
  BY <1>1, IdentityInvariant, PTL DEF FailoverSpec, IdentityKept

=============================================================================
