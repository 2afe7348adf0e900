--------------------------- MODULE ElectorProofs ---------------------------
(***************************************************************************)
(* Proofs about Elector, for any set of replicas and any durations.        *)
(***************************************************************************)
EXTENDS Elector, TLAPS

\* A replica about to write under a current resourceVersion still sees the
\* lease as it judged it: absent, its own, or expired (and time only adds to
\* that).
WriterInv ==
    \A i \in Replicas :
        step[i] = "put" /\ current[i] => holder \in {Nobody, i} \/ Expired

\* A leader's timer comes before it is too far from its last renewal, and the
\* clock does not pass the timer.
TimerInv ==
    \A i \in Replicas :
        mode[i] = "leader" =>
            /\ clock =< timer[i]
            /\ step[i] = "sleep" => timer[i] - renewed[i] < LeaseDuration + RenewInterval
            /\ timer[i] - renewed[i] < LeaseDuration + RenewInterval + CallBound

Inv == TypeOK /\ WriterInv /\ TimerInv

\* The inductive invariant holds initially.
LEMMA InitInv == Init => Inv
  BY TimesAssumption DEF Init, Inv, TypeOK, WriterInv, TimerInv, Verdicts

\* Every step keeps the types.
LEMMA NextTypeOK == TypeOK /\ [Next]_vars => TypeOK'
<1> SUFFICES ASSUME TypeOK, [Next]_vars PROVE TypeOK'
  OBVIOUS
<1> USE TimesAssumption DEF TypeOK, Verdicts
<1>1. CASE Tick
  BY <1>1 DEF Tick
<1>2. ASSUME NEW i \in Replicas, StartAttempt(i) PROVE TypeOK'
  BY <1>2 DEF StartAttempt
<1>3. ASSUME NEW i \in Replicas, GetLease(i) PROVE TypeOK'
  <2>1. Judge(i) \in Verdicts
    BY DEF Judge
  <2>2. CASE Judge(i) # "none"
    BY <1>3, <2>1, <2>2 DEF GetLease
  <2>3. CASE Judge(i) = "none"
    BY <1>3, <2>3 DEF GetLease, Refused, Exit, Sleep
  <2> QED
    BY <2>2, <2>3
<1>4. ASSUME NEW i \in Replicas, PutLease(i) PROVE TypeOK'
  <2>1. CASE current[i] /\ WriteLease(i) /\ Succeed(i)
    BY <2>1 DEF WriteLease, Succeed, Sleep
  <2>2. CASE ~current[i] /\ Refused(i) /\ UNCHANGED <<holder, renewTime, current>>
    BY <2>2 DEF Refused, Exit, Sleep
  <2> QED
    BY <1>4, <2>1, <2>2 DEF PutLease
<1>5. ASSUME NEW i \in Replicas, CallFails(i) PROVE TypeOK'
  <2>1. CASE UNCHANGED <<holder, renewTime, current>>
    BY <1>5, <2>1 DEF CallFails, Failed, Exit, Sleep
  <2>2. CASE step[i] = "put" /\ current[i] /\ WriteLease(i)
    BY <1>5, <2>2 DEF CallFails, Failed, Exit, Sleep, WriteLease
  <2> QED
    BY <1>5, <2>1, <2>2 DEF CallFails
<1>6. ASSUME NEW i \in Replicas, Crash(i) PROVE TypeOK'
  BY <1>6 DEF Crash, Exit, Sleep
<1>7. ASSUME NEW i \in Replicas, Restart(i) PROVE TypeOK'
  BY <1>7 DEF Restart
<1>8. CASE UNCHANGED vars
  BY <1>8 DEF vars
<1> QED
  BY <1>1, <1>2, <1>3, <1>4, <1>5, <1>6, <1>7, <1>8 DEF Next

\* Every step keeps what a writer relies on: a write by anyone else makes its
\* resourceVersion stale.
LEMMA NextWriterInv == TypeOK /\ WriterInv /\ [Next]_vars => WriterInv'
<1> SUFFICES ASSUME TypeOK, WriterInv, [Next]_vars PROVE WriterInv'
  OBVIOUS
<1> USE TimesAssumption DEF TypeOK, WriterInv, Expired
<1>1. CASE Tick
  BY <1>1 DEF Tick
<1>2. ASSUME NEW i \in Replicas, StartAttempt(i) PROVE WriterInv'
  BY <1>2 DEF StartAttempt
<1>3. ASSUME NEW i \in Replicas, GetLease(i) PROVE WriterInv'
  BY <1>3 DEF GetLease, Judge, Refused, Exit, Sleep
<1>4. ASSUME NEW i \in Replicas, PutLease(i) PROVE WriterInv'
  BY <1>4 DEF PutLease, WriteLease, Succeed, Refused, Exit, Sleep
<1>5. ASSUME NEW i \in Replicas, CallFails(i) PROVE WriterInv'
  BY <1>5 DEF CallFails, WriteLease, Failed, Exit, Sleep
<1>6. ASSUME NEW i \in Replicas, Crash(i) PROVE WriterInv'
  BY <1>6 DEF Crash, Exit, Sleep
<1>7. ASSUME NEW i \in Replicas, Restart(i) PROVE WriterInv'
  BY <1>7 DEF Restart
<1>8. CASE UNCHANGED vars
  BY <1>8 DEF vars
<1> QED
  BY <1>1, <1>2, <1>3, <1>4, <1>5, <1>6, <1>7, <1>8 DEF Next

\* Every step keeps a leader's timer within reach of its last renewal.
LEMMA NextTimerInv == TypeOK /\ TimerInv /\ [Next]_vars => TimerInv'
<1> SUFFICES ASSUME TypeOK, TimerInv, [Next]_vars PROVE TimerInv'
  OBVIOUS
<1> USE TimesAssumption DEF TypeOK, TimerInv
<1>1. CASE Tick
  BY <1>1 DEF Tick
<1>2. ASSUME NEW i \in Replicas, StartAttempt(i) PROVE TimerInv'
  BY <1>2 DEF StartAttempt
<1>3. ASSUME NEW i \in Replicas, GetLease(i) PROVE TimerInv'
  BY <1>3 DEF GetLease, Refused, Exit, Sleep
<1>4. ASSUME NEW i \in Replicas, PutLease(i) PROVE TimerInv'
  BY <1>4 DEF PutLease, Succeed, Refused, Exit, Sleep
<1>5. ASSUME NEW i \in Replicas, CallFails(i) PROVE TimerInv'
  BY <1>5 DEF CallFails, Failed, Exit, Sleep
<1>6. ASSUME NEW i \in Replicas, Crash(i) PROVE TimerInv'
  BY <1>6 DEF Crash, Exit, Sleep
<1>7. ASSUME NEW i \in Replicas, Restart(i) PROVE TimerInv'
  BY <1>7 DEF Restart
<1>8. CASE UNCHANGED vars
  BY <1>8 DEF vars
<1> QED
  BY <1>1, <1>2, <1>3, <1>4, <1>5, <1>6, <1>7, <1>8 DEF Next

\* The inductive invariant of the election.
THEOREM Invariant == Spec => []Inv
<1>1. Inv /\ [Next]_vars => Inv'
  BY NextTypeOK, NextWriterInv, NextTimerInv DEF Inv
<1> QED
  BY InitInv, <1>1, PTL DEF Spec

\* Every reachable state is well typed (try_acquire, become_leader, hold).
THEOREM TypeCorrect == Spec => []TypeOK
<1>1. Inv => TypeOK
  BY DEF Inv
<1> QED
  BY <1>1, Invariant, PTL

\* However attempts interleave, fail or lose their answers, the lease changes
\* hands only a full LEASE_DURATION after its last renewal (try_acquire).
THEOREM LeaseTakeover == Spec => TakeoverAfterExpiry
<1>1. Inv /\ [Next]_vars => [holder # Nobody /\ holder' # holder => Expired]_vars
  <2> SUFFICES ASSUME Inv, Next, holder # Nobody, holder' # holder PROVE Expired
    BY DEF vars
  <2> USE DEF Inv, TypeOK, WriterInv
  <2>1. CASE Tick
    BY <2>1 DEF Tick
  <2>2. ASSUME NEW i \in Replicas, StartAttempt(i) \/ GetLease(i) \/ Crash(i) \/ Restart(i)
        PROVE Expired
    BY <2>2 DEF StartAttempt, GetLease, Crash, Restart
  <2>3. ASSUME NEW i \in Replicas, PutLease(i) PROVE Expired
    BY <2>3 DEF PutLease, WriteLease
  <2>4. ASSUME NEW i \in Replicas, CallFails(i) PROVE Expired
    BY <2>4 DEF CallFails, WriteLease
  <2> QED
    BY <2>1, <2>2, <2>3, <2>4 DEF Next
<1> QED
  BY <1>1, Invariant, PTL DEF Spec, TakeoverAfterExpiry

\* A leader cut off from the lease stops acting within a lease, one sleep and
\* one attempt of its last renewal (hold).
THEOREM BoundedLeadership == Spec => []LeaderNeverStale
<1>1. Inv => LeaderNeverStale
  BY TimesAssumption DEF Inv, TypeOK, TimerInv, LeaderNeverStale
<1> QED
  BY <1>1, Invariant, PTL

=============================================================================
