------------------------------ MODULE Elector ------------------------------
(***************************************************************************)
(* Lease-based leader election of the operator's replicas (elector.rs).    *)
(*                                                                         *)
(* One attempt of try_acquire is three steps: the clock is read, the lease *)
(* is fetched and judged, the lease is written under the resourceVersion   *)
(* fetched.  Time is counted in ticks on one clock; a replica's sleep ends *)
(* when its timer is due and an attempt is over within CallBound ticks, so *)
(* the clock waits for a replica whose timer has come.                     *)
(***************************************************************************)
EXTENDS Integers

CONSTANTS
    Replicas,
    Nobody,             \* no holder: the lease does not exist yet
    LeaseDuration,      \* LEASE_DURATION
    RenewInterval,      \* RENEW_INTERVAL
    CallBound,          \* longest an attempt takes, answered or failed
    MaxClock            \* bound on the clock

ASSUME TimesAssumption ==
    /\ LeaseDuration \in Nat \ {0}
    /\ RenewInterval \in Nat \ {0}
    /\ CallBound \in Nat
    /\ MaxClock \in Nat
ASSUME NobodyAssumption == Nobody \notin Replicas

VARIABLES
    clock,
    holder,     \* spec.holderIdentity
    renewTime,  \* spec.renewTime
    mode,       \* a replica waits to lead, acts as leader, or is restarting
    step,       \* where it is in try_acquire
    stamp,      \* `now`, read before the lease is fetched
    verdict,    \* what it decided to write, from the lease it fetched
    current,    \* its resourceVersion is still the lease's
    renewed,    \* last_renewed
    timer       \* end of its sleep, or of its attempt

vars == <<clock, holder, renewTime, mode, step, stamp, verdict, current, renewed, timer>>

Verdicts == {"none", "create", "renew", "take"}

TypeOK ==
    /\ clock \in Nat
    /\ holder \in Replicas \cup {Nobody}
    /\ renewTime \in Nat
    /\ mode \in [Replicas -> {"candidate", "leader", "down"}]
    /\ step \in [Replicas -> {"sleep", "get", "put"}]
    /\ stamp \in [Replicas -> Nat]
    /\ verdict \in [Replicas -> Verdicts]
    /\ current \in [Replicas -> BOOLEAN]
    /\ renewed \in [Replicas -> Nat]
    /\ timer \in [Replicas -> Nat]

Init ==
    /\ clock = 0
    /\ holder = Nobody
    /\ renewTime = 0
    /\ mode = [i \in Replicas |-> "candidate"]
    /\ step = [i \in Replicas |-> "sleep"]
    /\ stamp = [i \in Replicas |-> 0]
    /\ verdict = [i \in Replicas |-> "none"]
    /\ current = [i \in Replicas |-> FALSE]
    /\ renewed = [i \in Replicas |-> 0]
    /\ timer = [i \in Replicas |-> 0]

-----------------------------------------------------------------------------
Expired == clock - renewTime >= LeaseDuration

\* What try_acquire does with the lease it fetched.
Judge(i) ==
    CASE holder = Nobody -> "create"
      [] holder = i      -> "renew"
      [] holder # Nobody /\ holder # i /\ Expired  -> "take"
      [] OTHER           -> "none"

\* The attempt is over: sleep, and try again.
Sleep(i) ==
    /\ step' = [step EXCEPT ![i] = "sleep"]
    /\ timer' = [timer EXCEPT ![i] = clock + RenewInterval]
    /\ verdict' = [verdict EXCEPT ![i] = "none"]
    /\ UNCHANGED <<clock, stamp>>

\* The process exits; Kubernetes restarts it as a candidate.
Exit(i) ==
    /\ mode' = [mode EXCEPT ![i] = "down"]
    /\ UNCHANGED renewed

\* Ok(true): a candidate returns from become_leader into hold.
Succeed(i) ==
    /\ mode' = [mode EXCEPT ![i] = "leader"]
    /\ renewed' = [renewed EXCEPT ![i] = clock]
    /\ Sleep(i)

\* Ok(false): someone else's lease.  A leader has lost it.
Refused(i) ==
    /\ \/ mode[i] = "leader" /\ Exit(i)
       \/ mode[i] # "leader" /\ UNCHANGED <<mode, renewed>>
    /\ Sleep(i)

FailedIgnored(i) == UNCHANGED <<mode, renewed>> /\ Sleep(i)                \* mutant

\* Err: a leader goes on until it has not renewed for a full lease.
Failed(i) ==
    /\ \/ mode[i] = "leader" /\ clock - renewed[i] >= LeaseDuration /\ Exit(i)
       \/ /\ mode[i] # "leader" \/ clock - renewed[i] < LeaseDuration
          /\ UNCHANGED <<mode, renewed>>
    /\ Sleep(i)

WriteLeaseBackdated(i) ==                                                  \* mutant
    /\ holder' = i
    /\ renewTime' = stamp[i] - LeaseDuration
    /\ current' = [j \in Replicas |-> FALSE]

\* The write lands; every other resourceVersion is stale from here on.
WriteLease(i) ==
    /\ holder' = i
    /\ renewTime' = stamp[i]
    /\ current' = [j \in Replicas |-> FALSE]

-----------------------------------------------------------------------------
StartAttempt(i) ==
    /\ mode[i] # "down" /\ step[i] = "sleep" /\ clock >= timer[i]
    /\ step' = [step EXCEPT ![i] = "get"]
    /\ stamp' = [stamp EXCEPT ![i] = clock]
    /\ timer' = [timer EXCEPT ![i] = clock + CallBound]
    /\ UNCHANGED <<clock, holder, renewTime, mode, verdict, current, renewed>>

\* get_opt, and the decision on what came back.
GetLease(i) ==
    /\ mode[i] # "down" /\ step[i] = "get"
    /\ \/ /\ Judge(i) # "none"
          /\ step' = [step EXCEPT ![i] = "put"]
          /\ verdict' = [verdict EXCEPT ![i] = Judge(i)]
          /\ current' = [current EXCEPT ![i] = TRUE]
          /\ UNCHANGED <<clock, stamp, mode, renewed, timer>>
       \/ Judge(i) = "none" /\ Refused(i) /\ UNCHANGED current
    /\ UNCHANGED <<holder, renewTime>>

PutUnconditionally(i) ==                                                   \* mutant
    /\ mode[i] # "down" /\ step[i] = "put"
    /\ WriteLease(i) /\ Succeed(i)

\* create or replace; a concurrent write is a 409, which is Ok(false).
PutLease(i) ==
    /\ mode[i] # "down" /\ step[i] = "put"
    /\ \/ current[i] /\ WriteLease(i) /\ Succeed(i)
       \/ ~current[i] /\ Refused(i) /\ UNCHANGED <<holder, renewTime, current>>

\* A call that fails, or whose answer is lost after the write landed.
CallFails(i) ==
    /\ mode[i] # "down" /\ step[i] # "sleep"
    /\ Failed(i)
    /\ \/ UNCHANGED <<holder, renewTime, current>>
       \/ step[i] = "put" /\ current[i] /\ WriteLease(i)

\* The process dies at any point.
Crash(i) ==
    /\ mode[i] # "down"
    /\ Exit(i) /\ Sleep(i)
    /\ UNCHANGED <<holder, renewTime, current>>

Restart(i) ==
    /\ mode[i] = "down" /\ clock >= timer[i]
    /\ mode' = [mode EXCEPT ![i] = "candidate"]
    /\ timer' = [timer EXCEPT ![i] = clock]
    /\ UNCHANGED <<clock, holder, renewTime, step, stamp, verdict, current, renewed>>

\* Time passes while no live replica is due.
Tick ==
    /\ clock < MaxClock
    /\ \A i \in Replicas : mode[i] # "down" => clock < timer[i]
    /\ clock' = clock + 1
    /\ UNCHANGED <<holder, renewTime, mode, step, stamp, verdict, current, renewed, timer>>

Next ==
    \/ Tick
    \/ \E i \in Replicas :
          \/ StartAttempt(i) \/ GetLease(i) \/ PutLease(i)
          \/ CallFails(i) \/ Crash(i) \/ Restart(i)

Spec == Init /\ [][Next]_vars

-----------------------------------------------------------------------------
\* The lease never changes hands before the last renewal on it is a full
\* LEASE_DURATION old, however the candidates' and the holder's calls
\* interleave (try_acquire's optimistic concurrency).
TakeoverAfterExpiry ==
    [][holder # Nobody /\ holder' # holder => Expired]_vars

\* A leader that cannot renew stops acting: none is further from its last
\* renewal than a lease, one more sleep and one more attempt (hold).
LeaderNeverStale ==
    \A i \in Replicas :
        mode[i] = "leader" =>
            clock - renewed[i] < LeaseDuration + RenewInterval + CallBound

=============================================================================
