------------------------------ MODULE Contract ------------------------------
(***************************************************************************)
(* What an outpost promises the queue and the sessions, whatever its       *)
(* passes are made of (controller/mod.rs:20-58).  The operator has its     *)
(* hand on one session at a time; the queue, the other acceptors and the   *)
(* cluster move on under it at every step.                                 *)
(*                                                                         *)
(*   - Only a granted claim makes a session ours, and only the hand that   *)
(*     was granted it goes on to create a worker.                          *)
(*   - The claim of a session that has not ended goes back into the queue  *)
(*     after its worker, or because it is overdue.                         *)
(*   - The worker of a session to serve is not stopped while it is still   *)
(*     waiting to start: it is reported first, which ends the claim.       *)
(***************************************************************************)
CONSTANT Sessions

VARIABLES
    claim,      \* what has become of each session
    overdue,    \* the sessions whose claims of ours are past their deadline
    worker,     \* how far each session's worker is
    who,        \* the session the operator has its hand on
    at          \* what it is about to do to it, or "idle"

state == <<claim, overdue, worker, who, at>>

\* Our claims: on a session to serve, a suspended one, one that has ended.
Held == {"serve", "suspended", "ended"}

Init ==
    /\ claim = [s \in Sessions |-> "gone"]
    /\ overdue = {}
    /\ worker = [s \in Sessions |-> "none"]
    /\ who \in Sessions
    /\ at = "idle"

-----------------------------------------------------------------------------
(* The world: the server, other acceptors, the sessions, the cluster.      *)

\* A session vanishes, is queued again, is claimed and released elsewhere,
\* moves on to its end; a claim of ours falls to others when it is overdue.
Drifts(s) ==
    \/ claim'[s] \in {claim[s], "gone"}
    \/ claim[s] = "gone" /\ claim'[s] = "queued"
    \/ claim[s] \in {"queued", "elsewhere"} /\ claim'[s] \in {"queued", "elsewhere"}
    \/ claim[s] = "serve" /\ claim'[s] \in {"suspended", "ended"}
    \/ claim[s] = "suspended" /\ claim'[s] = "ended"
    \/ claim[s] \in Held /\ s \in overdue /\ claim'[s] \in {"queued", "elsewhere"}

\* A worker only ever goes on towards its end.
Wanes(s) ==
    \/ worker'[s] = worker[s]
    \/ worker[s] = "waiting" /\ worker'[s] \in {"begun", "spent"}
    \/ worker[s] = "begun" /\ worker'[s] = "spent"
    \/ worker[s] = "spent" /\ worker'[s] = "none"

World ==
    /\ \A s \in Sessions : Drifts(s) /\ Wanes(s)
    /\ \A s \in overdue : claim'[s] \in Held => s \in overdue'
    /\ overdue' \subseteq {s \in Sessions : claim'[s] \in Held}
    /\ UNCHANGED <<who, at>>

-----------------------------------------------------------------------------
(* The operator.  What it does may succeed without its knowing: it then    *)
(* takes its hand off.                                                     *)

Begin(s) ==
    /\ at = "idle"
    /\ who' = s
    /\ at' \in {"claim", "report", "release", "stop", "rest"}
    /\ UNCHANGED <<claim, overdue, worker>>

\* Also a renewal.
Claim ==
    /\ at = "claim"
    /\ \/ /\ claim[who] # "gone"
          /\ \E c \in Held : /\ claim[who] \in Held => c = claim[who]
                             /\ claim' = [claim EXCEPT ![who] = c]
          /\ overdue' = overdue \ {who}
          /\ at' \in {"start", "idle"}
       \/ at' = "idle" /\ UNCHANGED <<claim, overdue>>
    /\ UNCHANGED <<worker, who>>

\* The resume artifacts and the token.
Prepare ==
    /\ at = "start"
    /\ at' \in {"start", "create", "idle"}
    /\ UNCHANGED <<claim, overdue, worker, who>>

\* A worker that is there already is taken for the session's.
Create ==
    /\ at = "create"
    /\ worker' = [worker EXCEPT ![who] = IF @ = "none" THEN "waiting" ELSE @]
    /\ at' = "idle"
    /\ UNCHANGED <<claim, overdue, who>>

\* Nothing of this leads to a start.
After == {"stop", "release", "rest", "idle"}

Stop ==
    /\ at = "stop"
    /\ claim[who] = "serve" => worker[who] # "waiting"
    /\ worker' = [worker EXCEPT ![who] = IF @ = "none" THEN "none" ELSE "spent"]
    /\ at' \in After
    /\ UNCHANGED <<claim, overdue, who>>

Release ==
    /\ at = "release"
    /\ claim[who] \in {"serve", "suspended"} /\ who \notin overdue =>
          worker[who] \in {"none", "spent"}
    /\ claim' = [claim EXCEPT ![who] = IF @ \in Held THEN "queued" ELSE @]
    /\ overdue' = overdue \ {who}
    /\ at' \in After
    /\ UNCHANGED <<worker, who>>

\* The server's answer, whatever it is, leaves nothing of ours to serve.
Report ==
    /\ at = "report"
    /\ claim' = [claim EXCEPT ![who] = IF @ \in Held THEN "gone" ELSE @]
    /\ overdue' = overdue \ {who}
    /\ at' \in {"stop", "idle"}
    /\ UNCHANGED <<worker, who>>

\* Checkpoints, artifacts, secrets.
Rest ==
    /\ at = "rest"
    /\ at' \in After
    /\ UNCHANGED <<claim, overdue, worker, who>>

\* A call that does not arrive, a crash.
Break == at' = "idle" /\ UNCHANGED <<claim, overdue, worker, who>>

Operator ==
    \/ \E s \in Sessions : Begin(s)
    \/ Claim \/ Prepare \/ Create \/ Stop \/ Release \/ Report \/ Rest \/ Break

Next == World \/ Operator

Spec == Init /\ [][Next]_state
=============================================================================
