---------------------------- MODULE SessionQueue ----------------------------
(***************************************************************************)
(* One row of the upstream session queue, and what each queue operation    *)
(* does to it.  The server is not part of the operator; its behaviour is   *)
(* the one the repository's own mock of it (tests/mock_server/mod.rs)      *)
(* implements and the client (api/client.rs) relies on.                    *)
(*                                                                         *)
(* Times are abstracted to what the operator tells apart: a claim deadline *)
(* is "far" (outside the renew margin), "near" (inside it) or "past".      *)
(***************************************************************************)
EXTENDS Integers

CONSTANTS
    Us,             \* the acceptor id of this operator
    Rival,          \* some other acceptor serving the same pool
    NoAcceptor      \* acceptor_id: null

ASSUME AcceptorsDistinct ==
    /\ Us # Rival
    /\ Us # NoAcceptor
    /\ Rival # NoAcceptor

Statuses == {"pending", "running", "suspended", "terminated"}

Deadlines == {"none", "far", "near", "past"}

\* A pending row has neither an acceptor nor a deadline.
Rows == {r \in [live     : BOOLEAN,               \* not tombstoned
                phase    : {"pending", "claimed"},
                acceptor : {Us, Rival, NoAcceptor},
                deadline : Deadlines,
                status   : Statuses] :
            IF r.phase = "pending" THEN r.acceptor = NoAcceptor /\ r.deadline = "none"
                                   ELSE r.acceptor # NoAcceptor /\ r.deadline # "none"}

ClaimedBy(r, a) == r.live /\ r.phase = "claimed" /\ r.acceptor = a

\* The statuses under which a session still needs a worker.  The client's
\* `Unknown` status is planned for exactly like these two.
NeedsWorker(r) == r.status \in {"pending", "running"}

FreshRow(st) == [live |-> TRUE, phase |-> "pending", acceptor |-> NoAcceptor,
                 deadline |-> "none", status |-> st]

GoneRow == [FreshRow("pending") EXCEPT !.live = FALSE]

Unclaimed(r) == [r EXCEPT !.phase = "pending",
                          !.acceptor = NoAcceptor,
                          !.deadline = "none"]

-----------------------------------------------------------------------------
(* The queue's operations.                                                 *)

\* Stale claims of sessions that are not live fall back to the queue.
IsStale(r) == /\ r.live
              /\ r.phase = "claimed"
              /\ r.deadline = "past"
              /\ r.status # "running"

ExpireStale(r) == IF IsStale(r) THEN Unclaimed(r) ELSE r

\* POST /claim, also the renewal: 404, 409 or a new lease for the caller.
CanClaim(r, a) == r.live /\ (r.phase = "pending" \/ ClaimedBy(r, a) \/ IsStale(r))

Claimed(r, a) == [r EXCEPT !.phase = "claimed",
                           !.acceptor = a,
                           !.deadline = "far"]

\* POST /release: only the claim's holder frees it; anyone else gets 409 or
\* 404, which the operator reads as "already released".
ReleasedInName(r, a) ==                                                    \* mutant
    IF ClaimedBy(r, a) THEN [r EXCEPT !.phase = "pending"] ELSE r

Released(r, a) == IF ClaimedBy(r, a) THEN Unclaimed(r) ELSE r

\* Soft delete: the row leaves the listings, its last status is history.
Tombstoned(r) == [Unclaimed(r) EXCEPT !.live = FALSE]

\* An acknowledged startup-failure takes the attempt out for good.
Reported(r) == [Tombstoned(r) EXCEPT !.status = "terminated"]

\* Time passing under a claim.
Aged(r) == [r EXCEPT !.deadline = IF @ = "far" THEN "near" ELSE "past"]

=============================================================================
