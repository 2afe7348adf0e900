------------------------------ MODULE Failover ------------------------------
(***************************************************************************)
(* The elector's replicas and the identity they act under: the acceptor id   *)
(* of controller/context.rs, kept in a ConfigMap and in a cell of each       *)
(* process.  Only a leader asks for it.  A process that ends takes its cell  *)
(* along; an apply it had under way lands then or never.                     *)
(***************************************************************************)
EXTENDS Elector, FiniteSets

VARIABLES
    stored,     \* the id in the ConfigMap, 0 for none
    cell,       \* the id a process has cached, 0 for none
    draft,      \* the id it has generated and is about to apply, 0 for none
    overlapped  \* history: two replicas were leaders at once

identity == <<stored, cell, draft, overlapped>>
allVars  == <<vars, identity>>

Leaders == {i \in Replicas : mode[i] = "leader"}

\* Generated ids never collide; numbers serve as long as they are unused.
Used == {stored} \cup {cell[i] : i \in Replicas} \cup {draft[i] : i \in Replicas}
Generated == CHOOSE n \in 1 .. 2 * Cardinality(Replicas) + 2 :
                n \notin Used /\ \A m \in 1 .. n - 1 : m \in Used

FailoverInit ==
    /\ Init
    /\ stored = 0
    /\ cell = [i \in Replicas |-> 0]
    /\ draft = [i \in Replicas |-> 0]
    /\ overlapped = FALSE

GetIdAnew(i) ==                                                            \* mutant
    /\ mode[i] = "leader" /\ cell[i] = 0 /\ draft[i] = 0
    /\ draft' = [draft EXCEPT ![i] = Generated]
    /\ UNCHANGED <<vars, cell, stored, overlapped>>

\* get_opt: an id that is there is the process's from now on.
GetId(i) ==
    /\ mode[i] = "leader" /\ cell[i] = 0 /\ draft[i] = 0
    /\ IF stored # 0 THEN cell' = [cell EXCEPT ![i] = stored] /\ UNCHANGED draft
                     ELSE draft' = [draft EXCEPT ![i] = Generated] /\ UNCHANGED cell
    /\ UNCHANGED <<vars, stored, overlapped>>

\* The apply, under the field manager all replicas share: it overwrites.
ApplyId(i) ==
    /\ mode[i] = "leader" /\ draft[i] # 0
    /\ stored' = draft[i]
    /\ cell' = [cell EXCEPT ![i] = draft[i]]
    /\ draft' = [draft EXCEPT ![i] = 0]
    /\ UNCHANGED <<vars, overlapped>>

KeptId(i) == [cell EXCEPT ![i] = draft[i]]                                 \* mutant

\* After a failed call the cell stays empty, and the next pass asks again.
NoId(i) == cell

\* The get or the apply fails; the apply may have landed.
IdCallFails(i) ==
    /\ mode[i] = "leader" /\ cell[i] = 0
    /\ stored' \in IF draft[i] = 0 THEN {stored} ELSE {stored, draft[i]}
    /\ cell' = NoId(i)
    /\ draft' = [draft EXCEPT ![i] = 0]
    /\ UNCHANGED <<vars, overlapped>>

\* What a step of the elector does to the identity.
Ending == {i \in Replicas : mode[i] # "down" /\ mode'[i] = "down"}

ElectorStep ==
    /\ Next
    /\ cell'  = [i \in Replicas |-> IF i \in Ending THEN 0 ELSE cell[i]]
    /\ draft' = [i \in Replicas |-> IF i \in Ending THEN 0 ELSE draft[i]]
    /\ stored' \in {stored} \cup ({draft[i] : i \in Ending} \ {0})
    /\ overlapped' = (overlapped \/ \E i, j \in Leaders' : i # j)

FailoverNext ==
    \/ ElectorStep
    \/ \E i \in Replicas : GetId(i) \/ ApplyId(i) \/ IdCallFails(i)

FailoverSpec == FailoverInit /\ [][FailoverNext]_allVars

-----------------------------------------------------------------------------
\* The identity "survives restarts and upgrades" (context.rs:79-81): unless two
\* replicas led at once, every process acts under the stored id, however often
\* calls fail or a leader ends between the calls of acceptor_id.
OneIdentity ==
    ~overlapped => \A i \in Replicas : cell[i] \in {0, stored}

\* ... and an id once stored is never replaced, so no claim is left behind
\* under an id nobody uses.
IdentityKept ==
    [][stored # 0 /\ ~overlapped => stored' = stored]_allVars
=============================================================================
