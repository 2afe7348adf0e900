------------------------------ MODULE Listing ------------------------------
(***************************************************************************)
(* What a pass may rely on when it lists the queue, whatever the listing    *)
(* is made of.  A row is reduced to a version; 0 is a row that is not       *)
(* there.  An answer is the queue at its last moment, except that a row     *)
(* which left while the listing ran may still be in it.                     *)
(***************************************************************************)
EXTENDS Naturals

CONSTANT Rows

VARIABLES
  version,  \* the queue: the version of every row
  answer,   \* the last listing: the version it gives of every row
  had       \* the versions every row had since the open listing began

NoAnswer == [r \in Rows |-> 0]
Closed   == [r \in Rows |-> {}]

Init ==
  /\ version \in [Rows -> Nat]
  /\ answer = NoAnswer
  /\ had = Closed

Begin ==
  /\ had = Closed
  /\ had' = [r \in Rows |-> {version[r]}]
  /\ answer' = NoAnswer
  /\ UNCHANGED version

\* The queue changes, whether a listing is open or not.
Change ==
  /\ version' \in [Rows -> Nat]
  /\ had' = [r \in Rows |-> IF had[r] = {} THEN {} ELSE had[r] \union {version'[r]}]
  /\ UNCHANGED answer

Answer ==
  /\ had # Closed
  /\ answer' \in [Rows -> Nat]
  /\ \A r \in Rows : IF version[r] # 0 THEN answer'[r] = version[r]
                                       ELSE answer'[r] \in had[r]
  /\ had' = Closed
  /\ UNCHANGED version

Fail ==
  /\ had # Closed
  /\ had' = Closed
  /\ UNCHANGED <<version, answer>>

Next == Begin \/ Change \/ Answer \/ Fail

Spec == Init /\ [][Next]_<<version, answer, had>>
=============================================================================
