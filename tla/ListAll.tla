------------------------------ MODULE ListAll ------------------------------
(***************************************************************************)
(* list_all of api/client.rs: a listing that follows cursors over several   *)
(* pages while the queue moves.  The server's side is the mock's, page by   *)
(* page: rows at or after the cursor, ordered by updated_at and id.         *)
(***************************************************************************)
EXTENDS Naturals, FiniteSets

CONSTANTS
  Rows,        \* the ids of the rows that match the filter at some time
  PageSize,    \* the server's page size
  MaxTies,     \* rows that may carry one updated_at
  MaxChanges   \* bound on changes of the queue

ASSUME RowsAssumption  == Rows \subseteq Nat /\ Rows # {}
ASSUME BoundAssumption == PageSize \in Nat \ {0} /\ MaxTies \in Nat /\ MaxChanges \in Nat

VARIABLES
  now,       \* the server's clock
  updated,   \* updated_at of every row
  version,   \* the content of every row, 0 when it is not (or no longer) there
  changes,   \* changes of the queue so far; the next version
  busy,      \* a listing is open
  cursor,    \* where its next page starts, 0 for None
  items,     \* what it collected: the version of every row listed, or 0
  answer,    \* what the last listing returned
  had        \* history: the versions every row had since the listing began

vars   == <<now, updated, version, changes, busy, cursor, items, answer, had>>
server == <<now, updated, version, changes>>

Nothing == [r \in Rows |-> 0]
Closed  == [r \in Rows |-> {}]
Tied(at, t) == {r \in Rows : at[r] = t}

Init ==
  /\ now = 2
  /\ updated \in [Rows -> 0..2]
  /\ \A t \in 1..2 : Cardinality(Tied(updated, t)) <= MaxTies
  /\ version = [r \in Rows |-> IF updated[r] = 0 THEN 0 ELSE 1]
  /\ changes = 1
  /\ busy = FALSE
  /\ cursor = 0
  /\ items = Nothing
  /\ answer = Nothing
  /\ had = Closed

-----------------------------------------------------------------------------
\* The server.

\* mutant: the cursor is exclusive.
EligibleAfter == {r \in Rows : version[r] # 0 /\ (cursor = 0 \/ updated[r] > cursor)}

Eligible == {r \in Rows : version[r] # 0 /\ updated[r] >= cursor}

Precedes(a, b) == updated[a] < updated[b] \/ (updated[a] = updated[b] /\ a < b)

IsPage(page) ==
  /\ page \subseteq Eligible
  /\ \A a \in page, b \in Eligible \ page : Precedes(a, b)

\* Any operation on rows of the queue, several at once when claims expire.
Changes(set, gone, t) ==
  /\ t \in {now, now + 1}
  /\ now' = t
  /\ changes' = changes + 1
  /\ updated' = [r \in Rows |-> IF r \in set THEN t ELSE updated[r]]
  /\ Cardinality(Tied(updated', t)) <= MaxTies
  /\ version' = [r \in Rows |-> IF r \notin set THEN version[r]
                                ELSE IF gone THEN 0 ELSE changes']
  /\ had' = [r \in Rows |-> IF busy THEN had[r] \union {version'[r]} ELSE {}]

QueueChanges ==
  /\ changes < MaxChanges
  /\ \E set \in SUBSET Rows, gone \in BOOLEAN, t \in {now, now + 1} :
        set # {} /\ Changes(set, gone, t)
  /\ UNCHANGED <<busy, cursor, items, answer>>

-----------------------------------------------------------------------------
\* The client.

Start ==
  /\ ~busy
  /\ busy' = TRUE
  /\ had' = [r \in Rows |-> {version[r]}]
  /\ answer' = Nothing
  /\ UNCHANGED <<server, cursor, items>>

\* mutant: a row that is already there is kept.
MergeKeeping(page) == [r \in Rows |-> IF r \in page /\ items[r] = 0 THEN version[r] ELSE items[r]]

\* A row that is already there is replaced by the later page's.
Merge(page) == [r \in Rows |-> IF r \in page THEN version[r] ELSE items[r]]

\* mutant: the next listing goes on with the rows of this one.
CloseKeeping == /\ busy' = FALSE
                /\ cursor' = 0
                /\ items' = items
                /\ had' = Closed

Close == /\ busy' = FALSE
         /\ cursor' = 0
         /\ items' = Nothing
         /\ had' = Closed

\* mutant: the next page starts at the first row of this one.
NextPageFromFirst(page, last) ==
  /\ Cardinality(page) = PageSize
  /\ last \in page
  /\ \A r \in page : updated[r] >= updated[last]
  /\ items' = Merge(page)
  /\ cursor' = updated[last]
  /\ UNCHANGED <<server, busy, answer, had>>

\* A full page says there may be more after its last row.
NextPage(page, last) ==
  /\ Cardinality(page) = PageSize
  /\ last \in page
  /\ \A r \in page : updated[r] <= updated[last]
  /\ items' = Merge(page)
  /\ cursor' = updated[last]
  /\ UNCHANGED <<server, busy, answer, had>>

LastPage(page) ==
  /\ Cardinality(page) < PageSize
  /\ page = Eligible
  /\ answer' = Merge(page)
  /\ Close
  /\ UNCHANGED server

\* One request: the server's page and what list_all does with it.
ListPage ==
  /\ busy
  /\ \E page \in SUBSET Rows :
        /\ IsPage(page)
        /\ LastPage(page) \/ \E last \in page : NextPage(page, last)

\* A request that fails ends the listing.
PageFails ==
  /\ busy
  /\ Close
  /\ UNCHANGED <<server, answer>>

Next == QueueChanges \/ Start \/ ListPage \/ PageFails

Spec     == Init /\ [][Next]_vars
FairSpec == Spec /\ WF_vars(ListPage)

-----------------------------------------------------------------------------
\* Every variable has its range; what is listed was in the queue meanwhile.
TypeOK ==
  /\ now \in Nat /\ changes \in Nat /\ cursor \in Nat
  /\ busy \in BOOLEAN
  /\ updated \in [Rows -> Nat]
  /\ version \in [Rows -> Nat]
  /\ items \in [Rows -> Nat]
  /\ answer \in [Rows -> Nat]
  /\ had \in [Rows -> SUBSET Nat]
  /\ \A r \in Rows : items[r] # 0 => items[r] \in had[r]

\* What has been read needs no second look (client.rs:140-155): a row behind
\* the cursor has been collected and has not changed since, because a change
\* moves a row up to or past every cursor handed out so far.
BehindTheCursor ==
  \A r \in Rows : version[r] # 0 /\ updated[r] < cursor => items[r] = version[r]

\* list_all (client.rs:127-156) promises more than its pages: whatever moves
\* between two of them, the answer is the queue of the last page's moment, except
\* that a row which left in between may still be listed.
Abstract   == INSTANCE Listing WITH Rows <- Rows, version <- version, answer <- answer, had <- had
Implements == Abstract!Spec

\* A listing comes to an end once the queue stands still, provided fewer rows
\* than a page share one updated_at (client.rs:138-155 has no other way out).
ListingEnds == busy ~> ~busy
=============================================================================
