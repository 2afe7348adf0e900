---------------------------- MODULE ListAllProofs ----------------------------
(***************************************************************************)
(* list_all implements Listing, for any rows, page size and number of       *)
(* changes.                                                                  *)
(***************************************************************************)
EXTENDS ListAll, TLAPS

ClockInv ==
  /\ cursor <= now
  /\ \A r \in Rows : updated[r] <= now

HistoryInv ==
  /\ busy => \A r \in Rows : version[r] \in had[r]
  /\ ~busy => cursor = 0 /\ items = Nothing /\ had = Closed

IInv == TypeOK /\ BehindTheCursor /\ ClockInv /\ HistoryInv

LEMMA InitIInv == Init => IInv
<1> SUFFICES ASSUME Init PROVE IInv
  OBVIOUS
<1>1. /\ now = 2 /\ changes = 1 /\ cursor = 0 /\ busy = FALSE
      /\ updated \in [Rows -> 0..2]
      /\ version = [r \in Rows |-> IF updated[r] = 0 THEN 0 ELSE 1]
      /\ items = [r \in Rows |-> 0] /\ answer = [r \in Rows |-> 0]
      /\ had = [r \in Rows |-> {}]
  BY DEF Init, Nothing, Closed
<1>2. updated \in [Rows -> Nat] /\ \A r \in Rows : updated[r] \in Nat /\ updated[r] <= 2
  BY <1>1
<1>3. version \in [Rows -> Nat] /\ items \in [Rows -> Nat] /\ had \in [Rows -> SUBSET Nat]
  BY <1>1
<1>4. TypeOK
  BY <1>1, <1>2, <1>3 DEF TypeOK
<1>5. BehindTheCursor /\ ClockInv
  BY <1>1, <1>2 DEF BehindTheCursor, ClockInv
<1>6. HistoryInv
  BY <1>1 DEF HistoryInv, Nothing, Closed
<1> QED
  BY <1>4, <1>5, <1>6 DEF IInv

\* The rows of a page and their order, apart from its size.
LEMMA PageRows ==
  ASSUME IInv, NEW page \in SUBSET Rows, IsPage(page)
  PROVE  /\ Merge(page) \in [Rows -> Nat]
         /\ \A r \in page : version[r] # 0
         /\ \A r \in Eligible \ page, q \in page : updated[q] <= updated[r]
  BY RowsAssumption DEF IInv, TypeOK, IsPage, Eligible, Merge, Precedes

LEMMA NextPageKeeps ==
  ASSUME IInv, busy, NEW page \in SUBSET Rows, IsPage(page), NEW last \in page,
         NextPage(page, last)
  PROVE  IInv'
<1>1. /\ UNCHANGED <<now, updated, version, changes, busy, answer, had>>
      /\ items' = Merge(page)
      /\ cursor' = updated[last]
      /\ last \in Rows
  BY DEF NextPage, server
<1>2. TypeOK'
  BY <1>1, PageRows DEF IInv, TypeOK, HistoryInv, Merge
<1>3. BehindTheCursor'
  <2> SUFFICES ASSUME NEW r \in Rows, version[r] # 0, updated[r] < updated[last]
               PROVE  Merge(page)[r] = version[r]
    BY <1>1 DEF BehindTheCursor
  <2>1. CASE r \in page
    BY <2>1 DEF Merge
  <2>2. CASE r \notin page
    <3>1. ~(updated[r] >= cursor)
      BY <2>2, PageRows, <1>1 DEF Eligible, IInv, TypeOK
    <3>2. updated[r] < cursor
      BY <3>1 DEF IInv, TypeOK
    <3> QED
      BY <2>2, <3>2 DEF Merge, IInv, BehindTheCursor
  <2> QED
    BY <2>1, <2>2
<1>4. ClockInv'
  BY <1>1 DEF IInv, ClockInv
<1>5. HistoryInv'
  BY <1>1 DEF IInv, HistoryInv
<1> QED
  BY <1>2, <1>3, <1>4, <1>5 DEF IInv

LEMMA CloseKeeps ==
  ASSUME IInv, Close, UNCHANGED server, answer' \in [Rows -> Nat]
  PROVE  IInv'
<1>1. /\ UNCHANGED <<now, updated, version, changes>>
      /\ busy' = FALSE /\ cursor' = 0
      /\ items' = [r \in Rows |-> 0] /\ had' = [r \in Rows |-> {}]
  BY DEF Close, server, Nothing, Closed
<1>2. TypeOK'
  <2>1. items' \in [Rows -> Nat] /\ had' \in [Rows -> SUBSET Nat]
    BY <1>1
  <2> QED
    BY <1>1, <2>1 DEF IInv, TypeOK
<1>3. BehindTheCursor' /\ ClockInv'
  BY <1>1 DEF IInv, TypeOK, BehindTheCursor, ClockInv
<1>4. HistoryInv'
  BY <1>1 DEF HistoryInv, Nothing, Closed
<1> QED
  BY <1>2, <1>3, <1>4 DEF IInv

LEMMA LastPageAnswer ==
  ASSUME IInv, busy, NEW page \in SUBSET Rows, IsPage(page), LastPage(page)
  PROVE  /\ answer' \in [Rows -> Nat]
         /\ \A r \in Rows : IF version[r] # 0 THEN answer'[r] = version[r]
                                              ELSE answer'[r] \in had[r]
<1>1. answer' = Merge(page) /\ page = Eligible
  BY DEF LastPage
<1>2. answer' \in [Rows -> Nat]
  BY <1>1, PageRows
<1>3. ASSUME NEW r \in Rows, version[r] # 0
      PROVE  answer'[r] = version[r]
  <2>1. CASE r \in page
    BY <2>1, <1>1 DEF Merge
  <2>2. CASE r \notin page
    <3>1. updated[r] < cursor
      BY <2>2, <1>1, <1>3 DEF Eligible, IInv, TypeOK
    <3> QED
      BY <3>1, <2>2, <1>1, <1>3 DEF Merge, IInv, BehindTheCursor
  <2> QED
    BY <2>1, <2>2
<1>4. ASSUME NEW r \in Rows, version[r] = 0
      PROVE  answer'[r] \in had[r]
  <2>1. answer'[r] = items[r]
    BY <1>1, <1>4 DEF Merge, Eligible
  <2>2. version[r] \in had[r]
    BY DEF IInv, HistoryInv
  <2> QED
    BY <2>1, <2>2, <1>4 DEF IInv, TypeOK
<1> QED
  BY <1>2, <1>3, <1>4

LEMMA ChangesKeep ==
  ASSUME IInv, QueueChanges
  PROVE  IInv'
<1> PICK set \in SUBSET Rows, gone \in BOOLEAN, t \in {now, now + 1} : Changes(set, gone, t)
  BY DEF QueueChanges
<1>1. UNCHANGED <<busy, cursor, items, answer>>
  BY DEF QueueChanges
<1>2. /\ now' = t /\ t \in Nat /\ now <= t
      /\ changes' = changes + 1
      /\ updated' = [r \in Rows |-> IF r \in set THEN t ELSE updated[r]]
      /\ version' = [r \in Rows |-> IF r \notin set THEN version[r]
                                    ELSE IF gone THEN 0 ELSE changes']
      /\ had' = [r \in Rows |-> IF busy THEN had[r] \union {version'[r]} ELSE {}]
  BY DEF Changes, IInv, TypeOK
<1>3. version' \in [Rows -> Nat]
  BY <1>2 DEF IInv, TypeOK
<1>4. TypeOK'
  <2>1. had' \in [Rows -> SUBSET Nat]
    BY <1>2, <1>3 DEF IInv, TypeOK
  <2>2. \A r \in Rows : items'[r] # 0 => items'[r] \in had'[r]
    BY <1>1, <1>2 DEF IInv, TypeOK, HistoryInv, Nothing
  <2>3. now' \in Nat /\ changes' \in Nat /\ cursor' \in Nat /\ busy' \in BOOLEAN
    BY <1>1, <1>2 DEF IInv, TypeOK
  <2>4. updated' \in [Rows -> Nat]
    BY <1>2 DEF IInv, TypeOK
  <2>5. items' \in [Rows -> Nat] /\ answer' \in [Rows -> Nat]
    BY <1>1 DEF IInv, TypeOK
  <2> QED
    BY <2>1, <2>2, <2>3, <2>4, <2>5, <1>3 DEF TypeOK
<1>5. BehindTheCursor'
  BY <1>1, <1>2 DEF IInv, TypeOK, BehindTheCursor, ClockInv
<1>6. ClockInv'
  BY <1>1, <1>2 DEF IInv, TypeOK, ClockInv
<1>7. HistoryInv'
  BY <1>1, <1>2 DEF IInv, HistoryInv, Closed
<1> QED
  BY <1>4, <1>5, <1>6, <1>7 DEF IInv

LEMMA StartKeeps ==
  ASSUME IInv, Start
  PROVE  IInv'
  BY DEF Start, server, IInv, TypeOK, BehindTheCursor, ClockInv, HistoryInv, Nothing

LEMMA StepIInv == IInv /\ [Next]_vars => IInv'
<1> SUFFICES ASSUME IInv, [Next]_vars PROVE IInv'
  OBVIOUS
<1>1. CASE QueueChanges
  BY <1>1, ChangesKeep
<1>2. CASE Start
  BY <1>2, StartKeeps
<1>3. CASE ListPage
  <2> PICK page \in SUBSET Rows :
             IsPage(page) /\ (LastPage(page) \/ \E last \in page : NextPage(page, last))
    BY <1>3 DEF ListPage
  <2>1. busy
    BY <1>3 DEF ListPage
  <2>2. CASE LastPage(page)
    BY <2>1, <2>2, LastPageAnswer, CloseKeeps DEF LastPage
  <2>3. CASE \E last \in page : NextPage(page, last)
    BY <2>1, <2>3, NextPageKeeps
  <2> QED
    BY <2>2, <2>3
<1>4. CASE PageFails
  BY <1>4, CloseKeeps DEF PageFails, IInv, TypeOK
<1>5. CASE UNCHANGED vars
  BY <1>5 DEF vars, IInv, TypeOK, BehindTheCursor, ClockInv, HistoryInv
<1> QED
  BY <1>1, <1>2, <1>3, <1>4, <1>5 DEF Next

LEMMA AlwaysIInv == Spec => []IInv
  BY InitIInv, StepIInv, PTL DEF Spec

\* What list_all has collected of a row is a version the row had since the
\* listing began, and every variable has its range.
THEOREM TypeCorrect == Spec => []TypeOK
<1>1. IInv => TypeOK
  BY DEF IInv
<1> QED
  BY <1>1, AlwaysIInv, PTL

\* What was read needs no second look: a row behind the cursor has been
\* collected by list_all and stands as it was collected.
THEOREM ReadRowsStand == Spec => []BehindTheCursor
<1>1. IInv => BehindTheCursor
  BY DEF IInv
<1> QED
  BY <1>1, AlwaysIInv, PTL

LEMMA InitMaps == Init => Abstract!Init
  BY RowsAssumption DEF Init, Abstract!Init, Abstract!NoAnswer, Abstract!Closed, Nothing, Closed

LEMMA OpenListing == IInv /\ busy => had # Abstract!Closed
  BY RowsAssumption DEF IInv, HistoryInv, Abstract!Closed

LEMMA StepMaps ==
  IInv /\ [Next]_vars => [Abstract!Next]_<<version, answer, had>>
<1> SUFFICES ASSUME IInv, [Next]_vars PROVE [Abstract!Next]_<<version, answer, had>>
  OBVIOUS
<1>1. CASE QueueChanges
  <2>1. version' \in [Rows -> Nat]
    BY <1>1, ChangesKeep DEF IInv, TypeOK
  <2>2. had' = [r \in Rows |-> IF busy THEN had[r] \union {version'[r]} ELSE {}]
    BY <1>1 DEF QueueChanges, Changes
  <2>3. \A r \in Rows : (had[r] = {}) <=> ~busy
    BY DEF IInv, HistoryInv, Closed
  <2>4. had' = [r \in Rows |-> IF had[r] = {} THEN {} ELSE had[r] \union {version'[r]}]
    BY <2>2, <2>3
  <2> QED
    BY <2>1, <2>4, <1>1 DEF QueueChanges, Abstract!Next, Abstract!Change
<1>2. CASE Start
  BY <1>2 DEF Start, server, IInv, HistoryInv, Closed, Nothing,
              Abstract!Next, Abstract!Begin, Abstract!Closed, Abstract!NoAnswer
<1>3. CASE ListPage
  <2> PICK page \in SUBSET Rows :
             IsPage(page) /\ (LastPage(page) \/ \E last \in page : NextPage(page, last))
    BY <1>3 DEF ListPage
  <2>1. busy
    BY <1>3 DEF ListPage
  <2>2. CASE LastPage(page)
    <3>1. had' = Abstract!Closed /\ UNCHANGED version
      BY <2>2 DEF LastPage, Close, Closed, server, Abstract!Closed
    <3> QED
      BY <2>1, <2>2, <3>1, LastPageAnswer, OpenListing DEF Abstract!Next, Abstract!Answer
  <2>3. CASE \E last \in page : NextPage(page, last)
    BY <2>3 DEF NextPage, server
  <2> QED
    BY <2>2, <2>3
<1>4. CASE PageFails
  BY <1>4, OpenListing DEF PageFails, Close, Closed, server,
                           Abstract!Next, Abstract!Fail, Abstract!Closed
<1>5. CASE UNCHANGED vars
  BY <1>5 DEF vars
<1> QED
  BY <1>1, <1>2, <1>3, <1>4, <1>5 DEF Next

\* list_all is a Listing: its answer is the queue of the last page's moment,
\* but for rows that left while it ran.
THEOREM ListAllImplements == Spec => Implements
  BY InitMaps, StepMaps, AlwaysIInv, PTL DEF Spec, Implements, Abstract!Spec
=============================================================================
