----------------------------- MODULE InboxProofs ----------------------------
(***************************************************************************)
(* What holds of the receiving side for any number of lofts, messages and  *)
(* pages, and for any policy of the recipient.                             *)
(***************************************************************************)
EXTENDS Inbox, FiniteSetTheorems, WellFoundedInduction, TLAPS

allI == <<box, inboxVars>>

-----------------------------------------------------------------------------
(***************************************************************************)
(* Least and greatest cursors.                                             *)
(***************************************************************************)
LEMMA LeastExists ==
    ASSUME NEW S \in SUBSET Nat, S # {}
    PROVE  \E c \in S : \A d \in S : c <= d
<1>1. PICK c \in S : \A d \in S : ~(<<d, c>> \in OpToRel(<, Nat))
  BY NatLessThanWellFounded, WFMin
<1>2. \A d \in S : ~(d < c)
  BY <1>1 DEF OpToRel
<1> QED BY <1>2

LEMMA GreatestExists ==
    ASSUME NEW S \in SUBSET Nat, S # {}, NEW n \in Nat, \A d \in S : d <= n
    PROVE  \E c \in S : \A d \in S : d <= c
<1> DEFINE T == {n - d : d \in S}
<1>1. T \in SUBSET Nat /\ T # {}
  <2>1. \A d \in S : n - d \in Nat
    OBVIOUS
  <2> QED BY <2>1
<1>2. PICK t \in T : \A u \in T : t <= u
  BY <1>1, LeastExists
<1>3. PICK c \in S : t = n - c
  BY <1>2
<1>4. \A d \in S : n - c <= n - d
  BY <1>2, <1>3
<1> QED BY <1>4
-----------------------------------------------------------------------------
(***************************************************************************)
(* The inductive invariant.                                                *)
(***************************************************************************)
RowT == [cursor : Nat, msg : Message]

WorkT == [phase : {"off", "queued", "arrived", "open"}, cursor : Nat,
          rows : SUBSET RowT, next : Nat, more : BOOLEAN, pages : Nat]

\* Cursors of a loft only grow, and its mailbox is finite.
BoxInv ==
    /\ box \in [Loft -> [rows : SUBSET RowT, last : Nat]]
    /\ \A l \in Loft :
         /\ IsFiniteSet(box[l].rows)
         /\ \A r \in box[l].rows : r.cursor <= box[l].last
         /\ box[l].last <= MaxCursor[l]

TablesType ==
    /\ cursor \in [Loft -> Nat]
    /\ inbox \in [Message -> {"absent", "pending", "accepted", "deleted"}]
    /\ verdict \in [Message -> {"absent", "valid", "invalid"}]
    /\ allowed \in BOOLEAN /\ bad \in BOOLEAN /\ evidence \in Evidences
    /\ work \in [Loft -> WorkT]
    /\ \/ decision = NoDecision
       \/ decision \in [loft : Loft, msg : Message,
                        state : {"accepted", "pending", "credit"},
                        verdict : {"absent", "valid", "invalid"}]

\* Stored, passed over on purpose, or about to be stored.
Accounted(l, r) ==
    \/ inbox[r.msg] # "absent"
    \/ <<l, r.cursor>> \in dropped
    \/ decision.state \in {"accepted", "pending"} /\ decision.msg = r.msg

\* A route continues from a cursor that is durable.
FromCursor ==
    \A l \in Loft :
      /\ cursor[l] <= box[l].last
      /\ work[l].phase = "queued" => work[l].cursor <= cursor[l]

\* Every row that the end of a page covers is in the page, or dealt with.
PageCovers ==
    \A l \in Loft : work[l].phase \in {"arrived", "open"} =>
      /\ work[l].next <= box[l].last
      /\ \A r \in box[l].rows :
           r.cursor <= work[l].next => r \in work[l].rows \/ Accounted(l, r)

\* A message is stored once, and its credit is still due only then.
StoredOnce ==
    /\ news \in [Message -> Nat] /\ credited \in [Message -> Nat]
    /\ \A m \in Message :
         /\ inbox[m] = "absent" => news[m] = 0 /\ credited[m] = 0
         /\ inbox[m] # "absent" => news[m] = 1
         /\ credited[m] <= 1
    /\ decision.state = "credit" =>
         inbox[decision.msg] # "absent" /\ credited[decision.msg] = 0

\* The quota counter is exactly the number of messages held.
LiveCounted == IsFiniteSet(Live) /\ used = Cardinality(Live) /\ used <= InboxLimit

MailInv == TablesType /\ FromCursor /\ PageCovers /\ NoMailSkipped

IInv == BoxInv /\ MailInv /\ StoredOnce /\ LiveCounted

-----------------------------------------------------------------------------
(***************************************************************************)
(* The lofts.                                                              *)
(***************************************************************************)
LEMMA LoftsKeep == ASSUME IInv, LoftSide PROVE IInv'
<1>1. UNCHANGED inboxVars
  BY DEF LoftSide
<1>2. StoredOnce' /\ LiveCounted' /\ TablesType'
  BY <1>1 DEF IInv, MailInv, TablesType, StoredOnce, LiveCounted, Live, inboxVars, tablesI, drainI,
              historyI
<1>3. PICK l \in Loft : \/ \E m \in Message : box[l].last < MaxCursor[l] /\ TakeIn(l, m)
                        \/ Expire(l)
  BY InboxAssumption DEF LoftSide
<1>4. /\ box \in [Loft -> [rows : SUBSET RowT, last : Nat]] /\ IsFiniteSet(box[l].rows)
      /\ MaxCursor[l] \in Nat
  BY InboxAssumption DEF IInv, BoxInv
<1>5. BoxInv' /\ \A k \in Loft :
        /\ box'[k].last >= box[k].last
        /\ \A r \in box'[k].rows : r \in box[k].rows \/ r.cursor > box[k].last
  <2>1. CASE \E m \in Message : box[l].last < MaxCursor[l] /\ TakeIn(l, m)
    <3>1. PICK m \in Message : box[l].last < MaxCursor[l] /\ TakeIn(l, m)
      BY <2>1
    <3> DEFINE new == [cursor |-> box[l].last + 1, msg |-> m]
    <3>2. box' = [box EXCEPT ![l] = [rows |-> box[l].rows \cup {new}, last |-> box[l].last + 1]]
      BY <3>1 DEF TakeIn
    <3>3. new \in RowT /\ new.cursor = box[l].last + 1
      BY <1>4 DEF RowT
    <3> HIDE DEF new
    <3>4. IsFiniteSet(box[l].rows \cup {new})
      BY <1>4, FS_AddElement
    <3>5. box' \in [Loft -> [rows : SUBSET RowT, last : Nat]]
      BY <1>4, <3>2, <3>3
    <3>6. ASSUME NEW k \in Loft
          PROVE  /\ IsFiniteSet(box'[k].rows) /\ box'[k].last <= MaxCursor[k]
                 /\ \A r \in box'[k].rows : r.cursor <= box'[k].last
      <4>1. \A r \in box[k].rows : r.cursor \in Nat /\ r.cursor <= box[k].last
        BY <1>4 DEF IInv, BoxInv, RowT
      <4>2. CASE k # l
        BY <1>4, <3>2, <4>2 DEF IInv, BoxInv
      <4>3. CASE k = l
        BY <1>4, <3>1, <3>2, <3>3, <3>4, <4>1, <4>3
      <4> QED BY <4>2, <4>3
    <3>7. BoxInv'
      BY <3>5, <3>6 DEF BoxInv
    <3> QED BY <1>4, <3>2, <3>3, <3>7
  <2>2. CASE Expire(l)
    <3>1. PICK gone \in SUBSET box[l].rows :
            box' = [box EXCEPT ![l] = [rows |-> box[l].rows \ gone, last |-> box[l].last]]
      BY <2>2 DEF Expire
    <3>2. IsFiniteSet(box[l].rows \ gone)
      BY <1>4, FS_Subset
    <3>3. BoxInv'
      BY <1>4, <3>1, <3>2 DEF IInv, BoxInv
    <3> QED BY <1>4, <3>1, <3>3
  <2> QED BY <1>3, <2>1, <2>2
<1>6. /\ box' \in [Loft -> [rows : SUBSET RowT, last : Nat]]
      /\ cursor \in [Loft -> Nat] /\ work \in [Loft -> WorkT]
      /\ UNCHANGED <<cursor, inbox, work, dropped, decision>>
  BY <1>1, <1>5 DEF BoxInv, IInv, MailInv, TablesType, inboxVars, tablesI, drainI, historyI
<1>7. FromCursor'
  BY <1>4, <1>5, <1>6 DEF FromCursor, IInv, MailInv
<1>8. PageCovers'
  <2>1. SUFFICES ASSUME NEW k \in Loft, work[k].phase \in {"arrived", "open"}
                 PROVE  /\ work[k].next <= box'[k].last
                        /\ \A r \in box'[k].rows :
                             r.cursor <= work[k].next => r \in work[k].rows \/ Accounted(k, r)
    BY <1>6 DEF PageCovers, Accounted
  <2>2. /\ work[k].next \in Nat /\ work[k].next <= box[k].last /\ box[k].last \in Nat
        /\ box'[k].last \in Nat /\ \A r \in box'[k].rows : r.cursor \in Nat
    BY <1>4, <1>6, <2>1 DEF PageCovers, IInv, MailInv, WorkT, RowT
  <2> QED BY <1>5, <2>1, <2>2 DEF PageCovers, IInv, MailInv
<1>9. NoMailSkipped'
  <2>1. \A k \in Loft : /\ cursor[k] \in Nat /\ cursor[k] <= box[k].last /\ box[k].last \in Nat
                        /\ \A r \in box'[k].rows : r.cursor \in Nat
    BY <1>4, <1>6 DEF FromCursor, IInv, MailInv, RowT
  <2> QED BY <1>5, <1>6, <2>1 DEF NoMailSkipped, IInv, MailInv
<1> QED BY <1>2, <1>5, <1>7, <1>8, <1>9 DEF IInv, MailInv

-----------------------------------------------------------------------------
(***************************************************************************)
(* Steps of a drain that leave the tables alone.                           *)
(***************************************************************************)
LEMMA DrainOnly ==
    ASSUME IInv, UNCHANGED <<box, tablesI, news, credited, evidence>>,
           TablesType', FromCursor', PageCovers', dropped \subseteq dropped',
           decision'.state = "credit" => UNCHANGED decision
    PROVE  IInv'
<1>1. BoxInv' /\ LiveCounted'
  BY DEF IInv, BoxInv, LiveCounted, Live, tablesI
<1>2. NoMailSkipped'
  BY DEF IInv, MailInv, NoMailSkipped, tablesI
<1>3. StoredOnce'
  BY DEF IInv, StoredOnce, tablesI
<1> QED BY <1>1, <1>2, <1>3 DEF IInv, MailInv

\* Routes end: with an error, at the deadline, or with the process.
LEMMA RoutesOff ==
    ASSUME IInv, UNCHANGED <<box, tablesI, historyI, evidence>>,
           decision' \in {decision, NoDecision},
           \/ work' = [l \in Loft |-> Off]
           \/ UNCHANGED decision /\ \E l \in Loft : work' = [work EXCEPT ![l] = Off]
    PROVE  IInv'
<1>1. Off \in WorkT /\ Off.phase = "off"
  BY DEF Off, WorkT
<1>2. work \in [Loft -> WorkT]
  BY DEF IInv, MailInv, TablesType
<1>3. work' \in [Loft -> WorkT] /\ \A l \in Loft : work'[l] = Off \/ work'[l] = work[l]
  BY <1>1, <1>2
<1>4. TablesType'
  BY <1>3 DEF IInv, MailInv, TablesType, tablesI
<1>5. FromCursor'
  BY <1>1, <1>3 DEF IInv, MailInv, FromCursor, tablesI
<1>6. PageCovers'
  <2>1. CASE UNCHANGED decision
    BY <1>1, <1>3, <2>1 DEF IInv, MailInv, PageCovers, Accounted, tablesI, historyI
  <2>2. CASE work' = [l \in Loft |-> Off]
    BY <1>1, <2>2 DEF PageCovers
  <2> QED BY <2>1, <2>2
<1>7. decision'.state = "credit" => UNCHANGED decision
  BY DEF NoDecision
<1> QED BY <1>4, <1>5, <1>6, <1>7, DrainOnly DEF historyI

LEMMA DrainStartKeeps == ASSUME IInv, DrainStart PROVE IInv'
<1>1. /\ UNCHANGED <<box, tablesI, decision, historyI, evidence>>
      /\ cursor \in [Loft -> Nat]
  BY DEF DrainStart, IInv, MailInv, TablesType
<1>2. \A l \in Loft : /\ work'[l] \in WorkT /\ work'[l].phase = "queued"
                      /\ work'[l].cursor = cursor[l]
  BY <1>1 DEF DrainStart, Off, WorkT
<1>3. work' \in [Loft -> WorkT]
  BY <1>2 DEF DrainStart
<1>4. TablesType'
  BY <1>1, <1>3 DEF IInv, MailInv, TablesType, tablesI
<1>5. FromCursor' /\ PageCovers'
  BY <1>1, <1>2 DEF IInv, MailInv, FromCursor, PageCovers, tablesI
<1> QED BY <1>1, <1>4, <1>5, DrainOnly DEF historyI
\* A page is a run of rows without a gap: whatever lies between where the route
\* was and the largest cursor of the page is in the page.
LEMMA PageForm ==
    ASSUME IInv, NEW l \in Loft, work[l].phase = "queued"
    PROVE  LET w == PageOf(work[l], l) IN
           /\ w \in WorkT /\ w.phase = "arrived" /\ w.next <= box[l].last
           /\ \A r \in box[l].rows :
                r.cursor <= w.next => r \in w.rows \/ r.cursor <= work[l].cursor
<1> DEFINE c == work[l].cursor
           later == {r \in box[l].rows : r.cursor > c}
           before(x) == {t \in later : t.cursor < x}
           rows == RowsAfter(l, c, PageLimit)
           top == CHOOSE x \in {r.cursor : r \in rows} : \A r \in rows : r.cursor <= x
           next == IF rows = {} THEN c ELSE top
           w == PageOf(work[l], l)
<1>1. /\ work[l] \in WorkT /\ c \in Nat /\ c <= box[l].last /\ box[l].last \in Nat
      /\ IsFiniteSet(box[l].rows) /\ box[l].rows \subseteq RowT /\ PageLimit \in Nat
      /\ \A r \in box[l].rows : r.cursor \in Nat /\ r.cursor <= box[l].last
  <2>1. work[l] \in WorkT /\ cursor[l] \in Nat /\ box[l] \in [rows : SUBSET RowT, last : Nat]
    BY DEF IInv, MailInv, TablesType, BoxInv
  <2>2. c <= cursor[l] /\ cursor[l] <= box[l].last
    BY DEF IInv, MailInv, FromCursor
  <2> QED BY <2>1, <2>2, InboxAssumption DEF IInv, BoxInv, WorkT, RowT
<1>2. rows = {r \in later : Cardinality(before(r.cursor)) < PageLimit}
  BY DEF RowsAfter
<1>3. rows \subseteq box[l].rows
  BY <1>2
<1>4. ASSUME rows # {}
      PROVE  top \in {r.cursor : r \in rows} /\ \A r \in rows : r.cursor <= top
  <2> DEFINE S == {r.cursor : r \in rows}
  <2>1. S \in SUBSET Nat /\ S # {} /\ \A d \in S : d <= box[l].last
    BY <1>1, <1>3, <1>4
  <2>2. \E x \in S : \A d \in S : d <= x
    BY <1>1, <2>1, GreatestExists
  <2>3. \E x \in S : \A r \in rows : r.cursor <= x
    BY <2>2
  <2> QED BY <2>3
<1> HIDE DEF top, rows
<1>5. /\ next \in Nat /\ next <= box[l].last
      /\ \A r \in box[l].rows : r.cursor <= next => r \in rows \/ r.cursor <= c
  <2>1. CASE rows = {}
    BY <1>1, <2>1
  <2>2. CASE rows # {}
    <3>1. PICK s \in rows : next = s.cursor
      BY <1>4, <2>2
    <3>2. s \in later /\ Cardinality(before(s.cursor)) < PageLimit
      BY <1>2, <3>1
    <3>3. ASSUME NEW r \in box[l].rows, r.cursor <= next, ~(r.cursor <= c)
          PROVE  r \in rows
      <4>1. r \in later
        BY <1>1, <3>3
      <4>2. before(r.cursor) \in SUBSET before(s.cursor)
        BY <1>1, <3>1, <3>2, <3>3
      <4>3. IsFiniteSet(before(s.cursor))
        BY <1>1, FS_Subset
      <4>4. /\ Cardinality(before(r.cursor)) <= Cardinality(before(s.cursor))
            /\ Cardinality(before(r.cursor)) \in Nat /\ Cardinality(before(s.cursor)) \in Nat
        BY <4>2, <4>3, FS_Subset, FS_CardinalityType
      <4>5. Cardinality(before(r.cursor)) < PageLimit
        BY <1>1, <3>2, <4>4
      <4> QED BY <1>2, <4>1, <4>5
    <3>4. next \in Nat /\ next <= box[l].last
      BY <1>1, <1>3, <3>1
    <3> QED BY <3>3, <3>4
  <2> QED BY <2>1, <2>2
<1>6. /\ w = [work[l] EXCEPT !.phase = "arrived", !.rows = rows,
                              !.more = RowsAfter(l, c, PageLimit + 1) # rows, !.next = next]
  BY DEF PageOf, top, rows
<1> HIDE DEF next
<1>7. w \in WorkT /\ w.phase = "arrived" /\ w.next = next /\ w.rows = rows
  BY <1>1, <1>3, <1>5, <1>6 DEF WorkT
<1> QED BY <1>5, <1>7

LEMMA FetchPageKeeps == ASSUME IInv, NEW l \in Loft, FetchPage(l) PROVE IInv'
<1> DEFINE w == PageOf(work[l], l)
<1>1. /\ work[l].phase = "queued" /\ work' = [work EXCEPT ![l] = w]
      /\ UNCHANGED <<box, tablesI, decision, historyI, evidence>>
  BY DEF FetchPage
<1>2. /\ w \in WorkT /\ w.phase = "arrived" /\ w.next <= box[l].last
      /\ \A r \in box[l].rows : r.cursor <= w.next => r \in w.rows \/ r.cursor <= work[l].cursor
  BY <1>1, PageForm
<1> HIDE DEF w
<1>3. work \in [Loft -> WorkT]
  BY DEF IInv, MailInv, TablesType
<1>4. work' \in [Loft -> WorkT] /\ work'[l] = w /\ \A k \in Loft \ {l} : work'[k] = work[k]
  BY <1>1, <1>2, <1>3
<1>5. TablesType'
  BY <1>1, <1>4 DEF IInv, MailInv, TablesType, tablesI
<1>6. FromCursor'
  BY <1>1, <1>2, <1>4 DEF IInv, MailInv, FromCursor, tablesI
<1>7. PageCovers'
  <2>1. \A r \in box[l].rows : r.cursor <= work[l].cursor => Accounted(l, r)
    <3>1. work[l].cursor <= cursor[l] /\ work[l].cursor \in Nat /\ cursor[l] \in Nat
      BY <1>1, <1>3 DEF IInv, MailInv, FromCursor, TablesType, WorkT
    <3>2. \A r \in box[l].rows : r.cursor \in Nat
      BY DEF IInv, BoxInv, RowT
    <3> QED BY <3>1, <3>2 DEF IInv, MailInv, NoMailSkipped, Accounted
  <2>2. \A k \in Loft : \A r \in box[k].rows : Accounted(k, r)' = Accounted(k, r)
    BY <1>1 DEF Accounted, tablesI, historyI
  <2> QED BY <1>1, <1>2, <1>4, <2>1, <2>2 DEF IInv, MailInv, PageCovers
<1> QED BY <1>1, <1>5, <1>6, <1>7, DrainOnly DEF historyI

LEMMA OldestForm == ASSUME IInv, NEW l \in Loft, Takes(l)
                    PROVE  OldestRow(l) \in work[l].rows /\ OldestRow(l) \in RowT
<1> DEFINE S == {r.cursor : r \in work[l].rows}
<1>1. work[l].rows \subseteq RowT /\ work[l].rows # {}
  BY DEF IInv, MailInv, TablesType, WorkT, Takes
<1>2. S \in SUBSET Nat /\ S # {}
  BY <1>1 DEF RowT
<1>3. \E c \in S : \A d \in S : c <= d
  BY <1>2, LeastExists
<1>4. \E r \in work[l].rows : \A s \in work[l].rows : r.cursor <= s.cursor
  BY <1>3
<1> QED BY <1>1, <1>4 DEF OldestRow

\* One event is taken off the page: what is not stored is passed over on purpose
\* or is the decision that waits for the storing transaction.
LEMMA DecideKeeps == ASSUME IInv, NEW l \in Loft, Decide(l) PROVE IInv'
<1>0. PICK r : r = OldestRow(l)
  OBVIOUS
<1> DEFINE rest == [work EXCEPT ![l].phase = "open", ![l].rows = @ \ {r}]
<1>1. /\ Takes(l) /\ UNCHANGED <<box, tablesI, news, credited, evidence>>
      /\ r \in work[l].rows /\ r.msg \in Message /\ decision = NoDecision
  BY <1>0, OldestForm DEF Decide, RowT, Takes
<1>2. CASE work' = [k \in Loft |-> Off] /\ UNCHANGED <<decision, dropped>>
  BY <1>1, <1>2, RoutesOff DEF historyI
<1>3. CASE work' = [work EXCEPT ![l] = Off] /\ UNCHANGED <<decision, dropped>>
  BY <1>1, <1>3, RoutesOff DEF historyI
<1>4. ASSUME work' = rest, dropped \subseteq dropped',
             \/ <<l, r.cursor>> \in dropped' /\ UNCHANGED decision
             \/ /\ decision' \in [loft : Loft, msg : Message,
                                  state : {"accepted", "pending", "credit"},
                                  verdict : {"absent", "valid", "invalid"}]
                /\ decision'.state \in {"accepted", "pending"} /\ decision'.msg = r.msg
      PROVE  IInv'
  <2>1. work \in [Loft -> WorkT] /\ work[l].phase \in {"open", "arrived"}
    BY <1>1 DEF IInv, MailInv, TablesType, Takes
  <2>2. /\ rest[l] = [work[l] EXCEPT !.phase = "open", !.rows = @ \ {r}]
        /\ \A k \in Loft \ {l} : rest[k] = work[k]
    BY <2>1
  <2>3. /\ rest[l] \in WorkT /\ rest[l].phase = "open" /\ rest[l].next = work[l].next
        /\ rest[l].rows = work[l].rows \ {r}
    BY <2>1, <2>2 DEF WorkT
  <2>4. work' \in [Loft -> WorkT]
    BY <1>4, <2>1, <2>2, <2>3
  <2> HIDE DEF rest
  <2>5. TablesType'
    BY <1>1, <1>4, <2>4 DEF IInv, MailInv, TablesType, tablesI
  <2>6. FromCursor'
    BY <1>1, <1>4, <2>2, <2>3 DEF IInv, MailInv, FromCursor, tablesI
  <2>7. \A k \in Loft : \A x \in box[k].rows : Accounted(k, x) => Accounted(k, x)'
    BY <1>1, <1>4 DEF Accounted, NoDecision, tablesI
  <2>8. Accounted(l, r)'
    BY <1>4 DEF Accounted
  <2>9. PageCovers'
    BY <1>1, <1>4, <2>1, <2>2, <2>3, <2>7, <2>8 DEF IInv, MailInv, PageCovers
  <2>10. decision'.state = "credit" => UNCHANGED decision
    BY <1>4
  <2> QED BY <1>1, <1>4, <2>5, <2>6, <2>9, <2>10, DrainOnly
<1>5. CASE PassedOver(r.msg) /\ work' = rest /\ UNCHANGED decision
           /\ dropped' = dropped \cup {<<l, r.cursor>>}
  BY <1>4, <1>5
<1>6. CASE /\ ~PassedOver(r.msg) /\ work' = rest /\ UNCHANGED dropped
           /\ decision' = [loft |-> l, msg |-> r.msg, state |-> Disposition,
                           verdict |-> VerdictOn(r.msg)]
  <2>1. Disposition \in {"accepted", "pending"} /\ VerdictOn(r.msg) \in {"absent", "valid", "invalid"}
    BY <1>6 DEF PassedOver, Disposition, VerdictOn
  <2> QED BY <1>1, <1>4, <1>6, <2>1
<1> QED BY <1>0, <1>2, <1>3, <1>5, <1>6 DEF Decide, AllOff

LEMMA RouteEndsKeeps == ASSUME IInv, NEW l \in Loft, RouteEnds(l) PROVE IInv'
BY RoutesOff DEF RouteEnds

LEMMA CutShortKeeps == ASSUME IInv, Deadline \/ CrashDrain PROVE IInv'
BY RoutesOff DEF Deadline, CrashDrain, AllOff
-----------------------------------------------------------------------------
(***************************************************************************)
(* Transactions on the tables.                                             *)
(***************************************************************************)

\* No transaction takes a message back to "absent", which is what keeps every
\* cursor right.
LEMMA MailKept ==
    ASSUME IInv, TablesType', UNCHANGED <<box, cursor, dropped>>,
           \A m \in Message : inbox[m] # "absent" => inbox'[m] # "absent",
           \/ /\ UNCHANGED work
              /\ decision.state \in {"accepted", "pending"} =>
                   decision' = decision \/ inbox'[decision.msg] # "absent"
           \/ work' = [l \in Loft |-> Off]
    PROVE  MailInv' /\ BoxInv'
<1>1. Off.phase = "off"
  BY DEF Off
<1>2. BoxInv'
  BY DEF IInv, BoxInv
<1>3. FromCursor'
  BY <1>1 DEF IInv, MailInv, FromCursor
<1>4. \A l \in Loft : \A r \in box[l].rows : r.msg \in Message
  BY DEF IInv, BoxInv, RowT
<1>5. NoMailSkipped'
  BY <1>4 DEF IInv, MailInv, NoMailSkipped
<1>6. PageCovers'
  <2>1. CASE work' = [l \in Loft |-> Off]
    BY <1>1, <2>1 DEF PageCovers
  <2>2. CASE /\ UNCHANGED work
             /\ decision.state \in {"accepted", "pending"} =>
                  decision' = decision \/ inbox'[decision.msg] # "absent"
    <3>1. \A l \in Loft : \A r \in box[l].rows : Accounted(l, r) => Accounted(l, r)'
      BY <1>4, <2>2 DEF Accounted
    <3> QED BY <2>2, <3>1 DEF IInv, MailInv, PageCovers
  <2> QED BY <2>1, <2>2
<1> QED BY <1>2, <1>3, <1>5, <1>6 DEF MailInv

LEMMA StoreNewKeeps ==
    ASSUME IInv, StoreNew, decision.state \in {"accepted", "pending"},
           UNCHANGED <<box, cursor, allowed, bad, dropped, evidence>>
    PROVE  IInv'
<1>1. PICK m : m = decision.msg
  OBVIOUS
<1>2. /\ m \in Message
      /\ decision \in [loft : Loft, msg : Message, state : {"accepted", "pending", "credit"},
                       verdict : {"absent", "valid", "invalid"}]
  BY <1>1 DEF IInv, MailInv, TablesType, NoDecision
<1>3. /\ inbox[m] = "absent" /\ used < InboxLimit
      /\ inbox' = [inbox EXCEPT ![m] = decision.state]
      /\ verdict' = [verdict EXCEPT ![m] = decision.verdict]
      /\ used' = used + 1 /\ news' = [news EXCEPT ![m] = @ + 1]
      /\ decision' = IF decision.state = "accepted"
                     THEN [decision EXCEPT !.state = "credit"] ELSE NoDecision
      /\ UNCHANGED <<work, credited>>
  BY <1>1 DEF StoreNew
<1>4. inbox \in [Message -> {"absent", "pending", "accepted", "deleted"}]
      /\ verdict \in [Message -> {"absent", "valid", "invalid"}]
  BY DEF IInv, MailInv, TablesType
<1>5. TablesType'
  BY <1>2, <1>3, <1>4 DEF IInv, MailInv, TablesType
<1>6. MailInv' /\ BoxInv'
  BY <1>1, <1>2, <1>3, <1>4, <1>5, MailKept
<1>7. StoredOnce'
  <2>1. decision'.state = "credit" => decision'.msg = m
    BY <1>1, <1>2, <1>3 DEF NoDecision
  <2> QED BY <1>2, <1>3, <1>4, <2>1 DEF IInv, StoredOnce
<1>8. LiveCounted'
  <2>1. Live' = Live \cup {m} /\ m \notin Live
    BY <1>2, <1>3, <1>4 DEF Live
  <2>2. /\ IsFiniteSet(Live) /\ used = Cardinality(Live) /\ Cardinality(Live) \in Nat
        /\ IsFiniteSet(Live') /\ Cardinality(Live') = Cardinality(Live) + 1
    BY <2>1, FS_AddElement, FS_CardinalityType DEF IInv, LiveCounted
  <2> QED BY <1>3, <2>2, InboxAssumption DEF LiveCounted
<1> QED BY <1>6, <1>7, <1>8 DEF IInv

LEMMA StoreMessageKeeps == ASSUME IInv, StoreMessage PROVE IInv'
<1>1. /\ decision.state \in {"accepted", "pending"}
      /\ UNCHANGED <<box, cursor, allowed, bad, dropped, evidence>>
  BY DEF StoreMessage
<1>2. CASE StoreNew
  BY <1>1, <1>2, StoreNewKeeps
<1>3. CASE StoreDuplicate \/ StoreFails
  <2>1. /\ decision' = NoDecision /\ UNCHANGED <<inbox, verdict, used, news, credited>>
        /\ \/ UNCHANGED work /\ inbox[decision.msg] # "absent"
           \/ work' = [l \in Loft |-> Off]
    BY <1>3 DEF StoreDuplicate, StoreFails, AllOff
  <2>2. Off \in WorkT
    BY DEF Off, WorkT
  <2>3. TablesType'
    BY <1>1, <2>1, <2>2 DEF IInv, MailInv, TablesType
  <2>4. MailInv' /\ BoxInv'
    BY <1>1, <2>1, <2>3, MailKept
  <2>5. StoredOnce' /\ LiveCounted'
    BY <2>1 DEF IInv, StoredOnce, LiveCounted, Live, NoDecision
  <2> QED BY <2>4, <2>5 DEF IInv
<1> QED BY <1>2, <1>3 DEF StoreMessage

LEMMA AdjustScoreKeeps == ASSUME IInv, AdjustScore PROVE IInv'
<1>1. /\ decision.state = "credit" /\ decision' = NoDecision
      /\ credited' = [credited EXCEPT ![decision.msg] = @ + 1] /\ bad' \in {bad, FALSE}
      /\ UNCHANGED <<box, cursor, inbox, verdict, used, allowed, work, dropped, news, evidence>>
  BY DEF AdjustScore
<1>2. decision.msg \in Message
  BY <1>1 DEF IInv, MailInv, TablesType, NoDecision
<1>3. TablesType'
  BY <1>1 DEF IInv, MailInv, TablesType
<1>4. MailInv' /\ BoxInv'
  BY <1>1, <1>3, MailKept
<1>5. StoredOnce' /\ LiveCounted'
  BY <1>1, <1>2 DEF IInv, StoredOnce, LiveCounted, Live, NoDecision
<1> QED BY <1>4, <1>5 DEF IInv

\* The cursor moves over a page whose rows are all dealt with.
LEMMA PageDoneKeeps == ASSUME IInv, NEW l \in Loft, PageDone(l) PROVE IInv'
<1> DEFINE more == work[l].more /\ work[l].pages + 1 < MaxPages
           again == [Off EXCEPT !.phase = "queued", !.cursor = work[l].next,
                                !.pages = work[l].pages + 1]
<1>1. /\ work[l].phase = "open" /\ work[l].rows = {} /\ decision = NoDecision
      /\ cursor' = [cursor EXCEPT ![l] = IF @ > work[l].next THEN @ ELSE work[l].next]
      /\ work' = [work EXCEPT ![l] = IF more THEN again ELSE Off]
      /\ UNCHANGED <<box, inbox, verdict, used, allowed, bad, decision, historyI, evidence>>
  BY DEF PageDone
<1>2. /\ work \in [Loft -> WorkT] /\ cursor \in [Loft -> Nat]
      /\ work[l].next \in Nat /\ work[l].pages \in Nat
      /\ box[l].last \in Nat /\ work[l].next <= box[l].last
      /\ \A r \in box[l].rows : r.cursor \in Nat
  <2>1. work \in [Loft -> WorkT] /\ cursor \in [Loft -> Nat]
    BY DEF IInv, MailInv, TablesType
  <2>2. box[l].last \in Nat /\ \A r \in box[l].rows : r.cursor \in Nat
    BY DEF IInv, BoxInv, RowT
  <2>3. work[l].next <= box[l].last
    BY <1>1 DEF IInv, MailInv, PageCovers
  <2> QED BY <2>1, <2>2, <2>3 DEF WorkT
<1>3. /\ again \in WorkT /\ again.phase = "queued" /\ again.cursor = work[l].next
      /\ Off \in WorkT /\ Off.phase = "off"
  <2>1. Off \in WorkT /\ Off.phase = "off"
    BY DEF Off, WorkT
  <2>2. work[l].pages + 1 \in Nat
    BY <1>2
  <2>3. again \in WorkT /\ again.phase = "queued" /\ again.cursor = work[l].next
    BY <1>2, <2>1, <2>2 DEF WorkT
  <2> QED BY <2>1, <2>3
<1> HIDE DEF again, more
<1>4. /\ work' \in [Loft -> WorkT] /\ cursor' \in [Loft -> Nat]
      /\ work'[l] \in {again, Off} /\ \A k \in Loft \ {l} : work'[k] = work[k] /\ cursor'[k] = cursor[k]
      /\ cursor'[l] \in {cursor[l], work[l].next}
      /\ cursor'[l] >= work[l].next
  BY <1>1, <1>2, <1>3
<1>5. TablesType'
  BY <1>1, <1>4 DEF IInv, MailInv, TablesType
<1>6. FromCursor'
  BY <1>1, <1>2, <1>3, <1>4 DEF IInv, MailInv, FromCursor
<1>7. \A k \in Loft : \A r \in box[k].rows : Accounted(k, r)' = Accounted(k, r)
  BY <1>1 DEF Accounted, historyI
<1>8. PageCovers'
  BY <1>1, <1>3, <1>4, <1>7 DEF IInv, MailInv, PageCovers
<1>9. NoMailSkipped'
  <2>1. \A r \in box[l].rows : r.cursor <= work[l].next =>
          inbox[r.msg] # "absent" \/ <<l, r.cursor>> \in dropped
    BY <1>1 DEF IInv, MailInv, PageCovers, Accounted, NoDecision
  <2> QED BY <1>1, <1>4, <2>1 DEF IInv, MailInv, NoMailSkipped, historyI
<1>10. BoxInv' /\ StoredOnce' /\ LiveCounted'
  BY <1>1 DEF IInv, BoxInv, StoredOnce, LiveCounted, Live, historyI
<1> QED BY <1>5, <1>6, <1>8, <1>9, <1>10 DEF IInv, MailInv

\* The operator moves a message between the states of a row, never back to none.
LEMMA StatesKept ==
    ASSUME IInv, UNCHANGED <<box, cursor, verdict, used, drainI, historyI, evidence>>,
           allowed' \in BOOLEAN, bad' \in BOOLEAN,
           inbox' \in [Message -> {"absent", "pending", "accepted", "deleted"}],
           \A m \in Message : inbox'[m] = inbox[m] \/ (m \in Live /\ m \in Live')
    PROVE  IInv'
<1>1. TablesType'
  BY DEF IInv, MailInv, TablesType, drainI
<1>2. \A m \in Message : inbox[m] = "absent" <=> inbox'[m] = "absent"
  BY DEF Live
<1>3. MailInv' /\ BoxInv'
  BY <1>1, <1>2, MailKept DEF drainI, historyI
<1>4. StoredOnce'
  <2>1. decision.state = "credit" => decision.msg \in Message
    BY DEF IInv, MailInv, TablesType, NoDecision
  <2> QED BY <1>2, <2>1 DEF IInv, StoredOnce, drainI, historyI
<1>5. Live' = Live
  BY DEF Live
<1>6. LiveCounted'
  BY <1>5 DEF IInv, LiveCounted
<1> QED BY <1>3, <1>4, <1>6 DEF IInv

LEMMA DeleteMessageKeeps == ASSUME IInv, NEW m \in Message, DeleteMessage(m) PROVE IInv'
<1>1. /\ m \in Live /\ inbox' = [inbox EXCEPT ![m] = "deleted"]
      /\ verdict' = [verdict EXCEPT ![m] = "absent"] /\ used' = used - 1
      /\ UNCHANGED <<box, cursor, allowed, bad, drainI, dropped, news, credited, evidence>>
  BY DEF DeleteMessage
<1>2. inbox \in [Message -> {"absent", "pending", "accepted", "deleted"}]
  BY DEF IInv, MailInv, TablesType
<1>3. TablesType'
  BY <1>1 DEF IInv, MailInv, TablesType, drainI
<1>4. \A k \in Message : inbox[k] = "absent" <=> inbox'[k] = "absent"
  BY <1>1, <1>2 DEF Live
<1>5. MailInv' /\ BoxInv'
  BY <1>1, <1>3, <1>4, MailKept DEF drainI
<1>6. StoredOnce'
  <2>1. decision.state = "credit" => decision.msg \in Message
    BY DEF IInv, MailInv, TablesType, NoDecision
  <2> QED BY <1>1, <1>4, <2>1 DEF IInv, StoredOnce, drainI
<1>7. LiveCounted'
  <2>1. Live' = Live \ {m}
    BY <1>1, <1>2 DEF Live
  <2>2. /\ used = Cardinality(Live) /\ Cardinality(Live) \in Nat /\ used <= InboxLimit
        /\ IsFiniteSet(Live') /\ Cardinality(Live') = Cardinality(Live) - 1
    BY <1>1, <2>1, FS_RemoveElement, FS_CardinalityType DEF IInv, LiveCounted
  <2> QED BY <1>1, <2>2, InboxAssumption DEF LiveCounted
<1> QED BY <1>5, <1>6, <1>7 DEF IInv

LEMMA OperatorKeeps ==
    ASSUME IInv, AllowSender \/ BlockSender \/ ScoreDecays \/ \E m \in Message : MarkSpam(m)
    PROVE  IInv'
<1>0. allowed \in BOOLEAN /\ bad \in BOOLEAN
  BY DEF IInv, MailInv, TablesType
<1>1. inbox \in [Message -> {"absent", "pending", "accepted", "deleted"}]
  BY DEF IInv, MailInv, TablesType
<1>2. /\ UNCHANGED <<box, cursor, verdict, used, drainI, historyI, evidence>>
      /\ allowed' \in BOOLEAN /\ bad' \in BOOLEAN
  BY <1>0 DEF AllowSender, BlockSender, ScoreDecays, MarkSpam
<1>3. /\ inbox' \in [Message -> {"absent", "pending", "accepted", "deleted"}]
      /\ \A m \in Message : inbox'[m] = inbox[m] \/ (m \in Live /\ m \in Live')
  <2>1. CASE AllowSender
    <3>1. inbox' = [m \in Message |-> IF inbox[m] = "pending" THEN "accepted" ELSE inbox[m]]
      BY <2>1 DEF AllowSender
    <3> QED BY <1>1, <3>1 DEF Live
  <2>2. CASE BlockSender \/ ScoreDecays
    <3>1. inbox' = inbox
      BY <2>2 DEF BlockSender, ScoreDecays
    <3> QED BY <1>1, <3>1
  <2>3. CASE \E m \in Message : MarkSpam(m)
    <3>1. PICK m \in Live : inbox' = [inbox EXCEPT ![m] = "pending"]
      BY <2>3 DEF MarkSpam
    <3> QED BY <1>1, <3>1 DEF Live
  <2> QED BY <2>1, <2>2, <2>3
<1> QED BY <1>2, <1>3, StatesKept

LEMMA InboxInitInv == InboxInit => IInv
<1> SUFFICES ASSUME InboxInit PROVE IInv
  OBVIOUS
<1>1. /\ Off \in WorkT /\ Off.phase = "off" /\ NoDecision.state = "none"
  BY DEF Off, WorkT, NoDecision
<1>2. \A l \in Loft : box[l] = EmptyBox /\ box[l].rows = {} /\ box[l].last = 0
  BY DEF InboxInit, LoftsInit, EmptyBox
<1>3. BoxInv
  <2>1. box \in [Loft -> [rows : SUBSET RowT, last : Nat]]
    BY DEF InboxInit, LoftsInit, EmptyBox
  <2> QED BY <1>2, <2>1, FS_EmptySet, InboxAssumption DEF BoxInv
<1>4. TablesType
  BY <1>1 DEF InboxInit, TablesType
<1>5. FromCursor /\ PageCovers /\ NoMailSkipped
  BY <1>1, <1>2 DEF InboxInit, FromCursor, PageCovers, NoMailSkipped
<1>6. StoredOnce
  BY <1>1 DEF InboxInit, StoredOnce
<1>7. Live = {}
  BY DEF InboxInit, Live
<1>8. LiveCounted
  BY <1>7, FS_EmptySet, InboxAssumption DEF InboxInit, LiveCounted
<1> QED BY <1>3, <1>4, <1>5, <1>6, <1>8 DEF IInv, MailInv

LEMMA InboxNextInv == IInv /\ [InboxNext]_allI => IInv'
<1> SUFFICES ASSUME IInv, [InboxNext]_allI PROVE IInv'
  OBVIOUS
<1>1. CASE UNCHANGED <<box, tablesI, drainI, historyI>> /\ evidence' \in Evidences
  <2>1. TablesType'
    BY <1>1 DEF IInv, MailInv, TablesType, tablesI, drainI
  <2>2. FromCursor' /\ PageCovers'
    BY <1>1 DEF IInv, MailInv, FromCursor, PageCovers, Accounted, tablesI, drainI, historyI
  <2>3. BoxInv' /\ NoMailSkipped' /\ StoredOnce' /\ LiveCounted'
    BY <1>1 DEF IInv, MailInv, BoxInv, NoMailSkipped, StoredOnce, LiveCounted, Live, tablesI,
                drainI, historyI
  <2> QED BY <2>1, <2>2, <2>3 DEF IInv, MailInv
<1>2. CASE UNCHANGED allI
  BY <1>1, <1>2 DEF allI, inboxVars, IInv, MailInv, TablesType
<1>3. CASE InboxStep
  <2>1. CASE EvidenceChanges
    BY <1>1, <2>1 DEF EvidenceChanges
  <2>2. CASE DrainStart \/ Deadline \/ CrashDrain \/ StoreMessage \/ AdjustScore \/ AllowSender
    BY <2>2, DrainStartKeeps, CutShortKeeps, StoreMessageKeeps, AdjustScoreKeeps, OperatorKeeps
  <2>3. CASE \E l \in Loft : FetchPage(l) \/ RouteEnds(l) \/ Decide(l) \/ PageDone(l)
    BY <2>3, FetchPageKeeps, RouteEndsKeeps, DecideKeeps, PageDoneKeeps
  <2> QED BY <1>3, <2>1, <2>2, <2>3 DEF InboxStep
<1>4. CASE OperatorMoves
  BY <1>4, DeleteMessageKeeps, OperatorKeeps DEF OperatorMoves
<1>5. CASE LoftSide
  BY <1>5, LoftsKeep
<1> QED BY <1>2, <1>3, <1>4, <1>5 DEF InboxNext

-----------------------------------------------------------------------------
(***************************************************************************)
(* Theorems                                                                *)
(***************************************************************************)
\* The drain, the store and the operator keep IInv, however drains are cut short
\* and whichever copies of a message are fetched (drain_identity_until,
\* process_fetched_events, store_message_with_attribution).
THEOREM InboxInvariant == InboxSpec => []IInv
<1>1. InboxInit => IInv
  BY InboxInitInv
<1>2. IInv /\ [InboxNext]_allI => IInv'
  BY InboxNextInv
<1> QED BY <1>1, <1>2, PTL DEF InboxSpec, allI

\* Every state of the inbox is well typed; the quota counter stays within the
\* quota because it is exactly the number of messages held, over crashes, copies
\* and erasures (store_message_with_attribution, delete_message_at).
THEOREM InboxTypeCorrect == InboxSpec => []InboxTypeOK
<1>1. ASSUME IInv PROVE InboxTypeOK
  <2>1. \A l \in Loft : cursor[l] \in 0..MaxCursor[l]
    <3>1. \A l \in Loft : /\ cursor[l] \in Nat /\ box[l].last \in Nat /\ MaxCursor[l] \in Nat
                          /\ cursor[l] <= box[l].last /\ box[l].last <= MaxCursor[l]
      BY <1>1, InboxAssumption DEF IInv, MailInv, TablesType, FromCursor, BoxInv
    <3> QED BY <3>1
  <2>2. used \in 0..InboxLimit
    BY <1>1, FS_CardinalityType, InboxAssumption DEF IInv, LiveCounted
  <2>3. \A l \in Loft : work[l].phase \in {"off", "queued", "arrived", "open"}
    BY <1>1 DEF IInv, MailInv, TablesType, WorkT
  <2> QED BY <1>1, <2>1, <2>2, <2>3 DEF InboxTypeOK, IInv, MailInv, TablesType
<1> QED BY <1>1, InboxInvariant, PTL

\* The cursor of a loft never passes a message that is neither stored, nor
\* erased, nor dropped on purpose, wherever a drain is cut short
\* (drain_identity_until, process_fetched_events).
THEOREM MailIsNeverSkipped == InboxSpec => []NoMailSkipped
<1>1. IInv => NoMailSkipped
  BY DEF IInv, MailInv
<1> QED BY <1>1, InboxInvariant, PTL

\* However many copies arrive, a message is new once and credits its sender at
\* most once (store_message_with_attribution, adjust_score).
THEOREM NewOnceCreditedOnce == InboxSpec => []CountedOnce
<1>1. IInv => CountedOnce
  BY DEF IInv, MailInv, TablesType, StoredOnce, CountedOnce
<1> QED BY <1>1, InboxInvariant, PTL

\* What the operator erased never comes back (delete_message_at).
THEOREM ErasedForGood == InboxSpec => ErasedStaysErased
<1>1. ASSUME IInv, [InboxNext]_allI
      PROVE  [\A m \in Message : inbox[m] = "deleted" => inbox'[m] = "deleted"]_inboxVars
  <2>1. inbox \in [Message -> {"absent", "pending", "accepted", "deleted"}]
    BY <1>1 DEF IInv, MailInv, TablesType
  <2>2. CASE UNCHANGED inbox
    BY <2>2
  <2>3. CASE StoreMessage
    BY <2>1, <2>3 DEF StoreMessage, StoreNew, StoreDuplicate, StoreFails
  <2>4. CASE AllowSender
    BY <2>1, <2>4 DEF AllowSender
  <2>5. CASE \E m \in Message : DeleteMessage(m) \/ MarkSpam(m)
    BY <2>1, <2>5 DEF DeleteMessage, MarkSpam, Live
  <2>6. \/ UNCHANGED inbox \/ StoreMessage \/ AllowSender
        \/ \E m \in Message : DeleteMessage(m) \/ MarkSpam(m)
    BY <1>1 DEF allI, inboxVars, tablesI, InboxNext, InboxStep, OperatorMoves, LoftSide, DrainStart,
                Deadline, CrashDrain, FetchPage, RouteEnds, Decide, PageDone, AdjustScore,
                EvidenceChanges, BlockSender, ScoreDecays
  <2> QED BY <2>2, <2>3, <2>4, <2>5, <2>6
<1>2. IInv /\ [InboxNext]_allI =>
        [\A m \in Message : inbox[m] = "deleted" => inbox'[m] = "deleted"]_inboxVars
  BY <1>1
<1> QED BY <1>2, InboxInvariant, PTL DEF InboxSpec, ErasedStaysErased, allI

=============================================================================
