---------------------------- MODULE OutboxProofs ----------------------------
(***************************************************************************)
(* What holds of the sending side for any number of processes, lofts and   *)
(* messages.  The order of the rows plays no part here.                    *)
(***************************************************************************)
EXTENDS Outbox, FiniteSetTheorems, TLAPS

-----------------------------------------------------------------------------
(***************************************************************************)
(* The inductive invariant.                                                *)
(***************************************************************************)
Status == {"active", "sent", "terminal"}

RowT == [id : Nat, msg : Message, loft : Loft, status : Status]

EntryT == [id : Nat, msg : Message, loft : Loft,
           answer : {"none", "sent", "retryable", "terminal"}]

\* Row ids are drawn once and never again.
RowsInv ==
    /\ outbox \subseteq RowT /\ IsFiniteSet(outbox)
    /\ lastRow \in Nat
    /\ \A r \in outbox : r.id <= lastRow
    /\ \A r, s \in outbox : r.id = s.id => r = s

\* What is on its way belongs to the row of its id, if that row is still there.
FlightInv ==
    /\ flight \in [Flusher -> SUBSET EntryT]
    /\ \A p \in Flusher : \A e \in flight[p] :
         /\ e.id <= lastRow
         /\ \A r \in outbox : r.id = e.id => r.msg = e.msg /\ r.loft = e.loft
         /\ e.answer = "sent" => <<e.msg, e.loft>> \in taken

OInv == RowsInv /\ FlightInv /\ SentMeansStored /\ OutboxAccounting /\ CopiesAccountedFor

-----------------------------------------------------------------------------
(***************************************************************************)
(* Sets of rows.                                                           *)
(***************************************************************************)
LEMMA ActiveFinite ==
    ASSUME RowsInv PROVE IsFiniteSet(Rows("active")) /\ Rows("active") \subseteq outbox
<1>1. Rows("active") \in SUBSET outbox
  BY DEF Rows
<1> QED BY <1>1, FS_Subset DEF RowsInv

\* At most one row has an id.
LEMMA OneRow ==
    ASSUME RowsInv, NEW i PROVE RowOf(i) = {} \/ \E r \in outbox : r.id = i /\ RowOf(i) = {r}
BY DEF RowsInv, RowOf

\* A list of the lofts of a message names each of them once.
LEMMA RouteListed ==
    ASSUME NEW m \in Message
    PROVE  LET lofts == SetToSeq(Route[m]) IN
           /\ Len(lofts) \in Nat \ {0}
           /\ lofts \in [1..Len(lofts) -> Loft]
           /\ \A i, j \in 1..Len(lofts) : lofts[i] = lofts[j] => i = j
           /\ \A l \in Route[m] : \E i \in 1..Len(lofts) : lofts[i] = l
<1> DEFINE R == Route[m]
           lofts == SetToSeq(R)
           n == Cardinality(R)
<1>1. R \subseteq Loft /\ R # {} /\ IsFiniteSet(R)
  BY OutboxAssumption
<1> HIDE DEF R
<1>2. n \in Nat /\ n # 0 /\ ExistsBijection(1..n, R)
  BY <1>1, FS_CardinalityType, FS_EmptySet
<1>3. \E f \in [1..n -> R] : IsInjective(f)
  BY <1>2 DEF ExistsBijection, Bijection, Injection
<1>4. lofts \in [1..n -> R] /\ IsInjective(lofts)
  BY <1>3 DEF SetToSeq
<1> HIDE DEF lofts
<1>5. Len(lofts) = n
  BY <1>2, <1>4
<1>6. Cardinality(1..n) = n /\ IsFiniteSet(1..n)
  BY <1>2, FS_Interval
<1>7. lofts \in Surjection(1..n, R)
  BY <1>1, <1>4, <1>6, FS_Injection DEF Injection
<1>8. \A i, j \in 1..n : lofts[i] = lofts[j] => i = j
  BY <1>4 DEF IsInjective
<1>9. \A l \in R : \E i \in 1..n : lofts[i] = l
  BY <1>7 DEF Surjection
<1>10. lofts \in [1..n -> Loft]
  BY <1>1, <1>4
<1> HIDE DEF n
<1> QED BY <1>2, <1>5, <1>8, <1>9, <1>10 DEF lofts, R

\* As many rows are added as there are lofts.
LEMMA AddedCount ==
    ASSUME NEW n \in Nat, NEW f, \A i, j \in 1..n : f[i] = f[j] => i = j
    PROVE  LET S == {f[i] : i \in 1..n} IN IsFiniteSet(S) /\ Cardinality(S) = n
<1> DEFINE S == {f[i] : i \in 1..n}
           g == [i \in 1..n |-> f[i]]
<1>1. g \in [1..n -> S] /\ \A i \in 1..n : g[i] = f[i]
  OBVIOUS
<1>2. IsInjective(g) /\ \A t \in S : \E i \in 1..n : g[i] = t
  BY <1>1 DEF IsInjective
<1> HIDE DEF g, S
<1>3. ExistsBijection(1..n, S)
  BY <1>1, <1>2 DEF ExistsBijection, Bijection, Injection, Surjection
<1>4. IsFiniteSet(1..n) /\ Cardinality(1..n) = n
  BY FS_Interval
<1>5. IsFiniteSet(S) /\ Cardinality(S) = n
  BY <1>3, <1>4, FS_Bijection
<1> QED BY <1>5 DEF S
-----------------------------------------------------------------------------
(***************************************************************************)
(* Steps that leave the table alone.                                       *)
(***************************************************************************)
LEMMA FlightMoves ==
    ASSUME OInv, UNCHANGED <<outbox, lastRow, rowsUsed, payloadUsed, sentOut, abandoned>>,
           taken \subseteq taken',
           FlightInv'
    PROVE  OInv'
<1>1. RowsInv' /\ SentMeansStored' /\ OutboxAccounting' /\ CopiesAccountedFor'
  BY DEF OInv, RowsInv, SentMeansStored, OutboxAccounting, CopiesAccountedFor, Rows
<1> QED BY <1>1 DEF OInv

\* Requests end without a trace: a deadline, a crash, an outcome that changes
\* nothing.
LEMMA FlightShrinks ==
    ASSUME OInv, UNCHANGED <<outbox, lastRow, rowsUsed, payloadUsed, historyO>>,
           flight' \in [Flusher -> SUBSET EntryT],
           \A p \in Flusher : flight'[p] \subseteq flight[p]
    PROVE  OInv'
<1>1. FlightInv'
  BY DEF OInv, FlightInv, historyO
<1> QED BY <1>1, FlightMoves DEF historyO

LEMMA FlushStartKeeps == ASSUME OInv, NEW p \in Flusher, FlushStart(p) PROVE OInv'
<1> DEFINE n == IF due < FlushBatch THEN due ELSE FlushBatch
           picked == {order[i] : i \in 1..n}
           entries == {[id |-> r.id, msg |-> r.msg, loft |-> r.loft, answer |-> "none"] :
                         r \in {r \in outbox : r.id \in picked}}
<1>1. flight' = [flight EXCEPT ![p] = entries] /\ UNCHANGED <<box, tablesO, historyO>>
  BY DEF FlushStart
<1>2. ASSUME NEW e \in entries
      PROVE  /\ e \in EntryT /\ e.id <= lastRow /\ e.answer # "sent"
             /\ \A r \in outbox : r.id = e.id => r.msg = e.msg /\ r.loft = e.loft
  <2>1. PICK r \in outbox : e = [id |-> r.id, msg |-> r.msg, loft |-> r.loft, answer |-> "none"]
    BY <1>2
  <2>2. r \in RowT /\ r.id <= lastRow /\ \A s \in outbox : s.id = r.id => s = r
    BY DEF OInv, RowsInv
  <2> QED BY <2>1, <2>2 DEF RowT, EntryT
<1> HIDE DEF entries
<1>3. FlightInv'
  BY <1>1, <1>2 DEF OInv, FlightInv, tablesO, historyO
<1> QED BY <1>1, <1>3, FlightMoves DEF tablesO, historyO

\* A request is answered; "sent" only if the loft holds the message.
LEMMA AnsweredKeeps ==
    ASSUME OInv, NEW p \in Flusher, NEW e \in flight[p],
           NEW answer \in {"sent", "retryable", "terminal"}, Answered(p, e, answer),
           UNCHANGED <<tablesO, sentOut, abandoned>>, taken \subseteq taken',
           answer = "sent" => <<e.msg, e.loft>> \in taken'
    PROVE  OInv'
<1> DEFINE f == [e EXCEPT !.answer = answer]
<1>1. e \in EntryT /\ flight \in [Flusher -> SUBSET EntryT]
  BY DEF OInv, FlightInv
<1>2. f \in EntryT /\ f.id = e.id /\ f.msg = e.msg /\ f.loft = e.loft /\ f.answer = answer
  BY <1>1 DEF EntryT
<1> HIDE DEF f
<1>3. flight' = [flight EXCEPT ![p] = (@ \ {e}) \cup {f}]
  BY DEF Answered, f
<1>4. flight' \in [Flusher -> SUBSET EntryT]
  BY <1>1, <1>2, <1>3
<1>5. \A q \in Flusher : \A x \in flight'[q] : x \in flight[q] \/ (q = p /\ x = f)
  BY <1>1, <1>3
<1>6. FlightInv'
  BY <1>2, <1>4, <1>5 DEF OInv, FlightInv, tablesO
<1> QED BY <1>6, FlightMoves DEF tablesO

LEMMA PostKeeps == ASSUME OInv, NEW p \in Flusher, Post(p) PROVE OInv'
<1>1. PICK e \in flight[p] :
        \/ \E answer \in {"sent", "retryable", "terminal"} : PostStored(p, e, answer)
        \/ \E answer \in {"retryable", "terminal"} : PostFails(p, e, answer)
  BY DEF Post
<1>2. ASSUME NEW answer \in {"sent", "retryable", "terminal"}, PostStored(p, e, answer)
      PROVE  OInv'
  BY <1>2, AnsweredKeeps DEF PostStored
<1>3. ASSUME NEW answer \in {"retryable", "terminal"}, PostFails(p, e, answer)
      PROVE  OInv'
  <2>1. answer \in {"sent", "retryable", "terminal"} /\ answer # "sent"
    BY <1>3
  <2> QED BY <1>3, <2>1, AnsweredKeeps DEF PostFails, historyO
<1> QED BY <1>1, <1>2, <1>3

-----------------------------------------------------------------------------
(***************************************************************************)
(* Outcomes.                                                               *)
(***************************************************************************)

LEMMA CopiesKept ==
    ASSUME OInv, UNCHANGED sentOut, taken \subseteq taken', abandoned \subseteq abandoned',
           \A x \in outbox : \/ \E y \in outbox' : y.msg = x.msg /\ y.loft = x.loft
                             \/ <<x.msg, x.loft>> \in taken' \cup abandoned'
    PROVE  CopiesAccountedFor'
<1>1. SUFFICES ASSUME NEW m \in sentOut, NEW l \in Route[m]
               PROVE  \/ \E r \in outbox' : r.msg = m /\ r.loft = l
                      \/ <<m, l>> \in taken' \cup abandoned'
  BY DEF CopiesAccountedFor
<1>2. CASE \E r \in outbox : r.msg = m /\ r.loft = l
  BY <1>2
<1>3. CASE <<m, l>> \in taken \cup abandoned
  BY <1>3
<1> QED BY <1>1, <1>2, <1>3 DEF OInv, CopiesAccountedFor

\* One row changes its status for good and gives its payload back.
LEMMA RowSettles ==
    ASSUME OInv, NEW r \in outbox, NEW st \in {"sent", "terminal"},
           outbox' = (outbox \ {r}) \cup {[r EXCEPT !.status = st]},
           payloadUsed' = payloadUsed - Cardinality({r} \cap Rows("active")),
           UNCHANGED <<lastRow, rowsUsed, historyO>>,
           st = "sent" => <<r.msg, r.loft>> \in taken,
           flight' \in [Flusher -> SUBSET EntryT],
           \A p \in Flusher : flight'[p] \subseteq flight[p]
    PROVE  OInv'
<1> DEFINE s == [r EXCEPT !.status = st]
<1>1. r \in RowT /\ IsFiniteSet(outbox) /\ outbox \subseteq RowT
  BY DEF OInv, RowsInv
<1>2. /\ s \in RowT /\ s.id = r.id /\ s.msg = r.msg /\ s.loft = r.loft /\ s.status = st
      /\ s.status # "active"
  BY <1>1 DEF RowT, Status
<1> HIDE DEF s
<1>3. outbox' = (outbox \ {r}) \cup {s}
  BY DEF s
<1>4. s \notin outbox \ {r}
  BY <1>2 DEF OInv, RowsInv
<1>5. /\ IsFiniteSet(outbox \ {r}) /\ Cardinality(outbox \ {r}) = Cardinality(outbox) - 1
      /\ Cardinality(outbox) \in Nat
  BY <1>1, FS_RemoveElement, FS_CardinalityType
<1>6. IsFiniteSet(outbox') /\ Cardinality(outbox') = Cardinality(outbox)
  <2> DEFINE S == outbox \ {r}
  <2>1. IsFiniteSet(S) /\ s \notin S /\ Cardinality(S) + 1 = Cardinality(outbox)
    BY <1>4, <1>5
  <2> HIDE DEF S
  <2>2. IsFiniteSet(S \cup {s}) /\ Cardinality(S \cup {s}) = Cardinality(S) + 1
    BY <2>1, FS_AddElement
  <2>3. outbox' = S \cup {s}
    BY <1>3 DEF S
  <2> QED BY <2>1, <2>2, <2>3
<1>7. RowsInv'
  BY <1>1, <1>2, <1>3, <1>6 DEF OInv, RowsInv
<1>8. FlightInv'
  BY <1>2, <1>3 DEF OInv, FlightInv, historyO
<1>9. SentMeansStored'
  BY <1>2, <1>3 DEF OInv, SentMeansStored, Rows, historyO
<1>10. OutboxAccounting'
  <2>1. Rows("active")' = Rows("active") \ {r}
    BY <1>2, <1>3 DEF Rows
  <2>2. /\ IsFiniteSet(Rows("active")) /\ Cardinality(Rows("active")) \in Nat
        /\ Cardinality(Rows("active") \ {r}) =
             IF r \in Rows("active") THEN Cardinality(Rows("active")) - 1
             ELSE Cardinality(Rows("active"))
    BY ActiveFinite, FS_RemoveElement, FS_CardinalityType DEF OInv
  <2>3. Cardinality({r} \cap Rows("active")) = IF r \in Rows("active") THEN 1 ELSE 0
    <3>1. CASE r \in Rows("active")
      <4>1. {r} \cap Rows("active") = {r}
        BY <3>1
      <4>2. Cardinality({r}) = 1
        BY FS_Singleton
      <4> QED BY <3>1, <4>1, <4>2
    <3>2. CASE r \notin Rows("active")
      <4>1. {r} \cap Rows("active") = {}
        BY <3>2
      <4>2. Cardinality({}) = 0
        BY FS_EmptySet
      <4> QED BY <3>2, <4>1, <4>2
    <3> QED BY <3>1, <3>2
  <2>4. /\ payloadUsed = Cardinality(Rows("active")) /\ rowsUsed' = Cardinality(outbox)
        /\ payloadUsed' = payloadUsed - Cardinality({r} \cap Rows("active"))
    BY DEF OInv, OutboxAccounting
  <2>5. payloadUsed' = Cardinality(Rows("active") \ {r})
    BY <2>2, <2>3, <2>4
  <2>6. Cardinality(Rows("active")') = Cardinality(Rows("active") \ {r})
    BY <2>1
  <2> QED BY <1>6, <2>4, <2>5, <2>6 DEF OutboxAccounting
<1>11. CopiesAccountedFor'
  <2>1. \A x \in outbox : \E y \in outbox' : y.msg = x.msg /\ y.loft = x.loft
    BY <1>2, <1>3
  <2>2. UNCHANGED <<sentOut, taken, abandoned>>
    BY DEF historyO
  <2> QED BY <2>1, <2>2, CopiesKept
<1> QED BY <1>7, <1>8, <1>9, <1>10, <1>11 DEF OInv

\* What a settled entry leaves in flight.
LEMMA SettledForm ==
    ASSUME OInv, NEW p \in Flusher, NEW e \in flight[p], Settled(p, e)
    PROVE  /\ flight' \in [Flusher -> SUBSET EntryT]
           /\ \A q \in Flusher : flight'[q] \subseteq flight[q]
BY DEF OInv, FlightInv, Settled

LEMMA MarkSentKeeps ==
    ASSUME OInv, NEW p \in Flusher, NEW e \in flight[p], MarkSent(p, e) PROVE OInv'
<1>1. /\ e.answer = "sent"
      /\ outbox' = {IF r.id = e.id THEN [r EXCEPT !.status = "sent"] ELSE r : r \in outbox}
      /\ payloadUsed' = payloadUsed - Cardinality(RowOf(e.id) \cap Rows("active"))
      /\ Settled(p, e) /\ UNCHANGED <<lastRow, rowsUsed, historyO>>
  BY DEF MarkSent
<1>2. payloadUsed \in Int
  BY ActiveFinite, FS_CardinalityType DEF OInv, OutboxAccounting
<1>3. CASE RowOf(e.id) = {}
  <2>1. outbox' = outbox
    BY <1>1, <1>3 DEF RowOf
  <2>2. payloadUsed' = payloadUsed
    <3>1. RowOf(e.id) \cap Rows("active") = {}
      BY <1>3
    <3>2. Cardinality({}) = 0
      BY FS_EmptySet
    <3>3. Cardinality(RowOf(e.id) \cap Rows("active")) = 0
      BY <3>1, <3>2
    <3>4. payloadUsed' = payloadUsed - Cardinality(RowOf(e.id) \cap Rows("active"))
      BY <1>1
    <3> QED BY <1>2, <3>3, <3>4
  <2> QED BY <1>1, <2>1, <2>2, SettledForm, FlightShrinks
<1>4. CASE RowOf(e.id) # {}
  <2>1. PICK r \in outbox : r.id = e.id /\ RowOf(e.id) = {r}
    BY <1>4, OneRow DEF OInv
  <2>2. outbox' = (outbox \ {r}) \cup {[r EXCEPT !.status = "sent"]}
    <3>1. \A x \in outbox : x.id = e.id <=> x = r
      BY <2>1 DEF RowOf
    <3> QED BY <1>1, <3>1
  <2>3. <<r.msg, r.loft>> \in taken
    BY <1>1, <2>1 DEF OInv, FlightInv
  <2> QED BY <1>1, <2>1, <2>2, <2>3, SettledForm, RowSettles
<1> QED BY <1>3, <1>4

LEMMA MarkTerminalKeeps ==
    ASSUME OInv, NEW p \in Flusher, NEW e \in flight[p], MarkTerminal(p, e) PROVE OInv'
<1> DEFINE row == RowOf(e.id) \cap Rows("active")
<1>1. /\ outbox' = (outbox \ row) \cup {[r EXCEPT !.status = "terminal"] : r \in row}
      /\ payloadUsed' = payloadUsed - Cardinality(row)
      /\ Settled(p, e) /\ UNCHANGED <<lastRow, rowsUsed, historyO>>
  BY DEF MarkTerminal
<1>2. payloadUsed \in Int
  BY ActiveFinite, FS_CardinalityType DEF OInv, OutboxAccounting
<1>3. CASE row = {}
  <2>1. outbox' = outbox
    BY <1>1, <1>3
  <2>2. payloadUsed' = payloadUsed
    <3>1. Cardinality({}) = 0
      BY FS_EmptySet
    <3>2. Cardinality(row) = 0
      BY <1>3, <3>1
    <3>3. payloadUsed' = payloadUsed - Cardinality(row)
      BY <1>1
    <3> HIDE DEF row
    <3> QED BY <1>2, <3>2, <3>3
  <2> QED BY <1>1, <2>1, <2>2, SettledForm, FlightShrinks
<1>4. CASE row # {}
  <2>1. PICK r \in outbox : RowOf(e.id) = {r} /\ row = {r}
    BY <1>4, OneRow DEF OInv
  <2>2. outbox' = (outbox \ {r}) \cup {[r EXCEPT !.status = "terminal"]}
    BY <1>1, <2>1
  <2>3. payloadUsed' = payloadUsed - Cardinality({r} \cap Rows("active"))
    BY <1>1, <2>1
  <2> HIDE DEF row
  <2> QED BY <1>1, <2>1, <2>2, <2>3, SettledForm, RowSettles
<1> QED BY <1>3, <1>4

LEMMA MarkFailedKeeps ==
    ASSUME OInv, NEW p \in Flusher, NEW e \in flight[p], MarkFailed(p, e) PROVE OInv'
<1>1. flight \in [Flusher -> SUBSET EntryT]
  BY DEF OInv, FlightInv
<1>2. CASE flight' = [flight EXCEPT ![p] = {}]
  BY <1>1, <1>2, FlightShrinks DEF MarkFailed
<1>3. CASE Settled(p, e)
  BY <1>3, SettledForm, FlightShrinks DEF MarkFailed
<1> QED BY <1>2, <1>3 DEF MarkFailed
-----------------------------------------------------------------------------
(***************************************************************************)
(* Rows come and go.                                                       *)
(***************************************************************************)

\* Rows are removed: those that were not sent are known to be abandoned.
LEMMA RowsDeleted ==
    ASSUME OInv, NEW gone \in SUBSET outbox, DeleteRows(gone),
           payloadUsed' = payloadUsed - Cardinality(gone \cap Rows("active")),
           UNCHANGED <<lastRow, sentOut, taken, flight>>, abandoned \subseteq abandoned',
           \A x \in gone : x.status # "sent" => <<x.msg, x.loft>> \in abandoned'
    PROVE  OInv'
<1>1. outbox' = outbox \ gone /\ rowsUsed' = rowsUsed - Cardinality(gone)
  BY DEF DeleteRows
<1>2. IsFiniteSet(outbox) /\ outbox \cap gone = gone
  BY DEF OInv, RowsInv
<1>3. IsFiniteSet(outbox') /\ Cardinality(outbox') = Cardinality(outbox) - Cardinality(gone)
  <2>1. /\ IsFiniteSet(outbox \ gone)
        /\ Cardinality(outbox \ gone) = Cardinality(outbox) - Cardinality(outbox \cap gone)
    BY <1>2, FS_Difference
  <2>2. Cardinality(outbox \cap gone) = Cardinality(gone)
    BY <1>2
  <2>3. Cardinality(outbox') = Cardinality(outbox \ gone) /\ IsFiniteSet(outbox')
    BY <1>1, <2>1
  <2> QED BY <2>1, <2>2, <2>3
<1>4. RowsInv' /\ FlightInv'
  BY <1>1, <1>3 DEF OInv, RowsInv, FlightInv
<1>5. SentMeansStored'
  BY <1>1 DEF OInv, SentMeansStored, Rows
<1>6. OutboxAccounting'
  <2>1. Rows("active")' = Rows("active") \ (gone \cap Rows("active"))
    BY <1>1 DEF Rows
  <2>2. Rows("active") \cap (gone \cap Rows("active")) = gone \cap Rows("active")
    OBVIOUS
  <2>3. Cardinality(Rows("active") \ (gone \cap Rows("active"))) =
          Cardinality(Rows("active")) - Cardinality(gone \cap Rows("active"))
    <3>1. IsFiniteSet(Rows("active"))
      BY ActiveFinite DEF OInv
    <3>2. \A A, B : (IsFiniteSet(A) /\ A \cap B = B)
                     => Cardinality(A \ B) = Cardinality(A) - Cardinality(B)
      BY FS_Difference
    <3> QED BY <2>2, <3>1, <3>2
  <2>4. Cardinality(Rows("active")') = Cardinality(Rows("active") \ (gone \cap Rows("active")))
    BY <2>1
  <2>5. rowsUsed = Cardinality(outbox) /\ payloadUsed = Cardinality(Rows("active"))
    BY DEF OInv, OutboxAccounting
  <2> QED BY <1>1, <1>3, <2>3, <2>4, <2>5 DEF OutboxAccounting
<1>7. CopiesAccountedFor'
  <2>1. \A x \in gone : x.status = "sent" => <<x.msg, x.loft>> \in taken
    BY DEF OInv, SentMeansStored, Rows
  <2>2. \A x \in outbox : \/ \E y \in outbox' : y.msg = x.msg /\ y.loft = x.loft
                          \/ <<x.msg, x.loft>> \in taken' \cup abandoned'
    BY <1>1, <2>1
  <2> QED BY <2>2, CopiesKept
<1> QED BY <1>4, <1>5, <1>6, <1>7 DEF OInv

\* Completed rows hold no payload.
LEMMA FinishedFree ==
    ASSUME OInv, NEW gone \in SUBSET Finished
    PROVE  payloadUsed = payloadUsed - Cardinality(gone \cap Rows("active"))
<1>1. gone \cap Rows("active") = {}
  BY DEF Finished, Rows
<1>2. Cardinality({}) = 0
  BY FS_EmptySet
<1>3. Cardinality(gone \cap Rows("active")) = 0
  BY <1>1, <1>2
<1>4. payloadUsed \in Int
  BY ActiveFinite, FS_CardinalityType DEF OInv, OutboxAccounting
<1> QED BY <1>3, <1>4

LEMMA FlushEndKeeps == ASSUME OInv, NEW p \in Flusher, FlushEnd(p) PROVE OInv'
<1>1. PICK old \in SUBSET Prunable : DeleteRows(old)
  BY DEF FlushEnd
<1>2. /\ old \in SUBSET Finished /\ old \in SUBSET outbox /\ \A x \in old : x.status = "sent"
  BY DEF Prunable, Finished, Rows
<1>3. UNCHANGED <<lastRow, payloadUsed, flight, sentOut, taken, abandoned>>
  BY DEF FlushEnd, historyO
<1>4. payloadUsed' = payloadUsed - Cardinality(old \cap Rows("active"))
  BY <1>2, <1>3, FinishedFree
<1> QED BY <1>1, <1>2, <1>3, <1>4, RowsDeleted

LEMMA PruneFinishedKeeps == ASSUME OInv, PruneFinished PROVE OInv'
<1>1. PICK old \in SUBSET Finished :
        /\ DeleteRows(old)
        /\ abandoned' = abandoned \cup {<<r.msg, r.loft>> : r \in old \cap Rows("terminal")}
  BY DEF PruneFinished
<1>2. /\ old \in SUBSET outbox
      /\ \A x \in old : x.status # "sent" => x \in old \cap Rows("terminal")
  BY DEF Finished, Rows
<1>3. UNCHANGED <<lastRow, payloadUsed, flight, sentOut, taken>>
  BY DEF PruneFinished
<1>4. payloadUsed' = payloadUsed - Cardinality(old \cap Rows("active"))
  BY <1>3, FinishedFree
<1> QED BY <1>1, <1>2, <1>3, <1>4, RowsDeleted

LEMMA DeleteRowKeeps == ASSUME OInv, NEW r \in outbox, DeleteRow(r) PROVE OInv'
BY RowsDeleted DEF DeleteRow

\* A message is queued with fresh ids, one row for each of its lofts.
LEMMA SendKeeps == ASSUME OInv, NEW m \in Message, Send(m) PROVE OInv'
<1> DEFINE lofts == SetToSeq(Route[m])
           n == Len(lofts)
           ids == [i \in 1..n |-> FirstId + i - 1]
           row(i) == [id |-> ids[i], msg |-> m, loft |-> lofts[i], status |-> "active"]
           new == {row(i) : i \in 1..n}
<1>1. /\ outbox' = outbox \cup new
      /\ lastRow' = IF ids[n] > lastRow THEN ids[n] ELSE lastRow
      /\ rowsUsed' = rowsUsed + n /\ payloadUsed' = payloadUsed + n
      /\ sentOut' = sentOut \cup {m}
      /\ UNCHANGED <<flight, taken, abandoned>>
  BY DEF Send
<1>2. /\ n \in Nat \ {0} /\ lofts \in [1..n -> Loft]
      /\ \A l \in Route[m] : \E i \in 1..n : lofts[i] = l
  BY RouteListed
<1> HIDE DEF lofts, n
<1>3. lastRow \in Nat
  BY DEF OInv, RowsInv
<1>4. \A i \in 1..n : ids[i] = lastRow + i
  BY <1>2, <1>3 DEF FirstId
<1>5. lastRow' = lastRow + n
  BY <1>1, <1>2, <1>3, <1>4
<1> HIDE DEF ids
<1>6. \A i \in 1..n :
        /\ row(i) \in RowT /\ row(i).id = lastRow + i /\ row(i).msg = m /\ row(i).loft = lofts[i]
        /\ row(i).status = "active"
  BY <1>2, <1>3, <1>4 DEF RowT, Status
<1>7. IsFiniteSet(new) /\ Cardinality(new) = n
  <2> DEFINE f == [i \in 1..n |-> row(i)]
  <2>1. \A i \in 1..n : f[i] = row(i)
    OBVIOUS
  <2>2. \A i, j \in 1..n : f[i] = f[j] => i = j
    BY <1>2, <1>3, <1>6, <2>1
  <2>3. new = {f[i] : i \in 1..n}
    BY <2>1
  <2>4. n \in Nat
    BY <1>2
  <2> HIDE DEF f, new, row
  <2>5. IsFiniteSet({f[i] : i \in 1..n}) /\ Cardinality({f[i] : i \in 1..n}) = n
    BY <2>2, <2>4, AddedCount
  <2> QED BY <2>3, <2>5
<1>8. \A x \in new : /\ x \in RowT /\ x.id > lastRow /\ x.id <= lastRow + n
                     /\ x.msg = m /\ x.status = "active"
  BY <1>2, <1>3, <1>6
<1>9. \A x, y \in new : x.id = y.id => x = y
  <2>1. SUFFICES ASSUME NEW i \in 1..n, NEW j \in 1..n, row(i).id = row(j).id PROVE row(i) = row(j)
    OBVIOUS
  <2>2. lastRow + i = lastRow + j
    BY <1>6, <2>1
  <2>3. i = j
    BY <1>2, <1>3, <2>2
  <2> QED BY <2>3
<1>10. \A l \in Route[m] : \E x \in new : x.msg = m /\ x.loft = l
  BY <1>2, <1>6
<1> HIDE DEF new, row
<1>11. /\ IsFiniteSet(outbox) /\ \A r \in outbox : r.id \in Nat /\ r.id <= lastRow
       /\ outbox \subseteq RowT
  BY DEF OInv, RowsInv, RowT
<1>12. outbox \cap new = {}
  BY <1>3, <1>8, <1>11
<1>13. IsFiniteSet(outbox') /\ Cardinality(outbox') = Cardinality(outbox) + n
  <2>1. /\ IsFiniteSet(outbox \cup new)
        /\ Cardinality(outbox \cup new) = Cardinality(outbox) + Cardinality(new) - Cardinality(outbox \cap new)
    BY <1>7, <1>11, FS_Union
  <2>2. Cardinality({}) = 0
    BY FS_EmptySet
  <2>3. Cardinality(outbox \cap new) = 0
    BY <1>12, <2>2
  <2>4. Cardinality(outbox) \in Nat
    BY <1>11, FS_CardinalityType
  <2>5. Cardinality(outbox') = Cardinality(outbox \cup new) /\ IsFiniteSet(outbox')
    BY <1>1, <2>1
  <2> QED BY <1>2, <1>7, <2>1, <2>3, <2>4, <2>5
<1>14. RowsInv'
  <2>1. \A r, s \in outbox' : r.id = s.id => r = s
    BY <1>1, <1>3, <1>8, <1>9, <1>11 DEF OInv, RowsInv, RowT
  <2>2. \A r \in outbox' : r.id <= lastRow'
    <3>1. \A r \in new : r.id \in Nat /\ r.id <= lastRow + n
      BY <1>8 DEF RowT
    <3>2. \A r \in outbox : r.id <= lastRow + n
      BY <1>2, <1>3, <1>11
    <3> QED BY <1>1, <1>5, <3>1, <3>2
  <2>3. outbox' \subseteq RowT /\ lastRow' \in Nat
    BY <1>1, <1>2, <1>3, <1>5, <1>8, <1>11
  <2> QED BY <1>13, <2>1, <2>2, <2>3 DEF RowsInv
<1>15. FlightInv'
  <2>1. SUFFICES ASSUME NEW p \in Flusher, NEW e \in flight[p]
                 PROVE  /\ e.id <= lastRow'
                        /\ \A r \in outbox' : r.id = e.id => r.msg = e.msg /\ r.loft = e.loft
    BY <1>1 DEF OInv, FlightInv
  <2>2. e \in EntryT /\ e.id <= lastRow
    BY DEF OInv, FlightInv
  <2>3. e.id \in Nat
    BY <2>2 DEF EntryT
  <2>4. \A r \in new : r.id # e.id
    BY <1>3, <1>8, <2>2, <2>3 DEF RowT
  <2>5. \A r \in outbox : r.id = e.id => r.msg = e.msg /\ r.loft = e.loft
    BY DEF OInv, FlightInv
  <2>6. e.id <= lastRow'
    BY <1>2, <1>3, <1>5, <2>2, <2>3
  <2> QED BY <1>1, <2>4, <2>5, <2>6
<1>16. SentMeansStored'
  BY <1>1, <1>8 DEF OInv, SentMeansStored, Rows
<1>17. OutboxAccounting'
  <2>1. Rows("active")' = Rows("active") \cup new
    BY <1>1, <1>8 DEF Rows
  <2>2. Rows("active") \cap new = {} /\ IsFiniteSet(Rows("active"))
    BY <1>12, ActiveFinite DEF OInv
  <2>3. Cardinality(Rows("active") \cup new) =
          Cardinality(Rows("active")) + Cardinality(new) - Cardinality(Rows("active") \cap new)
    BY <1>7, <2>2, FS_Union
  <2>4. Cardinality(Rows("active") \cap new) = 0 /\ Cardinality(Rows("active")) \in Nat
    <3>1. Cardinality({}) = 0
      BY FS_EmptySet
    <3>2. Cardinality(Rows("active") \cap new) = 0
      BY <2>2, <3>1
    <3>3. Cardinality(Rows("active")) \in Nat
      BY <2>2, FS_CardinalityType
    <3> QED BY <3>2, <3>3
  <2>5. Cardinality(Rows("active")') = Cardinality(Rows("active")) + n
    <3>1. Cardinality(Rows("active")') = Cardinality(Rows("active") \cup new)
      BY <2>1
    <3> QED BY <1>2, <1>7, <2>3, <2>4, <3>1
  <2>6. rowsUsed = Cardinality(outbox) /\ payloadUsed = Cardinality(Rows("active"))
    BY DEF OInv, OutboxAccounting
  <2> QED BY <1>1, <1>13, <2>5, <2>6 DEF OutboxAccounting
<1>18. CopiesAccountedFor'
  <2>1. SUFFICES ASSUME NEW k \in sentOut', NEW l \in Route[k]
                 PROVE  \/ \E r \in outbox' : r.msg = k /\ r.loft = l
                        \/ <<k, l>> \in taken' \cup abandoned'
    BY DEF CopiesAccountedFor
  <2>2. CASE k = m
    BY <1>1, <1>10, <2>2
  <2>3. CASE k \in sentOut
    BY <1>1, <2>3 DEF OInv, CopiesAccountedFor
  <2> QED BY <1>1, <2>2, <2>3
<1> QED BY <1>14, <1>15, <1>16, <1>17, <1>18 DEF OInv

-----------------------------------------------------------------------------
(***************************************************************************)
(* The invariant along every step, and the theorems.                       *)
(***************************************************************************)
LEMMA OutboxInitInv == OutboxInit => OInv
<1> SUFFICES ASSUME OutboxInit PROVE OInv
  OBVIOUS
<1>1. outbox = {} /\ Rows("active") = {} /\ Rows("sent") = {}
  BY DEF OutboxInit, Rows
<1>2. RowsInv /\ OutboxAccounting
  BY <1>1, FS_EmptySet DEF OutboxInit, RowsInv, OutboxAccounting
<1>3. FlightInv /\ SentMeansStored /\ CopiesAccountedFor
  BY <1>1 DEF OutboxInit, FlightInv, SentMeansStored, CopiesAccountedFor
<1> QED BY <1>2, <1>3 DEF OInv

LEMMA OutboxNextInv == OInv /\ [OutboxNext]_allO => OInv'
<1> SUFFICES ASSUME OInv, [OutboxNext]_allO PROVE OInv'
  OBVIOUS
<1>1. flight \in [Flusher -> SUBSET EntryT]
  BY DEF OInv, FlightInv
<1>2. CASE UNCHANGED outboxVars
  BY <1>1, <1>2, FlightShrinks DEF outboxVars, tablesO
<1>3. ASSUME NEW p \in Flusher,
             \/ FlushStart(p) \/ Post(p) \/ Settle(p)
             \/ FlushDeadline(p) \/ FlushEnd(p) \/ CrashFlush(p)
      PROVE  OInv'
  <2>1. CASE FlushStart(p)
    BY <2>1, FlushStartKeeps
  <2>2. CASE Post(p)
    BY <2>2, PostKeeps
  <2>3. CASE Settle(p)
    BY <2>3, MarkSentKeeps, MarkFailedKeeps, MarkTerminalKeeps DEF Settle
  <2>4. CASE FlushDeadline(p) \/ CrashFlush(p)
    <3>1. flight' = [flight EXCEPT ![p] = {}] /\ UNCHANGED <<tablesO, historyO>>
      BY <2>4 DEF FlushDeadline, CrashFlush
    <3> QED BY <1>1, <3>1, FlightShrinks DEF tablesO
  <2>5. CASE FlushEnd(p)
    BY <2>5, FlushEndKeeps
  <2> QED BY <1>3, <2>1, <2>2, <2>3, <2>4, <2>5
<1>4. CASE BecomesDue
  BY <1>1, <1>4, FlightShrinks DEF BecomesDue
<1>5. CASE OutboxStep
  BY <1>3, <1>4, <1>5, SendKeeps, DeleteRowKeeps, PruneFinishedKeeps DEF OutboxStep
<1>6. CASE UNCHANGED allO \/ LoftsExpire
  BY <1>2, <1>6 DEF allO, LoftsExpire
<1> QED BY <1>5, <1>6 DEF OutboxNext

\* Queueing, flushes of any number of processes, deletions and pruning keep OInv,
\* although a flush settles rows it read before its requests went out
\* (flush_with_limits, mark_sent, mark_failed, mark_terminal).
THEOREM OutboxInvariant == OutboxSpec => []OInv
<1>1. OutboxInit => OInv
  BY OutboxInitInv
<1>2. OInv /\ [OutboxNext]_allO => OInv'
  BY OutboxNextInv
<1> QED BY <1>1, <1>2, PTL DEF OutboxSpec

\* A row says "sent" only if its own loft holds its own message, although rows
\* are not claimed, may be deleted while a request is on its way, and are
\* settled by whichever process comes first (mark_sent).
THEOREM SentIsStored == OutboxSpec => []SentMeansStored
<1>1. OInv => SentMeansStored
  BY DEF OInv
<1> QED BY <1>1, OutboxInvariant, PTL

\* The two quota counters are exactly the rows and payloads in the table
\* (queue_correspondence, mark_sent, mark_terminal and the deletions).
THEOREM CountersExact == OutboxSpec => []OutboxAccounting
<1>1. OInv => OutboxAccounting
  BY DEF OInv
<1> QED BY <1>1, OutboxInvariant, PTL

\* A copy that was queued is in the table, at its loft or abandoned by the
\* operator: no crash, deadline or pruning loses it (prune_completed_outbox).
THEOREM NoCopyLost == OutboxSpec => []CopiesAccountedFor
<1>1. OInv => CopiesAccountedFor
  BY DEF OInv
<1> QED BY <1>1, OutboxInvariant, PTL

=============================================================================
