------------------------------- MODULE Outbox -------------------------------
(***************************************************************************)
(* The sending side of a client (crates/pigeonpost-client/src/agent.rs,    *)
(* state.rs): a message is queued durably, one row for each loft it goes   *)
(* to; a flush reads the rows that are due, posts them with several        *)
(* requests in flight and records each outcome in a transaction of its     *)
(* own.  Rows are not claimed: several processes (a CLI beside an MCP      *)
(* host) may flush the same rows at once, and an operator may delete a row *)
(* that is on its way.                                                     *)
(*                                                                         *)
(* next_attempt_at is abstracted to an order: "order" lists the active     *)
(* rows by it, and the first "due" of them are due now.  A payload counts  *)
(* one unit.                                                               *)
(***************************************************************************)
EXTENDS Lofts, SequencesExt

CONSTANTS
    Flusher,        \* processes that flush
    Route,          \* the lofts a message is posted to
    Down,           \* lofts that never answer
    Sweeping,       \* lofts whose retention runs while we watch
    RowLimit,       \* outbox_rows quota
    PayloadLimit,   \* outbox_payload_bytes quota
    FlushBatch,     \* FLUSH_BATCH
    OperatorDeletes,\* does the operator delete rows
    MaxRow,         \* largest row id (bound)
    MaxTaken        \* rows each loft ever takes in (bound)

ASSUME OutboxAssumption ==
    /\ Route \in [Message -> (SUBSET Loft) \ {{}}]
    /\ \A m \in Message : IsFiniteSet(Route[m])
    /\ Down \subseteq Loft
    /\ Sweeping \subseteq Loft
    /\ RowLimit \in Nat
    /\ PayloadLimit \in Nat
    /\ FlushBatch \in Nat \ {0}
    /\ OperatorDeletes \in BOOLEAN
    /\ MaxRow \in Nat
    /\ MaxTaken \in Nat

VARIABLES
    outbox,     \* outbox table: [id, msg, loft, status]
    lastRow,    \* AUTOINCREMENT sequence of outbox.row
    order,      \* ids of the active rows, by next_attempt_at
    due,        \* how many of them have next_attempt_at <= now
    rowsUsed,   \* storage_accounting.outbox_rows
    payloadUsed,\* storage_accounting.outbox_payload_bytes
    flushing,   \* is the process in flush_with_limits
    flight,     \* its entries: row id, payload, and the answer if any
    sentOut,    \* messages that were sent; the allowlist entry that lets their
                \* recipient reply is written in the same transaction
    taken,      \* history: copies a loft has stored
    abandoned   \* history: copies the operator deleted

tablesO  == <<outbox, lastRow, order, due, rowsUsed, payloadUsed>>
historyO == <<sentOut, taken, abandoned>>
outboxVars == <<tablesO, flushing, flight, historyO>>

OutboxInit ==
    /\ LoftsInit
    /\ outbox = {}
    /\ lastRow = 0
    /\ order = << >>
    /\ due = 0
    /\ rowsUsed = 0
    /\ payloadUsed = 0
    /\ flushing = [p \in Flusher |-> FALSE]
    /\ flight = [p \in Flusher |-> {}]
    /\ sentOut = {}
    /\ taken = {}
    /\ abandoned = {}

Rows(status) == {r \in outbox : r.status = status}

RowOf(id) == {r \in outbox : r.id = id}

\* How many rows are due without this one.
DueWithout(id) ==
    Cardinality({i \in 1..due : order[i] # id})

-----------------------------------------------------------------------------
(***************************************************************************)
(* send: queue_correspondence puts a row for every route in one            *)
(* transaction, due at once and behind the rows that are due already.      *)
(***************************************************************************)
\* Mutant: ids of removed rows are used again.
FirstIdReused == IF outbox = {} THEN 1
                 ELSE 1 + CHOOSE i \in {r.id : r \in outbox} :
                            \A r \in outbox : r.id <= i

FirstId == lastRow + 1

Send(m) ==
    LET lofts == SetToSeq(Route[m])
        n == Len(lofts)
        ids == [i \in 1..n |-> FirstId + i - 1] IN
    /\ m \notin sentOut
    /\ rowsUsed + n <= RowLimit
    /\ payloadUsed + n <= PayloadLimit
    /\ FirstId + n - 1 <= MaxRow
    /\ outbox' = outbox \cup
         {[id |-> ids[i], msg |-> m, loft |-> lofts[i], status |-> "active"] :
            i \in 1..n}
    /\ lastRow' = IF ids[n] > lastRow THEN ids[n] ELSE lastRow
    /\ order' = SubSeq(order, 1, due) \o ids \o SubSeq(order, due + 1, Len(order))
    /\ due' = due + n
    /\ rowsUsed' = rowsUsed + n
    /\ payloadUsed' = payloadUsed + n
    /\ sentOut' = sentOut \cup {m}
    /\ UNCHANGED <<box, flushing, flight, taken, abandoned>>

-----------------------------------------------------------------------------
(***************************************************************************)
(* flush_with_limits                                                       *)
(***************************************************************************)
\* pending(): a snapshot of the first due rows, payload included.
FlushStart(p) ==
    LET n == IF due < FlushBatch THEN due ELSE FlushBatch
        picked == {order[i] : i \in 1..n} IN
    /\ ~flushing[p]
    /\ flushing' = [flushing EXCEPT ![p] = TRUE]
    /\ flight' = [flight EXCEPT ![p] =
         {[id |-> r.id, msg |-> r.msg, loft |-> r.loft, answer |-> "none"] :
            r \in {r \in outbox : r.id \in picked}}]
    /\ UNCHANGED <<box, tablesO, historyO>>

Answered(p, e, answer) ==
    flight' = [flight EXCEPT ![p] = (@ \ {e}) \cup {[e EXCEPT !.answer = answer]}]

\* The loft stores the wrap, or has it already, and says so; an answer that is
\* lost looks like a failure to try again, a damaged one like a terminal one.
PostStored(p, e, answer) ==
    /\ e.answer = "none"
    /\ e.loft \notin Down
    /\ \/ box[e.loft].last < MaxTaken /\ TakeIn(e.loft, e.msg)
       \/ InBox(e.loft, e.msg) /\ UNCHANGED box
    /\ taken' = taken \cup {<<e.msg, e.loft>>}
    /\ Answered(p, e, answer)
    /\ UNCHANGED <<tablesO, flushing, sentOut, abandoned>>

\* The loft is not reached or refuses the wrap: delivery_failure tells the
\* failures that are tried again from the terminal ones.
PostFails(p, e, answer) ==
    /\ e.answer = "none"
    /\ answer \in {"retryable"} \cup (IF e.loft \in Down THEN {} ELSE {"terminal"})
    /\ Answered(p, e, answer)
    /\ UNCHANGED <<box, tablesO, flushing, historyO>>

Settled(p, e) == flight' = [flight EXCEPT ![p] = @ \ {e}]

\* mark_sent: also for a row that another process has given up as terminal,
\* whose payload is gone already; a row that is gone or sent is left alone.
MarkSent(p, e) ==
    /\ e.answer = "sent"
    /\ outbox' = {IF r.id = e.id THEN [r EXCEPT !.status = "sent"] ELSE r :
                    r \in outbox}
    /\ order' = Remove(order, e.id)
    /\ due' = DueWithout(e.id)
    /\ payloadUsed' = payloadUsed - Cardinality(RowOf(e.id) \cap Rows("active"))
    /\ Settled(p, e)
    /\ UNCHANGED <<box, lastRow, rowsUsed, flushing, historyO>>

\* Mutant: a row that failed keeps its place.
MarkFailedInPlace(p, e) ==
    /\ e.answer = "retryable"
    /\ Settled(p, e)
    /\ UNCHANGED <<box, tablesO, flushing, historyO>>

\* mark_failed: the next attempt is later than everything that is due now.  A
\* row that is gone is an error, and the flush ends with the rest undone.
MarkFailed(p, e) ==
    /\ e.answer = "retryable"
    /\ \/ /\ RowOf(e.id) = {}
          /\ flight' = [flight EXCEPT ![p] = {}]
          /\ flushing' = [flushing EXCEPT ![p] = FALSE]
          /\ UNCHANGED <<order, due>>
       \/ /\ RowOf(e.id) # {}
          /\ ~(RowOf(e.id) \subseteq Rows("active"))
          /\ Settled(p, e)
          /\ UNCHANGED <<order, due, flushing>>
       \/ /\ RowOf(e.id) # {}
          /\ RowOf(e.id) \subseteq Rows("active")
          /\ \E i \in (DueWithout(e.id) + 1)..Len(order) :
               order' = InsertAt(Remove(order, e.id), i, e.id)
          /\ due' = DueWithout(e.id)
          /\ Settled(p, e)
          /\ UNCHANGED flushing
    /\ UNCHANGED <<box, outbox, lastRow, rowsUsed, payloadUsed, historyO>>

\* mark_terminal: only a row that is still active.
MarkTerminal(p, e) ==
    LET row == RowOf(e.id) \cap Rows("active") IN
    /\ e.answer = "terminal"
    /\ outbox' = (outbox \ row) \cup {[r EXCEPT !.status = "terminal"] : r \in row}
    /\ order' = Remove(order, e.id)
    /\ due' = DueWithout(e.id)
    /\ payloadUsed' = payloadUsed - Cardinality(row)
    /\ Settled(p, e)
    /\ UNCHANGED <<box, lastRow, rowsUsed, flushing, historyO>>

\* The deadline drops every request in flight.
FlushDeadline(p) ==
    /\ flight[p] # {}
    /\ flight' = [flight EXCEPT ![p] = {}]
    /\ UNCHANGED <<box, tablesO, flushing, historyO>>

Finished == Rows("sent") \cup Rows("terminal")

\* Rows that prune_completed_outbox may remove, once they are old enough (mutant:
\* Finished).
Prunable == Rows("sent")

DeleteRows(rows) ==
    /\ outbox' = outbox \ rows
    /\ rowsUsed' = rowsUsed - Cardinality(rows)

\* The end of a flush prunes what was completed long ago.
FlushEnd(p) ==
    /\ flushing[p]
    /\ flight[p] = {}
    /\ flushing' = [flushing EXCEPT ![p] = FALSE]
    /\ \E old \in SUBSET Prunable : DeleteRows(old)
    /\ UNCHANGED <<box, lastRow, order, due, payloadUsed, flight, historyO>>

\* The process ends.
CrashFlush(p) ==
    /\ flushing[p]
    /\ flushing' = [flushing EXCEPT ![p] = FALSE]
    /\ flight' = [flight EXCEPT ![p] = {}]
    /\ UNCHANGED <<box, tablesO, historyO>>

-----------------------------------------------------------------------------
(***************************************************************************)
(* Time, and the operator                                                  *)
(***************************************************************************)
\* The next row becomes due.
BecomesDue ==
    /\ due < Len(order)
    /\ due' = due + 1
    /\ UNCHANGED <<box, outbox, lastRow, order, rowsUsed, payloadUsed, flushing,
                   flight, historyO>>

\* Mutant: a deleted row keeps its payload charge.
DeleteRowStillCharged(r) ==
    /\ OperatorDeletes
    /\ DeleteRows({r})
    /\ order' = Remove(order, r.id)
    /\ due' = DueWithout(r.id)
    /\ abandoned' = abandoned \cup
          (IF r.status = "sent" THEN {} ELSE {<<r.msg, r.loft>>})
    /\ UNCHANGED <<box, lastRow, payloadUsed, flushing, flight, sentOut, taken>>

\* delete_pending_outbox, delete_completed_delivery and delete_dead_letter:
\* exactly one row, whatever its status.
DeleteRow(r) ==
    /\ OperatorDeletes
    /\ DeleteRows({r})
    /\ order' = Remove(order, r.id)
    /\ due' = DueWithout(r.id)
    /\ payloadUsed' = payloadUsed - Cardinality({r} \cap Rows("active"))
    /\ abandoned' = abandoned \cup
          (IF r.status = "sent" THEN {} ELSE {<<r.msg, r.loft>>})
    /\ UNCHANGED <<box, lastRow, flushing, flight, sentOut, taken>>

\* prune_finished_outbox: old completed and terminal rows, on demand.
PruneFinished ==
    /\ OperatorDeletes
    /\ \E old \in (SUBSET Finished) \ {{}} :
         /\ DeleteRows(old)
         /\ abandoned' = abandoned \cup
               {<<r.msg, r.loft>> : r \in old \cap Rows("terminal")}
    /\ UNCHANGED <<box, lastRow, order, due, payloadUsed, flushing, flight,
                   sentOut, taken>>

\* A post in flight, and its outcome.
Post(p) ==
    \E e \in flight[p] :
       \/ \E answer \in {"sent", "retryable", "terminal"} : PostStored(p, e, answer)
       \/ \E answer \in {"retryable", "terminal"} : PostFails(p, e, answer)

Settle(p) ==
    \E e \in flight[p] : MarkSent(p, e) \/ MarkFailed(p, e) \/ MarkTerminal(p, e)

OutboxStep ==
    \/ \E m \in Message : Send(m)
    \/ \E p \in Flusher : \/ FlushStart(p) \/ Post(p) \/ Settle(p)
                          \/ FlushDeadline(p) \/ FlushEnd(p) \/ CrashFlush(p)
    \/ BecomesDue
    \/ \E r \in outbox : DeleteRow(r)
    \/ PruneFinished

\* Retention at the lofts, while the bound lets them take rows in again.
LoftsExpire ==
    /\ \E l \in Sweeping : box[l].last < MaxTaken /\ Expire(l)
    /\ UNCHANGED outboxVars

OutboxNext == OutboxStep \/ LoftsExpire

allO == <<box, outboxVars>>

OutboxSpec == OutboxInit /\ [][OutboxNext]_allO

(***************************************************************************)
(* Fairness: the agent flushes again and again, requests and deadlines     *)
(* end; the clock passes the next_attempt_at of every row, which is fixed  *)
(* until it is tried again; a loft that is not down gives a message that is  *)
(* posted again and again an answer that settles it, in the end, and not   *)
(* every such answer is cut short by a deadline.                           *)
(***************************************************************************)
OutboxFairness ==
    /\ \A id \in 1..MaxRow : SF_allO(BecomesDue /\ order[due + 1] = id)
    /\ \A p \in Flusher :
         /\ WF_allO(FlushStart(p))
         /\ WF_allO(FlushEnd(p))
         /\ WF_allO(FlushDeadline(p))
         /\ SF_allO(\E e \in flight[p] : MarkFailed(p, e))
         /\ SF_allO(\E e \in flight[p] : PostFails(p, e, "retryable"))
    /\ \A m \in Message, l \in Loft \ Down :
         /\ SF_allO(\E p \in Flusher : \E e \in flight[p] :
                      e.msg = m /\ e.loft = l /\ PostStored(p, e, "sent"))
         /\ SF_allO(\E p \in Flusher : \E e \in flight[p] :
                      e.msg = m /\ e.loft = l /\ MarkSent(p, e))

FairOutboxSpec == OutboxSpec /\ OutboxFairness

-----------------------------------------------------------------------------
(***************************************************************************)
(* Properties                                                              *)
(***************************************************************************)
OutboxTypeOK ==
    /\ outbox \subseteq [id : 1..MaxRow, msg : Message, loft : Loft,
                         status : {"active", "sent", "terminal"}]
    /\ lastRow \in 0..MaxRow
    /\ due \in 0..Len(order)
    /\ rowsUsed \in 0..RowLimit
    /\ payloadUsed \in 0..PayloadLimit
    /\ \A i, j \in 1..Len(order) : order[i] = order[j] => i = j
    /\ {order[i] : i \in 1..Len(order)} = {r.id : r \in Rows("active")}

\* A row says "sent" only if the loft it names has stored the message it
\* names: an outcome never lands on another row, also when the row it belongs
\* to was deleted while the request was on its way.
SentMeansStored ==
    \A r \in Rows("sent") : <<r.msg, r.loft>> \in taken

\* The quota counters are exactly the rows and the payloads that are held,
\* whichever of two processes settles a row first.
OutboxAccounting ==
    /\ rowsUsed = Cardinality(outbox)
    /\ payloadUsed = Cardinality(Rows("active"))

\* A copy that was queued is still in the table, or was stored by its loft, or
\* was deleted by the operator: no crash, deadline or pruning loses it.
CopiesAccountedFor ==
    \A m \in sentOut : \A l \in Route[m] :
       \/ \E r \in outbox : r.msg = m /\ r.loft = l
       \/ <<m, l>> \in taken \cup abandoned

\* A copy for a loft that answers is settled in the end, even if a flush takes
\* fewer rows than are due and copies for a loft that never answers are in the
\* queue for ever.
CopiesSettled ==
    \A m \in Message, l \in Loft \ Down :
       (\E r \in Rows("active") : r.msg = m /\ r.loft = l)
         ~> ~(\E r \in Rows("active") : r.msg = m /\ r.loft = l)

=============================================================================
