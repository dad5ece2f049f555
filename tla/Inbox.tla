------------------------------- MODULE Inbox --------------------------------
(***************************************************************************)
(* The receiving side of a client (crates/pigeonpost-client/src/agent.rs,  *)
(* state.rs, spam.rs): a drain reads every loft from its durable cursor,   *)
(* page by page, decides on each message and stores it, and only then      *)
(* moves the cursor.  The pages of several lofts are in flight at once; a  *)
(* page is processed without an await, but every store, score and cursor   *)
(* update is a transaction of its own, so the process may end between any  *)
(* two of them, and another process (the CLI beside an MCP host) may act   *)
(* on the same database.  The identity lease keeps it to one drain.        *)
(*                                                                         *)
(* One identity and one sender are modelled: cursors are kept per address, *)
(* scores and the allowlist per sender.                                    *)
(***************************************************************************)
EXTENDS Lofts

CONSTANTS
    Attributed,     \* messages that carry an attribution block
    Unopenable,     \* events the recipient cannot open
    Required,       \* does the recipient require attribution
    Evidences,      \* what the registry cache may say of the block's key
    AcceptAll,      \* the acceptAll setting
    PageLimit,      \* page size the lofts answer with
    MaxPages,       \* MAX_DRAIN_PAGES_PER_ROUTE
    InboxLimit,     \* inbox_messages quota
    MaxTombstones,  \* MAX_INBOX_TOMBSTONES
    Expiring,       \* lofts whose retention runs while we watch
    Copies,         \* which loft a sender posts which message to
    MaxCursor       \* rows each loft ever takes in (bound)

ASSUME InboxAssumption ==
    /\ Attributed \subseteq Message
    /\ Unopenable \subseteq Message
    /\ Required \in BOOLEAN
    /\ Evidences \subseteq {"stale", "missing", "known", "revoked"}
    /\ AcceptAll \in BOOLEAN
    /\ PageLimit \in Nat \ {0}
    /\ MaxPages \in Nat \ {0}
    /\ InboxLimit \in Nat
    /\ MaxTombstones \in Nat
    /\ Expiring \subseteq Loft
    /\ Copies \subseteq Loft \X Message
    /\ MaxCursor \in [Loft -> Nat]

VARIABLES
    cursor,     \* cursors table
    inbox,      \* messages.state, "absent" without a row
    verdict,    \* messages.attribution
    used,       \* storage_accounting.inbox_messages
    allowed,    \* is the sender on the allowlist
    bad,        \* is its aged score at or below DROP_THRESHOLD
    evidence,   \* the registry cache
    work,       \* DrainWork of each loft, with the page that arrived
    decision,   \* what process_fetched_events decided and has not stored yet
    dropped,    \* history: rows a drain chose not to store
    news,       \* history: how often a message was stored as new
    credited    \* history: how often a message raised the sender's score

tablesI  == <<cursor, inbox, verdict, used, allowed, bad>>
drainI   == <<work, decision>>
historyI == <<dropped, news, credited>>
inboxVars == <<tablesI, drainI, historyI, evidence>>

Off        == [phase |-> "off", cursor |-> 0, rows |-> {}, next |-> 0,
               more |-> FALSE, pages |-> 0]
NoDecision == [loft |-> "none", msg |-> "none", state |-> "none",
               verdict |-> "none"]

InboxInit ==
    /\ LoftsInit
    /\ cursor = [l \in Loft |-> 0]
    /\ inbox = [m \in Message |-> "absent"]
    /\ verdict = [m \in Message |-> "absent"]
    /\ used = 0
    /\ allowed = FALSE
    /\ bad = FALSE
    /\ evidence \in Evidences
    /\ work = [l \in Loft |-> Off]
    /\ decision = NoDecision
    /\ dropped = {}
    /\ news = [m \in Message |-> 0]
    /\ credited = [m \in Message |-> 0]

-----------------------------------------------------------------------------
(***************************************************************************)
(* The drain                                                               *)
(***************************************************************************)
Draining == \E l \in Loft : work[l].phase # "off"

\* No page is being processed, so the drain may be dropped at its deadline.
Awaiting == \A l \in Loft : work[l].phase # "open"

AllOff == work' = [l \in Loft |-> Off]

DrainStart ==
    /\ ~Draining
    /\ work' = [l \in Loft |-> [Off EXCEPT !.phase = "queued",
                                           !.cursor = cursor[l]]]
    /\ UNCHANGED <<box, tablesI, decision, historyI, evidence>>

PageOf(w, l) ==
    LET rows == RowsAfter(l, w.cursor, PageLimit)
        all == RowsAfter(l, w.cursor, PageLimit + 1) IN
    [w EXCEPT !.phase = "arrived", !.rows = rows, !.more = all # rows,
              !.next = IF rows = {} THEN w.cursor
                       ELSE CHOOSE c \in {r.cursor : r \in rows} :
                              \A r \in rows : r.cursor <= c]

\* Mutant: the cursor moves when the page arrives.
FetchPageAdvancing(l) ==
    /\ work[l].phase = "queued"
    /\ work' = [work EXCEPT ![l] = PageOf(work[l], l)]
    /\ cursor' = [cursor EXCEPT ![l] = PageOf(work[l], l).next]
    /\ UNCHANGED <<box, inbox, verdict, used, allowed, bad, decision,
                   historyI, evidence>>

\* The loft answers; the page waits in the set of futures for its turn.
FetchPage(l) ==
    /\ work[l].phase = "queued"
    /\ work' = [work EXCEPT ![l] = PageOf(work[l], l)]
    /\ UNCHANGED <<box, tablesI, decision, historyI, evidence>>

\* A fetch that fails, and an empty page, end the route for this wake-up.
RouteEnds(l) ==
    /\ \/ work[l].phase = "queued"
       \/ work[l].phase = "arrived" /\ work[l].rows = {} /\ Awaiting
    /\ work' = [work EXCEPT ![l] = Off]
    /\ UNCHANGED <<box, tablesI, decision, historyI, evidence>>

Deadline ==
    /\ Draining
    /\ Awaiting
    /\ AllOff
    /\ UNCHANGED <<box, tablesI, decision, historyI, evidence>>

\* The oldest row of a page that is not processed yet.
OldestRow(l) == CHOOSE r \in work[l].rows :
              \A s \in work[l].rows : r.cursor <= s.cursor

\* Attribution::Absent, Valid or Invalid for message m under this cache.
VerdictOn(m) ==
    IF m \notin Attributed THEN "absent"
    ELSE IF evidence = "known" THEN "valid" ELSE "invalid"

\* spam::decide for the sender.
Disposition ==
    IF bad THEN "drop"
    ELSE IF allowed \/ AcceptAll THEN "accepted" ELSE "pending"

Takes(l) ==
    /\ decision = NoDecision
    /\ \/ work[l].phase = "open"
       \/ work[l].phase = "arrived" /\ Awaiting
    /\ work[l].rows # {}

\* Mutant: a key the cache does not list decides against the message.
UndecidableStaleOnly(m) ==
    Required /\ m \in Attributed /\ evidence = "stale"

\* The verdict a required scope needs cannot be reached with this cache.
Undecidable(m) ==
    Required /\ m \in Attributed /\ evidence \in {"stale", "missing"}

\* An event that cannot be opened, one without the attribution that is
\* required, and one of a sender with a bad score are passed over.
PassedOver(m) ==
    \/ m \in Unopenable
    \/ Required /\ VerdictOn(m) # "valid"
    \/ Disposition = "drop"

\* One event up to the storing transaction: the reads of process_fetched_events
\* and what follows from them.  A stale cache is an error that ends the drain,
\* a key it does not know ends this route; both leave the cursor alone.
Decide(l) ==
    LET r == OldestRow(l)
        rest == [work EXCEPT ![l].phase = "open", ![l].rows = @ \ {r}] IN
    /\ Takes(l)
    /\ \/ /\ Undecidable(r.msg)
          /\ \/ evidence = "stale" /\ AllOff
             \/ evidence = "missing" /\ work' = [work EXCEPT ![l] = Off]
          /\ UNCHANGED <<decision, dropped>>
       \/ /\ ~Undecidable(r.msg)
          /\ PassedOver(r.msg)
          /\ work' = rest
          /\ dropped' = dropped \cup {<<l, r.cursor>>}
          /\ UNCHANGED decision
       \/ /\ ~Undecidable(r.msg)
          /\ ~PassedOver(r.msg)
          /\ work' = rest
          /\ decision' = [loft |-> l, msg |-> r.msg, state |-> Disposition,
                          verdict |-> VerdictOn(r.msg)]
          /\ UNCHANGED dropped
    /\ UNCHANGED <<box, tablesI, news, credited, evidence>>

-----------------------------------------------------------------------------
(***************************************************************************)
(* store_message_with_attribution and the score that follows a new message *)
(***************************************************************************)

StoreNew ==
    LET m == decision.msg IN
    /\ inbox[m] = "absent"
    /\ used < InboxLimit
    /\ inbox' = [inbox EXCEPT ![m] = decision.state]
    /\ verdict' = [verdict EXCEPT ![m] = decision.verdict]
    /\ used' = used + 1
    /\ news' = [news EXCEPT ![m] = @ + 1]
    /\ decision' = IF decision.state = "accepted"
                   THEN [decision EXCEPT !.state = "credit"] ELSE NoDecision
    /\ UNCHANGED <<work, credited>>

\* Mutant: a copy is also compared by its state.
VerdictConflictsByState(m) ==
    /\ inbox[m] \in {"pending", "accepted"}
    /\ verdict[m] # decision.verdict \/ inbox[m] # decision.state

\* The stored row differs from what is to be stored.  Sender and body follow
\* from the id; the attribution verdict is whatever the cache said each time.
VerdictConflicts(m) ==
    /\ inbox[m] \in {"pending", "accepted"}
    /\ verdict[m] # decision.verdict

\* A tombstone, or the same message from another loft.
StoreDuplicate ==
    /\ inbox[decision.msg] # "absent"
    /\ ~VerdictConflicts(decision.msg)
    /\ decision' = NoDecision
    /\ UNCHANGED <<work, inbox, verdict, used, news, credited>>

\* A conflict, or a full inbox: an error, which ends the drain with the cursor
\* where it was.
StoreFails ==
    /\ \/ VerdictConflicts(decision.msg)
       \/ inbox[decision.msg] = "absent" /\ used = InboxLimit
    /\ AllOff
    /\ decision' = NoDecision
    /\ UNCHANGED <<inbox, verdict, used, news, credited>>

\* Mutant: an id that is not live is stored again.
StoreMessageOverTombstone ==
    /\ decision.state \in {"accepted", "pending"}
    /\ IF inbox[decision.msg] = "deleted"
       THEN /\ inbox' = [inbox EXCEPT ![decision.msg] = decision.state]
            /\ verdict' = [verdict EXCEPT ![decision.msg] = decision.verdict]
            /\ used' = used + 1
            /\ decision' = NoDecision
            /\ UNCHANGED <<work, news, credited>>
       ELSE StoreNew \/ StoreDuplicate \/ StoreFails
    /\ UNCHANGED <<box, cursor, allowed, bad, dropped, evidence>>

StoreMessage ==
    /\ decision.state \in {"accepted", "pending"}
    /\ StoreNew \/ StoreDuplicate \/ StoreFails
    /\ UNCHANGED <<box, cursor, allowed, bad, dropped, evidence>>

\* adjust_score, a transaction of its own: the aged score rises.
AdjustScore ==
    /\ decision.state = "credit"
    /\ credited' = [credited EXCEPT ![decision.msg] = @ + 1]
    /\ bad' \in {bad, FALSE}
    /\ decision' = NoDecision
    /\ UNCHANGED <<box, cursor, inbox, verdict, used, allowed, work,
                   dropped, news, evidence>>

\* Every event of the page is dealt with: set_cursor, and the next page.
PageDone(l) ==
    LET w == work[l] IN
    /\ w.phase = "open"
    /\ w.rows = {}
    /\ decision = NoDecision
    /\ cursor' = [cursor EXCEPT ![l] = IF @ > w.next THEN @ ELSE w.next]
    /\ work' = [work EXCEPT ![l] =
          IF w.more /\ w.pages + 1 < MaxPages
          THEN [Off EXCEPT !.phase = "queued", !.cursor = w.next,
                           !.pages = w.pages + 1]
          ELSE Off]
    /\ UNCHANGED <<box, inbox, verdict, used, allowed, bad, decision,
                   historyI, evidence>>

\* The process ends anywhere in between.
CrashDrain ==
    /\ Draining
    /\ AllOff
    /\ decision' = NoDecision
    /\ UNCHANGED <<box, tablesI, historyI, evidence>>

-----------------------------------------------------------------------------
(***************************************************************************)
(* The operator, from this or another process                              *)
(***************************************************************************)
Live == {m \in Message : inbox[m] \in {"pending", "accepted"}}

Tombstones == {m \in Message : inbox[m] = "deleted"}

\* Mutant: the row is removed instead of kept as a tombstone.
DeleteMessageForgetting(m) ==
    /\ m \in Live
    /\ inbox' = [inbox EXCEPT ![m] = "absent"]
    /\ verdict' = [verdict EXCEPT ![m] = "absent"]
    /\ used' = used - 1
    /\ UNCHANGED <<box, cursor, allowed, bad, drainI, dropped, news, credited,
                   evidence>>

DeleteMessage(m) ==
    /\ m \in Live
    /\ Cardinality(Tombstones) < MaxTombstones
    /\ inbox' = [inbox EXCEPT ![m] = "deleted"]
    /\ verdict' = [verdict EXCEPT ![m] = "absent"]
    /\ used' = used - 1
    /\ UNCHANGED <<box, cursor, allowed, bad, drainI, dropped, news, credited,
                   evidence>>

\* allow_sender: trust, its one-time score floor, and what was held is released.
AllowSender ==
    /\ allowed' = TRUE
    /\ bad' = (bad /\ allowed)
    /\ inbox' = [m \in Message |->
                   IF inbox[m] = "pending" THEN "accepted" ELSE inbox[m]]
    /\ UNCHANGED <<box, cursor, verdict, used, drainI, historyI,
                   evidence>>

\* block_sender: no trust, and a score of two marks.
BlockSender ==
    /\ allowed' = FALSE
    /\ bad' = TRUE
    /\ UNCHANGED <<box, cursor, inbox, verdict, used, drainI, historyI,
                   evidence>>

\* mark_spam: the message is held again, trust ends, and its first mark costs
\* a penalty that may take the score below the threshold.  Later marks do not;
\* spam_marks is not kept here, so the model lets every mark have that effect.
MarkSpam(m) ==
    /\ m \in Live
    /\ allowed' = FALSE
    /\ inbox' = [inbox EXCEPT ![m] = "pending"]
    /\ bad' \in {bad, TRUE}
    /\ UNCHANGED <<box, cursor, verdict, used, drainI, historyI, evidence>>

\* effective_score: a bad score ages toward neutral.
ScoreDecays ==
    /\ bad
    /\ bad' = FALSE
    /\ UNCHANGED <<box, cursor, inbox, verdict, used, allowed, drainI,
                   historyI, evidence>>

\* The refresh before a drain succeeds, in this or another process, or the
\* witnessed cache grows too old.
EvidenceChanges ==
    /\ evidence' \in Evidences \ {evidence}
    /\ UNCHANGED <<box, tablesI, drainI, historyI>>

\* What the agent does by itself, and an operator who allows the sender.
InboxStep ==
    \/ DrainStart \/ Deadline \/ CrashDrain
    \/ \E l \in Loft : FetchPage(l) \/ RouteEnds(l) \/ Decide(l) \/ PageDone(l)
    \/ StoreMessage \/ AdjustScore
    \/ AllowSender
    \/ EvidenceChanges

\* An operator who erases mail or acts against its sender, and the score that
\* decays afterwards.
OperatorMoves ==
    \/ \E m \in Message : DeleteMessage(m) \/ MarkSpam(m)
    \/ BlockSender
    \/ ScoreDecays

\* The lofts, and the senders behind them.
LoftSide ==
    /\ \/ \E l \in Loft, m \in Message :
            <<l, m>> \in Copies /\ box[l].last < MaxCursor[l] /\ TakeIn(l, m)
       \/ \E l \in Expiring : Expire(l)
    /\ UNCHANGED inboxVars

InboxNext == InboxStep \/ OperatorMoves \/ LoftSide

InboxSpec == InboxInit /\ [][InboxNext]_<<box, inboxVars>>

-----------------------------------------------------------------------------
(***************************************************************************)
(* Fairness: the agent keeps waking up and every wake-up has a deadline; a *)
(* loft that is asked again and again answers in the end; no step of a     *)
(* drain is cut short every time it is reached.  The operator may allow    *)
(* the sender at any time and does nothing against it.                     *)
(***************************************************************************)
InboxFairness ==
    /\ WF_<<box, inboxVars>>(DrainStart)
    /\ WF_<<box, inboxVars>>(Deadline)
    /\ \A l \in Loft :
         /\ SF_<<box, inboxVars>>(FetchPage(l))
         /\ SF_<<box, inboxVars>>(Decide(l))
         /\ SF_<<box, inboxVars>>(PageDone(l))
    /\ SF_<<box, inboxVars>>(StoreMessage)
    /\ WF_<<box, inboxVars>>(AdjustScore)

FairInboxSpec ==
    InboxInit /\ [][InboxStep \/ LoftSide]_<<box, inboxVars>> /\ InboxFairness

-----------------------------------------------------------------------------
(***************************************************************************)
(* Properties                                                              *)
(***************************************************************************)
InboxTypeOK ==
    /\ \A l \in Loft : cursor[l] \in 0..MaxCursor[l]
    /\ inbox \in [Message -> {"absent", "pending", "accepted", "deleted"}]
    /\ verdict \in [Message -> {"absent", "valid", "invalid"}]
    /\ used \in 0..InboxLimit
    /\ allowed \in BOOLEAN
    /\ bad \in BOOLEAN
    /\ evidence \in Evidences
    /\ \A l \in Loft : work[l].phase \in {"off", "queued", "arrived", "open"}

\* The cursor of a loft never passes a message that is neither stored, nor
\* erased by the operator, nor dropped on purpose ("Advance only after the
\* batch is stored, so a crash re-reads rather than skips", drain_identity_until).
NoMailSkipped ==
    \A l \in Loft : \A r \in box[l].rows :
       r.cursor <= cursor[l] =>
          inbox[r.msg] # "absent" \/ <<l, r.cursor>> \in dropped

\* A message the operator erased never comes back, whichever loft still
\* delivers a copy (delete_message_at keeps the id as a tombstone).
ErasedStaysErased ==
    [][\A m \in Message : inbox[m] = "deleted" => inbox'[m] = "deleted"]_inboxVars

\* However many copies arrive and however often a drain is cut short, a message
\* is reported as new once and raises its sender's score at most once.
CountedOnce ==
    \A m \in Message : news[m] <= 1 /\ credited[m] <= news[m]

\* Once the witnessed cache has and keeps the key, each stored row is read by a
\* drain in the end, or expires at its loft: no event, also none that cannot be
\* opened, keeps the cursor of its loft where it is for good
\* ("one malicious event must not pin the cursor", process_fetched_events).
MailNotPinned ==
    <>[](evidence = "known") =>
       \A l \in Loft : \A c \in 1..MaxCursor[l] :
          (\E r \in box[l].rows : r.cursor = c)
             ~> (cursor[l] >= c \/ ~ \E r \in box[l].rows : r.cursor = c)

\* Once the witnessed cache has and keeps the key, every message a loft holds
\* reaches the inbox before it expires: mail that waited for the key is neither
\* lost nor held back for good, and no attribution block holds back the mail
\* behind it (drain_identity_until, attribution_key, optional_attribution_key).
DeliveredInTheEnd ==
    <>[](evidence = "known") =>
       \A l \in Loft : \A m \in Message \ Unopenable :
          InBox(l, m) ~> (inbox[m] # "absent" \/ ~InBox(l, m))

=============================================================================
