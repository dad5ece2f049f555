----------------------------- MODULE LoftServer -----------------------------
(***************************************************************************)
(* The request handlers and the retention task of a loft running over its  *)
(* store (crates/pigeonpost-loft/src/server.rs, retention.rs, lib.rs).     *)
(*                                                                         *)
(* A publish is several steps: it reads the recipient's policy in one      *)
(* blocking closure and admits the wrap in another, so policies, sweeps    *)
(* and other publishes come between; the store's admit() compares the      *)
(* policy sequence again and the handler retries.  A request that meets    *)
(* its deadline is dropped, but a closure already running goes on and      *)
(* keeps its permit.  A reader polls with the cursor of its last page; a   *)
(* page is computed at once and its response may be delayed or lost.       *)
(***************************************************************************)
EXTENDS LoftStore

CONSTANTS
    Request,        \* publish requests in flight at the same time
    Retries,        \* POLICY_ADMISSION_RETRIES
    MaxBlocking,    \* max_blocking_operations
    PageLimit,      \* page size of a fetch
    MaxCrashes      \* restarts of the loft (bound of the model)

ASSUME ServerAssumption ==
    /\ Retries \in Nat \ {0}
    /\ MaxBlocking \in Nat \ {0}
    /\ PageLimit \in Nat \ {0}
    /\ MaxCrashes \in Nat

VARIABLES
    now,        \* wall clock of the loft
    pub,        \* publish handlers: phase, arguments and loop state
    permits,    \* free permits of the blocking semaphore
    reply,      \* fetch response on its way to each agent
    cursor,     \* cursor each agent polls from
    seen,       \* history: cursors of the events delivered to each agent
    sweep,      \* sweep_once: -1 when waiting, else the time it works with
    crashes

handlers == <<pub, permits>>
readers  == <<reply, cursor, seen>>
vars == <<storeVars, now, handlers, readers, sweep, crashes>>

NoWrap  == "no wrap"
Idle    == [phase |-> "idle", wrap |-> NoWrap, expected |-> -1, start |-> 0,
            tries |-> 0, cancelled |-> FALSE]
NoReply == [rows |-> {}, next |-> -1, more |-> FALSE]

Init ==
    /\ StoreInit
    /\ now = 0
    /\ pub = [r \in Request |-> Idle]
    /\ permits = MaxBlocking
    /\ reply = [a \in Agent |-> NoReply]
    /\ cursor = [a \in Agent |-> 0]
    /\ seen = [a \in Agent |-> {}]
    /\ sweep = -1
    /\ crashes = 0

-----------------------------------------------------------------------------
(***************************************************************************)
(* publish                                                                 *)
(***************************************************************************)
Accepts(p, w) == Work[w] >= p.strict

\* prepare_publish in its closure, the recipient's budget, and the expiry of
\* the event, which is fixed here, once.
BeginPublish(r, w) ==
    /\ pub[r] = Idle
    /\ permits > 0
    /\ pub' = [pub EXCEPT ![r] =
                 [Idle EXCEPT !.phase = "validate", !.wrap = w, !.start = now]]
    /\ UNCHANGED <<storeVars, now, permits, readers, sweep, crashes>>

\* validate_publish_policy in its closure: one read of the policy table.
ValidatePolicy(r) ==
    LET p == policy[Recipient[pub[r].wrap]] IN
    /\ pub[r].phase = "validate"
    /\ permits > 0
    /\ \/ /\ Accepts(p, pub[r].wrap)
          /\ pub' = [pub EXCEPT ![r] = [@ EXCEPT !.phase = "validated",
                                                 !.expected = p.seq]]
       \/ /\ ~Accepts(p, pub[r].wrap)
          /\ pub' = [pub EXCEPT ![r] = Idle]
    /\ UNCHANGED <<storeVars, now, permits, readers, sweep, crashes>>

\* The trace, where one is configured, is captured; then the admission closure
\* takes its permit without waiting for one.
StartAdmit(r) ==
    /\ pub[r].phase = "validated"
    /\ permits > 0
    /\ permits' = permits - 1
    /\ pub' = [pub EXCEPT ![r] = [@ EXCEPT !.phase = "admitting"]]
    /\ UNCHANGED <<storeVars, now, readers, sweep, crashes>>

\* Overloaded, TraceUnavailable, or the deadline of the request outside the
\* admission closure: the handler ends and nothing was stored.
Fail(r) ==
    /\ pub[r].phase \in {"validate", "validated"}
    /\ pub' = [pub EXCEPT ![r] = Idle]
    /\ UNCHANGED <<storeVars, now, permits, readers, sweep, crashes>>

\* Mutant: the permit goes with the request instead of with the closure.
CancelReleasingPermit(r) ==
    /\ pub[r].phase = "admitting"
    /\ ~pub[r].cancelled
    /\ pub' = [pub EXCEPT ![r] = [@ EXCEPT !.cancelled = TRUE]]
    /\ permits' = permits + 1
    /\ UNCHANGED <<storeVars, now, readers, sweep, crashes>>

\* The deadline passes while the closure runs: it cannot be stopped.
Cancel(r) ==
    /\ pub[r].phase = "admitting"
    /\ ~pub[r].cancelled
    /\ pub' = [pub EXCEPT ![r] = [@ EXCEPT !.cancelled = TRUE]]
    /\ UNCHANGED <<storeVars, now, permits, readers, sweep, crashes>>

\* Where the handler goes when the closure returns.
AfterAdmit(q, result) ==
    IF result = "policy changed" /\ ~q.cancelled /\ q.tries + 1 < Retries
    THEN [q EXCEPT !.phase = "validate", !.expected = -1, !.tries = @ + 1]
    ELSE Idle

\* Mutant: a changed policy sends the handler back to admission with the
\* sequence it already holds.
RunAdmitSameExpectation(r) ==
    LET q == pub[r]
        result == AdmitResult(q.wrap, q.expected) IN
    /\ q.phase = "admitting"
    /\ IF result = "stored"
       THEN Admit(q.wrap, q.expected, q.start)
       ELSE UNCHANGED storeVars
    /\ pub' = [pub EXCEPT ![r] =
                 IF result = "policy changed" /\ ~q.cancelled
                 THEN [q EXCEPT !.phase = "validated"] ELSE Idle]
    /\ permits' = permits + 1
    /\ UNCHANGED <<now, readers, sweep, crashes>>

\* The admission closure: one transaction, then the permit is given back.
RunAdmit(r) ==
    LET q == pub[r]
        result == AdmitResult(q.wrap, q.expected) IN
    /\ q.phase = "admitting"
    /\ IF result = "stored"
       THEN Admit(q.wrap, q.expected, q.start)
       ELSE UNCHANGED storeVars
    /\ pub' = [pub EXCEPT ![r] = AfterAdmit(q, result)]
    /\ permits' = permits + 1
    /\ UNCHANGED <<now, readers, sweep, crashes>>

-----------------------------------------------------------------------------
(***************************************************************************)
(* fetch                                                                   *)
(***************************************************************************)
\* SELECT ... WHERE recipient AND cursor > c ORDER BY cursor LIMIT n
FetchRows(a, c, n) ==
    LET later == {e \in events : Recipient[e.wrap] = a /\ e.cursor > c} IN
    {e \in later : Cardinality({f \in later : f.cursor < e.cursor}) < n}

\* Mutant: the cursor is taken from the probe row as well.
PagePastProbe(a, c) ==
    LET probe == FetchRows(a, c, PageLimit + 1)
        rows == FetchRows(a, c, PageLimit) IN
    [rows |-> rows,
     next |-> Max({e.cursor : e \in probe} \cup {c}),
     more |-> Cardinality(probe) > PageLimit]

\* The handler reads one row more than it returns, to say whether more follow.
Page(a, c) ==
    LET probe == FetchRows(a, c, PageLimit + 1)
        rows == FetchRows(a, c, PageLimit) IN
    [rows |-> rows,
     next |-> Max({e.cursor : e \in rows} \cup {c}),
     more |-> Cardinality(probe) > PageLimit]

Fetch(a) ==
    /\ reply[a] = NoReply
    /\ permits > 0
    /\ reply' = [reply EXCEPT ![a] = Page(a, cursor[a])]
    /\ UNCHANGED <<storeVars, now, handlers, cursor, seen, sweep, crashes>>

Deliver(a) ==
    /\ reply[a] # NoReply
    /\ cursor' = [cursor EXCEPT ![a] = reply[a].next]
    /\ seen' = [seen EXCEPT ![a] = @ \cup {e.cursor : e \in reply[a].rows}]
    /\ reply' = [reply EXCEPT ![a] = NoReply]
    /\ UNCHANGED <<storeVars, now, handlers, sweep, crashes>>

\* The egress budget refuses the response, or the network loses it.
Lose(a) ==
    /\ reply[a] # NoReply
    /\ reply' = [reply EXCEPT ![a] = NoReply]
    /\ UNCHANGED <<storeVars, now, handlers, cursor, seen, sweep, crashes>>

-----------------------------------------------------------------------------
(***************************************************************************)
(* Retention: sweep_once removes batch after batch, all with the time it   *)
(* read when it started, until a transaction removes nothing.              *)
(***************************************************************************)
SweepStart ==
    /\ sweep = -1
    /\ sweep' = now
    /\ UNCHANGED <<storeVars, now, handlers, readers, crashes>>

SweepBatchStep ==
    /\ sweep # -1
    /\ SweepExpired(sweep)
    /\ UNCHANGED <<now, handlers, readers, sweep, crashes>>

SweepDone ==
    /\ sweep # -1
    /\ Expired(sweep) = {}
    /\ sweep' = -1
    /\ UNCHANGED <<storeVars, now, handlers, readers, crashes>>

-----------------------------------------------------------------------------
(***************************************************************************)
(* The other write handlers, the clock and restarts.  A handler whose      *)
(* closure gets no permit answers Overloaded and changes nothing.          *)
(***************************************************************************)
SetPolicy(a) ==
    /\ permits > 0
    /\ \E p \in PolicyInput : PutPolicy(a, p)
    /\ UNCHANGED <<now, handlers, readers, sweep, crashes>>

PutAgent(a) ==
    /\ permits > 0
    /\ \E r \in RecordInput : PutAgentRecord(a, r)
    /\ UNCHANGED <<now, handlers, readers, sweep, crashes>>

PutRotation(a) ==
    /\ permits > 0
    /\ \E x \in RotationInput : PutRotationRecord(a, x, now)
    /\ UNCHANGED <<now, handlers, readers, sweep, crashes>>

Tick ==
    /\ now < MaxTime
    /\ now' = now + 1
    /\ UNCHANGED <<storeVars, handlers, readers, sweep, crashes>>

\* The process ends: handlers, closures and responses are gone, the database
\* and the cursors of the agents are not.
CrashRestart ==
    /\ crashes < MaxCrashes
    /\ crashes' = crashes + 1
    /\ Reopen
    /\ pub' = [r \in Request |-> Idle]
    /\ permits' = MaxBlocking
    /\ reply' = [a \in Agent |-> NoReply]
    /\ sweep' = -1
    /\ UNCHANGED <<now, cursor, seen>>

Next ==
    \/ \E r \in Request :
         \/ \E w \in Wrap : BeginPublish(r, w)
         \/ ValidatePolicy(r) \/ StartAdmit(r) \/ Fail(r)
         \/ Cancel(r) \/ RunAdmit(r)
    \/ \E a \in Agent :
         \/ Fetch(a) \/ Deliver(a) \/ Lose(a)
         \/ SetPolicy(a) \/ PutAgent(a) \/ PutRotation(a)
    \/ SweepStart \/ SweepBatchStep \/ SweepDone
    \/ Tick \/ CrashRestart

(***************************************************************************)
(* Fairness: the async runtime runs every handler and the retention task   *)
(* (the ticker of run_until fires again and again), time passes, and an    *)
(* agent that keeps polling, while permits keep becoming free, is answered *)
(* again and again.                                                        *)
(***************************************************************************)
ServiceFairness ==
    /\ \A r \in Request :
         WF_vars(ValidatePolicy(r) \/ StartAdmit(r) \/ Fail(r) \/ RunAdmit(r))
    /\ WF_vars(SweepStart) /\ WF_vars(SweepBatchStep) /\ WF_vars(SweepDone)
    /\ WF_vars(Tick)

PollingFairness == \A a \in Agent : SF_vars(Fetch(a)) /\ SF_vars(Deliver(a))

Fairness == ServiceFairness /\ PollingFairness

Spec == Init /\ [][Next]_vars /\ Fairness

-----------------------------------------------------------------------------
(***************************************************************************)
(* Properties                                                              *)
(***************************************************************************)
Phase == {"idle", "validate", "validated", "admitting"}

\* Handlers, replies and cursors are well formed.
TypeOK ==
    /\ StoreTypeOK
    /\ now \in Time
    /\ \A r \in Request :
         /\ pub[r].phase \in Phase
         /\ pub[r].wrap \in Wrap \cup {NoWrap}
         /\ pub[r].tries \in 0..(Retries - 1)
         /\ pub[r].start \in Time
    /\ permits \in 0..MaxBlocking
    /\ \A a \in Agent : /\ reply[a].rows \subseteq EventRow
                        /\ cursor[a] \in 0..MaxCursor
                        /\ seen[a] \subseteq 1..MaxCursor
    /\ sweep \in Time \cup {-1}
    /\ crashes \in 0..MaxCrashes

\* A wrap is stored only if the policy that its recipient has at that moment
\* accepts it, although the handler read the policy in an earlier closure:
\* the sequence check of admit() closes the gap.
AdmittedUnderCurrentPolicy ==
    [][\A e \in events' \ events :
          Accepts(policy[Recipient[e.wrap]], e.wrap)]_vars

\* An agent that polls from the cursor of its last page has been given every
\* stored event up to that cursor: none is skipped, however publishes, sweeps,
\* restarts and lost responses interleave with its fetches.
NoEventSkipped ==
    \A e \in events :
        LET a == Recipient[e.wrap] IN
        e.cursor <= cursor[a] => e.cursor \in seen[a]

\* A permit is out for exactly the admission closures that are running, also
\* those whose request was dropped at its deadline: cancelled requests cannot
\* pile up more database work than max_blocking_operations.
PermitsMatchClosures ==
    permits + Cardinality({r \in Request : pub[r].phase = "admitting"})
      = MaxBlocking

\* Every publish is answered: the policy retry loop is bounded, and no step of
\* the handler waits for another request.
PublishAnswered ==
    \A r \in Request : pub[r].phase # "idle" ~> pub[r].phase = "idle"

\* An event that reaches its expiry is removed, although each retention pass
\* works with the time of its start and removes a bounded batch at a time.
ExpiredIsSwept ==
    \A c \in 1..MaxCursor :
        (\E e \in events : e.cursor = c /\ e.expires <= now)
          ~> (\A e \in events : e.cursor # c)

\* A stored event reaches a recipient that keeps polling, or expires first,
\* even when any number of its responses are lost.
StoredIsDelivered ==
    \A c \in 1..MaxCursor, a \in Agent :
        (\E e \in events : e.cursor = c /\ Recipient[e.wrap] = a)
          ~> (c \in seen[a] \/ \A e \in events : e.cursor # c)

=============================================================================
