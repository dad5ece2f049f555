----------------------------- MODULE LoftLimits -----------------------------
(***************************************************************************)
(* What a request meets before and around its handler in a loft            *)
(* (limiter.rs, and admission_middleware, run_admitted_request,            *)
(* run_trace_blocking and AdmittedBody of server.rs): a slot that is held  *)
(* until the response is written, budgets for everyone, for a source and   *)
(* for a recipient, and the lanes of the trace capture.                    *)
(*                                                                         *)
(* A budget belongs to a key and a window that starts with the first       *)
(* charge.  The clock is read before the lock of a map of budgets is       *)
(* taken, so a charge may come with a time that others have passed.  A     *)
(* request and a response weigh one unit.                                  *)
(***************************************************************************)
EXTENDS Integers, FiniteSets, FiniteSetsExt

CONSTANTS
    Visit,          \* requests in flight
    Source,         \* connected sources
    Owner,          \* recipients and owners of mailboxes
    Slots,          \* max_concurrent_requests
    Lanes,          \* TRACE_BLOCKING_LANES
    MaxKeys,        \* max_limiter_keys
    Span,           \* WINDOW
    GlobalLimits,   \* [requests, bytes]; 0 is no limit
    SourceLimits,
    OwnerLimits,
    MaxStall,       \* bound: how long a request waits for the lock of a map
    MaxClock        \* bound of the clock

ASSUME LimitsAssumption ==
    /\ {Slots, Lanes, MaxKeys, Span} \subseteq Nat \ {0}
    /\ {GlobalLimits, SourceLimits, OwnerLimits} \subseteq
         [requests : Nat, bytes : Nat]
    /\ {MaxStall, MaxClock} \subseteq Nat

VARIABLES
    clock,          \* Instant::now
    everyone,       \* AdmissionController.global
    sources,        \* AdmissionController.source
    owners,         \* AdmissionController.recipient
    slots,          \* free permits of AdmissionController.concurrency
    lanes,          \* free permits of Loft.trace_blocking
    orphans,        \* captures that go on after their request has ended
    visit,          \* what each request is and how far it has come
    admitted        \* history: requests each source was granted in the last
                    \* Span units of time, by their age

buckets == <<everyone, sources, owners>>
limitVars == <<clock, buckets, slots, lanes, orphans, visit, admitted>>

-----------------------------------------------------------------------------
(***************************************************************************)
(* Bucket and KeyedBuckets                                                 *)
(***************************************************************************)
NoBucket == [requests |-> 0, bytes |-> 0, start |-> -1]

Fresh(t) == [requests |-> 0, bytes |-> 0, start |-> t]

\* duration_since is zero for a time before the start.
Live(b, t) == t - b.start < Span

\* Mutant: every charge starts a window.
RenewedAlways(b, t) == Fresh(t)

Renewed(b, t) == IF Live(b, t) THEN b ELSE Fresh(t)

Over(limit, n) == limit # 0 /\ n > limit

\* charge (n = 1) and charge_bytes (n = 0).
Added(b, t, n) ==
    [Renewed(b, t) EXCEPT !.requests = @ + n, !.bytes = @ + 1]

Within(b, limits) == ~ Over(limits.requests, b.requests) /\ ~ Over(limits.bytes, b.bytes)

Unlimited(limits, n) == limits.bytes = 0 /\ (limits.requests = 0 \/ n = 0)

\* A refusal leaves the renewed bucket behind.
ChargeBucket(b, t, n, limits) ==
    IF Within(Added(b, t, n), limits) THEN Added(b, t, n) ELSE Renewed(b, t)

\* The map of budgets: next_cleanup_at is -1 when it is None.
NoBuckets(K) == [at |-> [k \in K |-> NoBucket], cleanup |-> -1]

Keys(m) == {k \in DOMAIN m.at : m.at[k] # NoBucket}

\* Mutant: the next scan is not planned.
SweptOnce(m, t) ==
    [at |-> [k \in DOMAIN m.at |->
               IF k \in Keys(m) /\ Live(m.at[k], t) THEN m.at[k] ELSE NoBucket],
     cleanup |-> -1]

Swept(m, t) ==
    LET kept == {k \in Keys(m) : Live(m.at[k], t)}
    IN  [at |-> [k \in DOMAIN m.at |-> IF k \in kept THEN m.at[k] ELSE NoBucket],
         cleanup |-> IF kept = {} THEN -1 ELSE t + Span]

HasRoom(m, k) == k \in Keys(m) \/ Cardinality(Keys(m)) < MaxKeys

MakeRoom(m, k, t) ==
    IF ~ HasRoom(m, k) /\ m.cleanup # -1 /\ t >= m.cleanup THEN Swept(m, t) ELSE m

NoteInsert(m, t) ==
    IF m.cleanup = -1 THEN t + Span ELSE Min({m.cleanup, t + Span})

\* charge and charge_bytes of KeyedBuckets: the map afterwards.
ChargeKey(m, k, t, n, limits) ==
    LET roomy == MakeRoom(m, k, t)
        known == k \in Keys(roomy)
        b == IF known THEN roomy.at[k] ELSE Fresh(t)
    IN  CASE Unlimited(limits, n) -> m
          [] ~ Unlimited(limits, n) /\ ~ HasRoom(roomy, k) -> roomy
          [] OTHER ->
               [at |-> [roomy.at EXCEPT ![k] = ChargeBucket(b, t, n, limits)],
                cleanup |-> IF known THEN roomy.cleanup ELSE NoteInsert(roomy, t)]

\* ... and whether it was granted.
Grants(m, k, t, n, limits) ==
    LET roomy == MakeRoom(m, k, t)
        b == IF k \in Keys(roomy) THEN roomy.at[k] ELSE Fresh(t)
    IN  Unlimited(limits, n) \/ (HasRoom(roomy, k) /\ Within(Added(b, t, n), limits))

-----------------------------------------------------------------------------
NoVisit == [at |-> "idle", kind |-> "none", source |-> "none", owner |-> "none",
            seen |-> 0]

LimitsInit ==
    /\ clock = 0
    /\ everyone = Fresh(0)
    /\ sources = NoBuckets(Source)
    /\ owners = NoBuckets(Owner)
    /\ slots = Slots /\ lanes = Lanes /\ orphans = 0
    /\ visit = [v \in Visit |-> NoVisit]
    /\ admitted = [s \in Source |-> [age \in 0 .. Span - 1 |-> 0]]

In(v, stage) == visit[v].at = stage

Waiting == {"source", "owner", "egress source", "egress owner"}

\* The clock is read on the way to the lock of a map.
Goes(v, stage) ==
    visit' = [visit EXCEPT ![v] =
                [@ EXCEPT !.at = stage,
                          !.seen = IF stage \in Waiting THEN clock ELSE 0]]

\* try_enter: without a free slot the answer is Overloaded, and nothing changes.
Enter(v) ==
    /\ In(v, "idle") /\ slots > 0
    /\ slots' = slots - 1
    /\ \E k \in {"publish", "fetch", "probe"}, s \in Source, o \in Owner :
         visit' = [visit EXCEPT ![v] =
                     [at |-> "global", kind |-> k, source |-> s, owner |-> o,
                      seen |-> 0]]
    /\ UNCHANGED <<clock, buckets, lanes, orphans, admitted>>

\* charge_shared and charge_egress begin with the global budget, whose lock is
\* held when the clock is read.
ChargeGlobal(v) ==
    LET n == IF In(v, "global") THEN 1 ELSE 0
        next == IF In(v, "egress global") THEN "egress source"
                ELSE IF visit[v].kind = "probe" THEN "trace" ELSE "source"
    IN  /\ In(v, "global") \/ In(v, "egress global")
        /\ everyone' = ChargeBucket(everyone, clock, n, GlobalLimits)
        /\ Goes(v, IF Within(Added(everyone, clock, n), GlobalLimits)
                     THEN next ELSE "respond")
        /\ UNCHANGED <<clock, sources, owners, slots, lanes, orphans, admitted>>

\* What was charged before is not given back if a later budget refuses.
ChargeSource(v) ==
    LET w == visit[v]
        n == IF In(v, "source") THEN 1 ELSE 0
        ok == Grants(sources, w.source, w.seen, n, SourceLimits)
        next == IF In(v, "egress source") THEN "egress owner"
                ELSE IF w.kind = "publish" THEN "owner" ELSE "trace"
    IN  /\ In(v, "source") \/ In(v, "egress source")
        /\ sources' = ChargeKey(sources, w.source, w.seen, n, SourceLimits)
        /\ Goes(v, IF ok THEN next ELSE "respond")
        /\ admitted' = IF ok THEN [admitted EXCEPT ![w.source][0] = @ + n]
                       ELSE admitted
        /\ UNCHANGED <<clock, everyone, owners, slots, lanes, orphans>>

\* charge_recipient, after the envelope has verified, and the last of the
\* egress charges.
ChargeOwner(v) ==
    LET w == visit[v]
        n == IF In(v, "owner") THEN 1 ELSE 0
        ok == Grants(owners, w.owner, w.seen, n, OwnerLimits)
    IN  /\ In(v, "owner") \/ In(v, "egress owner")
        /\ owners' = ChargeKey(owners, w.owner, w.seen, n, OwnerLimits)
        /\ Goes(v, IF ok /\ In(v, "owner") THEN "trace" ELSE "respond")
        /\ UNCHANGED <<clock, everyone, sources, slots, lanes, orphans, admitted>>

-----------------------------------------------------------------------------
(***************************************************************************)
(* run_trace_blocking: a lane belongs to the closure, not to the request.  *)
(***************************************************************************)
BeginTrace(v) ==
    /\ In(v, "trace")
    /\ \/ lanes > 0 /\ lanes' = lanes - 1 /\ Goes(v, "tracing")
       \/ lanes = 0 /\ UNCHANGED lanes /\ Goes(v, "respond")
    /\ UNCHANGED <<clock, buckets, slots, orphans, admitted>>

\* The closure ends in time, with or without an error.
TraceEnds(v) ==
    /\ In(v, "tracing")
    /\ lanes' = lanes + 1
    /\ Goes(v, "respond") \/ Goes(v, "handle")
    /\ UNCHANGED <<clock, buckets, slots, orphans, admitted>>

\* Mutant: the lane is given back when the request stops waiting.
TimeoutWithLane(v) ==
    /\ In(v, "tracing")
    /\ orphans' = orphans + 1 /\ lanes' = lanes + 1
    /\ Goes(v, "respond")
    /\ UNCHANGED <<clock, buckets, slots, admitted>>

\* trace_timeout_ms is over, or the request's own deadline.
TraceTimeout(v) ==
    /\ In(v, "tracing")
    /\ orphans' = orphans + 1
    /\ Goes(v, "respond")
    /\ UNCHANGED <<clock, buckets, slots, lanes, admitted>>

OrphanEnds ==
    /\ orphans > 0
    /\ orphans' = orphans - 1 /\ lanes' = lanes + 1
    /\ UNCHANGED <<clock, buckets, slots, visit, admitted>>

\* The handler ends with an error before its next charge or capture: a request
\* that does not verify, a policy that refuses it, a closure that fails or finds
\* no permit, or the deadline of the request.
HandlerFails(v) ==
    /\ In(v, "owner") \/ In(v, "trace") \/ In(v, "handle")
    /\ Goes(v, "respond")
    /\ UNCHANGED <<clock, buckets, slots, lanes, orphans, admitted>>

\* The handler itself (see LoftServer); a page is charged before it is sent.
Handle(v) ==
    /\ In(v, "handle")
    /\ Goes(v, IF visit[v].kind = "fetch" THEN "egress global" ELSE "respond")
    /\ UNCHANGED <<clock, buckets, slots, lanes, orphans, admitted>>

\* The body was written, failed, or reached response_timeout_secs.
BodyEnds(v) ==
    /\ In(v, "respond")
    /\ slots' = slots + 1
    /\ visit' = [visit EXCEPT ![v] = NoVisit]
    /\ UNCHANGED <<clock, buckets, lanes, orphans, admitted>>

TimePasses ==
    /\ clock < MaxClock
    /\ \A v \in Visit :
         visit[v].at \in Waiting =>
           clock - visit[v].seen < MaxStall
    /\ clock' = clock + 1
    /\ admitted' = [s \in Source |-> [age \in 0 .. Span - 1 |->
                      IF age = 0 THEN 0 ELSE admitted[s][age - 1]]]
    /\ UNCHANGED <<buckets, slots, lanes, orphans, visit>>

LimitsNext ==
    \/ \E v \in Visit :
         \/ Enter(v) \/ ChargeGlobal(v) \/ ChargeSource(v) \/ ChargeOwner(v)
         \/ BeginTrace(v) \/ TraceEnds(v) \/ TraceTimeout(v) \/ Handle(v)
         \/ HandlerFails(v) \/ BodyEnds(v)
    \/ OrphanEnds \/ TimePasses

LimitsSpec == LimitsInit /\ [][LimitsNext]_limitVars

-----------------------------------------------------------------------------
(***************************************************************************)
(* Properties                                                              *)
(***************************************************************************)

\* A source is granted no more than two budgets in any interval shorter than a
\* window by twice the time a request may wait for the lock of a map, although
\* budgets are dropped to make room for other keys and clocks are read before
\* the lock (KeyedBuckets::charge, make_room).  One wait lets a request into a
\* window that others have seen end; the other one starts the next window
\* before the time at which a scan dropped the last.
SourceBudget ==
    SourceLimits.requests # 0 =>
      \A s \in Source :
        MapThenSumSet(LAMBDA age : admitted[s][age], 0 .. Span - 2 * MaxStall - 1)
          <= 2 * SourceLimits.requests

\* A newcomer is kept out of a map of budgets for want of room only by keys that
\* have all started a window less than two windows before it comes: a key that
\* stops sending gives its place up, however the map was filled, renewed and
\* scanned before and however late the clock readings were.  Keys that go on
\* sending do keep newcomers out ("A full live map is the normal fail-closed
\* state", make_room), and one scan a window is enough to tell them apart.
RoomComesBack ==
    \A m \in {sources, owners} :
      \A k \in {k \in DOMAIN m.at : ~ HasRoom(m, k)}, t \in 0 .. clock + 2 * Span :
        LET roomy == MakeRoom(m, k, t)
        IN  ~ HasRoom(roomy, k) =>
              \A j \in Keys(roomy) : t - roomy.at[j].start < 2 * Span

\* Captures never run on more than the lanes there are, although requests that
\* gave up waiting leave theirs running ("prevents a timed-out blocking job from
\* being followed by an unbounded Tokio blocking queue", run_trace_blocking).
CapturesBounded ==
    Cardinality({v \in Visit : In(v, "tracing")}) + orphans <= Lanes

=============================================================================
