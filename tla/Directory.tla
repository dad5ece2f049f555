----------------------------- MODULE Directory ------------------------------
(***************************************************************************)
(* A directory of lofts (crates/pigeonpost-directory) and the registry log *)
(* it publishes to.                                                        *)
(*                                                                         *)
(* An operator enrols a loft, changes its entry or announces its drain     *)
(* with a signed mutation.  The directory first reserves it durably, then  *)
(* has the registry append exactly that leaf, waits until witnesses have   *)
(* cosigned a head that includes it, and only then applies it to its own   *)
(* tables.  A request that is cut short anywhere leaves the reservation,   *)
(* and whoever holds the mutation permit next (a request, the readiness    *)
(* check or the recovery task) publishes it again.  Meanwhile a prober     *)
(* leases entries, measures the lofts and records what it saw.             *)
(*                                                                         *)
(* A mutation is [op, at, key, seq, arg]: an "add" of content arg or a     *)
(* "drain" at date arg, of the loft at endpoint "at", signed by "key".     *)
(* Admission is open: whoever holds a key may sign for any endpoint under  *)
(* any number.  Careful claimants use the command line, whose state file   *)
(* gives the next number only after the last mutation was accepted and     *)
(* otherwise sends the same one again.                                     *)
(***************************************************************************)
EXTENDS Integers, Sequences, FiniteSets, SequencesExt

CONSTANTS
    Claimant,       \* pairs <<endpoint, key>>: who may claim which endpoint
    Careful,        \* those of them who use the command line
    Owner,          \* key of the loft that really runs at an endpoint
    Content,        \* what an entry can say
    Date,           \* when a drain may end
    Elsewhere,      \* claimants that also use another directory of this registry
    MaxSequence,    \* highest number a claimant signs (bound)
    MaxClock,       \* time (bound)
    MaxLoose,       \* closures that outlive their request (max_blocking_operations)
    MaxPending,     \* MAX_PENDING_ENTRIES
    MaxReservations,\* MAX_MUTATION_RESERVATIONS
    MaxRecovery,    \* MAX_RECOVERY_MUTATIONS_PER_PASS
    MaxPublic,      \* MAX_PUBLIC_ENTRIES
    PendingExpire,  \* PENDING_EXPIRE_SECS
    PromoteAfter,   \* PROMOTE_AFTER_SECS
    RemoveAfter,    \* REMOVE_AFTER_SECS
    DegradeAfter,   \* DEGRADE_AFTER_FAILURES
    ProbeInterval   \* PROBE_INTERVAL_SECS

Endpoint == {c[1] : c \in Claimant}

ASSUME DirectoryAssumption ==
    /\ \A c \in Claimant : c = <<c[1], c[2]>>
    /\ DOMAIN Owner = Endpoint
    /\ Careful \subseteq Claimant /\ Elsewhere \subseteq Claimant
    /\ Date \subseteq Nat
    /\ MaxSequence \in [Claimant -> Nat]
    /\ \A n \in {MaxClock, MaxLoose, MaxPending, MaxReservations,
                 MaxRecovery, MaxPublic, PromoteAfter, RemoveAfter,
                 ProbeInterval} : n \in Nat
    /\ {PendingExpire, DegradeAfter} \subseteq Nat \ {0}

VARIABLES
    clock,      \* seconds, coarsely
    journal,    \* the operator's state file: committed_sequence and pending
    lofts,      \* lofts table: a row for some of the endpoints
    claims,     \* pending_claims table: a row for some <<endpoint, key>>
    reserved,   \* directory_mutation_reservations: at most one for an endpoint
    pin,        \* size of the registry checkpoint accepted last
    leaves,        \* the registry's leaves
    witnessed,  \* size of the head with a quorum of cosignatures
    elsewhere,  \* mutations a claimant has published through another directory
    worker,     \* the holder of the mutation permit
    loose,      \* closures of requests that were dropped
    sweep       \* the prober: entries leased whose result is not recorded

tables  == <<lofts, claims, reserved, pin>>
registry == <<leaves, witnessed, elsewhere>>
directoryVars == <<clock, journal, tables, registry, worker, loose, sweep>>

Never == -1     \* NULL

Put(f, x, v) == [y \in DOMAIN f \cup {x} |-> IF y = x THEN v ELSE f[y]]
Drop(f, S) == [y \in DOMAIN f \ S |-> f[y]]
Least(m, n) == IF m < n THEN m ELSE n

Idle == [phase |-> "idle", request |-> {}, queue |-> << >>, size |-> 0]

DirectoryInit ==
    /\ clock = 0
    /\ journal = [c \in Claimant |-> [committed |-> 0, pending |-> {}]]
    /\ lofts = << >>
    /\ claims = << >>
    /\ reserved = << >>
    /\ pin = 0
    /\ leaves = << >>
    /\ witnessed = 0
    /\ elsewhere = [c \in Claimant |-> 0]
    /\ worker = Idle
    /\ loose = {}
    /\ sweep = {}

-----------------------------------------------------------------------------
(***************************************************************************)
(* The local tables.  L, C and R are contents of lofts, pending_claims and *)
(* the reservations: reserve_add tries a mutation on tables it does not    *)
(* keep.                                                                   *)
(***************************************************************************)
PendingRows(L) == {e \in DOMAIN L : L[e].state = "pending"}
Public(L) == {e \in DOMAIN L : L[e].state \in {"active", "degraded", "draining"}}

pending_load(L, C, R) ==
    Cardinality(PendingRows(L)) + Cardinality(DOMAIN C)
      + Cardinality({e \in DOMAIN R : R[e].slot})

HasRoom(L, C, R) == pending_load(L, C, R) < MaxPending

Fenced(e) == e \in DOMAIN reserved

\* Mutant: a claim expires although a change of it is reserved.
ExpireClaimsUnfenced(t) ==
    Drop(claims, {c \in DOMAIN claims : claims[c].first <= t - PendingExpire})

expire_pending_claims(t) ==
    Drop(claims, {c \in DOMAIN claims :
                    /\ claims[c].first <= t - PendingExpire
                    /\ ~Fenced(c[1])})

expire_pending(t) ==
    [e \in DOMAIN lofts |->
        IF /\ lofts[e].state = "pending"
           /\ lofts[e].first <= t - PendingExpire
           /\ ~Fenced(e)
        THEN [lofts[e] EXCEPT !.state = "removed", !.clean = Never, !.due = Never]
        ELSE lofts[e]]

NewRow(m, t) ==
    [key |-> m.key, entry |-> m, seq |-> m.seq, state |-> "pending", first |-> t,
     fails |-> 0, degraded |-> Never, clean |-> Never, drain |-> Never,
     due |-> t, proven |-> FALSE]

NewClaim(m, t) == [entry |-> m, first |-> t, due |-> t]

-----------------------------------------------------------------------------
(***************************************************************************)
(* apply_submission.  The outcome depends on who holds the endpoint: no    *)
(* one yet, the submitting key, or another key that has not been proven by *)
(* a probe, in which case the submission is a rival claim.                 *)
(***************************************************************************)
Enrols(L, C, R, m) ==
    /\ m.at \notin DOMAIN L
    /\ HasRoom(L, C, R)
    /\ m.seq <= 1

SameKey(L, m) == m.at \in DOMAIN L /\ L[m.at].key = m.key

Updates(L, m) ==
    SameKey(L, m) /\ m.seq > L[m.at].seq /\ L[m.at].state # "removed"

Reenrols(L, C, R, m) ==
    /\ SameKey(L, m)
    /\ m.seq > L[m.at].seq
    /\ L[m.at].state = "removed"
    /\ HasRoom(L, C, R)

MayRival(L, m) ==
    /\ m.at \in DOMAIN L
    /\ L[m.at].key # m.key
    /\ ~L[m.at].proven
    /\ L[m.at].state \in {"pending", "removed"}

ClaimOf(m) == <<m.at, m.key>>

NewRival(L, C, R, m) ==
    /\ MayRival(L, m)
    /\ ClaimOf(m) \notin DOMAIN C
    /\ m.seq <= 1
    /\ HasRoom(L, C, R)

UpdatesRival(L, C, m) ==
    /\ MayRival(L, m)
    /\ ClaimOf(m) \in DOMAIN C
    /\ m.seq > C[ClaimOf(m)].entry.seq

RepeatsAdd(L, C, m) ==
    \/ SameKey(L, m) /\ m.seq = L[m.at].seq /\ L[m.at].entry = m
    \/ /\ MayRival(L, m)
       /\ ClaimOf(m) \in DOMAIN C
       /\ C[ClaimOf(m)].entry = m

(***************************************************************************)
(* apply_drain                                                             *)
(***************************************************************************)
RepeatsDrain(L, m) ==
    /\ SameKey(L, m)
    /\ m.seq = L[m.at].seq
    /\ L[m.at].state \in {"draining", "removed"}
    /\ L[m.at].drain = m.arg

Drains(L, m) ==
    /\ SameKey(L, m)
    /\ m.seq > L[m.at].seq
    /\ L[m.at].proven
    /\ L[m.at].state \notin {"pending", "removed"}

Applies(L, C, R, m) ==
    IF m.op = "drain" THEN RepeatsDrain(L, m) \/ Drains(L, m)
    ELSE \/ Enrols(L, C, R, m) \/ Updates(L, m) \/ Reenrols(L, C, R, m)
         \/ NewRival(L, C, R, m) \/ UpdatesRival(L, C, m) \/ RepeatsAdd(L, C, m)

\* Mutant: a loft that comes back has to be proven again.
ReenrolledUnproven(row, m, t) == NewRow(m, t)

Reenrolled(row, m, t) == [NewRow(m, t) EXCEPT !.proven = row.proven]

\* The lofts table after a mutation that applies.
AppliedLofts(L, C, R, m, t) ==
    CASE m.op = "drain" /\ Drains(L, m) ->
           Put(L, m.at, [L[m.at] EXCEPT !.state = "draining", !.drain = m.arg,
                                        !.seq = m.seq])
      [] m.op = "add" /\ Enrols(L, C, R, m) -> Put(L, m.at, NewRow(m, t))
      [] m.op = "add" /\ Updates(L, m) ->
           Put(L, m.at, [L[m.at] EXCEPT !.entry = m, !.seq = m.seq])
      [] m.op = "add" /\ Reenrols(L, C, R, m) ->
           Put(L, m.at, Reenrolled(L[m.at], m, t))
      [] OTHER -> L

\* The pending_claims table after it.
AppliedClaims(L, C, R, m, t) ==
    CASE m.op = "add" /\ NewRival(L, C, R, m) -> Put(C, ClaimOf(m), NewClaim(m, t))
      [] m.op = "add" /\ UpdatesRival(L, C, m) ->
           Put(C, ClaimOf(m), [C[ClaimOf(m)] EXCEPT !.entry = m])
      [] OTHER -> C

-----------------------------------------------------------------------------
(***************************************************************************)
(* reserve_add, reserve_drain: a closure that checks the mutation on the   *)
(* tables and reserves it, in one transaction.                             *)
(***************************************************************************)
Expires(m) == m.op = "add"      \* reserve_drain expires nothing
LoftsFor(m) == IF Expires(m) THEN expire_pending(clock) ELSE lofts
ClaimsFor(m) == IF Expires(m) THEN expire_pending_claims(clock) ELSE claims

AlreadyReserved(m) == Fenced(m.at) /\ reserved[m.at].mutation = m

Reservable(m) ==
    /\ ~Fenced(m.at)
    /\ Cardinality(DOMAIN reserved) < MaxReservations
    /\ Applies(LoftsFor(m), ClaimsFor(m), reserved, m)

TakesSlot(m) ==
    LET L == LoftsFor(m)
        C == ClaimsFor(m) IN
    /\ m.op = "add"
    /\ pending_load(AppliedLofts(L, C, reserved, m, clock),
                    AppliedClaims(L, C, reserved, m, clock), reserved)
         > pending_load(L, C, reserved)

MayReserve(m) == AlreadyReserved(m) \/ Reservable(m)

Reserve(m) ==
    /\ MayReserve(m)
    /\ lofts' = LoftsFor(m)
    /\ claims' = ClaimsFor(m)
    /\ reserved' = IF AlreadyReserved(m) THEN reserved
                   ELSE Put(reserved, m.at, [mutation |-> m, at |-> clock,
                                             slot |-> TakesSlot(m)])
    /\ UNCHANGED pin

(***************************************************************************)
(* finalize_add, finalize_drain: the reservation is consumed, the mutation *)
(* applied with the time of the reservation and the checkpoint accepted,   *)
(* in one transaction.  If the reservation is gone, the mutation must have *)
(* been applied already.                                                   *)
(***************************************************************************)
ExactlyApplied(m) ==
    IF m.op = "drain" THEN RepeatsDrain(lofts, m)
    ELSE \/ m.at \in DOMAIN lofts /\ lofts[m.at].seq = m.seq /\ lofts[m.at].entry = m
         \/ ClaimOf(m) \in DOMAIN claims /\ claims[ClaimOf(m)].entry = m

Consumable(m) ==
    AlreadyReserved(m) /\ Applies(lofts, claims, Drop(reserved, {m.at}), m)

Finalizable(m, size) ==
    /\ Consumable(m) \/ (~Fenced(m.at) /\ ExactlyApplied(m))
    /\ size >= pin         \* accept_registry_checkpoint_in

Finalize(m, size) ==
    /\ Finalizable(m, size)
    /\ IF AlreadyReserved(m)
       THEN LET R == Drop(reserved, {m.at})
                t == reserved[m.at].at IN
            /\ lofts' = AppliedLofts(lofts, claims, R, m, t)
            /\ claims' = AppliedClaims(lofts, claims, R, m, t)
            /\ reserved' = R
       ELSE UNCHANGED <<lofts, claims, reserved>>
    /\ pin' = size

-----------------------------------------------------------------------------
(***************************************************************************)
(* The registry: append_directory_mutation checks a mutation against the   *)
(* last one of the same endpoint and key, whichever directory sent it.     *)
(***************************************************************************)
Stream(c) == {i \in DOMAIN leaves : ClaimOf(leaves[i].mutation) = c}

Current(c) == leaves[CHOOSE i \in Stream(c) : \A j \in Stream(c) : j <= i].mutation

\* Mutant: the same leaf is not accepted twice.
AcceptsOnce(m) ==
    IF Stream(ClaimOf(m)) = {} THEN m.op = "add" /\ m.seq <= 1
    ELSE m.seq > Current(ClaimOf(m)).seq

Accepts(m) ==
    IF Stream(ClaimOf(m)) = {} THEN m.op = "add" /\ m.seq <= 1
    ELSE m.seq > Current(ClaimOf(m)).seq \/ m = Current(ClaimOf(m))

Appended(m, by) ==
    IF Stream(ClaimOf(m)) # {} /\ m = Current(ClaimOf(m)) THEN leaves
    ELSE Append(leaves, [mutation |-> m, by |-> by])

Included(m) == \E i \in 1..witnessed : leaves[i].mutation = m

\* Witnesses cosign the head and the registry publishes it.
Cosign ==
    /\ witnessed < Len(leaves)
    /\ witnessed' = Len(leaves)
    /\ UNCHANGED <<clock, journal, tables, leaves, elsewhere, worker, loose, sweep>>

\* What claimant c may sign under number n.
Signable(c, n) ==
    [op : {"add"}, at : {c[1]}, key : {c[2]}, seq : {n}, arg : Content] \cup
    [op : {"drain"}, at : {c[1]}, key : {c[2]}, seq : {n}, arg : Date]

\* The loft is enrolled with another directory too: with the command line, under
\* a sequence of its own for that directory.
PublishedElsewhere(c) ==
    /\ elsewhere[c] < MaxSequence[c]
    /\ \E n \in IF c \in Careful THEN {elsewhere[c] + 1} ELSE 0..MaxSequence[c] :
         \E m \in Signable(c, n) : Accepts(m) /\ leaves' = Appended(m, "other")
    /\ elsewhere' = [elsewhere EXCEPT ![c] = @ + 1]
    /\ UNCHANGED <<clock, journal, tables, witnessed, worker, loose, sweep>>

-----------------------------------------------------------------------------
(***************************************************************************)
(* submit, drain and the recovery task.  One permit admits one of them at  *)
(* a time; the others are refused at once and change nothing.              *)
(***************************************************************************)
\* pending_mutations: the oldest reservations, as many as a pass takes up.  Those
\* of one second are ordered by their id, a digest.
Pending ==
    LET byAge(q) == \A i, j \in DOMAIN q :
                      i < j => reserved[q[i]].at <= reserved[q[j]].at IN
    {[i \in 1..Least(Len(q), MaxRecovery) |-> reserved[q[i]].mutation] :
        q \in {s \in SetToSeqs(DOMAIN reserved) : byAge(s)}}

Head1 == worker.queue[1]

\* reconcile_reservations: publish what is pending, one by one; then go on if
\* none is left.
Reconciling(queue, request, R) ==
    CASE queue # << >> ->
           [Idle EXCEPT !.phase = "append", !.request = request, !.queue = queue]
      [] queue = << >> /\ DOMAIN R = {} /\ request # {} ->
           [Idle EXCEPT !.phase = "reserve", !.request = request]
      [] OTHER -> Idle

\* The command line: the mutation that is pending, or the next one.
Command(c) ==
    /\ worker.phase = "idle"
    /\ LET file == journal[c] IN
       \E m \in IF file.pending # {} THEN file.pending
                ELSE Signable(c, file.committed + 1) :
         /\ m.seq <= MaxSequence[c]
         /\ (m.op = "drain" /\ file.pending = {}) => m.arg > clock
         /\ journal' = [journal EXCEPT ![c].pending = {m}]
         /\ \E queue \in Pending : worker' = Reconciling(queue, {m}, reserved)
    /\ UNCHANGED <<clock, tables, registry, loose, sweep>>

\* "Open admission": any other client, which signs what it likes.
Submit(c) ==
    /\ worker.phase = "idle"
    /\ \E n \in 0..MaxSequence[c] : \E m \in Signable(c, n) :
         \E queue \in Pending : worker' = Reconciling(queue, {m}, reserved)
    /\ UNCHANGED <<clock, journal, tables, registry, loose, sweep>>

\* run_reservation_recovery_tick, readiness
Recover ==
    /\ worker.phase = "idle"
    /\ DOMAIN reserved # {}
    /\ \E queue \in Pending : worker' = Reconciling(queue, {}, reserved)
    /\ UNCHANGED <<clock, journal, tables, registry, loose, sweep>>

WorkerReserves ==
    /\ worker.phase = "reserve"
    /\ \E m \in worker.request :
         \/ /\ Reserve(m)
            /\ worker' = [worker EXCEPT !.phase = "append", !.queue = <<m>>]
         \/ /\ ~MayReserve(m)
            /\ worker' = Idle
            /\ UNCHANGED tables
    /\ UNCHANGED <<clock, journal, registry, loose, sweep>>

\* RegistryLogClient::append posts the leaf, again and again until the receipt
\* shows it under a witnessed head.
PostLeaf ==
    /\ worker.phase = "append"
    /\ Accepts(Head1)
    /\ leaves' = Appended(Head1, "this")
    /\ leaves' # leaves
    /\ UNCHANGED <<clock, journal, tables, witnessed, elsewhere, worker, loose, sweep>>

\* Mutant: the receipt of a leaf no witness has seen is taken as final.
ReceiptEarly ==
    /\ worker.phase = "append"
    /\ Stream(ClaimOf(Head1)) # {}
    /\ Head1 = Current(ClaimOf(Head1))
    /\ worker' = [worker EXCEPT !.phase = "finalize", !.size = witnessed]
    /\ UNCHANGED <<clock, journal, tables, registry, loose, sweep>>

Receipt ==
    /\ worker.phase = "append"
    /\ Accepts(Head1)
    /\ Included(Head1)
    /\ worker' = [worker EXCEPT !.phase = "finalize", !.size = witnessed]
    /\ UNCHANGED <<clock, journal, tables, registry, loose, sweep>>

\* 409: the request ends and the reservation stays.
RegistryRefuses ==
    /\ worker.phase = "append"
    /\ ~Accepts(Head1)
    /\ worker' = Idle
    /\ UNCHANGED <<clock, journal, tables, registry, loose, sweep>>

\* The closure of a receipt; the command line may be told or not that its own
\* mutation was accepted.
WorkerFinalizes ==
    LET own == {Head1} = worker.request IN
    /\ worker.phase = "finalize"
    /\ \/ /\ Finalize(Head1, worker.size)
          /\ worker' = IF own THEN Idle
                       ELSE Reconciling(Tail(worker.queue), worker.request, reserved')
          /\ \/ UNCHANGED journal
             \/ /\ own /\ ClaimOf(Head1) \in Careful
                /\ journal' = [journal EXCEPT ![ClaimOf(Head1)] =
                                 [committed |-> Head1.seq, pending |-> {}]]
       \/ /\ ~Finalizable(Head1, worker.size)
          /\ worker' = Idle
          /\ UNCHANGED <<tables, journal>>
    /\ UNCHANGED <<clock, registry, loose, sweep>>

\* A deadline passes, the connection is lost or a lane is full: the request is
\* dropped.  A closure that has been spawned runs on.
Cancel ==
    /\ worker.phase # "idle"
    /\ worker' = Idle
    /\ \/ UNCHANGED loose
       \/ /\ Cardinality(loose) < MaxLoose
          /\ \/ /\ worker.phase = "reserve"
                /\ loose' = loose \cup {[mutation |-> m, size |-> Never] : m \in worker.request}
             \/ /\ worker.phase = "finalize"
                /\ loose' = loose \cup {[mutation |-> Head1, size |-> worker.size]}
    /\ UNCHANGED <<clock, journal, tables, registry, sweep>>

LooseRuns(x) ==
    /\ loose' = loose \ {x}
    /\ IF x.size = Never
       THEN \/ Reserve(x.mutation)
            \/ ~MayReserve(x.mutation) /\ UNCHANGED tables
       ELSE \/ Finalize(x.mutation, x.size)
            \/ ~Finalizable(x.mutation, x.size) /\ UNCHANGED tables
    /\ UNCHANGED <<clock, journal, registry, worker, sweep>>

-----------------------------------------------------------------------------
(***************************************************************************)
(* The prober                                                              *)
(***************************************************************************)
\* claim_probe_candidates: entries that are due are leased for an interval.
StartSweep ==
    LET L == expire_pending(clock)
        C == expire_pending_claims(clock)
        dueRows == {e \in DOMAIN L : /\ L[e].state # "removed"
                                     /\ L[e].due <= clock
                                     /\ ~Fenced(e)}
        dueClaims == {c \in DOMAIN C : C[c].due <= clock /\ ~Fenced(c[1])}
        leased == {L[e].entry : e \in dueRows} \cup
                  {C[c].entry : c \in dueClaims} IN
    /\ sweep = {}
    /\ lofts' = [e \in DOMAIN L |->
                   IF e \in dueRows THEN [L[e] EXCEPT !.due = clock + ProbeInterval]
                   ELSE L[e]]
    /\ claims' = [c \in DOMAIN C |->
                    IF c \in dueClaims THEN [C[c] EXCEPT !.due = clock + ProbeInterval]
                    ELSE C[c]]
    /\ sweep' = leased
    /\ UNCHANGED <<clock, journal, reserved, pin, registry, worker, loose>>

\* Is the probed entry still the one the endpoint has, or a claim to it?
IsRow(L, p) == L[p.at].key = p.key /\ L[p.at].entry.seq = p.seq
IsClaim(C, p) == ClaimOf(p) \in DOMAIN C /\ C[ClaimOf(p)].entry.seq = p.seq

\* A claim whose loft answered takes the endpoint.
Winner(C, p, t) == NewRow(C[ClaimOf(p)].entry, t)

ClaimsAt(C, e) == {c \in DOMAIN C : c[1] = e}

\* The state machine of a loft: row r after a probe at t in tables L.
Probed(L, r, ok, t) ==
    LET fails == IF ok THEN 0 ELSE Least(r.fails + 1, DegradeAfter)
        clean == IF r.clean = Never THEN t ELSE r.clean
        next ==
          CASE r.state = "draining" ->
                 IF r.drain <= t THEN "removed" ELSE "draining"
            [] r.state = "pending" ->
                 IF t - r.first >= PendingExpire THEN "removed"
                 ELSE IF /\ ok
                         /\ t - clean >= PromoteAfter
                         /\ Cardinality(Public(L)) < MaxPublic
                      THEN "active" ELSE "pending"
            [] r.state = "active" ->
                 IF fails >= DegradeAfter THEN "degraded" ELSE "active"
            [] r.state = "degraded" ->
                 IF ok THEN "active"
                 ELSE IF t - r.degraded >= RemoveAfter THEN "removed" ELSE "degraded"
            [] OTHER -> r.state IN
    [r EXCEPT !.state = next,
              !.fails = fails,
              !.clean = IF next = "pending" /\ ok THEN clean ELSE Never,
              !.degraded = IF next # "degraded" THEN Never
                           ELSE IF r.state = "degraded" THEN r.degraded ELSE t,
              !.due = t + ProbeInterval,
              !.proven = r.proven \/ ok]

\* Mutant: a result is recorded for whatever entry the endpoint has now.
RecordRegardless(p, ok) ==
    LET t == clock
        L == expire_pending(t)
        C == expire_pending_claims(t) IN
    /\ lofts' = Put(L, p.at, Probed(L, L[p.at], ok, t))
    /\ claims' = IF ok THEN Drop(C, ClaimsAt(C, p.at)) ELSE C

\* record_probe_inner
Record(p, ok) ==
    LET t == clock
        L == expire_pending(t)
        C == expire_pending_claims(t)
        rows(r) == Put(L, p.at, Probed(L, r, ok, t)) IN
    \/ /\ Fenced(p.at) \/ (~IsRow(L, p) /\ ~IsClaim(C, p))
       /\ lofts' = L /\ claims' = C
    \/ /\ ~Fenced(p.at) /\ IsRow(L, p)
       /\ lofts' = rows(L[p.at])
       /\ claims' = IF ok THEN Drop(C, ClaimsAt(C, p.at)) ELSE C
    \/ /\ ~Fenced(p.at) /\ ~IsRow(L, p) /\ IsClaim(C, p)
       /\ lofts' = IF ok /\ ~L[p.at].proven THEN rows(Winner(C, p, t)) ELSE L
       /\ claims' = IF ok \/ L[p.at].proven THEN Drop(C, ClaimsAt(C, p.at)) ELSE C

\* A probe succeeds only at the loft whose key the entry names.
RecordProbe(p) ==
    /\ \E ok \in {FALSE, p.key = Owner[p.at]} : Record(p, ok)
    /\ sweep' = sweep \ {p}
    /\ UNCHANGED <<clock, journal, reserved, pin, registry, worker, loose>>

\* The deadline of the sweep: what was not measured is dropped.
SweepDeadline ==
    /\ sweep # {}
    /\ sweep' = {}
    /\ UNCHANGED <<clock, journal, tables, registry, worker, loose>>

-----------------------------------------------------------------------------
\* A tick stands for days: a request and its closures end within seconds and a
\* sweep within minutes, so none of them is met by a tick.
Tick ==
    /\ clock < MaxClock
    /\ worker.phase = "idle" /\ loose = {}
    /\ sweep = {}
    /\ clock' = clock + 1
    /\ UNCHANGED <<journal, tables, registry, worker, loose, sweep>>

\* The directory process ends and starts again.
DirectoryCrash ==
    /\ <<worker, loose, sweep>> # <<Idle, {}, {}>>
    /\ worker' = Idle
    /\ loose' = {}
    /\ sweep' = {}
    /\ UNCHANGED <<clock, journal, tables, registry>>

DirectoryNext ==
    \/ \E c \in Careful : Command(c)
    \/ \E c \in Claimant \ Careful : Submit(c)
    \/ Recover \/ WorkerReserves \/ PostLeaf \/ Receipt
    \/ RegistryRefuses \/ WorkerFinalizes \/ Cancel
    \/ \E x \in loose : LooseRuns(x)
    \/ StartSweep
    \/ \E p \in sweep : RecordProbe(p)
    \/ SweepDeadline
    \/ Cosign
    \/ \E c \in Elsewhere : PublishedElsewhere(c)
    \/ Tick \/ DirectoryCrash

(***************************************************************************)
(* Properties                                                              *)
(***************************************************************************)
\* What has been reserved can be applied: until its reservation is consumed,
\* no probe, no expiry, no other mutation and no other use of the bounded
\* pending queue makes finalize_add or finalize_drain fail on the local tables.
ReservedCanBeApplied ==
    \A e \in DOMAIN reserved : Consumable(reserved[e].mutation)

Projected ==
    {<<e, lofts[e].key, lofts[e].seq>> : e \in DOMAIN lofts} \cup
    {<<c[1], c[2], claims[c].entry.seq>> : c \in DOMAIN claims}

\* The tables are never ahead of the log and the log never gets away from the
\* tables: what an endpoint or a claim has was applied under a pinned head that
\* includes its leaf, and a later leaf this directory has published is the
\* reserved one.
TablesFollowLog ==
    \A x \in Projected :
        LET same(i) == ClaimOf(leaves[i].mutation) = <<x[1], x[2]>> IN
        /\ \E i \in 1..pin : same(i) /\ leaves[i].mutation.seq = x[3]
        /\ \A i \in DOMAIN leaves :
             (same(i) /\ leaves[i].by = "this" /\ leaves[i].mutation.seq > x[3])
                => (Fenced(x[1]) /\ reserved[x[1]].mutation = leaves[i].mutation)

\* Only the key of the loft that answers at an endpoint is ever proven for it,
\* however late or out of order probes are recorded.
ProvenIsOwner ==
    \A e \in DOMAIN lofts : lofts[e].proven => lofts[e].key = Owner[e]

\* "Proven bindings stay key-bound forever."
ProvenStays ==
    [][\A e \in DOMAIN lofts :
         lofts[e].proven => /\ e \in DOMAIN lofts'
                            /\ lofts'[e].proven
                            /\ lofts'[e].key = lofts[e].key]_directoryVars

\* The registry accepts, now or again, the leaf of every reservation that was
\* made with the command line, whatever rivals submit for the same endpoint
\* under whatever numbers.  (A client that signs two mutations under one number
\* can be left with a reservation the registry never accepts.)
ReservationsRecoverable ==
    \A e \in DOMAIN reserved :
        LET m == reserved[e].mutation IN ClaimOf(m) \in Careful => Accepts(m)

DirectorySpec == DirectoryInit /\ [][DirectoryNext]_directoryVars

=============================================================================
