--------------------------- MODULE TraceAdmission ---------------------------
(***************************************************************************)
(* Durable trace-admission budget of a loft                                *)
(* (crates/pigeonpost-loft/src/store.rs, charge_trace_admission).          *)
(*                                                                         *)
(* Several loft processes may share one SQLite database.  The singleton    *)
(* row of the trace_admission table holds the newest UTC-aligned minute    *)
(* and how many capture slots of that minute are reserved.  A process      *)
(* reserves a batch of slots with one durable commit and then spends them  *)
(* from a process-local lease.  A call holds the batch mutex and the       *)
(* connection mutex of its process from start to end, so a process runs    *)
(* one call at a time; between the read-only validation and the IMMEDIATE  *)
(* transaction of one process, another process may commit.                 *)
(*                                                                         *)
(* A slot is a pair <<minute, number>>: a reservation that moves the       *)
(* durable count from a to b reserves the slots a+1 .. b of that minute.   *)
(***************************************************************************)
EXTENDS Integers, FiniteSets

CONSTANTS
    Process,        \* loft processes that open the database
    MaxWindow,      \* newest minute a clock shows (bound of the model)
    Limits,         \* runtime per-minute limits a process may be run with
    Ceiling,        \* TRACE_ADMISSION_MIGRATION_CEILING
    BatchSize,      \* TRACE_ADMISSION_BATCH_SIZE
    MaxRollbacks    \* how often the database file is put back (bound)

ASSUME ConstantsAssumption ==
    /\ MaxWindow \in Nat
    /\ Ceiling \in Nat \ {0}
    /\ Limits \subseteq 1..Ceiling
    /\ BatchSize \in Nat \ {0}
    /\ MaxRollbacks \in Nat

Window == 0..MaxWindow
Slot   == 1..Ceiling
Row    == Window \X (0..Ceiling)

\* No durable_high_water / no lease yet.  -1 is below every real row.
NoRow   == <<-1, -1>>
NoLease == [window |-> 0, limit |-> 0, remaining |-> 0, through |-> 0]

NoCall  == [window |-> 0, limit |-> 0, reserved |-> 0, through |-> 0]

Lease == [window : Window, limit : Limits \cup {0},
          remaining : 0..Ceiling, through : 0..Ceiling]
Call  == [window : Window, limit : Limits \cup {0},
          reserved : 0..Ceiling, through : 0..Ceiling]

VARIABLES
    row,        \* durable singleton <<window_start_ms, admitted>>
    pc,         \* where each process is in charge_trace_admission
    call,       \* arguments of the call in progress (or the last one that
                \* returned Ok) and the batch its transaction reserved
    highest,    \* highest_requested_window_start_ms
    highWater,  \* durable_high_water
    lease,      \* TraceAdmissionBatch.lease
    rollbacks,  \* how often the database was put back
    granted,    \* history: calls that returned Ok, by minute and slot
    mine        \* history: those of the process's current incarnation

vars == <<row, pc, call, highest, highWater, lease, rollbacks, granted, mine>>

(***************************************************************************)
(* Lexicographic order of Rust tuples.                                     *)
(***************************************************************************)
Before(a, b) == a[1] < b[1] \/ (a[1] = b[1] /\ a[2] < b[2])

NoGrants == [w \in Window |-> [s \in Slot |-> 0]]

(***************************************************************************)
(* A new database holds <<0, 0>>; one migrated from a schema without the   *)
(* counter counts the migration minute as fully consumed.                  *)
(***************************************************************************)
Init ==
    /\ row \in {<<0, 0>>} \cup {<<w, Ceiling>> : w \in Window}
    /\ pc = [p \in Process |-> "idle"]
    /\ call = [p \in Process |-> NoCall]
    /\ highest = [p \in Process |-> 0]
    /\ highWater = [p \in Process |-> NoRow]
    /\ lease = [p \in Process |-> NoLease]
    /\ rollbacks = 0
    /\ granted = NoGrants
    /\ mine = [p \in Process |-> NoGrants]

(***************************************************************************)
(* validate_trace_admission_observation: a row below what this process has *)
(* seen is a rolled-back database; any other row raises the high water.    *)
(***************************************************************************)
\* Mutant: only the minute is compared, not the count within it.
RegressedWindowOnly(p) == row[1] < highWater[p][1]

Regressed(p) == Before(row, highWater[p])

RaisedHighWater(p) == IF Before(highWater[p], row) THEN row ELSE highWater[p]

LeaseUsable(l, w, limit) ==
    l.window = w /\ l.limit = limit /\ l.remaining > 0

Grant(p, w, s) ==
    /\ granted' = [granted EXCEPT ![w][s] = @ + 1]
    /\ mine' = [mine EXCEPT ![p][w][s] = @ + 1]

Asked(w, limit) ==
    [window |-> w, limit |-> limit, reserved |-> 0, through |-> 0]

\* The lease after the call's minute, and then the observed row, moved the
\* process's watermark forward.
SurvivingLease(p, w) ==
    IF w > highest[p] \/ row[1] > w THEN NoLease ELSE lease[p]

\* The row still covers the whole batch the lease was cut from.
LeaseDurable(l, w) == row[1] = w /\ row[2] >= l.through

(***************************************************************************)
(* The call up to the transaction.  A minute below the process's watermark *)
(* is refused without a trace, so every disjunct has w >= highest[p].      *)
(***************************************************************************)

\* TraceUnavailable: the database went backward; the lease is dropped.
ObserveRollback(p, w, limit) ==
    /\ \/ Regressed(p)
       \/ /\ w >= row[1]
          /\ LeaseUsable(SurvivingLease(p, w), w, limit)
          /\ ~LeaseDurable(SurvivingLease(p, w), w)
    /\ highWater' = [highWater EXCEPT ![p] = RaisedHighWater(p)]
    /\ highest' = [highest EXCEPT ![p] = w]
    /\ lease' = [lease EXCEPT ![p] = NoLease]
    /\ UNCHANGED <<pc, call, granted, mine>>

\* TraceUnavailable: a peer already advanced the durable minute.
ObserveNewerMinute(p, w) ==
    /\ ~Regressed(p)
    /\ w < row[1]
    /\ highWater' = [highWater EXCEPT ![p] = RaisedHighWater(p)]
    /\ highest' = [highest EXCEPT ![p] = row[1]]
    /\ lease' = [lease EXCEPT ![p] = NoLease]
    /\ UNCHANGED <<pc, call, granted, mine>>

\* Ok: a slot of the lease is spent without another commit.
SpendLease(p, w, limit) ==
    LET l == SurvivingLease(p, w) IN
    /\ ~Regressed(p)
    /\ w >= row[1]
    /\ LeaseUsable(l, w, limit)
    /\ LeaseDurable(l, w)
    /\ Grant(p, w, l.through - l.remaining + 1)
    /\ lease' = [lease EXCEPT ![p] = [l EXCEPT !.remaining = @ - 1]]
    /\ call' = [call EXCEPT ![p] = Asked(w, limit)]
    /\ highWater' = [highWater EXCEPT ![p] = RaisedHighWater(p)]
    /\ highest' = [highest EXCEPT ![p] = w]
    /\ UNCHANGED pc

\* A changed limit, an exhausted lease or a new minute burns what is left of
\* the lease and goes on to the transaction.
BeginReserve(p, w, limit) ==
    /\ ~Regressed(p)
    /\ w >= row[1]
    /\ ~LeaseUsable(SurvivingLease(p, w), w, limit)
    /\ lease' = [lease EXCEPT ![p] = NoLease]
    /\ call' = [call EXCEPT ![p] = Asked(w, limit)]
    /\ pc' = [pc EXCEPT ![p] = "reserve"]
    /\ highWater' = [highWater EXCEPT ![p] = RaisedHighWater(p)]
    /\ highest' = [highest EXCEPT ![p] = w]
    /\ UNCHANGED <<granted, mine>>

Charge(p) ==
    /\ pc[p] = "idle"
    /\ \E w \in Window, limit \in Limits :
         /\ w >= highest[p]
         /\ \/ ObserveRollback(p, w, limit)
            \/ ObserveNewerMinute(p, w)
            \/ SpendLease(p, w, limit)
            \/ BeginReserve(p, w, limit)
    /\ UNCHANGED <<row, rollbacks>>

(***************************************************************************)
(* The IMMEDIATE transaction.  The row is read again, since a peer may     *)
(* have committed since the read-only validation.                          *)
(***************************************************************************)
Admitted(w) == IF w > row[1] THEN 0 ELSE row[2]

\* TraceUnavailable or RateLimited: the transaction is rolled back.
Refuse(p) ==
    LET w == call[p].window
        limit == call[p].limit IN
    /\ pc[p] = "reserve"
    /\ \/ Regressed(p) /\ UNCHANGED <<highWater, highest>>
       \/ /\ ~Regressed(p)
          /\ w < row[1]
          /\ highWater' = [highWater EXCEPT ![p] = RaisedHighWater(p)]
          /\ highest' = [highest EXCEPT ![p] = row[1]]
       \/ /\ ~Regressed(p)
          /\ w >= row[1]
          /\ limit <= Admitted(w)
          /\ highWater' = [highWater EXCEPT ![p] = RaisedHighWater(p)]
          /\ UNCHANGED highest
    /\ pc' = [pc EXCEPT ![p] = "idle"]
    /\ UNCHANGED <<row, call, lease, rollbacks, granted, mine>>

\* The commit itself fails (disk full, I/O error): nothing is reserved.
CommitFails(p) ==
    LET w == call[p].window
        limit == call[p].limit IN
    /\ pc[p] = "reserve"
    /\ ~Regressed(p)
    /\ w >= row[1]
    /\ limit > Admitted(w)
    /\ highWater' = [highWater EXCEPT ![p] = RaisedHighWater(p)]
    /\ pc' = [pc EXCEPT ![p] = "idle"]
    /\ UNCHANGED <<row, call, highest, lease, rollbacks, granted, mine>>

Reserved(available) == IF available < BatchSize THEN available ELSE BatchSize

\* Mutant: the transaction trusts the row of the earlier validation.
CommitStaleRead(p) ==
    LET w == call[p].window
        limit == call[p].limit
        admitted == IF w > highWater[p][1] THEN 0 ELSE highWater[p][2]
        reserved == Reserved(limit - admitted) IN
    /\ pc[p] = "reserve"
    /\ limit > admitted
    /\ row' = <<w, admitted + reserved>>
    /\ call' = [call EXCEPT ![p].reserved = reserved,
                            ![p].through = admitted + reserved]
    /\ pc' = [pc EXCEPT ![p] = "committed"]
    /\ UNCHANGED <<highest, highWater, lease, rollbacks, granted, mine>>

\* The FULL-synchronous commit makes the whole batch durable.
Commit(p) ==
    LET w == call[p].window
        limit == call[p].limit
        reserved == Reserved(limit - Admitted(w))
        next == Admitted(w) + reserved IN
    /\ pc[p] = "reserve"
    /\ ~Regressed(p)
    /\ w >= row[1]
    /\ limit > Admitted(w)
    /\ row' = <<w, next>>
    /\ highWater' = [highWater EXCEPT ![p] = RaisedHighWater(p)]
    /\ call' = [call EXCEPT ![p] = [@ EXCEPT !.reserved = reserved,
                                            !.through = next]]
    /\ pc' = [pc EXCEPT ![p] = "committed"]
    /\ UNCHANGED <<highest, lease, rollbacks, granted, mine>>

\* Only then is the remainder published as the local lease; this call spends
\* the first slot of the batch and returns Ok.
Publish(p) ==
    LET c == call[p] IN
    /\ pc[p] = "committed"
    /\ Grant(p, c.window, c.through - c.reserved + 1)
    /\ lease' = [lease EXCEPT ![p] =
          [window |-> c.window, limit |-> c.limit,
           remaining |-> c.reserved - 1, through |-> c.through]]
    /\ highWater' = [highWater EXCEPT ![p] = <<c.window, c.through>>]
    /\ pc' = [pc EXCEPT ![p] = "idle"]
    /\ UNCHANGED <<row, call, highest, rollbacks>>

(***************************************************************************)
(* The process ends and starts again: the in-memory batch is lost, the     *)
(* durable row is not.                                                     *)
(***************************************************************************)
Restart(p) ==
    /\ pc' = [pc EXCEPT ![p] = "idle"]
    /\ call' = [call EXCEPT ![p] = NoCall]
    /\ highest' = [highest EXCEPT ![p] = 0]
    /\ highWater' = [highWater EXCEPT ![p] = NoRow]
    /\ lease' = [lease EXCEPT ![p] = NoLease]
    /\ mine' = [mine EXCEPT ![p] = NoGrants]
    /\ UNCHANGED <<row, rollbacks, granted>>

(***************************************************************************)
(* The database under the running processes is replaced by an older copy   *)
(* (a restored backup).  The code comments name this failure.              *)
(***************************************************************************)
Rollback ==
    /\ rollbacks < MaxRollbacks
    /\ \E old \in Row :
         /\ Before(old, row)
         /\ row' = old
    /\ rollbacks' = rollbacks + 1
    /\ UNCHANGED <<pc, call, highest, highWater, lease, granted, mine>>

Next ==
    \/ \E p \in Process :
         \/ Charge(p) \/ Refuse(p) \/ CommitFails(p)
         \/ Commit(p) \/ Publish(p) \/ Restart(p)
    \/ Rollback

Spec == Init /\ [][Next]_vars

-----------------------------------------------------------------------------
(***************************************************************************)
(* Properties                                                              *)
(***************************************************************************)

\* Every variable stays in its range; in particular the durable count and the
\* local reserve of charge_trace_admission never leave 0..Ceiling.
TypeOK ==
    /\ row \in Row
    /\ pc \in [Process -> {"idle", "reserve", "committed"}]
    /\ call \in [Process -> Call]
    /\ highest \in [Process -> Window]
    /\ highWater \in [Process -> Row \cup {NoRow}]
    /\ lease \in [Process -> Lease]
    /\ rollbacks \in 0..MaxRollbacks
    /\ granted \in [Window -> [Slot -> Nat]]
    /\ mine \in [Process -> [Window -> [Slot -> Nat]]]

\* As long as the database is not put back, charge_trace_admission never
\* returns Ok twice for one slot of a minute: not to two processes that share
\* the database, not before and after a restart, not before and after a limit
\* change.  With GrantWithinLimit this bounds the captures of a minute.
NoSlotGrantedTwice ==
    rollbacks = 0 => \A w \in Window, s \in Slot : granted[w][s] <= 1

\* Even when the database is put back under it, one running process never
\* spends a slot twice: the in-memory high water of
\* validate_trace_admission_observation outlives the lease.
OwnSlotsDistinct ==
    \A p \in Process, w \in Window, s \in Slot : mine[p][w][s] <= 1

\* A call returns Ok only for a slot within the limit that this call was made
\* with, whatever limit the batch was reserved under and however the limit was
\* changed in between (lowering a limit fails closed).
GrantWithinLimit ==
    [][\A p \in Process, w \in Window, s \in Slot :
          mine'[p][w][s] > mine[p][w][s] => s <= call'[p].limit]_vars

\* No process ever moves the durable row backward: only a replaced database
\* does.  (A process with a late clock must not reopen an older minute.)
RowNeverRegresses ==
    [][rollbacks' = rollbacks => ~Before(row', row)]_vars

=============================================================================
