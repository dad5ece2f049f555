----------------------------- MODULE LoftStore ------------------------------
(***************************************************************************)
(* The durable state of a loft and the write operations of its LoftStore   *)
(* trait (crates/pigeonpost-loft/src/store.rs).  Every operation is one    *)
(* IMMEDIATE SQLite transaction, so an action is a whole operation; an     *)
(* operation that returns an error or finds nothing to do rolls back and   *)
(* is a stuttering step.                                                   *)
(*                                                                         *)
(* Signatures are abstracted to who may submit what: a policy, a record or *)
(* a rotation of an agent is any member of the input sets below.  A blob   *)
(* is its content, so "the same bytes" is equality of records; its size is *)
(* part of it.  Work stands for everything a publish can present against a *)
(* policy (proof of work, token, attribution), as one strength.            *)
(***************************************************************************)
EXTENDS Integers, FiniteSets, FiniteSetsExt

CONSTANTS
    Agent,            \* addresses; also the recipients of wraps
    Wrap,             \* sealed envelopes that may be published
    Recipient,        \* the recipient of each wrap
    Work,             \* what a publish of each wrap can present
    EventSize,        \* accounted size of each wrap
    PolicyInput,      \* recipient policies  [seq, strict, size]
    RecordInput,      \* agent records       [seq, succ, size]
    RotationInput,    \* rotation records    [seq, to, at, size]
    Reservation,      \* ROTATION_STORAGE_RESERVATION
    ControlDivisor,   \* CONTROL_STORAGE_DIVISOR
    Capacities,       \* capacity_bytes values the loft is configured with
    Retention,        \* retention of an event
    Skew,             \* ROTATION_CLOCK_SKEW_SECS
    SweepBatch,       \* rows removed by one retention transaction
    MaxTime,          \* newest time a clock shows (bound of the model)
    MaxCursor         \* SQLite's largest rowid (bound of the model)

ASSUME StoreAssumption ==
    /\ IsFiniteSet(Agent)
    /\ Recipient \in [Wrap -> Agent]
    /\ Work \in [Wrap -> Nat]
    /\ EventSize \in [Wrap -> Nat \ {0}]
    /\ PolicyInput \subseteq [seq : Nat, strict : Nat, size : Nat \ {0}]
    /\ RecordInput \subseteq [seq : Nat, succ : Agent, size : Nat \ {0}]
    /\ RotationInput \subseteq
          [seq : Nat, to : Agent, at : Nat, size : Nat \ {0}]
    /\ Reservation \in Nat \ {0}
    /\ ControlDivisor \in Nat \ {0}
    /\ Capacities \subseteq Nat
    /\ Retention \in Nat
    /\ Skew \in Nat
    /\ SweepBatch \in Nat \ {0}
    /\ MaxTime \in Nat
    /\ MaxCursor \in Nat

Time == 0..MaxTime

NoAgent    == "no agent"
\* No row: Option::None of a sequence is -1, and a recipient that has stored
\* no policy is permissive.
NoPolicy   == [seq |-> -1, strict |-> 0, size |-> 0]
NoRecord   == [seq |-> -1, succ |-> NoAgent, size |-> 0, reserved |-> 0]
NoRotation == [seq |-> -1, to |-> NoAgent, at |-> 0, size |-> 0]

VARIABLES
    events,           \* rows of events: [cursor, wrap, expires]
    lastCursor,       \* AUTOINCREMENT sequence of events.cursor
    policy,           \* recipient_policy, by pubkey
    record,           \* agent_records, by address
    rotation,         \* rotation_records, by source address
    bytesUsed,        \* storage_stats.bytes_used
    eventCount,       \* storage_stats.event_count
    controlBytes,     \* storage_stats.control_bytes
    controlReserved,  \* storage_stats.control_reserved
    capacity          \* config.capacity_bytes of the running loft

counters == <<bytesUsed, eventCount, controlBytes, controlReserved>>
tables   == <<events, lastCursor, policy, record, rotation>>
storeVars == <<tables, counters, capacity>>

StoreInit ==
    /\ events = {}
    /\ lastCursor = 0
    /\ policy = [a \in Agent |-> NoPolicy]
    /\ record = [a \in Agent |-> NoRecord]
    /\ rotation = [a \in Agent |-> NoRotation]
    /\ bytesUsed = 0
    /\ eventCount = 0
    /\ controlBytes = 0
    /\ controlReserved = 0
    /\ capacity \in Capacities

-----------------------------------------------------------------------------
(***************************************************************************)
(* Events                                                                  *)
(***************************************************************************)
Stored(w) == \E e \in events : e.wrap = w

\* Mutant: reserved rotation room is offered to events.
TotalUsedWithoutReservations == bytesUsed + controlBytes

TotalUsed == bytesUsed + controlBytes + controlReserved

\* Mutant: the policy sequence is not compared inside the transaction.
AdmitResultIgnoringPolicy(w, expected) ==
    CASE Stored(w) -> "duplicate"
      [] ~Stored(w) /\ \/ EventSize[w] > capacity - TotalUsed
                       \/ lastCursor = MaxCursor
         -> "full"
      [] OTHER -> "stored"

\* insert: what admit() returns for a wrap and the policy sequence that the
\* publish was validated against.
AdmitResult(w, expected) ==
    CASE Stored(w) -> "duplicate"
      [] ~Stored(w) /\ policy[Recipient[w]].seq # expected -> "policy changed"
      [] ~Stored(w) /\ policy[Recipient[w]].seq = expected
           /\ \/ EventSize[w] > capacity - TotalUsed
              \/ lastCursor = MaxCursor    \* SQLITE_FULL
         -> "full"
      [] OTHER -> "stored"

\* Mutant: a plain rowid (largest row plus one) instead of AUTOINCREMENT.
AdmitReusingRowids(w, expected, t) ==
    LET c == IF events = {} THEN 1 ELSE Max({e.cursor : e \in events}) + 1 IN
    /\ AdmitResult(w, expected) = "stored"
    /\ c <= MaxCursor
    /\ lastCursor' = IF c > lastCursor THEN c ELSE lastCursor
    /\ events' = events \cup
          {[cursor |-> c, wrap |-> w, expires |-> t + Retention]}
    /\ bytesUsed' = bytesUsed + EventSize[w]
    /\ eventCount' = eventCount + 1
    /\ UNCHANGED <<policy, record, rotation, controlBytes, controlReserved,
                   capacity>>

\* INSERT with a cursor from the AUTOINCREMENT sequence, and the counters.
Admit(w, expected, t) ==
    /\ AdmitResult(w, expected) = "stored"
    /\ lastCursor' = lastCursor + 1
    /\ events' = events \cup
          {[cursor |-> lastCursor + 1, wrap |-> w, expires |-> t + Retention]}
    /\ bytesUsed' = bytesUsed + EventSize[w]
    /\ eventCount' = eventCount + 1
    /\ UNCHANGED <<policy, record, rotation, controlBytes, controlReserved,
                   capacity>>

SizeOf(rows) == MapThenSumSet(LAMBDA e : EventSize[e.wrap], rows)

\* Mutant: an event that expires right now is kept.
ExpiredStrictly(t) == {e \in events : e.expires < t}

Expired(t) == {e \in events : e.expires <= t}

\* DELETE of the (at most SweepBatch) expired rows that expired first.
SweepExpired(t) ==
    \E rows \in SUBSET Expired(t) :
      /\ rows # {}
      /\ \/ rows = Expired(t) /\ Cardinality(rows) <= SweepBatch
         \/ Cardinality(rows) = SweepBatch
      /\ \A e \in rows, f \in Expired(t) \ rows : e.expires <= f.expires
      \* UPDATE storage_stats ... WHERE bytes_used >= ?1 AND event_count >= ?2
      /\ SizeOf(rows) \in 0..bytesUsed
      /\ Cardinality(rows) \in 0..eventCount
      /\ events' = events \ rows
      /\ bytesUsed' = bytesUsed - SizeOf(rows)
      /\ eventCount' = eventCount - Cardinality(rows)
      /\ UNCHANGED <<lastCursor, policy, record, rotation, controlBytes,
                     controlReserved, capacity>>

-----------------------------------------------------------------------------
(***************************************************************************)
(* Routing and policy rows share the control partition                     *)
(***************************************************************************)
ControlCapacity(c) == c \div ControlDivisor

\* replace_control_charge succeeds: the old charges are in the counters and
\* the new total fits both the control partition and the whole loft.
ChargeFits(old, new, oldReserved, newReserved) ==
    LET nextTotal == (controlBytes - old + new)
                     + (controlReserved - oldReserved + newReserved) IN
    /\ old <= controlBytes
    /\ oldReserved <= controlReserved
    /\ nextTotal <= ControlCapacity(capacity)
    /\ bytesUsed + nextTotal <= capacity

ReplaceControlCharge(old, new, oldReserved, newReserved) ==
    /\ ChargeFits(old, new, oldReserved, newReserved)
    /\ controlBytes' = controlBytes - old + new
    /\ controlReserved' = controlReserved - oldReserved + newReserved
    /\ UNCHANGED <<bytesUsed, eventCount, capacity>>

\* put_policy: the sequence must advance; the same blob again is no write.
PutPolicy(a, p) ==
    /\ p.seq > policy[a].seq
    /\ ReplaceControlCharge(policy[a].size, p.size, 0, 0)
    /\ policy' = [policy EXCEPT ![a] = p]
    /\ UNCHANGED <<events, lastCursor, record, rotation>>

\* Mutant: a rotated address still takes newer records.
PutAgentRecordAfterRotation(a, r) ==
    LET prior == record[a]
        known == prior # NoRecord
        reserved == IF known THEN prior.reserved ELSE Reservation IN
    /\ known => prior.succ = r.succ /\ r.seq > prior.seq
    /\ ReplaceControlCharge(prior.size, r.size,
                            IF known THEN reserved ELSE 0, reserved)
    /\ record' = [record EXCEPT ![a] =
          [seq |-> r.seq, succ |-> r.succ, size |-> r.size,
           reserved |-> reserved]]
    /\ UNCHANGED <<events, lastCursor, policy, rotation>>

\* Mutant: a first record does not set rotation room aside.
PutAgentRecordUnreserved(a, r) ==
    LET prior == record[a] IN
    /\ prior # NoRecord => /\ rotation[a] = NoRotation
                           /\ prior.succ = r.succ
                           /\ r.seq > prior.seq
    /\ ReplaceControlCharge(prior.size, r.size, 0, 0)
    /\ record' = [record EXCEPT ![a] =
          [seq |-> r.seq, succ |-> r.succ, size |-> r.size, reserved |-> 0]]
    /\ UNCHANGED <<events, lastCursor, policy, rotation>>

\* put_agent_record: a first record reserves room for the one rotation of its
\* address; a later one must keep the successor and advance the sequence, and
\* a rotated address takes none.
PutAgentRecord(a, r) ==
    LET prior == record[a]
        known == prior # NoRecord
        reserved == IF known THEN prior.reserved ELSE Reservation IN
    /\ known => /\ rotation[a] = NoRotation
                /\ prior.succ = r.succ
                /\ r.seq > prior.seq
    /\ ReplaceControlCharge(prior.size, r.size,
                            IF known THEN reserved ELSE 0, reserved)
    /\ record' = [record EXCEPT ![a] =
          [seq |-> r.seq, succ |-> r.succ, size |-> r.size,
           reserved |-> reserved]]
    /\ UNCHANGED <<events, lastCursor, policy, rotation>>

\* Mutant: the rotation may skip sequence numbers.
RotationVerifiesAnyLater(a, x, t) ==
    /\ x.to = record[a].succ
    /\ x.seq > record[a].seq
    /\ x.at <= t + Skew

\* RotationRecord::verify against the stored source record.
RotationVerifies(a, x, t) ==
    /\ x.to = record[a].succ
    /\ x.seq = record[a].seq + 1
    /\ x.at <= t + Skew

\* Mutant: the source record keeps its reservation after the transfer.
PutRotationRecordKeepingReservation(a, x, t) ==
    LET reserved == record[a].reserved IN
    /\ rotation[a] = NoRotation
    /\ record[a] # NoRecord
    /\ reserved # 0
    /\ x.size <= reserved
    /\ RotationVerifies(a, x, t)
    /\ ReplaceControlCharge(0, x.size, reserved, 0)
    /\ rotation' = [rotation EXCEPT ![a] = x]
    /\ UNCHANGED <<events, lastCursor, policy, record>>

\* put_rotation_record: one immutable rotation per address, paid for with the
\* reservation of its source record.
PutRotationRecord(a, x, t) ==
    LET reserved == record[a].reserved IN
    /\ rotation[a] = NoRotation
    /\ record[a] # NoRecord
    /\ reserved # 0
    /\ x.size <= reserved
    /\ RotationVerifies(a, x, t)
    /\ ReplaceControlCharge(0, x.size, reserved, 0)
    /\ record' = [record EXCEPT ![a] = [@ EXCEPT !.reserved = 0]]
    /\ rotation' = [rotation EXCEPT ![a] = x]
    /\ UNCHANGED <<events, lastCursor, policy>>

-----------------------------------------------------------------------------
(***************************************************************************)
(* The loft is started again, perhaps with another capacity:               *)
(* validate_startup refuses one that the persisted rows do not fit.        *)
(***************************************************************************)
StartsWith(c) ==
    /\ TotalUsed <= c
    /\ controlBytes + controlReserved <= ControlCapacity(c)

Reopen ==
    \E c \in Capacities :
      /\ StartsWith(c)
      /\ capacity' = c
      /\ UNCHANGED <<tables, counters>>

StoreNext ==
    \/ \E w \in Wrap, t \in Time : Admit(w, policy[Recipient[w]].seq, t)
    \/ \E a \in Agent, p \in PolicyInput : PutPolicy(a, p)
    \/ \E a \in Agent, r \in RecordInput : PutAgentRecord(a, r)
    \/ \E a \in Agent, x \in RotationInput, t \in Time :
         PutRotationRecord(a, x, t)
    \/ \E t \in Time : SweepExpired(t)
    \/ Reopen

StoreSpec == StoreInit /\ [][StoreNext]_storeVars

-----------------------------------------------------------------------------
(***************************************************************************)
(* Properties                                                              *)
(***************************************************************************)
EventRow == [cursor : 1..MaxCursor, wrap : Wrap,
             expires : Retention..(MaxTime + Retention)]

\* Every table holds rows of its schema; the unsigned counters of
\* storage_stats never go below zero.
StoreTypeOK ==
    /\ events \subseteq EventRow
    /\ lastCursor \in 0..MaxCursor
    /\ policy \in [Agent -> PolicyInput \cup {NoPolicy}]
    /\ record \in [Agent -> [seq : Nat, succ : Agent, size : Nat,
                             reserved : {0, Reservation}] \cup {NoRecord}]
    /\ rotation \in [Agent -> RotationInput \cup {NoRotation}]
    /\ bytesUsed \in Nat
    /\ eventCount \in Nat
    /\ controlBytes \in Nat
    /\ controlReserved \in Nat
    /\ capacity \in Capacities

\* What validate_loft_invariants checks when a database is opened: each
\* incrementally maintained counter of storage_stats is the sum over the rows
\* it stands for, and a record carries a reservation exactly until it rotates.
CountersMatchRows ==
    /\ bytesUsed = SizeOf(events)
    /\ eventCount = Cardinality(events)
    /\ controlBytes = MapThenSumSet(LAMBDA a : policy[a].size + record[a].size
                                              + rotation[a].size, Agent)
    /\ controlReserved = MapThenSumSet(LAMBDA a : record[a].reserved, Agent)
    /\ \A a \in Agent : record[a] # NoRecord =>
          (record[a].reserved = IF rotation[a] = NoRotation
                                THEN Reservation ELSE 0)

\* The rows never exceed the advertised capacity, and routing and policy rows
\* with their reservations never exceed their share of it, whatever mix of
\* publishes, updates, rotations, sweeps and restarts led here.
WithinCapacity ==
    /\ bytesUsed + controlBytes + controlReserved <= capacity
    /\ controlBytes + controlReserved <= ControlCapacity(capacity)

\* A stored rotation is the one transition its stored source record allows,
\* so rotation_record (which verifies the one against the other on every
\* read) never fails for a rotated address.
RotationExtendsRecord ==
    \A a \in Agent : rotation[a] # NoRotation =>
        /\ record[a] # NoRecord
        /\ rotation[a].to = record[a].succ
        /\ rotation[a].seq = record[a].seq + 1

\* "A full loft cannot strand a previously admitted identity": a known address
\* that has not rotated can always store its rotation, however full the loft.
NeverStranded ==
    \A a \in Agent, size \in 1..Reservation :
        record[a] # NoRecord /\ rotation[a] = NoRotation =>
            /\ size <= record[a].reserved
            /\ ChargeFits(0, size, record[a].reserved, 0)

\* Once an address has rotated, its rotation and its last record stay as they
\* are: a compromised retired key cannot hide or redirect the transition.
RotatedAddressFrozen ==
    [][\A a \in Agent : rotation[a] # NoRotation =>
          /\ rotation'[a] = rotation[a]
          /\ record'[a].seq = record[a].seq
          /\ record'[a].succ = record[a].succ]_storeVars

\* The successor pinned by the first record of an address never changes, and
\* no record or policy is ever replaced by an older or equal sequence.
PinnedAndMonotone ==
    [][\A a \in Agent :
          /\ record[a] # NoRecord =>
                /\ record'[a].succ = record[a].succ
                /\ record'[a].seq >= record[a].seq
          /\ policy'[a] # policy[a] => policy'[a].seq > policy[a].seq
          /\ record'[a] # record[a] => \/ record'[a].seq > record[a].seq
                                       \/ rotation'[a] # rotation[a]
      ]_storeVars

\* What senders and readers have seen of an address is never taken back: the
\* pinned successor, the sequence numbers and, after a rotation, the whole
\* record survive every order of put_policy, put_agent_record and
\* put_rotation_record, retries included.
AddressHistoryKept == PinnedAndMonotone /\ RotatedAddressFrozen

\* A new event gets a cursor above every cursor ever handed out, also when the
\* rows that carried the largest ones have been swept: a reader that polls
\* from its last cursor cannot miss it.
CursorsFresh ==
    [][\A e \in events' \ events :
          /\ e.cursor > lastCursor
          /\ \A f \in events : e.cursor > f.cursor]_storeVars

-----------------------------------------------------------------------------
(***************************************************************************)
(* What the store promises to its clients: module Lofts, with the events   *)
(* table and its AUTOINCREMENT sequence as the mailbox.                    *)
(***************************************************************************)
TheLoft == "loft"

Mailbox ==
    [l \in {TheLoft} |->
        [rows |-> {[cursor |-> e.cursor, msg |-> e.wrap] : e \in events},
         last |-> lastCursor]]

Promise == INSTANCE Lofts WITH Loft <- {TheLoft}, Message <- Wrap,
                               box <- Mailbox

\* The store implements that mailbox: a wrap is held once, each new one gets
\* the next cursor, rows only leave by retention, and no policy, record,
\* rotation or restart disturbs any of it.
ImplementsLofts == Promise!LoftsSpec

=============================================================================
