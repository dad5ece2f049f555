-------------------------- MODULE LoftStoreProofs ---------------------------
(***************************************************************************)
(* TLAPS proofs about LoftStore: for any agents, wraps, inputs, sizes and  *)
(* capacities.  The first part uses only what each transaction itself      *)
(* checks; the last one shows that the counters are sums over the rows.    *)
(***************************************************************************)
EXTENDS LoftStore, FiniteSetTheorems, WellFoundedInduction, TLAPS

RecordRow == [seq : Nat, succ : Agent, size : Nat, reserved : {0, Reservation}]

CursorBound == \A e \in events : e.cursor <= lastCursor

SInv == StoreTypeOK /\ WithinCapacity /\ RotationExtendsRecord /\ CursorBound

-----------------------------------------------------------------------------
(***************************************************************************)
(* Types of rows and inputs                                                *)
(***************************************************************************)
\* The sequence and size of a policy row, absent or present.
LEMMA PolicyFacts ==
    ASSUME StoreTypeOK, NEW a \in Agent
    PROVE  policy[a].seq \in Int /\ policy[a].size \in Nat
  <1>1. policy[a] \in PolicyInput \cup {NoPolicy}
    BY DEF StoreTypeOK
  <1>2. CASE policy[a] = NoPolicy
    BY <1>2 DEF NoPolicy
  <1>3. CASE policy[a] \in PolicyInput
    BY <1>3, StoreAssumption
  <1> QED
    BY <1>1, <1>2, <1>3

\* The fields of an agent record row, absent or present.
LEMMA RecordFacts ==
    ASSUME StoreTypeOK, NEW a \in Agent
    PROVE  /\ record[a].seq \in Int
           /\ record[a].size \in Nat
           /\ record[a].reserved \in {0, Reservation}
           /\ record[a] # NoRecord => record[a] \in RecordRow
  <1>1. record[a] \in RecordRow \cup {NoRecord}
    BY DEF StoreTypeOK, RecordRow
  <1>2. CASE record[a] = NoRecord
    BY <1>2 DEF NoRecord
  <1>3. CASE record[a] \in RecordRow
    BY <1>3 DEF RecordRow
  <1> QED
    BY <1>1, <1>2, <1>3

\* The fields of what a handler may be asked to store.
LEMMA InputFacts ==
    /\ \A p \in PolicyInput : p.seq \in Nat /\ p.size \in Nat
    /\ \A r \in RecordInput : r.seq \in Nat /\ r.succ \in Agent /\ r.size \in Nat
    /\ \A x \in RotationInput :
         x.seq \in Nat /\ x.to \in Agent /\ x.at \in Nat /\ x.size \in Nat
    /\ \A x \in RotationInput : x # NoRotation
    /\ Reservation \in Nat \ {0}
    /\ Capacities \subseteq Nat
  BY StoreAssumption DEF NoRotation

\* What a successful replace_control_charge leaves behind.
LEMMA ChargeFacts ==
    ASSUME StoreTypeOK, NEW old \in Nat, NEW new \in Nat,
           NEW oldReserved \in Nat, NEW newReserved \in Nat,
           ReplaceControlCharge(old, new, oldReserved, newReserved)
    PROVE  /\ controlBytes' \in Nat
           /\ controlReserved' \in Nat
           /\ controlBytes' + controlReserved' <= ControlCapacity(capacity)
           /\ bytesUsed + controlBytes' + controlReserved' <= capacity
           /\ UNCHANGED <<bytesUsed, eventCount, capacity>>
  <1>1. /\ controlBytes \in Nat
        /\ controlReserved \in Nat
        /\ bytesUsed \in Nat
        /\ capacity \in Nat
    BY InputFacts DEF StoreTypeOK
  <1>2. /\ old <= controlBytes
        /\ oldReserved <= controlReserved
        /\ (controlBytes - old + new)
             + (controlReserved - oldReserved + newReserved)
           <= ControlCapacity(capacity)
        /\ bytesUsed + ((controlBytes - old + new)
             + (controlReserved - oldReserved + newReserved)) <= capacity
        /\ controlBytes' = controlBytes - old + new
        /\ controlReserved' = controlReserved - oldReserved + newReserved
        /\ UNCHANGED <<bytesUsed, eventCount, capacity>>
    BY DEF ReplaceControlCharge, ChargeFits
  <1> QED
    BY <1>1, <1>2

-----------------------------------------------------------------------------
(***************************************************************************)
(* One lemma per operation                                                 *)
(***************************************************************************)
\* A new database, empty, satisfies the invariant.
LEMMA InitSInv == StoreInit => SInv
  <1> SUFFICES ASSUME StoreInit PROVE SInv
    OBVIOUS
  <1>1. StoreTypeOK
    BY StoreAssumption DEF StoreInit, StoreTypeOK, NoPolicy, NoRecord, NoRotation
  <1>2. WithinCapacity
    <2>1. capacity \in Nat
      BY StoreAssumption DEF StoreInit
    <2>2. ControlCapacity(capacity) \in Nat
      BY <2>1, StoreAssumption DEF ControlCapacity
    <2> QED
      BY <2>1, <2>2 DEF StoreInit, WithinCapacity
  <1>3. RotationExtendsRecord
    BY DEF StoreInit, RotationExtendsRecord
  <1>4. CursorBound
    BY DEF StoreInit, CursorBound
  <1> QED
    BY <1>1, <1>2, <1>3, <1>4 DEF SInv

\* Admit stores within the room that TotalUsed leaves, at a new cursor.
LEMMA AdmitStep ==
    ASSUME SInv, NEW w \in Wrap, NEW expected, NEW t \in Time,
           Admit(w, expected, t)
    PROVE  SInv'
  <1> DEFINE e == [cursor |-> lastCursor + 1, wrap |-> w,
                   expires |-> t + Retention]
  <1>1. /\ EventSize[w] \in Nat
        /\ bytesUsed \in Nat
        /\ eventCount \in Nat
        /\ controlBytes \in Nat
        /\ controlReserved \in Nat
        /\ capacity \in Nat
        /\ lastCursor \in 0..MaxCursor
        /\ MaxCursor \in Nat
    BY StoreAssumption DEF SInv, StoreTypeOK
  <1>2. lastCursor # MaxCursor /\ ~(EventSize[w] > capacity - TotalUsed)
    BY DEF Admit, AdmitResult
  <1>3. e \in EventRow
    <2>1. lastCursor + 1 \in 1..MaxCursor
      BY <1>1, <1>2
    <2>2. t + Retention \in Retention..(MaxTime + Retention)
      BY StoreAssumption DEF Time
    <2> QED
      BY <2>1, <2>2 DEF EventRow
  <1>4. events' = events \cup {e} /\ lastCursor' = lastCursor + 1
    BY DEF Admit
  <1>5. StoreTypeOK'
    <2>1. lastCursor' \in 0..MaxCursor
      BY <1>1, <1>2, <1>4
    <2>2. bytesUsed' \in Nat /\ eventCount' \in Nat
      BY <1>1 DEF Admit
    <2> HIDE DEF e
    <2>3. events' \subseteq EventRow
      BY <1>3, <1>4 DEF SInv, StoreTypeOK
    <2> QED
      BY <2>1, <2>2, <2>3 DEF SInv, StoreTypeOK, Admit
  <1>6. WithinCapacity'
    BY <1>1, <1>2 DEF SInv, WithinCapacity, TotalUsed, Admit, ControlCapacity
  <1>7. RotationExtendsRecord'
    BY DEF SInv, RotationExtendsRecord, Admit
  <1>8. CursorBound'
    <2> SUFFICES ASSUME NEW f \in events' PROVE f.cursor <= lastCursor'
      BY DEF CursorBound
    <2>1. CASE f \in events
      <3>1. f.cursor <= lastCursor /\ f.cursor \in Nat
        BY <1>1, <2>1 DEF SInv, CursorBound, StoreTypeOK, EventRow
      <3> QED
        BY <1>1, <1>4, <3>1
    <2>2. CASE f = e
      BY <1>1, <1>4, <2>2
    <2> QED
      BY <1>4, <2>1, <2>2
  <1> QED
    BY <1>5, <1>6, <1>7, <1>8 DEF SInv

\* A retention batch takes from the counters no more than they hold.
LEMMA SweepStep ==
    ASSUME SInv, NEW t \in Time, SweepExpired(t)
    PROVE  SInv'
  <1>1. PICK rows \in SUBSET Expired(t) :
          /\ SizeOf(rows) \in 0..bytesUsed
          /\ Cardinality(rows) \in 0..eventCount
          /\ events' = events \ rows
          /\ bytesUsed' = bytesUsed - SizeOf(rows)
          /\ eventCount' = eventCount - Cardinality(rows)
          /\ UNCHANGED <<lastCursor, policy, record, rotation, controlBytes,
                         controlReserved, capacity>>
    BY DEF SweepExpired
  <1>2. /\ bytesUsed \in Nat
        /\ eventCount \in Nat
        /\ controlBytes \in Nat
        /\ controlReserved \in Nat
        /\ capacity \in Nat
    BY InputFacts DEF SInv, StoreTypeOK
  <1>3. StoreTypeOK'
    <2>1. bytesUsed' \in Nat
      BY <1>1, <1>2
    <2>2. eventCount' \in Nat
      BY <1>1, <1>2
    <2> QED
      BY <1>1, <2>1, <2>2 DEF SInv, StoreTypeOK
  <1>4. WithinCapacity'
    <2>1. bytesUsed' \in Nat /\ bytesUsed' <= bytesUsed
      BY <1>1, <1>2
    <2>2. UNCHANGED <<controlBytes, controlReserved, capacity>>
      BY <1>1
    <2>3. controlBytes + controlReserved <= ControlCapacity(capacity)
      BY DEF SInv, WithinCapacity
    <2>4. bytesUsed + controlBytes + controlReserved <= capacity
      BY DEF SInv, WithinCapacity
    <2>5. \A n \in Nat : n <= bytesUsed =>
            n + controlBytes + controlReserved <= capacity
      BY <1>2, <2>4
    <2> QED
      BY <2>1, <2>2, <2>3, <2>5 DEF WithinCapacity, ControlCapacity
  <1>5. RotationExtendsRecord'
    BY <1>1 DEF SInv, RotationExtendsRecord
  <1>6. CursorBound'
    BY <1>1 DEF SInv, CursorBound
  <1> QED
    BY <1>3, <1>4, <1>5, <1>6 DEF SInv

\* Shared by the three control writes: their counters fit.
LEMMA ControlWriteFits ==
    ASSUME SInv, NEW old \in Nat, NEW new \in Nat,
           NEW oldReserved \in Nat, NEW newReserved \in Nat,
           ReplaceControlCharge(old, new, oldReserved, newReserved)
    PROVE  WithinCapacity'
  BY ChargeFacts DEF SInv, WithinCapacity, ControlCapacity

\* put_policy charges the control partition with what fits it.
LEMMA PutPolicyStep ==
    ASSUME SInv, NEW a \in Agent, NEW p \in PolicyInput, PutPolicy(a, p)
    PROVE  SInv'
  <1>1. /\ policy[a].size \in Nat
        /\ p.size \in Nat
        /\ ReplaceControlCharge(policy[a].size, p.size, 0, 0)
    BY PolicyFacts, InputFacts DEF SInv, PutPolicy
  <1>2. WithinCapacity'
    BY <1>1, ControlWriteFits
  <1>3. /\ controlBytes' \in Nat
        /\ controlReserved' \in Nat
        /\ UNCHANGED <<bytesUsed, eventCount, capacity>>
    BY <1>1, ChargeFacts DEF SInv
  <1>4. StoreTypeOK'
    BY <1>3 DEF SInv, StoreTypeOK, PutPolicy
  <1>5. RotationExtendsRecord' /\ CursorBound'
    BY DEF SInv, RotationExtendsRecord, CursorBound, PutPolicy
  <1> QED
    BY <1>2, <1>4, <1>5 DEF SInv

\* put_agent_record keeps the successor a stored rotation was checked against.
LEMMA PutAgentRecordStep ==
    ASSUME SInv, NEW a \in Agent, NEW r \in RecordInput, PutAgentRecord(a, r)
    PROVE  SInv'
  <1> DEFINE known == record[a] # NoRecord
             reserved == IF known THEN record[a].reserved ELSE Reservation
             new == [seq |-> r.seq, succ |-> r.succ, size |-> r.size,
                     reserved |-> reserved]
  <1>1. /\ record[a].size \in Nat
        /\ r.size \in Nat
        /\ reserved \in {0, Reservation}
        /\ reserved \in Nat
        /\ (IF known THEN reserved ELSE 0) \in Nat
    BY RecordFacts, InputFacts DEF SInv
  <1>2. ReplaceControlCharge(record[a].size, r.size,
                             IF known THEN reserved ELSE 0, reserved)
    BY DEF PutAgentRecord
  <1>3. record' = [record EXCEPT ![a] = new]
    BY DEF PutAgentRecord
  <1>4. new \in RecordRow
    BY <1>1, InputFacts DEF RecordRow
  <1> HIDE DEF reserved, new
  <1>5. WithinCapacity'
    BY <1>1, <1>2, ControlWriteFits
  <1>6. /\ controlBytes' \in Nat
        /\ controlReserved' \in Nat
        /\ UNCHANGED <<bytesUsed, eventCount, capacity>>
    BY <1>1, <1>2, ChargeFacts DEF SInv
  <1>7. StoreTypeOK'
    BY <1>3, <1>4, <1>6 DEF SInv, StoreTypeOK, PutAgentRecord, RecordRow
  <1>8. rotation[a] = NoRotation
    BY DEF SInv, RotationExtendsRecord, PutAgentRecord
  <1>9. RotationExtendsRecord'
    BY <1>3, <1>8
    DEF SInv, RotationExtendsRecord, PutAgentRecord, StoreTypeOK
  <1>10. CursorBound'
    BY DEF SInv, CursorBound, PutAgentRecord
  <1> QED
    BY <1>5, <1>7, <1>9, <1>10 DEF SInv

\* put_rotation_record stores the one transition its source record allows.
LEMMA PutRotationRecordStep ==
    ASSUME SInv, NEW a \in Agent, NEW x \in RotationInput, NEW t \in Time,
           PutRotationRecord(a, x, t)
    PROVE  SInv'
  <1> DEFINE new == [record[a] EXCEPT !.reserved = 0]
  <1>1. /\ record[a] # NoRecord
        /\ ReplaceControlCharge(0, x.size, record[a].reserved, 0)
        /\ record' = [record EXCEPT ![a] = new]
        /\ rotation' = [rotation EXCEPT ![a] = x]
        /\ x.to = record[a].succ
        /\ x.seq = record[a].seq + 1
        /\ UNCHANGED <<events, lastCursor, policy>>
    BY DEF PutRotationRecord, RotationVerifies
  <1>2. record[a] \in RecordRow /\ record[a].reserved \in Nat
    BY <1>1, RecordFacts, InputFacts DEF SInv
  <1>3. /\ new \in RecordRow
        /\ new.succ = record[a].succ
        /\ new.seq = record[a].seq
        /\ new.seq \in Nat
    BY <1>2 DEF RecordRow
  <1>4. new # NoRecord
    BY <1>3 DEF NoRecord
  <1> HIDE DEF new
  <1>5. x.size \in Nat
    BY InputFacts
  <1>6. WithinCapacity'
    BY <1>1, <1>2, <1>5, ControlWriteFits
  <1>7. /\ controlBytes' \in Nat
        /\ controlReserved' \in Nat
        /\ UNCHANGED <<bytesUsed, eventCount, capacity>>
    BY <1>1, <1>2, <1>5, ChargeFacts DEF SInv
  <1>8. StoreTypeOK'
    BY <1>1, <1>3, <1>7 DEF SInv, StoreTypeOK, RecordRow
  <1>9. RotationExtendsRecord'
    BY <1>1, <1>3, <1>4 DEF SInv, RotationExtendsRecord, StoreTypeOK
  <1>10. CursorBound'
    BY <1>1 DEF SInv, CursorBound
  <1> QED
    BY <1>6, <1>8, <1>9, <1>10 DEF SInv

\* validate_startup refuses a capacity that the persisted rows exceed.
LEMMA ReopenStep ==
    ASSUME SInv, Reopen
    PROVE  SInv'
  <1>1. capacity' \in Capacities /\ StartsWith(capacity')
    BY DEF Reopen
  <1>2. UNCHANGED <<events, lastCursor, policy, record, rotation, bytesUsed,
                    eventCount, controlBytes, controlReserved>>
    BY DEF Reopen, tables, counters
  <1>3. StoreTypeOK'
    BY <1>1, <1>2 DEF SInv, StoreTypeOK
  <1>4. WithinCapacity'
    BY <1>1, <1>2 DEF WithinCapacity, StartsWith, TotalUsed, ControlCapacity
  <1>5. RotationExtendsRecord' /\ CursorBound'
    BY <1>2 DEF SInv, RotationExtendsRecord, CursorBound
  <1> QED
    BY <1>3, <1>4, <1>5 DEF SInv

-----------------------------------------------------------------------------
(***************************************************************************)
(* Theorems                                                                *)
(***************************************************************************)
\* Every operation of the store preserves the invariant.
LEMMA NextSInv == SInv /\ [StoreNext]_storeVars => SInv'
  <1> SUFFICES ASSUME SInv, [StoreNext]_storeVars PROVE SInv'
    OBVIOUS
  <1>1. CASE UNCHANGED storeVars
    BY <1>1
    DEF storeVars, tables, counters, SInv, StoreTypeOK, WithinCapacity,
        ControlCapacity, RotationExtendsRecord, CursorBound
  <1>2. CASE StoreNext
    BY <1>2, AdmitStep, SweepStep, PutPolicyStep, PutAgentRecordStep,
       PutRotationRecordStep, ReopenStep DEF StoreNext
  <1> QED
    BY <1>1, <1>2

\* The inductive invariant of the store holds in every reachable state: types,
\* capacity, rotations verified by their source record, and a cursor sequence
\* above every row.
THEOREM StoreInvariant == StoreSpec => []SInv
  BY InitSInv, NextSInv, PTL DEF StoreSpec

\* The store never holds more than the advertised capacity, nor more routing
\* and policy rows than their partition, for every capacity and every size.
THEOREM CapacityHolds == StoreSpec => []WithinCapacity
  <1>1. SInv => WithinCapacity
    BY DEF SInv
  <1> QED
    BY <1>1, StoreInvariant, PTL

\* Every stored row is well typed and no counter underflows.
THEOREM StoreTypeCorrect == StoreSpec => []StoreTypeOK
  <1>1. SInv => StoreTypeOK
    BY DEF SInv
  <1> QED
    BY <1>1, StoreInvariant, PTL

\* A stored rotation always verifies against its stored source record.
THEOREM RotationsVerify == StoreSpec => []RotationExtendsRecord
  <1>1. SInv => RotationExtendsRecord
    BY DEF SInv
  <1> QED
    BY <1>1, StoreInvariant, PTL

\* Which tables an operation leaves alone.
LEMMA Frames ==
    ASSUME SInv, StoreNext
    PROVE  \/ UNCHANGED <<policy, record, rotation>>
           \/ \E a \in Agent, p \in PolicyInput :
                 PutPolicy(a, p) /\ UNCHANGED <<record, rotation>>
           \/ \E a \in Agent, r \in RecordInput :
                 PutAgentRecord(a, r) /\ UNCHANGED <<policy, rotation>>
           \/ \E a \in Agent, x \in RotationInput, t \in Time :
                 PutRotationRecord(a, x, t) /\ UNCHANGED policy
  BY DEF StoreNext, Admit, SweepExpired, PutPolicy, PutAgentRecord,
         PutRotationRecord, Reopen, tables

\* A rotated address keeps its rotation and its last record.
THEOREM RotatedStaysFrozen == StoreSpec => RotatedAddressFrozen
  <1> DEFINE Frozen == \A a \in Agent : rotation[a] # NoRotation =>
                          /\ rotation'[a] = rotation[a]
                          /\ record'[a].seq = record[a].seq
                          /\ record'[a].succ = record[a].succ
  <1>1. SInv /\ [StoreNext]_storeVars => [Frozen]_storeVars
    <2> SUFFICES ASSUME SInv, StoreNext, NEW b \in Agent,
                        rotation[b] # NoRotation
                 PROVE  /\ rotation'[b] = rotation[b]
                        /\ record'[b].seq = record[b].seq
                        /\ record'[b].succ = record[b].succ
      OBVIOUS
    <2>1. ASSUME NEW a \in Agent, NEW r \in RecordInput, PutAgentRecord(a, r)
          PROVE  a # b /\ record'[b] = record[b]
      BY <2>1
      DEF PutAgentRecord, SInv, RotationExtendsRecord, StoreTypeOK
    <2>2. ASSUME NEW a \in Agent, NEW x \in RotationInput, NEW t \in Time,
                 PutRotationRecord(a, x, t)
          PROVE  record'[b] = record[b] /\ rotation'[b] = rotation[b]
      BY <2>2 DEF PutRotationRecord, SInv, StoreTypeOK
    <2> QED
      BY <2>1, <2>2, Frames
  <1> QED
    BY <1>1, StoreInvariant, PTL DEF StoreSpec, RotatedAddressFrozen

\* The pinned successor is kept and no sequence number goes back.
THEOREM PinsAndSequencesHold == StoreSpec => PinnedAndMonotone
  <1> DEFINE Pinned ==
        \A a \in Agent :
          /\ record[a] # NoRecord =>
                /\ record'[a].succ = record[a].succ
                /\ record'[a].seq >= record[a].seq
          /\ policy'[a] # policy[a] => policy'[a].seq > policy[a].seq
          /\ record'[a] # record[a] => \/ record'[a].seq > record[a].seq
                                       \/ rotation'[a] # rotation[a]
  <1>1. SInv /\ [StoreNext]_storeVars => [Pinned]_storeVars
    <2> SUFFICES ASSUME SInv, StoreNext, NEW b \in Agent
                 PROVE  /\ record[b] # NoRecord =>
                             /\ record'[b].succ = record[b].succ
                             /\ record'[b].seq >= record[b].seq
                        /\ policy'[b] # policy[b] =>
                             policy'[b].seq > policy[b].seq
                        /\ record'[b] # record[b] =>
                             \/ record'[b].seq > record[b].seq
                             \/ rotation'[b] # rotation[b]
      OBVIOUS
    <2>1. record[b].seq \in Int
      BY RecordFacts DEF SInv
    <2>2. ASSUME NEW a \in Agent, NEW p \in PolicyInput, PutPolicy(a, p)
          PROVE  policy'[b] # policy[b] => policy'[b].seq > policy[b].seq
      BY <2>2 DEF PutPolicy, SInv, StoreTypeOK
    <2>3. ASSUME NEW a \in Agent, NEW r \in RecordInput, PutAgentRecord(a, r)
          PROVE  \/ record'[b] = record[b]
                 \/ /\ record'[b].seq \in Int
                    /\ record'[b].seq > record[b].seq
                    /\ record[b] # NoRecord =>
                         record'[b].succ = record[b].succ
      <3>1. record'[b] = record[b] \/ a = b
        BY <2>3 DEF PutAgentRecord, SInv, StoreTypeOK
      <3>2. CASE a = b
        <4>1. record'[b].seq = r.seq /\ record'[b].succ = r.succ
          BY <2>3, <3>2 DEF PutAgentRecord, SInv, StoreTypeOK
        <4>2. record[b] # NoRecord =>
                r.seq > record[b].seq /\ record[b].succ = r.succ
          BY <2>3, <3>2 DEF PutAgentRecord
        <4>3. record[b] = NoRecord => r.seq > record[b].seq
          BY InputFacts DEF NoRecord
        <4> QED
          BY <4>1, <4>2, <4>3, InputFacts
      <3> QED
        BY <3>1, <3>2
    <2>4. ASSUME NEW a \in Agent, NEW x \in RotationInput, NEW t \in Time,
                 PutRotationRecord(a, x, t)
          PROVE  \/ record'[b] = record[b]
                 \/ /\ record'[b].seq = record[b].seq
                    /\ record'[b].succ = record[b].succ
                    /\ rotation'[b] # rotation[b]
      <3>1. record'[b] = record[b] \/ a = b
        BY <2>4 DEF PutRotationRecord, SInv, StoreTypeOK
      <3>2. CASE a = b
        <4>1. /\ record'[b] = [record[b] EXCEPT !.reserved = 0]
              /\ rotation'[b] = x
              /\ rotation[b] = NoRotation
              /\ record[b] # NoRecord
          BY <2>4, <3>2 DEF PutRotationRecord, SInv, StoreTypeOK
        <4>2. record[b] \in RecordRow
          BY <4>1, RecordFacts DEF SInv
        <4> QED
          BY <4>1, <4>2, InputFacts DEF RecordRow
      <3> QED
        BY <3>1, <3>2
    <2>5. CASE UNCHANGED <<policy, record, rotation>>
      BY <2>1, <2>5
    <2>6. ASSUME NEW a \in Agent, NEW p \in PolicyInput, PutPolicy(a, p),
                 UNCHANGED <<record, rotation>>
          PROVE  /\ record[b] # NoRecord =>
                       /\ record'[b].succ = record[b].succ
                       /\ record'[b].seq >= record[b].seq
                 /\ policy'[b] # policy[b] => policy'[b].seq > policy[b].seq
                 /\ record'[b] = record[b]
      <3>1. policy'[b] # policy[b] => policy'[b].seq > policy[b].seq
        BY <2>2, <2>6
      <3> QED
        BY <2>1, <2>6, <3>1
    <2>7. ASSUME NEW a \in Agent, NEW r \in RecordInput, PutAgentRecord(a, r),
                 UNCHANGED <<policy, rotation>>
          PROVE  /\ record[b] # NoRecord =>
                       /\ record'[b].succ = record[b].succ
                       /\ record'[b].seq >= record[b].seq
                 /\ policy'[b] = policy[b]
                 /\ record'[b] # record[b] => record'[b].seq > record[b].seq
      BY <2>1, <2>3, <2>7
    <2>8. ASSUME NEW a \in Agent, NEW x \in RotationInput, NEW t \in Time,
                 PutRotationRecord(a, x, t), UNCHANGED policy
          PROVE  /\ record[b] # NoRecord =>
                       /\ record'[b].succ = record[b].succ
                       /\ record'[b].seq >= record[b].seq
                 /\ policy'[b] = policy[b]
                 /\ record'[b] # record[b] => rotation'[b] # rotation[b]
      BY <2>1, <2>4, <2>8
    <2> QED
      BY <2>5, <2>6, <2>7, <2>8, Frames
  <1> QED
    BY <1>1, StoreInvariant, PTL DEF StoreSpec, PinnedAndMonotone

\* Both halves together: what has been seen of an address is not taken back by
\* any operation of the store.
THEOREM HistoryKept == StoreSpec => AddressHistoryKept
  BY RotatedStaysFrozen, PinsAndSequencesHold DEF AddressHistoryKept

\* Cursors are never handed out twice and always grow.
THEOREM CursorsAlwaysFresh == StoreSpec => CursorsFresh
  <1> DEFINE Fresh == \A e \in events' \ events :
                         /\ e.cursor > lastCursor
                         /\ \A f \in events : e.cursor > f.cursor
  <1>1. SInv /\ [StoreNext]_storeVars => [Fresh]_storeVars
    <2> SUFFICES ASSUME SInv, StoreNext, NEW e \in events' \ events
                 PROVE  /\ e.cursor > lastCursor
                        /\ \A f \in events : e.cursor > f.cursor
      OBVIOUS
    <2>1. PICK w \in Wrap, t \in Time : Admit(w, policy[Recipient[w]].seq, t)
      BY DEF StoreNext, SweepExpired, PutPolicy, PutAgentRecord,
             PutRotationRecord, Reopen, tables
    <2>2. e.cursor = lastCursor + 1
      BY <2>1 DEF Admit
    <2>3. lastCursor \in Nat
      BY StoreAssumption DEF SInv, StoreTypeOK
    <2>4. \A f \in events : f.cursor <= lastCursor /\ f.cursor \in Nat
      BY StoreAssumption DEF SInv, StoreTypeOK, EventRow, CursorBound
    <2> QED
      BY <2>2, <2>3, <2>4
  <1> QED
    BY <1>1, StoreInvariant, PTL DEF StoreSpec, CursorsFresh

-----------------------------------------------------------------------------
(***************************************************************************)
(* Refinement                                                              *)
(***************************************************************************)
\* The rows a client can see.
Rows == {[cursor |-> e.cursor, msg |-> e.wrap] : e \in events}

\* The mailbox before and after a step, spelled out.
LEMMA MailboxFacts ==
    /\ Mailbox = [l \in {TheLoft} |-> [rows |-> Rows, last |-> lastCursor]]
    /\ Mailbox' = [l \in {TheLoft} |-> [rows |-> Rows', last |-> lastCursor']]
  BY DEF Mailbox, Rows

\* A publish that is stored is a TakeIn of the mailbox.
LEMMA AdmitTakesIn ==
    ASSUME NEW w \in Wrap, NEW t \in Time,
           Admit(w, policy[Recipient[w]].seq, t)
    PROVE  Promise!TakeIn(TheLoft, w)
  <1> DEFINE new == [cursor |-> lastCursor + 1, msg |-> w]
  <1>1. ~Stored(w)
    BY DEF Admit, AdmitResult
  <1>2. Rows' = Rows \cup {new} /\ lastCursor' = lastCursor + 1
    <2> DEFINE row == [cursor |-> lastCursor + 1, wrap |-> w,
                       expires |-> t + Retention]
    <2>1. events' = events \cup {row} /\ lastCursor' = lastCursor + 1
      BY DEF Admit
    <2>2. [cursor |-> row.cursor, msg |-> row.wrap] = new
      OBVIOUS
    <2>3. Rows' = {[cursor |-> e.cursor, msg |-> e.wrap] : e \in events'}
      BY DEF Rows
    <2> HIDE DEF row, new
    <2> QED
      BY <2>1, <2>2, <2>3 DEF Rows
  <1>3. Mailbox[TheLoft] = [rows |-> Rows, last |-> lastCursor]
    BY MailboxFacts
  <1>4. ~Promise!InBox(TheLoft, w)
    BY <1>1, <1>3 DEF Promise!InBox, Stored, Rows
  <1>5. Mailbox' = [Mailbox EXCEPT ![TheLoft] =
                      [rows |-> Mailbox[TheLoft].rows \cup {new},
                       last |-> lastCursor + 1]]
    BY <1>2, <1>3, MailboxFacts
  <1> QED
    BY <1>3, <1>4, <1>5 DEF Promise!TakeIn

\* A retention batch is an Expire of the mailbox, or changes nothing in it.
LEMMA SweepExpires ==
    ASSUME NEW t \in Time, SweepExpired(t)
    PROVE  Promise!Expire(TheLoft) \/ Mailbox' = Mailbox
  <1> DEFINE gone == Rows \ Rows'
  <1>1. Rows' \subseteq Rows /\ lastCursor' = lastCursor
    BY DEF SweepExpired, Rows
  <1>2. Mailbox[TheLoft] = [rows |-> Rows, last |-> lastCursor]
    BY MailboxFacts
  <1>3. CASE gone = {}
    BY <1>1, <1>3, MailboxFacts
  <1>4. CASE gone # {}
    <2>1. Rows' = Rows \ gone
      BY <1>1
    <2>2. Mailbox' = [Mailbox EXCEPT ![TheLoft] =
                        [rows |-> Mailbox[TheLoft].rows \ gone,
                         last |-> Mailbox[TheLoft].last]]
      BY <1>1, <1>2, <2>1, MailboxFacts
    <2>3. gone \in SUBSET Mailbox[TheLoft].rows
      BY <1>2
    <2> QED
      BY <1>4, <2>2, <2>3 DEF Promise!Expire
  <1> QED
    BY <1>3, <1>4

\* The store implements the mailbox that the clients are built on: publishes,
\* retention, control writes and restarts are mailbox steps or stutter.
THEOREM StoreImplementsLofts == StoreSpec => ImplementsLofts
  <1>1. StoreInit => Promise!LoftsInit
    BY DEF StoreInit, Promise!LoftsInit, Promise!EmptyBox, Mailbox
  <1>2. [StoreNext]_storeVars => [Promise!LoftsNext]_Mailbox
    <2> SUFFICES ASSUME [StoreNext]_storeVars
                 PROVE  Promise!LoftsNext \/ Mailbox' = Mailbox
      OBVIOUS
    <2>1. ASSUME NEW w \in Wrap, NEW t \in Time,
                 Admit(w, policy[Recipient[w]].seq, t)
          PROVE  Promise!LoftsNext
      BY <2>1, AdmitTakesIn DEF Promise!LoftsNext
    <2>2. ASSUME NEW t \in Time, SweepExpired(t)
          PROVE  Promise!LoftsNext \/ Mailbox' = Mailbox
      BY <2>2, SweepExpires DEF Promise!LoftsNext
    <2>3. CASE UNCHANGED <<events, lastCursor>>
      BY <2>3 DEF Mailbox
    <2> QED
      BY <2>1, <2>2, <2>3 DEF StoreNext, PutPolicy, PutAgentRecord,
         PutRotationRecord, Reopen, tables, storeVars
  <1> QED
    BY <1>1, <1>2, PTL DEF StoreSpec, ImplementsLofts, Promise!LoftsSpec

-----------------------------------------------------------------------------
(***************************************************************************)
(* Sums over finite sets.  MapThenSumSet folds a set in the order CHOOSE   *)
(* happens to take; that the result depends on the values alone is shown   *)
(* by induction on the size of the set.                                    *)
(***************************************************************************)
SumOver(f, S) == MapThenSumSet(LAMBDA x : f[x], S)

\* A running sum: i[s] is the sum of f over s, in whatever order it is taken.
Sums(f, S, i) ==
    /\ i \in [SUBSET S -> Nat]
    /\ i[{}] = 0
    /\ \A s \in SUBSET S : \A x \in s : i[s] = f[x] + i[s \ {x}]

Iterates(f, S, i) ==
    i = [s \in SUBSET S |->
           IF s = {} THEN 0
           ELSE f[CHOOSE x \in s : TRUE] + i[s \ {CHOOSE x \in s : TRUE}]]

Maps(f, S) == \A x \in S : f[x] \in Nat

LEMMA LeastNumber ==
    ASSUME NEW T \in SUBSET Nat, T # {}
    PROVE  \E n \in T : \A m \in T : n <= m
<1>1. PICK n \in T : \A m \in T : ~(<<m, n>> \in OpToRel(<, Nat))
  BY NatLessThanWellFounded, WFMin
<1>2. \A m \in T : ~(m < n)
  BY <1>1 DEF OpToRel
<1> QED BY <1>2

\* Finite sets are reached from the empty one by adding elements.
LEMMA ByAdding ==
    ASSUME NEW S, IsFiniteSet(S), NEW T \in SUBSET SUBSET S, {} \in T,
           \A s \in T : \A x \in S \ s : s \cup {x} \in T
    PROVE  S \in T
<1> DEFINE N == {Cardinality(S \ s) : s \in T}
<1>1. \A s \in T : IsFiniteSet(S \ s) /\ Cardinality(S \ s) \in Nat
  BY FS_Difference, FS_CardinalityType
<1>2. N \in SUBSET Nat /\ N # {}
  BY <1>1
<1>3. PICK n \in N : \A m \in N : n <= m
  BY <1>2, LeastNumber
<1>4. PICK s \in T : n = Cardinality(S \ s)
  OBVIOUS
<1>5. ASSUME NEW x \in S \ s PROVE FALSE
  <2>1. s \cup {x} \in T
    OBVIOUS
  <2>2. S \ (s \cup {x}) = (S \ s) \ {x}
    OBVIOUS
  <2>3. Cardinality((S \ s) \ {x}) = n - 1
    BY <1>1, <1>4, <1>5, FS_RemoveElement
  <2>4. n - 1 \in N
    BY <2>1, <2>2, <2>3
  <2>5. n \in Nat /\ n <= n - 1
    BY <1>2, <1>3, <2>4
  <2> QED BY <2>5
<1>6. S = s
  BY <1>5
<1> QED BY <1>6

LEMMA SumsExist ==
    ASSUME NEW f, NEW S, IsFiniteSet(S), Maps(f, S)
    PROVE  \E i : Sums(f, S, i)
<1> DEFINE T == {s \in SUBSET S : \E i : Sums(f, s, i)}
<1>1. {} \in T
  <2>1. Sums(f, {}, [s \in SUBSET {} |-> 0])
    BY DEF Sums
  <2> QED BY <2>1
<1>2. ASSUME NEW s \in T, NEW y \in S \ s PROVE s \cup {y} \in T
  <2>1. PICK i : Sums(f, s, i)
    OBVIOUS
  <2> DEFINE W == s \cup {y}
             j == [u \in SUBSET W |-> IF y \in u THEN f[y] + i[u \ {y}] ELSE i[u]]
  <2>2. f[y] \in Nat /\ \A x \in W : f[x] \in Nat
    BY DEF Maps
  <2>3. \A u \in SUBSET W : /\ u \ {y} \in SUBSET s
                            /\ y \notin u => u \in SUBSET s
    OBVIOUS
  <2>4. j \in [SUBSET W -> Nat] /\ j[{}] = 0
    BY <2>1, <2>2, <2>3 DEF Sums
  <2>5. ASSUME NEW u \in SUBSET W, NEW x \in u PROVE j[u] = f[x] + j[u \ {x}]
    <3>0. /\ j[u] = (IF y \in u THEN f[y] + i[u \ {y}] ELSE i[u])
          /\ j[u \ {x}] = (IF y \in u \ {x} THEN f[y] + i[(u \ {x}) \ {y}] ELSE i[u \ {x}])
      OBVIOUS
    <3> HIDE DEF j
    <3>1. CASE x = y
      BY <3>0, <3>1
    <3>2. CASE x # y /\ y \in u
      <4>1. (u \ {x}) \ {y} = (u \ {y}) \ {x} /\ x \in u \ {y} /\ u \ {y} \in SUBSET s
        BY <3>2
      <4>2. i[u \ {y}] = f[x] + i[(u \ {y}) \ {x}]
        BY <2>1, <4>1 DEF Sums
      <4>3. i[(u \ {y}) \ {x}] \in Nat
        BY <2>1, <4>1 DEF Sums
      <4>4. f[x] \in Nat /\ f[y] \in Nat
        BY <2>2
      <4>5. j[u] = f[y] + i[u \ {y}] /\ j[u \ {x}] = f[y] + i[(u \ {y}) \ {x}]
        BY <3>0, <3>2, <4>1
      <4> QED BY <4>2, <4>3, <4>4, <4>5
    <3>3. CASE y \notin u
      BY <2>1, <2>3, <3>0, <3>3 DEF Sums
    <3> QED BY <3>1, <3>2, <3>3
  <2>6. Sums(f, W, j)
    BY <2>4, <2>5 DEF Sums
  <2> QED BY <2>6
<1>3. S \in T
  <2> HIDE DEF T
  <2>1. T \in SUBSET SUBSET S
    BY DEF T
  <2> QED BY <1>1, <1>2, <2>1, ByAdding
<1> QED BY <1>3

\* There is one such sum, and the fold computes it.
LEMMA SumsUnique ==
    ASSUME NEW f, NEW S, IsFiniteSet(S), NEW i, Sums(f, S, i), NEW j, Iterates(f, S, j)
    PROVE  j[S] = i[S]
<1> DEFINE bad == {s \in SUBSET S : j[s] # i[s]}
           N == {Cardinality(s) : s \in bad}
<1>0. \A s \in SUBSET S : IsFiniteSet(s) /\ Cardinality(s) \in Nat
  BY FS_Subset, FS_CardinalityType
<1>1. SUFFICES ASSUME bad # {} PROVE FALSE
  OBVIOUS
<1>2. N \in SUBSET Nat /\ N # {}
  BY <1>0, <1>1
<1>3. PICK n \in N : \A m \in N : n <= m
  BY <1>2, LeastNumber
<1>4. PICK s \in bad : n = Cardinality(s)
  OBVIOUS
<1> DEFINE c == CHOOSE x \in s : TRUE
<1>5. CASE s = {}
  BY <1>4, <1>5 DEF Sums, Iterates
<1>6. CASE s # {}
  <2>1. c \in s /\ s \in SUBSET S
    BY <1>6
  <2>2. Cardinality(s \ {c}) = n - 1 /\ n \in Nat
    BY <1>0, <1>4, <2>1, FS_RemoveElement
  <2>3. j[s \ {c}] = i[s \ {c}]
    <3>1. s \ {c} \notin bad
      <4>1. SUFFICES ASSUME s \ {c} \in bad PROVE FALSE
        OBVIOUS
      <4>2. n - 1 \in N
        BY <2>2, <4>1
      <4> QED BY <1>3, <2>2, <4>2
    <3> QED BY <2>1, <3>1
  <2>4. j[s] = f[c] + j[s \ {c}]
    BY <1>6, <2>1 DEF Iterates
  <2>5. i[s] = f[c] + i[s \ {c}]
    BY <2>1 DEF Sums
  <2> QED BY <1>4, <2>3, <2>4, <2>5
<1> QED BY <1>5, <1>6

LEMMA SumsIterate ==
    ASSUME NEW f, NEW S, NEW i, Sums(f, S, i)
    PROVE  Iterates(f, S, i)
<1>1. ASSUME NEW s \in SUBSET S
      PROVE  i[s] = IF s = {} THEN 0
                    ELSE f[CHOOSE x \in s : TRUE] + i[s \ {CHOOSE x \in s : TRUE}]
  <2>1. CASE s = {}
    BY <2>1 DEF Sums
  <2>2. CASE s # {}
    <3>1. (CHOOSE x \in s : TRUE) \in s
      BY <2>2
    <3> QED BY <2>2, <3>1 DEF Sums
  <2> QED BY <2>1, <2>2
<1>2. i = [s \in SUBSET S |-> i[s]]
  BY DEF Sums
<1> QED BY <1>1, <1>2 DEF Iterates

LEMMA SumIs ==
    ASSUME NEW f, NEW S, IsFiniteSet(S), NEW i, Sums(f, S, i)
    PROVE  SumOver(f, S) = i[S]
<1> DEFINE J == CHOOSE j : Iterates(f, S, j)
<1>1. Iterates(f, S, J)
  BY SumsIterate
<1>2. SumOver(f, S) = J[S]
  BY DEF SumOver, MapThenSumSet, MapThenFoldSet, Iterates
<1> HIDE DEF J
<1> QED BY <1>1, <1>2, SumsUnique

LEMMA SumEmpty == ASSUME NEW f PROVE SumOver(f, {}) = 0
<1>1. Sums(f, {}, [s \in SUBSET {} |-> 0])
  BY DEF Sums
<1> QED BY <1>1, SumIs, FS_EmptySet

LEMMA SumType ==
    ASSUME NEW f, NEW S, IsFiniteSet(S), Maps(f, S)
    PROVE  SumOver(f, S) \in Nat
<1>1. PICK i : Sums(f, S, i)
  BY SumsExist
<1>2. i[S] \in Nat
  BY <1>1 DEF Sums
<1> QED BY <1>1, <1>2, SumIs

LEMMA SumRemove ==
    ASSUME NEW f, NEW S, IsFiniteSet(S), Maps(f, S), NEW x \in S
    PROVE  SumOver(f, S) = f[x] + SumOver(f, S \ {x})
<1>1. PICK i : Sums(f, S, i)
  BY SumsExist
<1> DEFINE R == S \ {x}
           j == [s \in SUBSET R |-> i[s]]
<1>2. Sums(f, R, j)
  <2>1. \A s \in SUBSET R : s \in SUBSET S /\ j[s] = i[s]
    OBVIOUS
  <2>2. \A s \in SUBSET R : \A y \in s : s \ {y} \in SUBSET R
    OBVIOUS
  <2>3. j \in [SUBSET R -> Nat]
    BY <1>1 DEF Sums
  <2> HIDE DEF j
  <2>4. \A s \in SUBSET R : \A y \in s : j[s] = f[y] + j[s \ {y}]
    BY <1>1, <2>1, <2>2 DEF Sums
  <2> QED BY <1>1, <2>1, <2>3, <2>4 DEF Sums
<1>3. IsFiniteSet(R)
  BY FS_RemoveElement
<1>4. SumOver(f, R) = i[R]
  BY <1>2, <1>3, SumIs
<1>5. SumOver(f, S) = i[S]
  BY <1>1, SumIs
<1>6. i[S] = f[x] + i[S \ {x}]
  BY <1>1 DEF Sums
<1> QED BY <1>4, <1>5, <1>6

LEMMA SumAdd ==
    ASSUME NEW f, NEW S, IsFiniteSet(S), NEW x, x \notin S, Maps(f, S \cup {x})
    PROVE  SumOver(f, S \cup {x}) = SumOver(f, S) + f[x]
<1>1. IsFiniteSet(S \cup {x}) /\ (S \cup {x}) \ {x} = S
  BY FS_AddElement
<1>2. SumOver(f, S \cup {x}) = f[x] + SumOver(f, S)
  BY <1>1, SumRemove
<1>3. f[x] \in Nat /\ SumOver(f, S) \in Nat
  BY SumType DEF Maps
<1> QED BY <1>2, <1>3

\* Only the values on the set count.
LEMMA SumSame ==
    ASSUME NEW f, NEW h, NEW S, IsFiniteSet(S), Maps(f, S),
           \A x \in S : h[x] = f[x]
    PROVE  SumOver(h, S) = SumOver(f, S)
<1>1. PICK i : Sums(f, S, i)
  BY SumsExist
<1>2. Sums(h, S, i)
  BY <1>1 DEF Sums
<1> QED BY <1>1, <1>2, SumIs

LEMMA SumChange ==
    ASSUME NEW f, NEW h, NEW S, IsFiniteSet(S), Maps(f, S), Maps(h, S), NEW a \in S,
           \A x \in S \ {a} : h[x] = f[x]
    PROVE  /\ SumOver(h, S) = SumOver(f, S) - f[a] + h[a]
           /\ f[a] <= SumOver(f, S)
<1>1. IsFiniteSet(S \ {a}) /\ Maps(f, S \ {a})
  BY FS_RemoveElement DEF Maps
<1>2. SumOver(h, S \ {a}) = SumOver(f, S \ {a})
  BY <1>1, SumSame
<1>3. SumOver(h, S) = h[a] + SumOver(h, S \ {a}) /\ SumOver(f, S) = f[a] + SumOver(f, S \ {a})
  BY SumRemove
<1>4. SumOver(f, S \ {a}) \in Nat /\ f[a] \in Nat /\ h[a] \in Nat
  BY <1>1, SumType DEF Maps
<1> QED BY <1>2, <1>3, <1>4

LEMMA SumSplit ==
    ASSUME NEW f, NEW S, IsFiniteSet(S), Maps(f, S), NEW R \in SUBSET S
    PROVE  SumOver(f, S) = SumOver(f, R) + SumOver(f, S \ R)
<1> DEFINE T == {s \in SUBSET R : SumOver(f, S) = SumOver(f, s) + SumOver(f, S \ s)}
<1>0. IsFiniteSet(R) /\ \A s \in SUBSET S : IsFiniteSet(s) /\ Maps(f, s) /\ SumOver(f, s) \in Nat
  BY FS_Subset, SumType DEF Maps
<1>1. {} \in T
  <2>1. SumOver(f, {}) = 0 /\ S \ {} = S
    BY SumEmpty
  <2>2. SumOver(f, S) \in Nat
    BY <1>0
  <2> QED BY <2>1, <2>2
<1>2. ASSUME NEW s \in T, NEW x \in R \ s PROVE s \cup {x} \in T
  <2>1. SumOver(f, s \cup {x}) = SumOver(f, s) + f[x]
    <3>1. IsFiniteSet(s) /\ Maps(f, s \cup {x})
      BY <1>0 DEF Maps
    <3> QED BY <3>1, SumAdd
  <2>2. SumOver(f, S \ s) = f[x] + SumOver(f, S \ (s \cup {x}))
    <3>1. (S \ s) \ {x} = S \ (s \cup {x}) /\ x \in S \ s
      OBVIOUS
    <3>2. IsFiniteSet(S \ s) /\ Maps(f, S \ s)
      BY <1>0
    <3>3. SumOver(f, S \ s) = f[x] + SumOver(f, (S \ s) \ {x})
      BY <3>1, <3>2, SumRemove
    <3> QED BY <3>1, <3>3
  <2>3. SumOver(f, S) = SumOver(f, s) + SumOver(f, S \ s)
    OBVIOUS
  <2>4. /\ SumOver(f, s) \in Nat /\ SumOver(f, S \ (s \cup {x})) \in Nat /\ f[x] \in Nat
        /\ SumOver(f, S) \in Nat
    BY <1>0 DEF Maps
  <2> HIDE DEF T
  <2>5. SumOver(f, S) = SumOver(f, s \cup {x}) + SumOver(f, S \ (s \cup {x}))
    BY <2>1, <2>2, <2>3, <2>4
  <2> QED BY <2>5 DEF T
<1>3. R \in T
  <2> HIDE DEF T
  <2>1. T \in SUBSET SUBSET R
    BY DEF T
  <2> QED BY <1>0, <1>1, <1>2, <2>1, ByAdding
<1> QED BY <1>3

LEMMA SumZero ==
    ASSUME NEW f, NEW S, IsFiniteSet(S), \A x \in S : f[x] = 0
    PROVE  SumOver(f, S) = 0
<1> DEFINE i == [s \in SUBSET S |-> 0]
<1>1. Sums(f, S, i)
  BY DEF Sums
<1> QED BY <1>1, SumIs

-----------------------------------------------------------------------------
(***************************************************************************)
(* The counters of storage_stats.                                          *)
(***************************************************************************)
RowSize == [e \in EventRow |-> EventSize[e.wrap]]

ControlOf == [a \in Agent |-> policy[a].size + record[a].size + rotation[a].size]

ReservedOf == [a \in Agent |-> record[a].reserved]

LEMMA RotationSize ==
    ASSUME StoreTypeOK, NEW a \in Agent
    PROVE  rotation[a].size \in Nat
<1>1. rotation[a] \in RotationInput \cup {NoRotation}
  BY DEF StoreTypeOK
<1> QED BY <1>1, InputFacts DEF NoRotation

LEMMA ChargesMap ==
    ASSUME StoreTypeOK
    PROVE  /\ IsFiniteSet(Agent) /\ Maps(ControlOf, Agent) /\ Maps(ReservedOf, Agent)
           /\ \A a \in Agent : /\ ReservedOf[a] = record[a].reserved
                               /\ ControlOf[a] = policy[a].size + record[a].size
                                                   + rotation[a].size
<1>1. ASSUME NEW a \in Agent
      PROVE  /\ policy[a].size \in Nat /\ record[a].size \in Nat /\ rotation[a].size \in Nat
             /\ record[a].reserved \in Nat
  BY PolicyFacts, RecordFacts, RotationSize, InputFacts
<1> QED BY <1>1, StoreAssumption DEF Maps, ControlOf, ReservedOf

LEMMA ChargesStayMapped == StoreTypeOK => Maps(ControlOf, Agent) /\ Maps(ReservedOf, Agent)
  BY ChargesMap

LEMMA SizeOfIs ==
    ASSUME NEW rows \in SUBSET EventRow, IsFiniteSet(rows)
    PROVE  SizeOf(rows) = SumOver(RowSize, rows) /\ Maps(RowSize, rows)
<1>1. Maps(RowSize, rows) /\ \A e \in rows : RowSize[e] = EventSize[e.wrap]
  BY StoreAssumption DEF Maps, RowSize, EventRow
<1>2. PICK i : Sums(RowSize, rows, i)
  BY <1>1, SumsExist
<1>3. Iterates(RowSize, rows, i)
  BY <1>2, SumsIterate
<1> DEFINE Steps(j) ==
             [s \in SUBSET rows |->
                IF s = {} THEN 0
                ELSE EventSize[(CHOOSE e \in s : TRUE).wrap] + j[s \ {CHOOSE e \in s : TRUE}]]
           J == CHOOSE j : j = Steps(j)
<1>4. \A j : j = Steps(j) <=> Iterates(RowSize, rows, j)
  <2>1. \A s \in SUBSET rows : s # {} => (CHOOSE e \in s : TRUE) \in rows
    OBVIOUS
  <2>2. \A s \in SUBSET rows : s # {} =>
          RowSize[CHOOSE e \in s : TRUE] = EventSize[(CHOOSE e \in s : TRUE).wrap]
    BY <1>1, <2>1
  <2> QED BY <2>2 DEF Iterates
<1>5. J = Steps(J)
  <2> HIDE DEF Steps
  <2> QED BY <1>3, <1>4
<1>6. SizeOf(rows) = J[rows]
  BY DEF SizeOf, MapThenSumSet, MapThenFoldSet
<1> HIDE DEF J
<1>7. Iterates(RowSize, rows, J)
  BY <1>4, <1>5
<1>8. J[rows] = i[rows] /\ SumOver(RowSize, rows) = i[rows]
  BY <1>2, <1>7, SumsUnique, SumIs
<1> QED BY <1>1, <1>6, <1>8

LEMMA ReservedSum ==
    ASSUME StoreTypeOK
    PROVE  MapThenSumSet(LAMBDA a : record[a].reserved, Agent) = SumOver(ReservedOf, Agent)
<1>1. PICK i : Sums(ReservedOf, Agent, i)
  BY ChargesMap, SumsExist
<1>2. Iterates(ReservedOf, Agent, i)
  BY <1>1, SumsIterate
<1> DEFINE Steps(j) ==
             [s \in SUBSET Agent |->
                IF s = {} THEN 0
                ELSE record[CHOOSE a \in s : TRUE].reserved + j[s \ {CHOOSE a \in s : TRUE}]]
           J == CHOOSE j : j = Steps(j)
<1>3. \A j : j = Steps(j) <=> Iterates(ReservedOf, Agent, j)
  <2>1. \A s \in SUBSET Agent : s # {} => (CHOOSE a \in s : TRUE) \in Agent
    OBVIOUS
  <2>2. \A s \in SUBSET Agent : s # {} =>
          ReservedOf[CHOOSE a \in s : TRUE] = record[CHOOSE a \in s : TRUE].reserved
    BY <2>1, ChargesMap
  <2> QED BY <2>2 DEF Iterates
<1>4. J = Steps(J)
  <2> HIDE DEF Steps
  <2> QED BY <1>2, <1>3
<1>5. MapThenSumSet(LAMBDA a : record[a].reserved, Agent) = J[Agent]
  BY DEF MapThenSumSet, MapThenFoldSet
<1> HIDE DEF J
<1>6. Iterates(ReservedOf, Agent, J)
  BY <1>3, <1>4
<1>7. J[Agent] = i[Agent] /\ SumOver(ReservedOf, Agent) = i[Agent]
  BY <1>1, <1>6, ChargesMap, SumsUnique, SumIs
<1> QED BY <1>5, <1>7

LEMMA ControlSum ==
    ASSUME StoreTypeOK
    PROVE  MapThenSumSet(LAMBDA a : policy[a].size + record[a].size + rotation[a].size, Agent)
             = SumOver(ControlOf, Agent)
<1>1. PICK i : Sums(ControlOf, Agent, i)
  BY ChargesMap, SumsExist
<1>2. Iterates(ControlOf, Agent, i)
  BY <1>1, SumsIterate
<1> DEFINE Charge(a) == policy[a].size + record[a].size + rotation[a].size
           Steps(j) ==
             [s \in SUBSET Agent |->
                IF s = {} THEN 0
                ELSE Charge(CHOOSE a \in s : TRUE) + j[s \ {CHOOSE a \in s : TRUE}]]
           J == CHOOSE j : j = Steps(j)
<1>3. \A j : j = Steps(j) <=> Iterates(ControlOf, Agent, j)
  <2>1. \A s \in SUBSET Agent : s # {} => (CHOOSE a \in s : TRUE) \in Agent
    OBVIOUS
  <2>2. \A s \in SUBSET Agent : s # {} =>
          ControlOf[CHOOSE a \in s : TRUE] = Charge(CHOOSE a \in s : TRUE)
    BY <2>1, ChargesMap
  <2> HIDE DEF Charge
  <2> QED BY <2>2 DEF Iterates
<1>4. J = Steps(J)
  <2> HIDE DEF Steps
  <2> QED BY <1>2, <1>3
<1>5. MapThenSumSet(LAMBDA a : policy[a].size + record[a].size + rotation[a].size, Agent)
        = J[Agent]
  BY DEF MapThenSumSet, MapThenFoldSet
<1> HIDE DEF J
<1>6. Iterates(ControlOf, Agent, J)
  BY <1>3, <1>4
<1>7. J[Agent] = i[Agent] /\ SumOver(ControlOf, Agent) = i[Agent]
  BY <1>1, <1>6, ChargesMap, SumsUnique, SumIs
<1> QED BY <1>5, <1>7

\* A record carries its reservation until it rotates.
Reserving ==
    \A a \in Agent : record[a] # NoRecord =>
      (record[a].reserved = IF rotation[a] = NoRotation THEN Reservation ELSE 0)

CountersInv ==
    /\ IsFiniteSet(events)
    /\ bytesUsed = SumOver(RowSize, events)
    /\ eventCount = Cardinality(events)
    /\ controlBytes = SumOver(ControlOf, Agent)
    /\ controlReserved = SumOver(ReservedOf, Agent)
    /\ Reserving

LEMMA CountersForm ==
    ASSUME SInv, CountersInv
    PROVE  CountersMatchRows
<1>1. StoreTypeOK /\ events \in SUBSET EventRow
  BY DEF SInv, StoreTypeOK
<1>2. SizeOf(events) = SumOver(RowSize, events)
  BY <1>1, SizeOfIs DEF CountersInv
<1> QED BY <1>1, <1>2, ReservedSum, ControlSum DEF CountersInv, Reserving, CountersMatchRows

LEMMA InitCounters == ASSUME StoreInit PROVE CountersInv
<1>1. IsFiniteSet({}) /\ Cardinality({}) = 0 /\ SumOver(RowSize, {}) = 0
  BY FS_EmptySet, SumEmpty
<1>2. \A a \in Agent : ControlOf[a] = 0 /\ ReservedOf[a] = 0
  BY DEF StoreInit, ControlOf, ReservedOf, NoPolicy, NoRecord, NoRotation
<1>3. SumOver(ControlOf, Agent) = 0 /\ SumOver(ReservedOf, Agent) = 0
  BY <1>2, SumZero, StoreAssumption
<1> QED BY <1>1, <1>3 DEF StoreInit, CountersInv, Reserving

\* A write that leaves routing and policy rows alone.
LEMMA ControlFrame ==
    ASSUME CountersInv,
           UNCHANGED <<policy, record, rotation, controlBytes, controlReserved>>
    PROVE  /\ controlBytes' = SumOver(ControlOf', Agent)
           /\ controlReserved' = SumOver(ReservedOf', Agent)
           /\ Reserving'
<1>1. ControlOf' = ControlOf /\ ReservedOf' = ReservedOf
  BY DEF ControlOf, ReservedOf
<1> QED BY <1>1 DEF CountersInv, Reserving

LEMMA AdmitCounters ==
    ASSUME SInv, CountersInv, NEW w \in Wrap, NEW expected, NEW t \in Time,
           Admit(w, expected, t)
    PROVE  CountersInv'
<1> DEFINE e == [cursor |-> lastCursor + 1, wrap |-> w, expires |-> t + Retention]
<1>1. /\ events' = events \cup {e} /\ bytesUsed' = bytesUsed + EventSize[w]
      /\ eventCount' = eventCount + 1
      /\ UNCHANGED <<policy, record, rotation, controlBytes, controlReserved>>
  BY DEF Admit
<1>2. events' \subseteq EventRow
  BY AdmitStep DEF SInv, StoreTypeOK
<1>3. e.cursor = lastCursor + 1 /\ e.wrap = w /\ lastCursor \in Nat
  BY StoreAssumption DEF SInv, StoreTypeOK
<1> HIDE DEF e
<1>4. e \notin events
  BY <1>3 DEF SInv, CursorBound
<1>5. e \in EventRow /\ RowSize[e] = EventSize[w]
  BY <1>1, <1>2, <1>3 DEF RowSize
<1>6. IsFiniteSet(events') /\ Cardinality(events') = Cardinality(events) + 1
  BY <1>1, <1>4, FS_AddElement DEF CountersInv
<1>7. Maps(RowSize, events \cup {e})
  BY <1>1, <1>2, StoreAssumption DEF Maps, RowSize, EventRow
<1>8. SumOver(RowSize, events') = SumOver(RowSize, events) + EventSize[w]
  BY <1>1, <1>4, <1>5, <1>7, SumAdd DEF CountersInv
<1> QED BY <1>1, <1>6, <1>8, ControlFrame DEF CountersInv

LEMMA SweepCounters ==
    ASSUME SInv, CountersInv, NEW t \in Time, SweepExpired(t)
    PROVE  CountersInv'
<1>1. PICK rows \in SUBSET Expired(t) :
        /\ events' = events \ rows
        /\ bytesUsed' = bytesUsed - SizeOf(rows)
        /\ eventCount' = eventCount - Cardinality(rows)
        /\ UNCHANGED <<policy, record, rotation, controlBytes, controlReserved>>
  BY DEF SweepExpired
<1>2. rows \in SUBSET events /\ events \in SUBSET EventRow /\ rows \in SUBSET EventRow
  BY DEF Expired, SInv, StoreTypeOK
<1>3. IsFiniteSet(events) /\ IsFiniteSet(rows) /\ IsFiniteSet(events')
  BY <1>1, <1>2, FS_Subset, FS_Difference DEF CountersInv
<1>4. Maps(RowSize, events) /\ Maps(RowSize, rows) /\ Maps(RowSize, events')
  BY <1>1, <1>2, <1>3, SizeOfIs DEF Maps
<1>5. SumOver(RowSize, events) = SumOver(RowSize, rows) + SumOver(RowSize, events')
  BY <1>1, <1>2, <1>3, <1>4, SumSplit
<1>6. SumOver(RowSize, rows) \in Nat /\ SumOver(RowSize, events') \in Nat
  BY <1>3, <1>4, SumType
<1>7. bytesUsed' = SumOver(RowSize, events')
  BY <1>1, <1>2, <1>3, <1>5, <1>6, SizeOfIs DEF CountersInv
<1>8. Cardinality(events') = Cardinality(events) - Cardinality(rows)
  <2>1. events \cap rows = rows
    BY <1>2
  <2>2. Cardinality(events \ rows) = Cardinality(events) - Cardinality(events \cap rows)
    BY <1>3, FS_Difference
  <2> QED BY <1>1, <2>1, <2>2
<1> QED BY <1>1, <1>3, <1>7, <1>8, ControlFrame DEF CountersInv

\* A control write changes the rows of one address and charges the difference.
LEMMA WriteCounters ==
    ASSUME SInv, SInv', CountersInv, NEW a \in Agent,
           NEW old \in Nat, NEW new \in Nat, NEW oldReserved \in Nat, NEW newReserved \in Nat,
           ReplaceControlCharge(old, new, oldReserved, newReserved),
           UNCHANGED events,
           \A b \in Agent \ {a} :
             policy'[b] = policy[b] /\ record'[b] = record[b] /\ rotation'[b] = rotation[b],
           ControlOf'[a] - ControlOf[a] = new - old,
           ReservedOf'[a] - ReservedOf[a] = newReserved - oldReserved,
           record'[a] # NoRecord =>
             (record'[a].reserved = IF rotation'[a] = NoRotation THEN Reservation ELSE 0)
    PROVE  CountersInv'
<1>1. StoreTypeOK /\ StoreTypeOK'
  BY DEF SInv
<1>2. /\ IsFiniteSet(Agent) /\ Maps(ControlOf, Agent) /\ Maps(ReservedOf, Agent)
      /\ Maps(ControlOf', Agent) /\ Maps(ReservedOf', Agent)
  <2>1. (Maps(ControlOf, Agent) /\ Maps(ReservedOf, Agent))'
    BY <1>1, ChargesStayMapped, PTL
  <2> QED BY <1>1, <2>1, ChargesMap DEF Maps
<1>3. \A b \in Agent \ {a} : ControlOf'[b] = ControlOf[b] /\ ReservedOf'[b] = ReservedOf[b]
  BY DEF ControlOf, ReservedOf
<1>4. /\ SumOver(ControlOf', Agent) = SumOver(ControlOf, Agent) - ControlOf[a] + ControlOf'[a]
      /\ SumOver(ReservedOf', Agent) = SumOver(ReservedOf, Agent) - ReservedOf[a] + ReservedOf'[a]
  BY <1>2, <1>3, SumChange
<1>5. /\ controlBytes' = controlBytes - old + new
      /\ controlReserved' = controlReserved - oldReserved + newReserved
      /\ UNCHANGED <<bytesUsed, eventCount>>
  BY DEF ReplaceControlCharge
<1>6. /\ SumOver(ControlOf, Agent) \in Nat /\ SumOver(ReservedOf, Agent) \in Nat
      /\ ControlOf[a] \in Nat /\ ControlOf'[a] \in Nat
      /\ ReservedOf[a] \in Nat /\ ReservedOf'[a] \in Nat
  BY <1>2, SumType DEF Maps
<1>7. controlBytes' = SumOver(ControlOf', Agent)
  BY <1>4, <1>5, <1>6 DEF CountersInv
<1>8. controlReserved' = SumOver(ReservedOf', Agent)
  <2>1. controlReserved = SumOver(ReservedOf, Agent)
    BY DEF CountersInv
  <2>2. newReserved - oldReserved = ReservedOf'[a] - ReservedOf[a]
    OBVIOUS
  <2> QED BY <1>4, <1>5, <1>6, <2>1, <2>2
<1>9. Reserving'
  BY DEF CountersInv, Reserving
<1> QED BY <1>5, <1>7, <1>8, <1>9 DEF CountersInv

LEMMA PutPolicyCounters ==
    ASSUME SInv, CountersInv, NEW a \in Agent, NEW p \in PolicyInput, PutPolicy(a, p)
    PROVE  CountersInv'
<1>1. /\ ReplaceControlCharge(policy[a].size, p.size, 0, 0)
      /\ policy' = [policy EXCEPT ![a] = p] /\ UNCHANGED <<events, record, rotation>>
      /\ DOMAIN policy = Agent
  BY DEF PutPolicy, SInv, StoreTypeOK
<1>2. /\ policy[a].size \in Nat /\ p.size \in Nat /\ record[a].size \in Nat
      /\ rotation[a].size \in Nat /\ record[a].reserved \in Nat
  BY PolicyFacts, RecordFacts, RotationSize, InputFacts DEF SInv
<1>3. /\ ControlOf'[a] = p.size + record[a].size + rotation[a].size
      /\ ControlOf[a] = policy[a].size + record[a].size + rotation[a].size
      /\ ReservedOf'[a] = record[a].reserved /\ ReservedOf[a] = record[a].reserved
  BY <1>1 DEF ControlOf, ReservedOf
<1>4. ControlOf'[a] - ControlOf[a] = p.size - policy[a].size /\ ReservedOf'[a] - ReservedOf[a] = 0 - 0
  BY <1>2, <1>3
<1>5. record'[a] # NoRecord =>
        (record'[a].reserved = IF rotation'[a] = NoRotation THEN Reservation ELSE 0)
  BY <1>1 DEF CountersInv, Reserving
<1>6. \A b \in Agent \ {a} :
        policy'[b] = policy[b] /\ record'[b] = record[b] /\ rotation'[b] = rotation[b]
  BY <1>1
<1>7. SInv'
  BY PutPolicyStep
<1> QED BY <1>1, <1>2, <1>4, <1>5, <1>6, <1>7, WriteCounters

LEMMA PutAgentRecordCounters ==
    ASSUME SInv, CountersInv, NEW a \in Agent, NEW r \in RecordInput, PutAgentRecord(a, r)
    PROVE  CountersInv'
<1> DEFINE known == record[a] # NoRecord
           reserved == IF known THEN record[a].reserved ELSE Reservation
           held == IF known THEN reserved ELSE 0
           new == [seq |-> r.seq, succ |-> r.succ, size |-> r.size, reserved |-> reserved]
<1>1. /\ ReplaceControlCharge(record[a].size, r.size, held, reserved)
      /\ record' = [record EXCEPT ![a] = new] /\ UNCHANGED <<events, policy, rotation>>
      /\ DOMAIN record = Agent
  BY DEF PutAgentRecord, SInv, StoreTypeOK
<1>2. /\ policy[a].size \in Nat /\ r.size \in Nat /\ record[a].size \in Nat
      /\ rotation[a].size \in Nat /\ reserved \in Nat /\ held \in Nat
  BY PolicyFacts, RecordFacts, RotationSize, InputFacts DEF SInv
<1>3. record[a].reserved = held
  BY DEF NoRecord
<1>4. rotation[a] = NoRotation
  BY DEF SInv, RotationExtendsRecord, PutAgentRecord
<1>5. reserved = Reservation
  BY <1>4 DEF CountersInv, Reserving
<1>6. record'[a].size = r.size /\ record'[a].reserved = reserved
  BY <1>1
<1> HIDE DEF new, held, reserved
<1>7. /\ ControlOf'[a] = policy[a].size + r.size + rotation[a].size
      /\ ControlOf[a] = policy[a].size + record[a].size + rotation[a].size
      /\ ReservedOf'[a] = reserved /\ ReservedOf[a] = held
  BY <1>1, <1>3, <1>6 DEF ControlOf, ReservedOf
<1>8. /\ ControlOf'[a] - ControlOf[a] = r.size - record[a].size
      /\ ReservedOf'[a] - ReservedOf[a] = reserved - held
  BY <1>2, <1>7
<1>9. record'[a] # NoRecord =>
        (record'[a].reserved = IF rotation'[a] = NoRotation THEN Reservation ELSE 0)
  BY <1>1, <1>4, <1>5, <1>6
<1>10. \A b \in Agent \ {a} :
         policy'[b] = policy[b] /\ record'[b] = record[b] /\ rotation'[b] = rotation[b]
  BY <1>1
<1>11. SInv' /\ record[a].size \in Nat
  BY <1>2, PutAgentRecordStep
<1> QED BY <1>1, <1>2, <1>8, <1>9, <1>10, <1>11, WriteCounters

LEMMA PutRotationRecordCounters ==
    ASSUME SInv, CountersInv, NEW a \in Agent, NEW x \in RotationInput, NEW t \in Time,
           PutRotationRecord(a, x, t)
    PROVE  CountersInv'
<1> DEFINE reserved == record[a].reserved
           new == [record[a] EXCEPT !.reserved = 0]
<1>1. /\ ReplaceControlCharge(0, x.size, reserved, 0) /\ record[a] # NoRecord
      /\ record' = [record EXCEPT ![a] = new] /\ rotation' = [rotation EXCEPT ![a] = x]
      /\ UNCHANGED <<events, policy>> /\ rotation[a] = NoRotation
      /\ DOMAIN record = Agent /\ DOMAIN rotation = Agent
  BY DEF PutRotationRecord, SInv, StoreTypeOK
<1>2. record[a] \in RecordRow
  BY <1>1, RecordFacts DEF SInv
<1>3. new.size = record[a].size /\ new.reserved = 0
  BY <1>2 DEF RecordRow
<1>4. /\ policy[a].size \in Nat /\ x.size \in Nat /\ record[a].size \in Nat
      /\ reserved \in Nat /\ x # NoRotation
  BY PolicyFacts, RecordFacts, InputFacts DEF SInv
<1>5. record'[a] = new /\ rotation'[a] = x /\ rotation[a].size = 0
  BY <1>1 DEF NoRotation
<1> HIDE DEF new, reserved
<1>6. /\ ControlOf'[a] = policy[a].size + record[a].size + x.size
      /\ ControlOf[a] = policy[a].size + record[a].size + 0
      /\ ReservedOf'[a] = 0 /\ ReservedOf[a] = reserved
  BY <1>1, <1>3, <1>5 DEF ControlOf, ReservedOf, reserved
<1>7. /\ ControlOf'[a] - ControlOf[a] = x.size - 0
      /\ ReservedOf'[a] - ReservedOf[a] = 0 - reserved
  BY <1>4, <1>6
<1>8. record'[a] # NoRecord =>
        (record'[a].reserved = IF rotation'[a] = NoRotation THEN Reservation ELSE 0)
  BY <1>3, <1>4, <1>5
<1>9. \A b \in Agent \ {a} :
        policy'[b] = policy[b] /\ record'[b] = record[b] /\ rotation'[b] = rotation[b]
  BY <1>1
<1>10. SInv'
  BY PutRotationRecordStep
<1> QED BY <1>1, <1>4, <1>7, <1>8, <1>9, <1>10, WriteCounters

LEMMA NextCounters == SInv /\ CountersInv /\ [StoreNext]_storeVars => CountersInv'
<1> SUFFICES ASSUME SInv, CountersInv, [StoreNext]_storeVars PROVE CountersInv'
  OBVIOUS
<1>1. CASE UNCHANGED <<tables, counters>>
  BY <1>1, ControlFrame DEF CountersInv, tables, counters
<1>2. CASE StoreNext
  <2>1. CASE Reopen
    BY <1>1, <2>1 DEF Reopen
  <2> QED BY <1>2, <2>1, AdmitCounters, SweepCounters, PutPolicyCounters,
             PutAgentRecordCounters, PutRotationRecordCounters DEF StoreNext
<1> QED BY <1>1, <1>2 DEF storeVars

\* The counters that each transaction adjusts by what it adds and removes are at
\* all times the sums over the rows, and each address carries a reservation
\* exactly until it rotates: what validate_loft_invariants recomputes at start
\* (replace_control_charge, admit, remove_expired), for any agents, wraps,
\* sizes, capacities and batches.
THEOREM CountersAreSums == StoreSpec => []CountersMatchRows
<1>1. StoreInit => CountersInv
  BY InitCounters
<1>2. SInv /\ CountersInv => CountersMatchRows
  BY CountersForm
<1> QED BY <1>1, <1>2, NextCounters, StoreInvariant, PTL DEF StoreSpec

\* A full loft keeps room for the rotation of every address it has a record of:
\* its own reservation is part of what the counters hold, so put_rotation_record
\* cannot be refused for want of space.
THEOREM NobodyIsStranded == StoreSpec => []NeverStranded
<1>1. ASSUME SInv, CountersInv, NEW a \in Agent, NEW size \in 1 .. Reservation,
             record[a] # NoRecord, rotation[a] = NoRotation
      PROVE  size <= record[a].reserved /\ ChargeFits(0, size, record[a].reserved, 0)
  <2>1. record[a].reserved = Reservation /\ Reservation \in Nat /\ size \in Nat /\ size <= Reservation
    BY <1>1, InputFacts DEF CountersInv, Reserving
  <2>2. Reservation <= controlReserved
    <3>1. StoreTypeOK
      BY <1>1 DEF SInv
    <3>2. ReservedOf[a] <= SumOver(ReservedOf, Agent) /\ ReservedOf[a] = Reservation
      BY <2>1, <3>1, ChargesMap, SumChange
    <3> QED BY <1>1, <3>2 DEF CountersInv
  <2>3. /\ bytesUsed \in Nat /\ controlBytes \in Nat /\ controlReserved \in Nat /\ capacity \in Nat
    BY <1>1, InputFacts DEF SInv, StoreTypeOK
  <2>4. /\ bytesUsed + controlBytes + controlReserved <= capacity
        /\ controlBytes + controlReserved <= ControlCapacity(capacity)
    BY <1>1 DEF SInv, WithinCapacity
  <2> DEFINE room == ControlCapacity(capacity)
  <2>5. room \in Nat
    BY <2>3, StoreAssumption DEF ControlCapacity
  <2> HIDE DEF room
  <2>6. (controlBytes - 0 + size) + (controlReserved - Reservation + 0) <= room
    BY <2>1, <2>2, <2>3, <2>4, <2>5 DEF room
  <2>7. bytesUsed + ((controlBytes - 0 + size) + (controlReserved - Reservation + 0)) <= capacity
    BY <2>1, <2>2, <2>3, <2>4
  <2> QED BY <2>1, <2>2, <2>3, <2>6, <2>7 DEF ChargeFits, room
<1>2. SInv /\ CountersInv => NeverStranded
  BY <1>1 DEF NeverStranded
<1>3. StoreInit => CountersInv
  BY InitCounters
<1> QED BY <1>2, <1>3, NextCounters, StoreInvariant, PTL DEF StoreSpec

=============================================================================
