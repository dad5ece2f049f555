------------------------ MODULE TraceAdmissionProofs ------------------------
(***************************************************************************)
(* TLAPS proofs about TraceAdmission, for every set of processes, every    *)
(* set of limits, every batch size and any number of rollbacks.            *)
(***************************************************************************)
EXTENDS TraceAdmission, TLAPS

(***************************************************************************)
(* Slots a process holds: reserved by it, durable, not yet granted.        *)
(***************************************************************************)
LeaseHolds(p, w, s) ==
    /\ w = lease[p].window
    /\ lease[p].through - lease[p].remaining < s
    /\ s <= lease[p].through

BatchHolds(p, w, s) ==
    /\ pc[p] = "committed"
    /\ w = call[p].window
    /\ call[p].through - call[p].reserved < s
    /\ s <= call[p].through

Holds(p, w, s) == LeaseHolds(p, w, s) \/ BatchHolds(p, w, s)

\* The local reserve is part of a reservation made within its limit, and a
\* transaction is only run without one.
Shape ==
    \A p \in Process :
      /\ lease[p].remaining <= lease[p].through
      /\ lease[p].through <= lease[p].limit
      /\ pc[p] # "idle" => /\ lease[p] = NoLease
                           /\ call[p].limit \in Limits
      /\ pc[p] = "committed" =>
           /\ call[p].reserved \in 1..call[p].through
           /\ call[p].through <= call[p].limit

\* While the database has not been put back: what is granted or held is
\* durable, nothing held is granted, and no slot has two holders.
Disjoint ==
    rollbacks = 0 =>
      /\ \A w \in Window, s \in Slot :
            /\ granted[w][s] <= 1
            /\ granted[w][s] > 0 => ~Before(row, <<w, s>>)
      /\ \A p \in Process, w \in Window, s \in Slot :
            Holds(p, w, s) => /\ ~Before(row, <<w, s>>)
                              /\ granted[w][s] = 0
                              /\ \A q \in Process \ {p} : ~Holds(q, w, s)

\* Whatever happens to the database: everything an incarnation was granted or
\* keeps in its lease is covered by its high water, and nothing it holds was
\* granted to it before.
Own ==
    \A p \in Process :
      /\ \A w \in Window, s \in Slot :
            /\ mine[p][w][s] <= 1
            /\ mine[p][w][s] > 0 => ~Before(highWater[p], <<w, s>>)
            /\ LeaseHolds(p, w, s) => ~Before(highWater[p], <<w, s>>)
            /\ Holds(p, w, s) => mine[p][w][s] = 0
      /\ pc[p] = "committed" =>
            Before(highWater[p], <<call[p].window, call[p].through>>)

IInv == TypeOK /\ Shape /\ Disjoint /\ Own

-----------------------------------------------------------------------------
\* What validate_trace_admission_observation leaves as the high water is the
\* newer of the two rows.
LEMMA RaisedHighWaterFacts ==
    ASSUME TypeOK, NEW p \in Process
    PROVE  /\ RaisedHighWater(p) \in Row \cup {NoRow}
           /\ ~Before(RaisedHighWater(p), row)
           /\ ~Before(RaisedHighWater(p), highWater[p])
           /\ ~Regressed(p) => RaisedHighWater(p) = row
  <1>1. highWater[p] \in Row \cup {NoRow} /\ row \in Row
    BY DEF TypeOK
  <1> QED
    BY <1>1, ConstantsAssumption
    DEF RaisedHighWater, Regressed, Before, Row, NoRow, Window

\* A batch never exceeds what is left of the limit, and is never empty.
LEMMA ReservedFacts ==
    ASSUME NEW a \in Nat \ {0}
    PROVE  Reserved(a) \in 1..a
  BY ConstantsAssumption DEF Reserved

\* Counting one more grant keeps the counters well typed.
LEMMA GrantFacts ==
    ASSUME TypeOK, NEW p \in Process, NEW w \in Window, NEW s \in Slot,
           Grant(p, w, s)
    PROVE  /\ granted' \in [Window -> [Slot -> Nat]]
           /\ mine' \in [Process -> [Window -> [Slot -> Nat]]]
           /\ \A v \in Window, t \in Slot :
                 granted'[v][t] = IF v = w /\ t = s THEN granted[v][t] + 1
                                                  ELSE granted[v][t]
           /\ \A q \in Process, v \in Window, t \in Slot :
                 mine'[q][v][t] = IF q = p /\ v = w /\ t = s
                                  THEN mine[q][v][t] + 1 ELSE mine[q][v][t]
  BY DEF Grant, TypeOK

-----------------------------------------------------------------------------
(***************************************************************************)
(* Type correctness, together with the shape of the local reserve, which   *)
(* it needs: a spent slot is a slot only because remaining <= through.     *)
(***************************************************************************)
\* A new or a migrated database starts well typed, with no reserve.
LEMMA InitTyped == Init => TypeOK /\ Shape
  BY ConstantsAssumption
  DEF Init, TypeOK, Shape, Row, NoRow, NoLease, NoCall, NoGrants, Call, Lease,
      Window, Slot

\* A call that observes a rolled-back database only drops its lease.
LEMMA ObserveRollbackTyped ==
    ASSUME TypeOK, Shape, NEW p \in Process, pc[p] = "idle",
           NEW w \in Window, NEW limit \in Limits,
           ObserveRollback(p, w, limit), UNCHANGED <<row, rollbacks>>
    PROVE  TypeOK' /\ Shape'
  <1>1. RaisedHighWater(p) \in Row \cup {NoRow}
    BY RaisedHighWaterFacts
  <1>2. NoLease \in Lease
    BY ConstantsAssumption DEF NoLease, Lease, Window
  <1>3. TypeOK'
    BY <1>1, <1>2 DEF ObserveRollback, TypeOK
  <1>4. Shape'
    BY DEF ObserveRollback, TypeOK, Shape, NoLease
  <1> QED
    BY <1>3, <1>4

\* A call that meets a newer durable minute only drops its lease.
LEMMA ObserveNewerMinuteTyped ==
    ASSUME TypeOK, Shape, NEW p \in Process, pc[p] = "idle",
           NEW w \in Window,
           ObserveNewerMinute(p, w), UNCHANGED <<row, rollbacks>>
    PROVE  TypeOK' /\ Shape'
  <1>1. RaisedHighWater(p) \in Row \cup {NoRow}
    BY RaisedHighWaterFacts
  <1>2. NoLease \in Lease /\ row[1] \in Window
    BY ConstantsAssumption DEF NoLease, Lease, Window, TypeOK, Row
  <1>3. TypeOK'
    BY <1>1, <1>2 DEF ObserveNewerMinute, TypeOK
  <1>4. Shape'
    BY DEF ObserveNewerMinute, TypeOK, Shape, NoLease
  <1> QED
    BY <1>3, <1>4

\* A usable lease is the process's own lease: one that a newer minute would
\* have dropped is empty.
LEMMA UsableLeaseFacts ==
    ASSUME TypeOK, Shape, NEW p \in Process, NEW w \in Window,
           NEW limit \in Limits, LeaseUsable(SurvivingLease(p, w), w, limit)
    PROVE  /\ SurvivingLease(p, w) = lease[p]
           /\ lease[p] \in Lease
           /\ lease[p].window = w
           /\ lease[p].limit = limit
           /\ lease[p].remaining \in 1..lease[p].through
           /\ lease[p].through <= limit
           /\ lease[p].through - lease[p].remaining + 1 \in Slot
           /\ LeaseHolds(p, w, lease[p].through - lease[p].remaining + 1)
  <1>1. SurvivingLease(p, w) = lease[p]
    BY DEF LeaseUsable, SurvivingLease, NoLease
  <1>2. lease[p] \in Lease
    BY DEF TypeOK
  <1>3. /\ lease[p].remaining \in 0..Ceiling
        /\ lease[p].through \in 0..Ceiling
    BY <1>2 DEF Lease
  <1>4. /\ lease[p].window = w
        /\ lease[p].limit = limit
        /\ lease[p].remaining > 0
    BY <1>1 DEF LeaseUsable
  <1>5. /\ lease[p].remaining <= lease[p].through
        /\ lease[p].through <= lease[p].limit
    BY DEF Shape
  <1> QED
    BY <1>1, <1>2, <1>3, <1>4, <1>5, ConstantsAssumption
    DEF Slot, LeaseHolds

\* Spending from the lease leaves a smaller lease of the same batch.
LEMMA SpendLeaseTyped ==
    ASSUME TypeOK, Shape, NEW p \in Process, pc[p] = "idle",
           NEW w \in Window, NEW limit \in Limits,
           SpendLease(p, w, limit), UNCHANGED <<row, rollbacks>>
    PROVE  TypeOK' /\ Shape'
  <1> DEFINE l == lease[p]
  <1>1. RaisedHighWater(p) \in Row \cup {NoRow}
    BY RaisedHighWaterFacts
  <1>2. /\ SurvivingLease(p, w) = l
        /\ l \in Lease
        /\ l.remaining \in 1..l.through
        /\ l.through - l.remaining + 1 \in Slot
    BY UsableLeaseFacts DEF SpendLease
  <1>3. /\ granted' \in [Window -> [Slot -> Nat]]
        /\ mine' \in [Process -> [Window -> [Slot -> Nat]]]
    BY <1>2, GrantFacts DEF SpendLease
  <1>4. Asked(w, limit) \in Call
    BY ConstantsAssumption DEF Asked, Call
  <1>5. l.remaining - 1 \in 0..Ceiling
    BY <1>2, ConstantsAssumption DEF Lease
  <1>6. [l EXCEPT !.remaining = @ - 1] \in Lease
    BY <1>2, <1>5 DEF Lease
  <1>7. TypeOK'
    BY <1>1, <1>2, <1>3, <1>4, <1>6 DEF SpendLease, TypeOK
  <1>8. Shape'
    BY <1>2, <1>6 DEF SpendLease, TypeOK, Shape, Lease
  <1> QED
    BY <1>7, <1>8

\* Going on to the transaction burns the lease and records the request.
LEMMA BeginReserveTyped ==
    ASSUME TypeOK, Shape, NEW p \in Process, pc[p] = "idle",
           NEW w \in Window, NEW limit \in Limits,
           BeginReserve(p, w, limit), UNCHANGED <<row, rollbacks>>
    PROVE  TypeOK' /\ Shape'
  <1>1. RaisedHighWater(p) \in Row \cup {NoRow}
    BY RaisedHighWaterFacts
  <1>2. NoLease \in Lease
    BY ConstantsAssumption DEF NoLease, Lease, Window
  <1>3. Asked(w, limit) \in Call /\ Asked(w, limit).limit = limit
    BY ConstantsAssumption DEF Asked, Call
  <1>4. TypeOK'
    BY <1>1, <1>2, <1>3 DEF BeginReserve, TypeOK
  <1>5. Shape'
    BY <1>3 DEF BeginReserve, TypeOK, Shape, NoLease
  <1> QED
    BY <1>4, <1>5

\* What the transaction of a call reserves: the slots that follow the durable
\* count, at least one of them and none beyond the call's limit.
LEMMA CommitFacts ==
    ASSUME TypeOK, Shape, NEW p \in Process, Commit(p)
    PROVE  /\ call[p].window \in Window
           /\ call[p].limit \in Limits
           /\ Admitted(call[p].window) \in 0..Ceiling
           /\ row' = <<call[p].window, call'[p].through>>
           /\ call' = [call EXCEPT ![p] = call'[p]]
           /\ call'[p] \in Call
           /\ call'[p].window = call[p].window
           /\ call'[p].limit = call[p].limit
           /\ call'[p].reserved \in 1..call'[p].through
           /\ call'[p].through - call'[p].reserved = Admitted(call[p].window)
           /\ call'[p].through <= call[p].limit
           /\ call'[p].through \in Slot
  <1> DEFINE c == call[p]
             a == Admitted(c.window)
             r == Reserved(c.limit - a)
  <1>1. c \in Call /\ c.window \in Window
    BY DEF TypeOK, Call
  <1>2. c.limit \in Limits /\ c.limit \in 1..Ceiling
    BY ConstantsAssumption DEF Shape, Commit
  <1>3. a \in 0..Ceiling
    BY ConstantsAssumption DEF Admitted, TypeOK, Row
  <1>4. r \in 1..(c.limit - a)
    <2>1. c.limit - a \in Nat \ {0}
      BY <1>2, <1>3 DEF Commit
    <2> QED
      BY <2>1, ReservedFacts
  <1>5. call' = [call EXCEPT ![p] = [@ EXCEPT !.reserved = r,
                                             !.through = a + r]]
    BY DEF Commit
  <1>6. /\ call'[p] = [c EXCEPT !.reserved = r, !.through = a + r]
        /\ call' = [call EXCEPT ![p] = call'[p]]
    BY <1>5 DEF TypeOK
  <1>7. row' = <<c.window, a + r>>
    BY DEF Commit
  <1> HIDE DEF a, r
  <1>8. /\ r \in 0..Ceiling
        /\ a + r \in 1..c.limit
        /\ a + r \in 0..Ceiling
        /\ a + r \in 1..Ceiling
    BY <1>2, <1>3, <1>4, ConstantsAssumption
  <1>9. /\ call'[p] \in Call
        /\ call'[p].window = c.window
        /\ call'[p].limit = c.limit
        /\ call'[p].reserved = r
        /\ call'[p].through = a + r
    BY <1>1, <1>6, <1>8 DEF Call
  <1> QED
    BY <1>1, <1>2, <1>3, <1>4, <1>6, <1>7, <1>8, <1>9 DEF Slot, a

\* The commit raises the durable count by at most what the limit leaves.
LEMMA CommitTyped ==
    ASSUME TypeOK, Shape, NEW p \in Process, Commit(p)
    PROVE  TypeOK' /\ Shape'
  <1>1. RaisedHighWater(p) \in Row \cup {NoRow}
    BY RaisedHighWaterFacts
  <1>2. row' \in Row
    BY CommitFacts DEF Row, Slot
  <1>3. TypeOK'
    BY <1>1, <1>2, CommitFacts DEF Commit, TypeOK
  <1>4. Shape'
    BY CommitFacts DEF Commit, TypeOK, Shape
  <1> QED
    BY <1>3, <1>4

\* A rolled-back transaction leaves the row as it was.
LEMMA RefuseTyped ==
    ASSUME TypeOK, Shape, NEW p \in Process, Refuse(p)
    PROVE  TypeOK' /\ Shape'
  <1>1. RaisedHighWater(p) \in Row \cup {NoRow} /\ row[1] \in Window
    BY RaisedHighWaterFacts DEF TypeOK, Row
  <1>2. TypeOK'
    BY <1>1 DEF Refuse, TypeOK
  <1>3. Shape'
    BY DEF Refuse, TypeOK, Shape
  <1> QED
    BY <1>2, <1>3

\* A failed commit leaves the row as it was.
LEMMA CommitFailsTyped ==
    ASSUME TypeOK, Shape, NEW p \in Process, CommitFails(p)
    PROVE  TypeOK' /\ Shape'
  <1>1. RaisedHighWater(p) \in Row \cup {NoRow}
    BY RaisedHighWaterFacts
  <1>2. TypeOK'
    BY <1>1 DEF CommitFails, TypeOK
  <1>3. Shape'
    BY DEF CommitFails, TypeOK, Shape
  <1> QED
    BY <1>2, <1>3

\* The first slot of a committed batch, which Publish grants.
LEMMA PublishFacts ==
    ASSUME TypeOK, Shape, NEW p \in Process, pc[p] = "committed"
    PROVE  /\ call[p] \in Call
           /\ call[p].window \in Window
           /\ call[p].limit \in Limits
           /\ call[p].reserved \in 1..call[p].through
           /\ call[p].through \in Slot
           /\ call[p].through <= call[p].limit
           /\ call[p].through - call[p].reserved + 1 \in Slot
           /\ BatchHolds(p, call[p].window,
                         call[p].through - call[p].reserved + 1)
  <1>1. /\ call[p] \in Call
        /\ call[p].window \in Window
        /\ call[p].through \in 0..Ceiling
        /\ call[p].reserved \in 0..Ceiling
    BY DEF TypeOK, Call
  <1>2. /\ call[p].reserved \in 1..call[p].through
        /\ call[p].through <= call[p].limit
        /\ call[p].limit \in Limits
    BY DEF Shape
  <1> QED
    BY <1>1, <1>2, ConstantsAssumption DEF Slot, BatchHolds

\* Publishing a committed batch grants its first slot and keeps the rest.
LEMMA PublishTyped ==
    ASSUME TypeOK, Shape, NEW p \in Process, Publish(p)
    PROVE  TypeOK' /\ Shape'
  <1> DEFINE c == call[p]
             l == [window |-> c.window, limit |-> c.limit,
                   remaining |-> c.reserved - 1, through |-> c.through]
  <1>1. /\ c.window \in Window
        /\ c.limit \in Limits
        /\ c.reserved \in 1..c.through
        /\ c.through \in Slot
        /\ c.through <= c.limit
        /\ c.through - c.reserved + 1 \in Slot
    BY PublishFacts DEF Publish
  <1>2. /\ granted' \in [Window -> [Slot -> Nat]]
        /\ mine' \in [Process -> [Window -> [Slot -> Nat]]]
    BY <1>1, GrantFacts DEF Publish
  <1>3. l \in Lease
    BY <1>1, ConstantsAssumption DEF Lease, Slot
  <1>4. <<c.window, c.through>> \in Row
    BY <1>1, ConstantsAssumption DEF Row, Slot
  <1>5. TypeOK'
    BY <1>2, <1>3, <1>4 DEF Publish, TypeOK
  <1>6. l.remaining <= l.through /\ l.through <= l.limit
    BY <1>1, ConstantsAssumption DEF Slot
  <1>7. lease' = [lease EXCEPT ![p] = l] /\ UNCHANGED call
        /\ pc' = [pc EXCEPT ![p] = "idle"]
    BY DEF Publish
  <1> HIDE DEF l
  <1>8. Shape'
    BY <1>6, <1>7 DEF TypeOK, Shape
  <1> QED
    BY <1>5, <1>8

\* A restart forgets everything that charge_trace_admission keeps in memory.
LEMMA RestartTyped ==
    ASSUME TypeOK, Shape, NEW p \in Process, Restart(p)
    PROVE  TypeOK' /\ Shape'
  <1>1. NoLease \in Lease /\ NoCall \in Call /\ 0 \in Window
    BY ConstantsAssumption DEF NoLease, NoCall, Lease, Call, Window
  <1>2. NoGrants \in [Window -> [Slot -> Nat]]
    BY DEF NoGrants
  <1>3. TypeOK'
    BY <1>1, <1>2 DEF Restart, TypeOK
  <1>4. Shape'
    BY DEF Restart, TypeOK, Shape, NoLease
  <1> QED
    BY <1>3, <1>4

\* A restored backup holds a row like any other.
LEMMA RollbackTyped ==
    ASSUME TypeOK, Shape, Rollback
    PROVE  TypeOK' /\ Shape'
  <1>1. TypeOK'
    BY ConstantsAssumption DEF Rollback, TypeOK
  <1>2. Shape'
    BY DEF Rollback, Shape
  <1> QED
    BY <1>1, <1>2

-----------------------------------------------------------------------------
(***************************************************************************)
(* The inductive step of Disjoint and Own.                                 *)
(***************************************************************************)
Pair == Int \X Int

\* Rows, and the absent row, are pairs of integers, so Before orders them.
LEMMA RowsArePairs == Row \cup {NoRow} \subseteq Pair
  BY ConstantsAssumption DEF Row, NoRow, Pair, Window

\* "Not before" is the total order >= on rows.
LEMMA NotBeforeTransitive ==
    ASSUME NEW a \in Pair, NEW b \in Pair, NEW c \in Pair,
           ~Before(a, b), ~Before(b, c)
    PROVE  ~Before(a, c)
  BY DEF Before, Pair

\* A slot of a minute is compared with a row as such a pair.
LEMMA SlotsArePairs ==
    ASSUME NEW w \in Window, NEW s \in Slot
    PROVE  <<w, s>> \in Pair
  BY ConstantsAssumption DEF Pair, Window, Slot

\* A process that gives up its reserve holds nothing.
LEMMA NoLeaseHoldsNothing ==
    ASSUME NEW p \in Process, NEW w \in Window, NEW s \in Slot,
           lease[p] = NoLease
    PROVE  ~LeaseHolds(p, w, s)
  BY ConstantsAssumption DEF NoLease, LeaseHolds, Slot

\* Steps that grant nothing, reserve nothing and leave the row alone.
LEMMA DisjointKept ==
    ASSUME Disjoint, UNCHANGED <<row, granted, rollbacks>>,
           \A q \in Process, w \in Window, s \in Slot :
              Holds(q, w, s)' => Holds(q, w, s)
    PROVE  Disjoint'
  BY DEF Disjoint

\* Steps that grant and reserve nothing, and lower no high water.
LEMMA OwnKept ==
    ASSUME TypeOK, TypeOK', Own, mine' = mine,
           \A q \in Process : ~Before(highWater'[q], highWater[q]),
           \A q \in Process, w \in Window, s \in Slot :
              /\ LeaseHolds(q, w, s)' => LeaseHolds(q, w, s)
              /\ BatchHolds(q, w, s)' => BatchHolds(q, w, s),
           \A q \in Process : pc'[q] = "committed" =>
              /\ pc[q] = "committed"
              /\ call'[q] = call[q]
              /\ highWater'[q] = highWater[q]
    PROVE  Own'
  <1> SUFFICES ASSUME NEW q \in Process
               PROVE  /\ \A w \in Window, s \in Slot :
                            /\ mine'[q][w][s] <= 1
                            /\ mine'[q][w][s] > 0 =>
                                  ~Before(highWater'[q], <<w, s>>)
                            /\ LeaseHolds(q, w, s)' =>
                                  ~Before(highWater'[q], <<w, s>>)
                            /\ Holds(q, w, s)' => mine'[q][w][s] = 0
                      /\ pc'[q] = "committed" =>
                            Before(highWater'[q],
                                   <<call'[q].window, call'[q].through>>)
    BY DEF Own
  <1>1. highWater[q] \in Pair /\ highWater'[q] \in Pair
    BY RowsArePairs DEF TypeOK
  <1>2. ASSUME NEW w \in Window, NEW s \in Slot,
               ~Before(highWater[q], <<w, s>>)
        PROVE  ~Before(highWater'[q], <<w, s>>)
    BY <1>1, <1>2, SlotsArePairs, NotBeforeTransitive
  <1>3. ASSUME NEW w \in Window, NEW s \in Slot
        PROVE  /\ mine'[q][w][s] <= 1
               /\ mine'[q][w][s] > 0 => ~Before(highWater'[q], <<w, s>>)
               /\ LeaseHolds(q, w, s)' => ~Before(highWater'[q], <<w, s>>)
               /\ Holds(q, w, s)' => mine'[q][w][s] = 0
    BY <1>2 DEF Own, Holds
  <1>4. pc'[q] = "committed" =>
          Before(highWater'[q], <<call'[q].window, call'[q].through>>)
    BY DEF Own
  <1> QED
    BY <1>3, <1>4

\* The calls that end before the transaction without a grant, and the
\* transactions that are rolled back, only ever give a reserve up.
LEMMA GiveUpStep ==
    ASSUME TypeOK, TypeOK', Shape, Disjoint, Own, NEW p \in Process,
           UNCHANGED <<row, rollbacks, granted, mine>>,
           highWater' = [highWater EXCEPT ![p] = RaisedHighWater(p)]
             \/ highWater' = highWater,
           lease' = [lease EXCEPT ![p] = NoLease] \/ lease' = lease,
           \A q \in Process \ {p} : pc'[q] = pc[q] /\ call'[q] = call[q],
           pc'[p] # "committed"
    PROVE  Disjoint' /\ Own'
  <1>1. ASSUME NEW q \in Process, NEW w \in Window, NEW s \in Slot
        PROVE  /\ LeaseHolds(q, w, s)' => LeaseHolds(q, w, s)
               /\ BatchHolds(q, w, s)' => BatchHolds(q, w, s)
    <2>1. LeaseHolds(q, w, s)' => LeaseHolds(q, w, s)
      <3>1. lease'[q] = lease[q] \/ lease'[q] = NoLease
        BY DEF TypeOK
      <3>2. CASE lease'[q] = lease[q]
        BY <3>2 DEF LeaseHolds
      <3>3. CASE lease'[q] = NoLease
        BY <3>3, ConstantsAssumption DEF LeaseHolds, NoLease, Slot
      <3> QED
        BY <3>1, <3>2, <3>3
    <2>2. BatchHolds(q, w, s)' => BatchHolds(q, w, s)
      BY DEF BatchHolds
    <2> QED
      BY <2>1, <2>2
  <1>2. Disjoint'
    BY <1>1, DisjointKept DEF Holds
  <1>3. \A q \in Process : ~Before(highWater'[q], highWater[q])
    <2> TAKE q \in Process
    <2>1. highWater[q] \in Pair
      BY RowsArePairs DEF TypeOK
    <2>2. ~Before(highWater[q], highWater[q])
      BY <2>1 DEF Before, Pair
    <2>3. highWater'[q] = highWater[q]
          \/ (q = p /\ highWater'[q] = RaisedHighWater(p))
      BY DEF TypeOK
    <2> QED
      BY <2>2, <2>3, RaisedHighWaterFacts
  <1>4. \A q \in Process : pc'[q] = "committed" =>
          /\ pc[q] = "committed"
          /\ call'[q] = call[q]
          /\ highWater'[q] = highWater[q]
    BY DEF TypeOK
  <1>5. Own'
    BY <1>1, <1>3, <1>4, OwnKept
  <1> QED
    BY <1>2, <1>5

\* Granting a slot that the process holds, and no longer holding it.
LEMMA GrantStep ==
    ASSUME TypeOK, TypeOK', Disjoint, Own,
           NEW p \in Process, NEW w \in Window, NEW s \in Slot,
           Holds(p, w, s), Grant(p, w, s), UNCHANGED <<row, rollbacks>>,
           \A q \in Process \ {p} : /\ pc'[q] = pc[q]
                                    /\ call'[q] = call[q]
                                    /\ lease'[q] = lease[q]
                                    /\ highWater'[q] = highWater[q],
           pc'[p] # "committed",
           \A v \in Window, t \in Slot : LeaseHolds(p, v, t)' =>
              /\ Holds(p, v, t)
              /\ ~(v = w /\ t = s)
              /\ ~Before(highWater'[p], <<v, t>>),
           ~Before(highWater'[p], highWater[p]),
           ~Before(highWater'[p], <<w, s>>)
    PROVE  Disjoint' /\ Own'
  <1>1. /\ \A v \in Window, t \in Slot :
              granted'[v][t] = IF v = w /\ t = s THEN granted[v][t] + 1
                                               ELSE granted[v][t]
        /\ \A q \in Process, v \in Window, t \in Slot :
              mine'[q][v][t] = IF q = p /\ v = w /\ t = s
                               THEN mine[q][v][t] + 1 ELSE mine[q][v][t]
    BY GrantFacts
  <1>2. \A q \in Process, v \in Window, t \in Slot :
          Holds(q, v, t)' => Holds(q, v, t) /\ ~(q = p /\ v = w /\ t = s)
    <2> TAKE q \in Process, v \in Window, t \in Slot
    <2>1. CASE q = p
      BY <2>1 DEF Holds, BatchHolds
    <2>2. CASE q # p
      BY <2>2 DEF Holds, LeaseHolds, BatchHolds
    <2> QED
      BY <2>1, <2>2
  <1>3. Disjoint'
    <2> SUFFICES ASSUME rollbacks = 0, NEW v \in Window, NEW t \in Slot
                 PROVE  /\ granted'[v][t] <= 1
                        /\ granted'[v][t] > 0 => ~Before(row, <<v, t>>)
                        /\ \A q \in Process : Holds(q, v, t)' =>
                              /\ ~Before(row, <<v, t>>)
                              /\ granted'[v][t] = 0
                              /\ \A r \in Process \ {q} : ~Holds(r, v, t)'
      BY DEF Disjoint
    <2>1. /\ granted[v][t] <= 1
          /\ granted[v][t] > 0 => ~Before(row, <<v, t>>)
          /\ \A q \in Process : Holds(q, v, t) =>
                /\ ~Before(row, <<v, t>>)
                /\ granted[v][t] = 0
                /\ \A r \in Process \ {q} : ~Holds(r, v, t)
      BY DEF Disjoint
    <2>2. granted[v][t] \in Nat
      BY DEF TypeOK
    <2>3. CASE v = w /\ t = s
      <3>1. ~Before(row, <<v, t>>) /\ granted[v][t] = 0
        BY <2>1, <2>3
      <3>2. \A q \in Process : ~Holds(q, v, t)'
        BY <1>2, <2>1, <2>3
      <3> QED
        BY <1>1, <2>3, <3>1, <3>2
    <2>4. CASE ~(v = w /\ t = s)
      <3>1. granted'[v][t] = granted[v][t]
        BY <1>1, <2>4
      <3> QED
        BY <1>2, <2>1, <3>1
    <2> QED
      BY <2>3, <2>4
  <1>4. Own'
    <2> SUFFICES ASSUME NEW q \in Process
                 PROVE  /\ \A v \in Window, t \in Slot :
                              /\ mine'[q][v][t] <= 1
                              /\ mine'[q][v][t] > 0 =>
                                    ~Before(highWater'[q], <<v, t>>)
                              /\ LeaseHolds(q, v, t)' =>
                                    ~Before(highWater'[q], <<v, t>>)
                              /\ Holds(q, v, t)' => mine'[q][v][t] = 0
                        /\ pc'[q] = "committed" =>
                              Before(highWater'[q],
                                     <<call'[q].window, call'[q].through>>)
      BY DEF Own
    <2>1. /\ \A v \in Window, t \in Slot :
                /\ mine[q][v][t] <= 1
                /\ mine[q][v][t] > 0 => ~Before(highWater[q], <<v, t>>)
                /\ LeaseHolds(q, v, t) => ~Before(highWater[q], <<v, t>>)
                /\ Holds(q, v, t) => mine[q][v][t] = 0
          /\ pc[q] = "committed" =>
                Before(highWater[q], <<call[q].window, call[q].through>>)
      BY DEF Own
    <2>2. CASE q # p
      <3>1. \A v \in Window, t \in Slot :
              /\ mine'[q][v][t] = mine[q][v][t]
              /\ LeaseHolds(q, v, t)' => LeaseHolds(q, v, t)
        BY <1>1, <2>2 DEF LeaseHolds
      <3> QED
        BY <1>2, <2>1, <2>2, <3>1
    <2>3. CASE q = p
      <3> SUFFICES ASSUME NEW v \in Window, NEW t \in Slot
                   PROVE  /\ mine'[p][v][t] <= 1
                          /\ mine'[p][v][t] > 0 =>
                                ~Before(highWater'[p], <<v, t>>)
                          /\ LeaseHolds(p, v, t)' =>
                                ~Before(highWater'[p], <<v, t>>)
                          /\ Holds(p, v, t)' => mine'[p][v][t] = 0
        BY <2>3
      <3>1. mine[p][v][t] \in Nat
        BY DEF TypeOK
      <3>2. CASE v = w /\ t = s
        BY <1>1, <1>2, <2>1, <2>3, <3>1, <3>2
      <3>3. CASE ~(v = w /\ t = s)
        <4>1. mine'[p][v][t] = mine[p][v][t]
          BY <1>1, <3>3
        <4>2. ~Before(highWater[p], <<v, t>>) =>
                ~Before(highWater'[p], <<v, t>>)
          <5>1. /\ highWater[p] \in Pair
                /\ highWater'[p] \in Pair
                /\ <<v, t>> \in Pair
            BY RowsArePairs, SlotsArePairs DEF TypeOK
          <5> QED
            BY <5>1, NotBeforeTransitive
        <4> QED
          BY <1>2, <2>1, <2>3, <4>1, <4>2
      <3> QED
        BY <3>2, <3>3
    <2> QED
      BY <2>2, <2>3
  <1> QED
    BY <1>3, <1>4

\* SpendLease preserves both histories: the slot it grants leaves the lease.
LEMMA SpendLeaseStep ==
    ASSUME TypeOK, TypeOK', Shape, Disjoint, Own, NEW p \in Process,
           pc[p] = "idle", NEW w \in Window, NEW limit \in Limits,
           SpendLease(p, w, limit), UNCHANGED <<row, rollbacks>>
    PROVE  Disjoint' /\ Own'
  <1> DEFINE l == lease[p]
             s == l.through - l.remaining + 1
  <1>1. /\ SurvivingLease(p, w) = l
        /\ l \in Lease
        /\ l.window = w
        /\ l.remaining \in 1..l.through
        /\ s \in Slot
        /\ LeaseHolds(p, w, s)
    BY UsableLeaseFacts DEF SpendLease
  <1>2. l.remaining \in Nat /\ l.through \in Nat
    BY <1>1, ConstantsAssumption DEF Lease
  <1>3. /\ lease'[p].window = w
        /\ lease'[p].through = l.through
        /\ lease'[p].remaining = l.remaining - 1
    BY <1>1 DEF SpendLease, TypeOK, Lease
  <1>4. Grant(p, w, s)
    BY <1>1 DEF SpendLease
  <1>5. /\ highWater'[p] = RaisedHighWater(p)
        /\ ~Before(highWater'[p], highWater[p])
    BY RaisedHighWaterFacts DEF SpendLease, TypeOK
  <1>6. \A v \in Window, t \in Slot : LeaseHolds(p, v, t)' =>
          /\ LeaseHolds(p, v, t)
          /\ ~(v = w /\ t = s)
    BY <1>1, <1>2, <1>3, ConstantsAssumption DEF LeaseHolds, Slot
  <1>7. \A v \in Window, t \in Slot : LeaseHolds(p, v, t) =>
          ~Before(highWater'[p], <<v, t>>)
    <2> TAKE v \in Window, t \in Slot
    <2>1. /\ highWater[p] \in Pair
          /\ highWater'[p] \in Pair
          /\ <<v, t>> \in Pair
      BY RowsArePairs, SlotsArePairs DEF TypeOK
    <2>2. LeaseHolds(p, v, t) => ~Before(highWater[p], <<v, t>>)
      BY DEF Own
    <2> QED
      BY <1>5, <2>1, <2>2, NotBeforeTransitive
  <1>8. \A q \in Process \ {p} : /\ pc'[q] = pc[q]
                                 /\ call'[q] = call[q]
                                 /\ lease'[q] = lease[q]
                                 /\ highWater'[q] = highWater[q]
    BY DEF SpendLease, TypeOK
  <1>9. pc'[p] # "committed"
    BY DEF SpendLease
  <1> HIDE DEF s, l
  <1> QED
    BY <1>1, <1>4, <1>5, <1>6, <1>7, <1>8, <1>9, GrantStep DEF Holds

\* Publish preserves both histories: the slot it grants leaves the batch.
LEMMA PublishStep ==
    ASSUME TypeOK, TypeOK', Shape, Disjoint, Own, NEW p \in Process, Publish(p)
    PROVE  Disjoint' /\ Own'
  <1> DEFINE c == call[p]
             w == c.window
             s == c.through - c.reserved + 1
  <1>1. pc[p] = "committed"
    BY DEF Publish
  <1>2. /\ w \in Window
        /\ c.reserved \in 1..c.through
        /\ c.through \in Slot
        /\ s \in Slot
        /\ BatchHolds(p, w, s)
    BY <1>1, PublishFacts
  <1>3. /\ lease'[p].window = w
        /\ lease'[p].through = c.through
        /\ lease'[p].remaining = c.reserved - 1
    BY DEF Publish, TypeOK
  <1>4. Grant(p, w, s)
    BY DEF Publish
  <1>5. highWater'[p] = <<w, c.through>>
    BY DEF Publish, TypeOK
  <1>6. ~Before(highWater'[p], highWater[p])
    <2>1. Before(highWater[p], <<w, c.through>>)
      BY <1>1 DEF Own
    <2>2. highWater[p] \in Pair /\ <<w, c.through>> \in Pair
      BY <1>2, RowsArePairs, SlotsArePairs DEF TypeOK
    <2> QED
      BY <1>5, <2>1, <2>2 DEF Before, Pair
  <1>7. \A v \in Window, t \in Slot : LeaseHolds(p, v, t)' =>
          /\ BatchHolds(p, v, t)
          /\ ~(v = w /\ t = s)
          /\ v = w
          /\ t <= c.through
    BY <1>1, <1>2, <1>3, ConstantsAssumption
    DEF LeaseHolds, BatchHolds, Slot
  <1>8. \A t \in Slot : t <= c.through => ~Before(highWater'[p], <<w, t>>)
    BY <1>2, <1>5, ConstantsAssumption DEF Before, Slot, Window
  <1>9. s <= c.through
    BY <1>2, ConstantsAssumption DEF Slot
  <1>10. \A q \in Process \ {p} : /\ pc'[q] = pc[q]
                                  /\ call'[q] = call[q]
                                  /\ lease'[q] = lease[q]
                                  /\ highWater'[q] = highWater[q]
    BY DEF Publish, TypeOK
  <1>11. pc'[p] # "committed" /\ UNCHANGED <<row, rollbacks>>
    BY DEF Publish, TypeOK
  <1> HIDE DEF c, w, s
  <1> QED
    <2>1. \A v \in Window, t \in Slot : LeaseHolds(p, v, t)' =>
            /\ Holds(p, v, t)
            /\ ~(v = w /\ t = s)
            /\ ~Before(highWater'[p], <<v, t>>)
      BY <1>7, <1>8 DEF Holds
    <2>2. Holds(p, w, s) /\ ~Before(highWater'[p], <<w, s>>)
      BY <1>2, <1>8, <1>9 DEF Holds
    <2> QED
      BY <1>2, <1>4, <1>6, <1>10, <1>11, <2>1, <2>2, GrantStep

\* The slots of a new batch follow the durable row, hence everything that was
\* reserved before by anyone.
LEMMA CommitStep ==
    ASSUME TypeOK, TypeOK', Shape, Disjoint, Own, NEW p \in Process, Commit(p)
    PROVE  Disjoint' /\ Own'
  <1> DEFINE w == call[p].window
             a == Admitted(w)
             c == call'[p]
  <1>1. /\ w \in Window
        /\ a \in 0..Ceiling
        /\ row' = <<w, c.through>>
        /\ c.window = w
        /\ c.reserved \in 1..c.through
        /\ c.through - c.reserved = a
        /\ c.through \in Slot
    BY CommitFacts
  <1>2. row \in Pair /\ row' \in Pair /\ highWater[p] \in Pair
    BY RowsArePairs DEF TypeOK
  <1>3. /\ w >= row[1]
        /\ a = IF w > row[1] THEN 0 ELSE row[2]
        /\ UNCHANGED <<lease, granted, mine, rollbacks>>
        /\ pc[p] = "reserve"
        /\ pc' = [pc EXCEPT ![p] = "committed"]
        /\ ~Regressed(p)
    BY DEF Commit, Admitted
  <1>4. ~Before(row', row)
    BY <1>1, <1>2, <1>3, ConstantsAssumption DEF Before, Pair, Window, Slot
  <1>5. highWater'[p] = row
    BY <1>3, RaisedHighWaterFacts DEF Commit, TypeOK
  <1>6. \A q \in Process \ {p} : /\ pc'[q] = pc[q]
                                 /\ call'[q] = call[q]
                                 /\ lease'[q] = lease[q]
                                 /\ highWater'[q] = highWater[q]
    BY DEF Commit, TypeOK
  <1>7. ASSUME NEW v \in Window, NEW t \in Slot
        PROVE  BatchHolds(p, v, t)' =>
                 /\ v = w
                 /\ Before(row, <<v, t>>)
                 /\ ~Before(row', <<v, t>>)
    BY <1>1, <1>2, <1>3, ConstantsAssumption
    DEF BatchHolds, Before, Pair, Window, Slot
  <1>8. lease[p] = NoLease
    BY <1>3 DEF Shape
  <1>9. \A v \in Window, t \in Slot :
          Holds(p, v, t)' => BatchHolds(p, v, t)'
    BY <1>3, <1>8, ConstantsAssumption DEF Holds, LeaseHolds, NoLease, Slot
  <1>10. \A q \in Process \ {p}, v \in Window, t \in Slot :
           Holds(q, v, t)' <=> Holds(q, v, t)
    BY <1>6 DEF Holds, LeaseHolds, BatchHolds
  <1> HIDE DEF w, a, c
  <1>11. Disjoint'
    <2> SUFFICES ASSUME rollbacks = 0, NEW v \in Window, NEW t \in Slot
                 PROVE  /\ granted[v][t] <= 1
                        /\ granted[v][t] > 0 => ~Before(row', <<v, t>>)
                        /\ \A q \in Process : Holds(q, v, t)' =>
                              /\ ~Before(row', <<v, t>>)
                              /\ granted[v][t] = 0
                              /\ \A r \in Process \ {q} : ~Holds(r, v, t)'
      BY <1>3 DEF Disjoint
    <2>1. /\ granted[v][t] <= 1
          /\ granted[v][t] > 0 => ~Before(row, <<v, t>>)
          /\ \A q \in Process : Holds(q, v, t) =>
                /\ ~Before(row, <<v, t>>)
                /\ granted[v][t] = 0
                /\ \A r \in Process \ {q} : ~Holds(r, v, t)
      BY DEF Disjoint
    <2>2. granted[v][t] \in Nat
      BY DEF TypeOK
    <2>3. ~Before(row, <<v, t>>) => ~Before(row', <<v, t>>)
      BY <1>2, <1>4, SlotsArePairs, NotBeforeTransitive
    <2>4. CASE Holds(p, v, t)'
      <3>1. Before(row, <<v, t>>) /\ ~Before(row', <<v, t>>)
        BY <1>7, <1>9, <2>4
      <3>2. granted[v][t] = 0
        BY <2>1, <2>2, <3>1
      <3>3. \A r \in Process \ {p} : ~Holds(r, v, t)'
        BY <1>10, <2>1, <3>1
      <3> QED
        BY <2>1, <2>2, <3>1, <3>2, <3>3
    <2>5. CASE ~Holds(p, v, t)'
      BY <1>10, <2>1, <2>3, <2>5
    <2> QED
      BY <2>4, <2>5
  <1>12. Own'
    <2> SUFFICES ASSUME NEW q \in Process
                 PROVE  /\ \A v \in Window, t \in Slot :
                              /\ mine'[q][v][t] <= 1
                              /\ mine'[q][v][t] > 0 =>
                                    ~Before(highWater'[q], <<v, t>>)
                              /\ LeaseHolds(q, v, t)' =>
                                    ~Before(highWater'[q], <<v, t>>)
                              /\ Holds(q, v, t)' => mine'[q][v][t] = 0
                        /\ pc'[q] = "committed" =>
                              Before(highWater'[q],
                                     <<call'[q].window, call'[q].through>>)
      BY DEF Own
    <2>1. /\ \A v \in Window, t \in Slot :
                /\ mine[q][v][t] <= 1
                /\ mine[q][v][t] > 0 => ~Before(highWater[q], <<v, t>>)
                /\ LeaseHolds(q, v, t) => ~Before(highWater[q], <<v, t>>)
                /\ Holds(q, v, t) => mine[q][v][t] = 0
          /\ pc[q] = "committed" =>
                Before(highWater[q], <<call[q].window, call[q].through>>)
      BY DEF Own
    <2>2. CASE q # p
      <3>1. \A v \in Window, t \in Slot :
              LeaseHolds(q, v, t)' => LeaseHolds(q, v, t)
        BY <1>6, <2>2 DEF LeaseHolds
      <3> QED
        BY <1>3, <1>6, <1>10, <2>1, <2>2, <3>1
    <2>3. CASE q = p
      <3>1. ASSUME NEW v \in Window, NEW t \in Slot
            PROVE  /\ mine[p][v][t] <= 1
                   /\ mine[p][v][t] > 0 => ~Before(row, <<v, t>>)
                   /\ ~LeaseHolds(p, v, t)'
                   /\ Holds(p, v, t)' => mine[p][v][t] = 0
        <4>1. mine[p][v][t] \in Nat
          BY DEF TypeOK
        <4>2. ~Before(row, highWater[p])
          BY <1>3 DEF Regressed
        <4>3. mine[p][v][t] > 0 => ~Before(row, <<v, t>>)
          BY <1>2, <2>1, <2>3, <4>2, SlotsArePairs, NotBeforeTransitive
        <4>4. ~LeaseHolds(p, v, t)'
          BY <1>3, <1>8, ConstantsAssumption DEF LeaseHolds, NoLease, Slot
        <4> QED
          BY <1>7, <1>9, <2>1, <2>3, <4>1, <4>3, <4>4
      <3>2. Before(row, <<c.window, c.through>>)
        BY <1>1, <1>2, <1>3, ConstantsAssumption
        DEF Before, Pair, Window, Slot
      <3> QED
        BY <1>3, <1>5, <2>3, <3>1, <3>2 DEF c
    <2> QED
      BY <2>2, <2>3
  <1> QED
    BY <1>11, <1>12

\* Restart preserves both histories: a lost lease is never granted again.
LEMMA RestartStep ==
    ASSUME TypeOK, TypeOK', Shape, Disjoint, Own, NEW p \in Process, Restart(p)
    PROVE  Disjoint' /\ Own'
  <1>1. /\ lease'[p] = NoLease
        /\ pc'[p] = "idle"
        /\ mine'[p] = NoGrants
        /\ UNCHANGED <<row, rollbacks, granted>>
    BY DEF Restart, TypeOK
  <1>2. \A q \in Process \ {p} : /\ pc'[q] = pc[q]
                                 /\ call'[q] = call[q]
                                 /\ lease'[q] = lease[q]
                                 /\ highWater'[q] = highWater[q]
                                 /\ mine'[q] = mine[q]
    BY DEF Restart, TypeOK
  <1>3. \A v \in Window, t \in Slot :
          /\ ~LeaseHolds(p, v, t)'
          /\ ~BatchHolds(p, v, t)'
          /\ mine'[p][v][t] = 0
    BY <1>1, ConstantsAssumption
    DEF LeaseHolds, BatchHolds, NoLease, NoGrants, Slot
  <1>4. Disjoint'
    <2>1. \A q \in Process, v \in Window, t \in Slot :
            Holds(q, v, t)' => Holds(q, v, t)
      BY <1>2, <1>3 DEF Holds, LeaseHolds, BatchHolds
    <2> QED
      BY <1>1, <2>1, DisjointKept
  <1>5. Own'
    <2> SUFFICES ASSUME NEW q \in Process
                 PROVE  /\ \A v \in Window, t \in Slot :
                              /\ mine'[q][v][t] <= 1
                              /\ mine'[q][v][t] > 0 =>
                                    ~Before(highWater'[q], <<v, t>>)
                              /\ LeaseHolds(q, v, t)' =>
                                    ~Before(highWater'[q], <<v, t>>)
                              /\ Holds(q, v, t)' => mine'[q][v][t] = 0
                        /\ pc'[q] = "committed" =>
                              Before(highWater'[q],
                                     <<call'[q].window, call'[q].through>>)
      BY DEF Own
    <2>1. CASE q = p
      BY <1>1, <1>3, <2>1 DEF Holds
    <2>2. CASE q # p
      BY <1>2, <2>2 DEF Own, Holds, LeaseHolds, BatchHolds
    <2> QED
      BY <2>1, <2>2
  <1> QED
    BY <1>4, <1>5

\* Rollback ends the claim about the shared history, not that about its own.
LEMMA RollbackStep ==
    ASSUME TypeOK, Disjoint, Own, Rollback
    PROVE  Disjoint' /\ Own'
  <1>1. Disjoint'
    BY ConstantsAssumption DEF Rollback, TypeOK, Disjoint
  <1>2. Own'
    BY DEF Rollback, Own, Holds, LeaseHolds, BatchHolds
  <1> QED
    BY <1>1, <1>2

-----------------------------------------------------------------------------
(***************************************************************************)
(* Theorems                                                                *)
(***************************************************************************)
\* A new or a migrated database satisfies the invariant.
LEMMA InitIInv == Init => IInv
  <1> SUFFICES ASSUME Init PROVE IInv
    OBVIOUS
  <1>1. TypeOK /\ Shape
    BY InitTyped
  <1>2. \A p \in Process, w \in Window, s \in Slot :
          /\ ~LeaseHolds(p, w, s)
          /\ ~BatchHolds(p, w, s)
    BY ConstantsAssumption
    DEF Init, LeaseHolds, BatchHolds, NoLease, Slot
  <1>3. \A p \in Process, w \in Window, s \in Slot :
          granted[w][s] = 0 /\ mine[p][w][s] = 0
    BY DEF Init, NoGrants
  <1>4. \A w \in Window, s \in Slot : granted[w][s] = 0
    BY DEF Init, NoGrants
  <1>5. Disjoint
    BY <1>2, <1>4 DEF Disjoint, Holds
  <1>6. Own
    BY <1>2, <1>3 DEF Own, Holds, Init
  <1> QED
    BY <1>1, <1>5, <1>6 DEF IInv

\* Every step of charge_trace_admission preserves the inductive invariant.
LEMMA NextIInv == IInv /\ [Next]_vars => IInv'
  <1> SUFFICES ASSUME TypeOK, Shape, Disjoint, Own, [Next]_vars
               PROVE  IInv'
    BY DEF IInv
  <1>1. ASSUME NEW p \in Process, Charge(p)
        PROVE  IInv'
    <2>1. PICK w \in Window, limit \in Limits :
            \/ ObserveRollback(p, w, limit)
            \/ ObserveNewerMinute(p, w)
            \/ SpendLease(p, w, limit)
            \/ BeginReserve(p, w, limit)
      BY <1>1 DEF Charge
    <2>2. pc[p] = "idle" /\ UNCHANGED <<row, rollbacks>>
      BY <1>1 DEF Charge
    <2>3. CASE ObserveRollback(p, w, limit)
      <3>1. TypeOK' /\ Shape'
        BY <2>2, <2>3, ObserveRollbackTyped
      <3> QED
        BY <2>2, <2>3, <3>1, GiveUpStep DEF ObserveRollback, IInv
    <2>4. CASE ObserveNewerMinute(p, w)
      <3>1. TypeOK' /\ Shape'
        BY <2>2, <2>4, ObserveNewerMinuteTyped
      <3> QED
        BY <2>2, <2>4, <3>1, GiveUpStep DEF ObserveNewerMinute, IInv
    <2>5. CASE SpendLease(p, w, limit)
      <3>1. TypeOK' /\ Shape'
        BY <2>2, <2>5, SpendLeaseTyped
      <3> QED
        BY <2>2, <2>5, <3>1, SpendLeaseStep DEF IInv
    <2>6. CASE BeginReserve(p, w, limit)
      <3>1. TypeOK' /\ Shape'
        BY <2>2, <2>6, BeginReserveTyped
      <3>2. /\ \A q \in Process \ {p} : pc'[q] = pc[q] /\ call'[q] = call[q]
            /\ pc'[p] # "committed"
        BY <2>6 DEF BeginReserve, TypeOK
      <3> QED
        BY <2>2, <2>6, <3>1, <3>2, GiveUpStep DEF BeginReserve, IInv
    <2> QED
      BY <2>1, <2>3, <2>4, <2>5, <2>6
  <1>2. ASSUME NEW p \in Process, Refuse(p)
        PROVE  IInv'
    <2>1. TypeOK' /\ Shape'
      BY <1>2, RefuseTyped
    <2>2. /\ \A q \in Process \ {p} : pc'[q] = pc[q] /\ call'[q] = call[q]
          /\ pc'[p] # "committed"
      BY <1>2 DEF Refuse, TypeOK
    <2> QED
      BY <1>2, <2>1, <2>2, GiveUpStep DEF Refuse, IInv
  <1>3. ASSUME NEW p \in Process, CommitFails(p)
        PROVE  IInv'
    <2>1. TypeOK' /\ Shape'
      BY <1>3, CommitFailsTyped
    <2>2. /\ \A q \in Process \ {p} : pc'[q] = pc[q] /\ call'[q] = call[q]
          /\ pc'[p] # "committed"
      BY <1>3 DEF CommitFails, TypeOK
    <2> QED
      BY <1>3, <2>1, <2>2, GiveUpStep DEF CommitFails, IInv
  <1>4. ASSUME NEW p \in Process, Commit(p)
        PROVE  IInv'
    BY <1>4, CommitTyped, CommitStep DEF IInv
  <1>5. ASSUME NEW p \in Process, Publish(p)
        PROVE  IInv'
    BY <1>5, PublishTyped, PublishStep DEF IInv
  <1>6. ASSUME NEW p \in Process, Restart(p)
        PROVE  IInv'
    BY <1>6, RestartTyped, RestartStep DEF IInv
  <1>7. CASE Rollback
    BY <1>7, RollbackTyped, RollbackStep DEF IInv
  <1>8. CASE UNCHANGED vars
    <2>1. TypeOK' /\ Shape'
      BY <1>8 DEF vars, TypeOK, Shape
    <2>2. Disjoint'
      BY <1>8 DEF vars, Disjoint, Holds, LeaseHolds, BatchHolds
    <2>3. Own'
      BY <1>8 DEF vars, Own, Holds, LeaseHolds, BatchHolds
    <2> QED
      BY <2>1, <2>2, <2>3 DEF IInv
  <1> QED
    BY <1>1, <1>2, <1>3, <1>4, <1>5, <1>6, <1>7, <1>8 DEF Next

\* The inductive invariant holds in every reachable state: what any process was
\* granted, or still holds in its lease or committed batch, is covered by the
\* durable row, and no slot is held or granted twice.
THEOREM InductiveInvariant == Spec => []IInv
  BY InitIInv, NextIInv, PTL DEF Spec

\* Every reachable state is well typed.
THEOREM TypeCorrect == Spec => []TypeOK
  <1>1. IInv => TypeOK
    BY DEF IInv
  <1> QED
    BY <1>1, InductiveInvariant, PTL

\* While the database is not put back, no slot is granted twice, whatever the
\* number of processes, restarts and limit changes.
THEOREM SlotsGrantedOnce == Spec => []NoSlotGrantedTwice
  <1>1. IInv => NoSlotGrantedTwice
    BY DEF IInv, Disjoint, NoSlotGrantedTwice
  <1> QED
    BY <1>1, InductiveInvariant, PTL

\* One running process never spends a slot twice, however often the database
\* is put back under it.
THEOREM OwnSlotsOnce == Spec => []OwnSlotsDistinct
  <1>1. IInv => OwnSlotsDistinct
    BY DEF IInv, Own, OwnSlotsDistinct
  <1> QED
    BY <1>1, InductiveInvariant, PTL

\* Only replacing the database moves the durable row backward.
THEOREM RowMonotone == Spec => RowNeverRegresses
  <1>1. IInv /\ [Next]_vars =>
          [rollbacks' = rollbacks => ~Before(row', row)]_vars
    <2> SUFFICES ASSUME IInv, Next, rollbacks' = rollbacks
                 PROVE  ~Before(row', row)
      BY DEF vars
    <2>1. row \in Pair /\ rollbacks \in Nat
      BY RowsArePairs, ConstantsAssumption DEF IInv, TypeOK
    <2>2. ASSUME row' = row PROVE ~Before(row', row)
      BY <2>1, <2>2 DEF Before, Pair
    <2>3. ASSUME NEW p \in Process, Commit(p)
          PROVE  ~Before(row', row)
      <3>1. /\ call[p].window \in Window
            /\ row' = <<call[p].window, call'[p].through>>
            /\ call'[p].through - call'[p].reserved = Admitted(call[p].window)
            /\ call'[p].reserved \in 1..call'[p].through
            /\ call'[p].through \in Slot
        BY <2>3, CommitFacts DEF IInv
      <3>2. call[p].window >= row[1]
        BY <2>3 DEF Commit
      <3> QED
        BY <2>1, <3>1, <3>2, ConstantsAssumption
        DEF Before, Pair, Window, Slot, Admitted
    <2>4. ~Rollback
      BY <2>1 DEF Rollback
    <2>5. ASSUME NEW p \in Process,
                 Charge(p) \/ Refuse(p) \/ CommitFails(p) \/ Publish(p)
                   \/ Restart(p)
          PROVE  row' = row
      BY <2>5 DEF Charge, Refuse, CommitFails, Publish, Restart
    <2> QED
      BY <2>2, <2>3, <2>4, <2>5 DEF Next
  <1> QED
    BY <1>1, InductiveInvariant, PTL DEF Spec, RowNeverRegresses

\* Limits can be compared with slot numbers.
LEMMA LimitsAreNumbers == \A n \in Limits : n \in Nat
  BY ConstantsAssumption

\* A call is granted only a slot within its own limit.
THEOREM WithinLimit == Spec => GrantWithinLimit
  <1> DEFINE Within == \A p \in Process, w \in Window, s \in Slot :
                          mine'[p][w][s] > mine[p][w][s] => s <= call'[p].limit
  <1>1. IInv /\ [Next]_vars => [Within]_vars
    <2> SUFFICES ASSUME IInv, Next
                 PROVE  Within
      BY DEF vars
    <2>1. TypeOK /\ Shape
      BY DEF IInv
    <2>2. ASSUME mine' = mine PROVE Within
      BY <2>1, <2>2 DEF TypeOK
    <2>3. ASSUME NEW p \in Process, NEW w \in Window, NEW limit \in Limits,
                 SpendLease(p, w, limit)
          PROVE  Within
      <3> DEFINE s == lease[p].through - lease[p].remaining + 1
      <3>1. /\ SurvivingLease(p, w) = lease[p]
            /\ s \in Slot
            /\ s <= limit
        <4>1. /\ SurvivingLease(p, w) = lease[p]
              /\ lease[p] \in Lease
              /\ lease[p].remaining \in 1..lease[p].through
              /\ lease[p].through <= limit
              /\ s \in Slot
          BY <2>1, <2>3, UsableLeaseFacts DEF SpendLease
        <4>2. lease[p].remaining \in Nat /\ lease[p].through \in Nat
          BY <4>1, ConstantsAssumption DEF Lease
        <4> QED
          BY <4>1, <4>2, ConstantsAssumption
      <3>2. Grant(p, w, s) /\ call'[p].limit = limit
        BY <2>1, <2>3, <3>1 DEF SpendLease, TypeOK, Asked
      <3> HIDE DEF s
      <3>3. \A q \in Process, v \in Window, t \in Slot :
              /\ mine[q][v][t] \in Nat
              /\ mine'[q][v][t] = IF q = p /\ v = w /\ t = s
                                  THEN mine[q][v][t] + 1 ELSE mine[q][v][t]
        BY <2>1, <3>1, <3>2, GrantFacts DEF TypeOK
      <3> QED
        BY <3>1, <3>2, <3>3
    <2>4. ASSUME NEW p \in Process, Publish(p)
          PROVE  Within
      <3> DEFINE c == call[p]
                 s == c.through - c.reserved + 1
      <3>1. /\ c.window \in Window
            /\ s \in Slot
            /\ c.reserved \in 1..c.through
            /\ c.through \in Slot
            /\ c.through <= c.limit
            /\ c.limit \in Limits
        BY <2>1, <2>4, PublishFacts DEF Publish
      <3>2. s <= c.limit
        <4>1. c.limit \in Nat
          BY <3>1, LimitsAreNumbers
        <4>2. c.through \in Nat
          BY <3>1, ConstantsAssumption DEF Slot
        <4>3. c.reserved \in Nat \ {0}
          BY <3>1, <4>2
        <4> QED
          BY <3>1, <4>1, <4>2, <4>3
      <3>3. Grant(p, c.window, s) /\ call'[p].limit = c.limit
        BY <2>4 DEF Publish
      <3> HIDE DEF s, c
      <3>4. \A q \in Process, v \in Window, t \in Slot :
              /\ mine[q][v][t] \in Nat
              /\ mine'[q][v][t] = IF q = p /\ v = c.window /\ t = s
                                  THEN mine[q][v][t] + 1 ELSE mine[q][v][t]
        BY <2>1, <3>1, <3>3, GrantFacts DEF TypeOK
      <3> QED
        BY <3>2, <3>3, <3>4
    <2>5. ASSUME NEW p \in Process, Restart(p)
          PROVE  Within
      <3>1. mine' = [mine EXCEPT ![p] = NoGrants]
        BY <2>5 DEF Restart
      <3>2. \A q \in Process, v \in Window, t \in Slot :
              /\ mine[q][v][t] \in Nat
              /\ mine'[q][v][t] = mine[q][v][t] \/ mine'[q][v][t] = 0
        BY <2>1, <3>1 DEF TypeOK, NoGrants
      <3> QED
        BY <3>2
    <2>6. ASSUME NEW p \in Process, Charge(p)
          PROVE  mine' = mine \/ \E w \in Window, limit \in Limits :
                                     SpendLease(p, w, limit)
      BY <2>6 DEF Charge, ObserveRollback, ObserveNewerMinute, BeginReserve
    <2>7. ASSUME NEW p \in Process, Refuse(p) \/ CommitFails(p) \/ Commit(p)
          PROVE  mine' = mine
      BY <2>7 DEF Refuse, CommitFails, Commit
    <2>8. CASE Rollback
      BY <2>2, <2>8 DEF Rollback
    <2> HIDE DEF Within
    <2> QED
      BY <2>2, <2>3, <2>4, <2>5, <2>6, <2>7, <2>8 DEF Next
  <1> QED
    BY <1>1, InductiveInvariant, PTL DEF Spec, GrantWithinLimit

=============================================================================
