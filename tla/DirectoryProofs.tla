--------------------------- MODULE DirectoryProofs --------------------------
(***************************************************************************)
(* TLAPS proofs about a directory of lofts, for any claimants, contents,   *)
(* dates and limits: what is reserved can be applied, who is proven for an *)
(* endpoint is its owner and stays so, the tables follow the registry's    *)
(* log, and what the command line has reserved can be published.  Nothing  *)
(* is assumed of other clients.                                            *)
(*                                                                         *)
(* DInv speaks of the three tables: a reservation takes a place in the     *)
(* bounded pending queue when its mutation will need one, and nothing else *)
(* touches an endpoint that is fenced by a reservation.  FInv relates the  *)
(* tables to the log, to what careful claimants have signed, and to the    *)
(* closures that may still reserve or apply something.                     *)
(***************************************************************************)
EXTENDS Directory, FiniteSetTheorems, SequenceTheorems, WellFoundedInduction, TLAPS

Key == {c[2] : c \in Claimant}

MutT ==
    [op : {"add"}, at : Endpoint, key : Key, seq : Nat, arg : Content] \cup
    [op : {"drain"}, at : Endpoint, key : Key, seq : Nat, arg : Date]

State == {"pending", "active", "degraded", "draining", "removed"}

RowT == [key : Key, entry : MutT, seq : Nat, state : State, first : Int,
         fails : Nat, degraded : Int, clean : Int, drain : Int, due : Int,
         proven : BOOLEAN]

ClaimT == [entry : MutT, first : Int, due : Int]

ReservationT == [mutation : MutT, at : Nat, slot : BOOLEAN]

-----------------------------------------------------------------------------
(***************************************************************************)
(* The invariant of the tables L, C and R.                                 *)
(***************************************************************************)
RowOK(e, r) ==
    /\ r \in RowT
    /\ r.entry.at = e
    /\ r.entry.key = r.key
    /\ r.proven => r.key = Owner[e]

LoftsOK(L) ==
    /\ IsFiniteSet(DOMAIN L)
    /\ \A e \in DOMAIN L : RowOK(e, L[e])

ClaimOK(L, c, x) == x \in ClaimT /\ c = ClaimOf(x.entry) /\ x.entry.at \in DOMAIN L

ClaimsOK(L, C) ==
    /\ IsFiniteSet(DOMAIN C)
    /\ \A c \in DOMAIN C : ClaimOK(L, c, C[c])

\* A mutation that needs a place in the pending queue when it is applied.
NeedsPlace(L, C, m) ==
    \/ m.at \notin DOMAIN L /\ m.seq <= 1
    \/ SameKey(L, m) /\ m.seq > L[m.at].seq /\ L[m.at].state = "removed"
    \/ MayRival(L, m) /\ ClaimOf(m) \notin DOMAIN C /\ m.seq <= 1

\* The reservation r will apply, and has its place if it needs one.
WillApply(L, C, r) ==
    LET m == r.mutation IN
    \/ m.op = "drain" /\ (RepeatsDrain(L, m) \/ Drains(L, m))
    \/ m.op = "add" /\ (Updates(L, m) \/ UpdatesRival(L, C, m) \/ RepeatsAdd(L, C, m))
    \/ m.op = "add" /\ r.slot /\ NeedsPlace(L, C, m)

ReservedOK(L, C, R) ==
    /\ IsFiniteSet(DOMAIN R)
    /\ \A e \in DOMAIN R : /\ R[e] \in ReservationT
                           /\ R[e].mutation.at = e
                           /\ WillApply(L, C, R[e])

TablesOK(L, C, R) ==
    /\ LoftsOK(L) /\ ClaimsOK(L, C) /\ ReservedOK(L, C, R)
    /\ pending_load(L, C, R) <= MaxPending

\* No row goes away, and a proven one keeps its key.
RowsKept(L, M) ==
    \A e \in DOMAIN L : /\ e \in DOMAIN M
                        /\ L[e].proven => M[e].proven /\ M[e].key = L[e].key

\* The tables say the same of an endpoint.
SameAt(L, C, M, D, e) ==
    /\ e \in DOMAIN L <=> e \in DOMAIN M
    /\ e \in DOMAIN L => M[e] = L[e]
    /\ \A k : <<e, k>> \in DOMAIN C <=> <<e, k>> \in DOMAIN D
    /\ \A k : <<e, k>> \in DOMAIN C => D[<<e, k>>] = C[<<e, k>>]

-----------------------------------------------------------------------------
(***************************************************************************)
(* Facts about the operators of the tables.                                *)
(***************************************************************************)
LEMMA DirectoryFacts ==
    /\ Date \subseteq Nat /\ MaxPending \in Nat /\ ProbeInterval \in Nat
    /\ MaxRecovery \in Nat /\ Careful \subseteq Claimant
    /\ PendingExpire \in Nat \ {0}
    /\ DegradeAfter \in Nat \ {0} /\ MaxSequence \in [Claimant -> Nat]
BY DirectoryAssumption

LEMMA MutFacts ==
    ASSUME NEW m \in MutT
    PROVE  /\ m.op \in {"add", "drain"} /\ m.at \in Endpoint /\ m.key \in Key /\ m.seq \in Nat
           /\ m.op = "drain" => m.arg \in Int
<1>1. CASE m \in [op : {"add"}, at : Endpoint, key : Key, seq : Nat, arg : Content]
  BY <1>1
<1>2. CASE m \in [op : {"drain"}, at : Endpoint, key : Key, seq : Nat, arg : Date]
  <2>1. m.arg \in Date
    BY <1>2
  <2>2. Date \subseteq Nat
    BY DirectoryFacts
  <2>3. m.arg \in Int
    <3>1. m.arg \in Nat
      BY <2>1, <2>2, Zenon
    <3> QED BY <3>1
  <2>4. m.op = "drain" /\ m.at \in Endpoint /\ m.key \in Key /\ m.seq \in Nat
    BY <1>2
  <2> QED BY <2>3, <2>4
<1> QED BY <1>1, <1>2 DEF MutT

LEMMA PutFacts ==
    ASSUME NEW f, NEW x, NEW v
    PROVE  /\ DOMAIN Put(f, x, v) = DOMAIN f \cup {x}
           /\ Put(f, x, v)[x] = v
           /\ \A y \in DOMAIN f : y # x => Put(f, x, v)[y] = f[y]
BY DEF Put

LEMMA DropFacts ==
    ASSUME NEW f, NEW S
    PROVE  /\ DOMAIN Drop(f, S) = DOMAIN f \ S
           /\ \A y \in DOMAIN f \ S : Drop(f, S)[y] = f[y]
BY DEF Drop

\* What a reservation is for is decided by the tables at its endpoint.
LEMMA Framed ==
    ASSUME NEW L, NEW C, NEW M, NEW D, NEW r, SameAt(L, C, M, D, r.mutation.at),
           WillApply(L, C, r)
    PROVE  WillApply(M, D, r)
BY DEF SameAt, WillApply, RepeatsDrain, Drains, Updates, UpdatesRival, RepeatsAdd,
       NeedsPlace, SameKey, MayRival, ClaimOf

-----------------------------------------------------------------------------
(***************************************************************************)
(* The load of the pending queue.                                          *)
(***************************************************************************)
Slotted(R) == {e \in DOMAIN R : R[e].slot}

LEMMA PendingPut ==
    ASSUME NEW L, NEW e, NEW x
    PROVE  /\ x.state = "pending" => PendingRows(Put(L, e, x)) = PendingRows(L) \cup {e}
           /\ x.state # "pending" => PendingRows(Put(L, e, x)) = PendingRows(L) \ {e}
<1>1. ASSUME x.state = "pending" PROVE PendingRows(Put(L, e, x)) = PendingRows(L) \cup {e}
  BY <1>1 DEF PendingRows, Put
<1>2. ASSUME x.state # "pending" PROVE PendingRows(Put(L, e, x)) = PendingRows(L) \ {e}
  BY <1>2 DEF PendingRows, Put
<1> QED BY <1>1, <1>2

LEMMA OneMore ==
    ASSUME NEW X, NEW Y, NEW z, IsFiniteSet(Y), X \subseteq Y \cup {z}
    PROVE  Cardinality(X) \in Nat /\ Cardinality(Y) \in Nat /\ Cardinality(X) <= Cardinality(Y) + 1
<1>1. /\ IsFiniteSet(Y \cup {z})
      /\ Cardinality(Y \cup {z}) = IF z \in Y THEN Cardinality(Y) ELSE Cardinality(Y) + 1
  BY FS_AddElement
<1>2. X \in SUBSET (Y \cup {z})
  OBVIOUS
<1>3. IsFiniteSet(X) /\ Cardinality(X) <= Cardinality(Y \cup {z})
  BY <1>1, <1>2, FS_Subset
<1>4. Cardinality(X) \in Nat /\ Cardinality(Y) \in Nat
  BY <1>3, FS_CardinalityType
<1> QED BY <1>1, <1>3, <1>4

LEMMA NoMore ==
    ASSUME NEW X, NEW Y, IsFiniteSet(Y), X \subseteq Y
    PROVE  Cardinality(X) \in Nat /\ Cardinality(Y) \in Nat /\ Cardinality(X) <= Cardinality(Y)
<1>1. X \in SUBSET Y
  OBVIOUS
<1>2. IsFiniteSet(X) /\ Cardinality(X) <= Cardinality(Y)
  BY <1>1, FS_Subset
<1> QED BY <1>2, FS_CardinalityType

LEMMA LoadParts ==
    ASSUME NEW L, NEW C, NEW R,
           IsFiniteSet(DOMAIN L), IsFiniteSet(DOMAIN C), IsFiniteSet(DOMAIN R)
    PROVE  /\ IsFiniteSet(PendingRows(L)) /\ IsFiniteSet(Slotted(R))
           /\ Cardinality(PendingRows(L)) \in Nat /\ Cardinality(DOMAIN C) \in Nat
           /\ Cardinality(Slotted(R)) \in Nat /\ pending_load(L, C, R) \in Nat
           /\ pending_load(L, C, R) = Cardinality(PendingRows(L)) + Cardinality(DOMAIN C)
                                        + Cardinality(Slotted(R))
<1>1. PendingRows(L) \in SUBSET DOMAIN L /\ Slotted(R) \in SUBSET DOMAIN R
  BY DEF PendingRows, Slotted
<1>2. IsFiniteSet(PendingRows(L)) /\ IsFiniteSet(Slotted(R))
  BY <1>1, FS_Subset
<1>3. /\ Cardinality(PendingRows(L)) \in Nat /\ Cardinality(DOMAIN C) \in Nat
      /\ Cardinality(Slotted(R)) \in Nat
  BY <1>2, FS_CardinalityType
<1>4. pending_load(L, C, R) = Cardinality(PendingRows(L)) + Cardinality(DOMAIN C)
                                + Cardinality(Slotted(R))
  BY DEF pending_load, Slotted
<1> QED BY <1>2, <1>3, <1>4

\* Tables with less in them weigh less.
LEMMA LoadShrinks ==
    ASSUME NEW L, NEW C, NEW R, NEW M, NEW D, NEW Q,
           IsFiniteSet(DOMAIN L), IsFiniteSet(DOMAIN C), IsFiniteSet(DOMAIN R),
           IsFiniteSet(DOMAIN M), IsFiniteSet(DOMAIN D), IsFiniteSet(DOMAIN Q),
           PendingRows(M) \subseteq PendingRows(L), DOMAIN D \subseteq DOMAIN C,
           Slotted(Q) \subseteq Slotted(R)
    PROVE  pending_load(M, D, Q) <= pending_load(L, C, R)
<1>1. Cardinality(PendingRows(M)) <= Cardinality(PendingRows(L))
  BY LoadParts, NoMore
<1>2. Cardinality(DOMAIN D) <= Cardinality(DOMAIN C)
  BY NoMore
<1>3. Cardinality(Slotted(Q)) <= Cardinality(Slotted(R))
  BY LoadParts, NoMore
<1>4. /\ Cardinality(PendingRows(L)) \in Nat /\ Cardinality(DOMAIN C) \in Nat
      /\ Cardinality(Slotted(R)) \in Nat
      /\ pending_load(L, C, R) = Cardinality(PendingRows(L)) + Cardinality(DOMAIN C)
                                   + Cardinality(Slotted(R))
  BY LoadParts
<1>5. /\ Cardinality(PendingRows(M)) \in Nat /\ Cardinality(DOMAIN D) \in Nat
      /\ Cardinality(Slotted(Q)) \in Nat
      /\ pending_load(M, D, Q) = Cardinality(PendingRows(M)) + Cardinality(DOMAIN D)
                                   + Cardinality(Slotted(Q))
  BY LoadParts
<1> QED BY <1>1, <1>2, <1>3, <1>4, <1>5

\* One element more, in one of the tables, weighs one more at most.
LEMMA LoadGrowsByOne ==
    ASSUME NEW L, NEW C, NEW R, NEW M, NEW D, NEW Q, NEW z,
           IsFiniteSet(DOMAIN L), IsFiniteSet(DOMAIN C), IsFiniteSet(DOMAIN R),
           IsFiniteSet(DOMAIN M), IsFiniteSet(DOMAIN D), IsFiniteSet(DOMAIN Q),
           \/ /\ PendingRows(M) \subseteq PendingRows(L) \cup {z}
              /\ DOMAIN D \subseteq DOMAIN C /\ Slotted(Q) \subseteq Slotted(R)
           \/ /\ PendingRows(M) \subseteq PendingRows(L)
              /\ DOMAIN D \subseteq DOMAIN C \cup {z} /\ Slotted(Q) \subseteq Slotted(R)
           \/ /\ PendingRows(M) \subseteq PendingRows(L)
              /\ DOMAIN D \subseteq DOMAIN C /\ Slotted(Q) \subseteq Slotted(R) \cup {z}
    PROVE  pending_load(M, D, Q) <= pending_load(L, C, R) + 1
<1>0. IsFiniteSet(PendingRows(L)) /\ IsFiniteSet(Slotted(R))
  BY LoadParts
<1>1. /\ PendingRows(M) \subseteq PendingRows(L)
         => Cardinality(PendingRows(M)) <= Cardinality(PendingRows(L))
      /\ PendingRows(M) \subseteq PendingRows(L) \cup {z}
         => Cardinality(PendingRows(M)) <= Cardinality(PendingRows(L)) + 1
  BY <1>0, NoMore, OneMore
<1>2. /\ DOMAIN D \subseteq DOMAIN C => Cardinality(DOMAIN D) <= Cardinality(DOMAIN C)
      /\ DOMAIN D \subseteq DOMAIN C \cup {z}
         => Cardinality(DOMAIN D) <= Cardinality(DOMAIN C) + 1
  BY NoMore, OneMore
<1>3. /\ Slotted(Q) \subseteq Slotted(R)
         => Cardinality(Slotted(Q)) <= Cardinality(Slotted(R))
      /\ Slotted(Q) \subseteq Slotted(R) \cup {z}
         => Cardinality(Slotted(Q)) <= Cardinality(Slotted(R)) + 1
  BY <1>0, NoMore, OneMore
<1>4. /\ Cardinality(PendingRows(L)) \in Nat /\ Cardinality(DOMAIN C) \in Nat
      /\ Cardinality(Slotted(R)) \in Nat
      /\ pending_load(L, C, R) = Cardinality(PendingRows(L)) + Cardinality(DOMAIN C)
                                   + Cardinality(Slotted(R))
  BY LoadParts
<1>5. /\ Cardinality(PendingRows(M)) \in Nat /\ Cardinality(DOMAIN D) \in Nat
      /\ Cardinality(Slotted(Q)) \in Nat
      /\ pending_load(M, D, Q) = Cardinality(PendingRows(M)) + Cardinality(DOMAIN D)
                                   + Cardinality(Slotted(Q))
  BY LoadParts
<1> QED BY <1>1, <1>2, <1>3, <1>4, <1>5

-----------------------------------------------------------------------------
(***************************************************************************)
(* apply_submission and apply_drain.                                       *)
(***************************************************************************)
\* The outcomes, with the tables M and D they leave.
Drained(L, C, R, m, t, M, D) ==
    /\ m.op = "drain" /\ Drains(L, m) /\ D = C
    /\ M = Put(L, m.at, [L[m.at] EXCEPT !.state = "draining", !.drain = m.arg, !.seq = m.seq])
Enrolled(L, C, R, m, t, M, D) ==
    m.op = "add" /\ Enrols(L, C, R, m) /\ D = C /\ M = Put(L, m.at, NewRow(m, t))
Updated(L, C, R, m, t, M, D) ==
    /\ m.op = "add" /\ Updates(L, m) /\ D = C
    /\ M = Put(L, m.at, [L[m.at] EXCEPT !.entry = m, !.seq = m.seq])
Returned(L, C, R, m, t, M, D) ==
    m.op = "add" /\ Reenrols(L, C, R, m) /\ D = C /\ M = Put(L, m.at, Reenrolled(L[m.at], m, t))
Rivalled(L, C, R, m, t, M, D) ==
    m.op = "add" /\ NewRival(L, C, R, m) /\ M = L /\ D = Put(C, ClaimOf(m), NewClaim(m, t))
RivalUpdated(L, C, R, m, t, M, D) ==
    /\ m.op = "add" /\ UpdatesRival(L, C, m) /\ M = L
    /\ D = Put(C, ClaimOf(m), [C[ClaimOf(m)] EXCEPT !.entry = m])
Unmoved(L, C, R, m, t, M, D) ==
    /\ M = L /\ D = C
    /\ m.op = "drain" => ~Drains(L, m)
    /\ m.op = "add" => /\ ~Enrols(L, C, R, m) /\ ~Reenrols(L, C, R, m)
                       /\ ~NewRival(L, C, R, m) /\ ~Updates(L, m) /\ ~UpdatesRival(L, C, m)

\* They exclude each other, and there is no other.
LEMMA AppliedForm ==
    ASSUME NEW L, NEW C, NEW R, NEW m, NEW t, NEW M, NEW D,
           M = AppliedLofts(L, C, R, m, t), D = AppliedClaims(L, C, R, m, t)
    PROVE  \/ Drained(L, C, R, m, t, M, D)  \/ Enrolled(L, C, R, m, t, M, D)
           \/ Updated(L, C, R, m, t, M, D)  \/ Returned(L, C, R, m, t, M, D)
           \/ Rivalled(L, C, R, m, t, M, D) \/ RivalUpdated(L, C, R, m, t, M, D)
           \/ Unmoved(L, C, R, m, t, M, D)
<1> DEFINE drain == m.op = "drain" /\ Drains(L, m)
           enrol == m.op = "add" /\ Enrols(L, C, R, m)
           upd == m.op = "add" /\ Updates(L, m)
           again == m.op = "add" /\ Reenrols(L, C, R, m)
           rival == m.op = "add" /\ NewRival(L, C, R, m)
           urival == m.op = "add" /\ UpdatesRival(L, C, m)
<1>1. /\ drain => ~enrol /\ ~upd /\ ~again /\ ~rival /\ ~urival
      /\ enrol => ~drain /\ ~upd /\ ~again /\ ~rival /\ ~urival
      /\ upd => ~drain /\ ~enrol /\ ~again /\ ~rival /\ ~urival
      /\ again => ~drain /\ ~enrol /\ ~upd /\ ~rival /\ ~urival
      /\ rival => ~drain /\ ~enrol /\ ~upd /\ ~again /\ ~urival
      /\ urival => ~drain /\ ~enrol /\ ~upd /\ ~again /\ ~rival
  BY DEF Enrols, Updates, Reenrols, NewRival, UpdatesRival, MayRival, SameKey
<1>2. CASE drain
  BY <1>1, <1>2 DEF AppliedLofts, AppliedClaims, Drained
<1>3. CASE enrol
  BY <1>1, <1>3 DEF AppliedLofts, AppliedClaims, Enrolled
<1>4. CASE upd
  BY <1>1, <1>4 DEF AppliedLofts, AppliedClaims, Updated
<1>5. CASE again
  BY <1>1, <1>5 DEF AppliedLofts, AppliedClaims, Returned
<1>6. CASE rival
  BY <1>1, <1>6 DEF AppliedLofts, AppliedClaims, Rivalled
<1>7. CASE urival
  BY <1>1, <1>7 DEF AppliedLofts, AppliedClaims, RivalUpdated
<1>8. CASE ~drain /\ ~enrol /\ ~upd /\ ~again /\ ~rival /\ ~urival
  BY <1>8 DEF AppliedLofts, AppliedClaims, Unmoved
<1> QED BY <1>2, <1>3, <1>4, <1>5, <1>6, <1>7, <1>8

\* The rows and claims a mutation writes.
LEMMA NewRowOK ==
    ASSUME NEW m \in MutT, NEW t \in Int
    PROVE  /\ RowOK(m.at, NewRow(m, t)) /\ NewRow(m, t).state = "pending"
           /\ ~NewRow(m, t).proven /\ NewRow(m, t).key = m.key
           /\ NewClaim(m, t) \in ClaimT /\ NewClaim(m, t).entry = m
<1>1. NewRow(m, t) \in RowT
  BY MutFacts DEF NewRow, RowT, State, Never
<1> QED BY <1>1 DEF RowOK, NewRow, NewClaim, ClaimT

LEMMA ReenrolledOK ==
    ASSUME NEW m \in MutT, NEW t \in Int, NEW r, RowOK(m.at, r), r.key = m.key
    PROVE  LET x == Reenrolled(r, m, t) IN
           /\ RowOK(m.at, x) /\ x.state = "pending"
           /\ x.proven = r.proven /\ x.key = r.key
<1>1. NewRow(m, t) \in RowT /\ NewRow(m, t).key = m.key /\ NewRow(m, t).entry = m
      /\ NewRow(m, t).state = "pending"
  BY NewRowOK DEF RowOK, NewRow
<1>2. r.proven \in BOOLEAN /\ (r.proven => r.key = Owner[m.at])
  BY DEF RowOK, RowT
<1>3. PICK b \in BOOLEAN : b = r.proven
  BY <1>2
<1>4. PICK n \in RowT : n = NewRow(m, t)
  BY <1>1
<1>5. Reenrolled(r, m, t) = [n EXCEPT !.proven = b]
  BY <1>3, <1>4 DEF Reenrolled
<1>6. [n EXCEPT !.proven = b] \in RowT
  BY DEF RowT
<1>7. LET x == [n EXCEPT !.proven = b] IN
      x.proven = b /\ x.key = n.key /\ x.entry = n.entry /\ x.state = n.state
  BY DEF RowT
<1> QED BY <1>1, <1>2, <1>3, <1>4, <1>5, <1>6, <1>7 DEF RowOK

LEMMA UpdatedOK ==
    ASSUME NEW m \in MutT, NEW r, RowOK(m.at, r), r.key = m.key
    PROVE  LET x == [r EXCEPT !.entry = m, !.seq = m.seq] IN
           /\ RowOK(m.at, x) /\ x.state = r.state
           /\ x.proven = r.proven /\ x.key = r.key
<1>1. r \in RowT /\ m.seq \in Nat
  BY MutFacts DEF RowOK
<1>2. [r EXCEPT !.entry = m, !.seq = m.seq] \in RowT
  BY <1>1 DEF RowT
<1>3. LET x == [r EXCEPT !.entry = m, !.seq = m.seq] IN
      x.state = r.state /\ x.proven = r.proven /\ x.key = r.key /\ x.entry = m
  BY <1>1 DEF RowT
<1> QED BY <1>2, <1>3 DEF RowOK

LEMMA DrainedOK ==
    ASSUME NEW m \in MutT, m.op = "drain", NEW r, RowOK(m.at, r), r.key = m.key
    PROVE  LET x == [r EXCEPT !.state = "draining", !.drain = m.arg, !.seq = m.seq] IN
           /\ RowOK(m.at, x) /\ x.state = "draining"
           /\ x.proven = r.proven /\ x.key = r.key
<1>1. r \in RowT /\ m.seq \in Nat /\ m.arg \in Int
  BY MutFacts DEF RowOK
<1>2. [r EXCEPT !.state = "draining", !.drain = m.arg, !.seq = m.seq] \in RowT
  BY <1>1 DEF RowT, State
<1>3. LET x == [r EXCEPT !.state = "draining", !.drain = m.arg, !.seq = m.seq] IN
      x.state = "draining" /\ x.proven = r.proven /\ x.key = r.key /\ x.entry = r.entry
  BY <1>1 DEF RowT
<1> QED BY <1>2, <1>3 DEF RowOK

\* The load after a mutation: it grows only if there was room, and it does
\* grow when the mutation needs a place and gets one.
LEMMA AppliedLoad ==
    ASSUME NEW L, NEW C, NEW R, NEW m \in MutT, NEW t \in Int, TablesOK(L, C, R),
           NEW M, NEW D,
           M = AppliedLofts(L, C, R, m, t), D = AppliedClaims(L, C, R, m, t)
    PROVE  /\ IsFiniteSet(DOMAIN M) /\ IsFiniteSet(DOMAIN D)
           /\ \/ pending_load(M, D, R) <= pending_load(L, C, R)
              \/ HasRoom(L, C, R) /\ pending_load(M, D, R) <= pending_load(L, C, R) + 1
           /\ m.op = "add" /\ NeedsPlace(L, C, m) /\ HasRoom(L, C, R)
                => pending_load(M, D, R) > pending_load(L, C, R)
<1>0. /\ IsFiniteSet(DOMAIN L) /\ IsFiniteSet(DOMAIN C) /\ IsFiniteSet(DOMAIN R)
      /\ \A e \in DOMAIN L : RowOK(e, L[e])
  BY DEF TablesOK, LoftsOK, ClaimsOK, ReservedOK
<1>a. ASSUME DOMAIN M \subseteq DOMAIN L \cup {m.at} PROVE IsFiniteSet(DOMAIN M)
  <2>1. IsFiniteSet(DOMAIN L \cup {m.at})
    BY <1>0, FS_AddElement
  <2>2. DOMAIN M \in SUBSET (DOMAIN L \cup {m.at})
    BY <1>a
  <2> QED BY <2>1, <2>2, FS_Subset
<1>b. ASSUME DOMAIN D \subseteq DOMAIN C \cup {ClaimOf(m)} PROVE IsFiniteSet(DOMAIN D)
  <2>1. IsFiniteSet(DOMAIN C \cup {ClaimOf(m)})
    BY <1>0, FS_AddElement
  <2>2. DOMAIN D \in SUBSET (DOMAIN C \cup {ClaimOf(m)})
    BY <1>b
  <2> QED BY <2>1, <2>2, FS_Subset
<1>c. ASSUME IsFiniteSet(DOMAIN M), D = C, PendingRows(M) \subseteq PendingRows(L)
      PROVE  pending_load(M, D, R) <= pending_load(L, C, R)
  <2> QED BY <1>0, <1>c, LoadShrinks
<1>d. ASSUME IsFiniteSet(DOMAIN M), D = C, PendingRows(M) = PendingRows(L) \cup {m.at},
             m.at \notin PendingRows(L)
      PROVE  pending_load(M, D, R) = pending_load(L, C, R) + 1
  <2>1. /\ IsFiniteSet(PendingRows(L)) /\ Cardinality(PendingRows(L)) \in Nat
        /\ Cardinality(DOMAIN C) \in Nat /\ Cardinality(Slotted(R)) \in Nat
        /\ pending_load(L, C, R) = Cardinality(PendingRows(L)) + Cardinality(DOMAIN C)
                                     + Cardinality(Slotted(R))
    BY <1>0, LoadParts
  <2>3. pending_load(M, D, R) = Cardinality(PendingRows(M)) + Cardinality(DOMAIN C)
                                     + Cardinality(Slotted(R))
    BY <1>d DEF pending_load, Slotted
  <2>2. Cardinality(PendingRows(M)) = Cardinality(PendingRows(L)) + 1
    BY <2>1, <1>d, FS_AddElement
  <2> QED BY <2>1, <2>2, <2>3
<1>1. CASE Drained(L, C, R, m, t, M, D)
  <2>1. PICK x : /\ x = [L[m.at] EXCEPT !.state = "draining", !.drain = m.arg, !.seq = m.seq]
                 /\ x.state = "draining"
    BY <1>0, <1>1, DrainedOK DEF Drains, SameKey, Drained
  <2>2. M = Put(L, m.at, x) /\ D = C
    BY <1>1, <2>1 DEF Drained
  <2>3. DOMAIN M \subseteq DOMAIN L \cup {m.at} /\ PendingRows(M) \subseteq PendingRows(L)
    <3>1. DOMAIN M = DOMAIN L \cup {m.at}
      BY <2>2 DEF Put
    <3>2. x.state # "pending"
      BY <2>1
    <3>3. PendingRows(M) = PendingRows(L) \ {m.at}
      BY <2>2, <3>2, PendingPut
    <3> QED BY <3>1, <3>3
  <2>4. ~(m.op = "add")
    BY <1>1 DEF Drained
  <2> QED BY <1>0, <1>a, <1>c, <2>2, <2>3, <2>4
<1>2. CASE Enrolled(L, C, R, m, t, M, D)
  <2>1. PICK x : x = NewRow(m, t) /\ x.state = "pending"
    BY NewRowOK
  <2>2. M = Put(L, m.at, x) /\ D = C /\ m.at \notin DOMAIN L /\ HasRoom(L, C, R)
    BY <1>2, <2>1 DEF Enrols, Enrolled
  <2>3. /\ DOMAIN M \subseteq DOMAIN L \cup {m.at}
        /\ PendingRows(M) = PendingRows(L) \cup {m.at} /\ m.at \notin PendingRows(L)
    <3>1. m.at \notin PendingRows(L)
      BY <2>2 DEF PendingRows
    <3>2. DOMAIN M = DOMAIN L \cup {m.at}
      BY <2>2 DEF Put
    <3>3. PendingRows(M) = PendingRows(L) \cup {m.at}
      <4>1. x.state = "pending" /\ M = Put(L, m.at, x)
        BY <2>1, <2>2
      <4> QED BY <4>1, PendingPut
    <3> QED BY <3>1, <3>2, <3>3
  <2>4. pending_load(M, D, R) = pending_load(L, C, R) + 1 /\ pending_load(L, C, R) \in Nat
    BY <1>0, <1>a, <1>d, <2>2, <2>3, LoadParts
  <2> QED BY <1>0, <1>a, <2>2, <2>3, <2>4
<1>3. CASE Updated(L, C, R, m, t, M, D)
  <2>1. PICK x : /\ x = [L[m.at] EXCEPT !.entry = m, !.seq = m.seq]
                 /\ x.state = L[m.at].state
    <3>1. RowOK(m.at, L[m.at]) /\ L[m.at].key = m.key
      BY <1>0, <1>3 DEF Updates, SameKey, Updated
    <3>2. [L[m.at] EXCEPT !.entry = m, !.seq = m.seq].state = L[m.at].state
      BY <3>1, UpdatedOK, Zenon
    <3> QED BY <3>2
  <2>2. /\ M = Put(L, m.at, x) /\ D = C /\ m.at \in DOMAIN L
        /\ ~NeedsPlace(L, C, m)
    BY <1>3, <2>1 DEF Updates, SameKey, NeedsPlace, MayRival, Updated
  <2>3. DOMAIN M \subseteq DOMAIN L \cup {m.at} /\ PendingRows(M) \subseteq PendingRows(L)
    <3>1. x.state = "pending" => m.at \in PendingRows(L)
      BY <2>1, <2>2 DEF PendingRows
    <3>2. DOMAIN M = DOMAIN L \cup {m.at}
      BY <2>2 DEF Put
    <3>3. \/ x.state = "pending" /\ PendingRows(M) = PendingRows(L) \cup {m.at}
          \/ PendingRows(M) = PendingRows(L) \ {m.at}
      BY <2>2, PendingPut
    <3> QED BY <3>1, <3>2, <3>3
  <2> QED BY <1>0, <1>a, <1>c, <2>2, <2>3
<1>4. CASE Returned(L, C, R, m, t, M, D)
  <2>1. PICK x : x = Reenrolled(L[m.at], m, t) /\ x.state = "pending"
    BY <1>0, <1>4, ReenrolledOK DEF Reenrols, SameKey, Returned
  <2>2. /\ M = Put(L, m.at, x) /\ D = C /\ HasRoom(L, C, R)
        /\ m.at \in DOMAIN L /\ L[m.at].state = "removed"
    BY <1>4, <2>1 DEF Reenrols, SameKey, Returned
  <2>3. /\ DOMAIN M \subseteq DOMAIN L \cup {m.at}
        /\ PendingRows(M) = PendingRows(L) \cup {m.at} /\ m.at \notin PendingRows(L)
    <3>1. m.at \notin PendingRows(L)
      BY <2>2 DEF PendingRows
    <3>2. DOMAIN M = DOMAIN L \cup {m.at}
      BY <2>2 DEF Put
    <3>3. PendingRows(M) = PendingRows(L) \cup {m.at}
      <4>1. x.state = "pending" /\ M = Put(L, m.at, x)
        BY <2>1, <2>2
      <4> QED BY <4>1, PendingPut
    <3> QED BY <3>1, <3>2, <3>3
  <2>4. pending_load(M, D, R) = pending_load(L, C, R) + 1 /\ pending_load(L, C, R) \in Nat
    BY <1>0, <1>a, <1>d, <2>2, <2>3, LoadParts
  <2> QED BY <1>0, <1>a, <2>2, <2>3, <2>4
<1>5. CASE Rivalled(L, C, R, m, t, M, D)
  <2>1. M = L /\ DOMAIN D = DOMAIN C \cup {ClaimOf(m)} /\ ClaimOf(m) \notin DOMAIN C
        /\ HasRoom(L, C, R)
    BY <1>5, PutFacts DEF NewRival, Rivalled
  <2>2. IsFiniteSet(DOMAIN D)
    BY <1>b, <2>1
  <2>3. /\ Cardinality(PendingRows(L)) \in Nat
        /\ Cardinality(DOMAIN C) \in Nat /\ Cardinality(Slotted(R)) \in Nat
        /\ pending_load(L, C, R) = Cardinality(PendingRows(L)) + Cardinality(DOMAIN C)
                                     + Cardinality(Slotted(R))
        /\ pending_load(M, D, R) = Cardinality(PendingRows(L)) + Cardinality(DOMAIN D)
                                     + Cardinality(Slotted(R))
    BY <1>0, <2>1, <2>2, LoadParts
  <2>4. Cardinality(DOMAIN D) = Cardinality(DOMAIN C) + 1
    BY <1>0, <2>1, FS_AddElement
  <2> QED BY <1>0, <2>1, <2>2, <2>3, <2>4
<1>6. CASE RivalUpdated(L, C, R, m, t, M, D)
  <2>1. ~NeedsPlace(L, C, m)
    BY <1>6 DEF UpdatesRival, MayRival, NeedsPlace, SameKey, RivalUpdated
  <2>2. ClaimOf(m) \in DOMAIN C
    BY <1>6 DEF UpdatesRival, RivalUpdated
  <2>3. M = L /\ DOMAIN D = DOMAIN C
    BY <1>6, <2>2 DEF Put, RivalUpdated
  <2>4. pending_load(M, D, R) = pending_load(L, C, R) /\ pending_load(L, C, R) \in Nat
    BY <2>3, <1>0, LoadParts DEF pending_load
  <2> QED BY <1>0, <2>1, <2>3, <2>4
<1>7. CASE Unmoved(L, C, R, m, t, M, D)
  <2>1. m.op = "add" => ~(NeedsPlace(L, C, m) /\ HasRoom(L, C, R))
    BY <1>7 DEF Enrols, Reenrols, NewRival, NeedsPlace, Unmoved
  <2>2. pending_load(M, D, R) = pending_load(L, C, R) /\ pending_load(L, C, R) \in Nat
    BY <1>7, <1>0, LoadParts DEF Unmoved
  <2> QED BY <1>0, <1>7, <2>1, <2>2 DEF Unmoved
<1> QED BY AppliedForm, <1>1, <1>2, <1>3, <1>4, <1>5, <1>6, <1>7

-----------------------------------------------------------------------------
(***************************************************************************)
(* What changes the tables at an endpoint that no reservation fences leaves *)
(* every reservation able to apply.                                        *)
(***************************************************************************)
LEMMA FramedAll ==
    ASSUME NEW L, NEW C, NEW M, NEW D, NEW R, ReservedOK(L, C, R),
           \A e \in DOMAIN R : SameAt(L, C, M, D, e)
    PROVE  ReservedOK(M, D, R)
<1>1. ASSUME NEW e \in DOMAIN R PROVE WillApply(M, D, R[e])
  <2>1. R[e].mutation.at = e /\ WillApply(L, C, R[e]) /\ SameAt(L, C, M, D, e)
    BY DEF ReservedOK
  <2> QED BY <2>1, Framed
<1> QED BY <1>1 DEF ReservedOK

LEMMA RowPut ==
    ASSUME NEW L, NEW C, NEW R, LoftsOK(L), ClaimsOK(L, C), ReservedOK(L, C, R),
           NEW e, e \notin DOMAIN R, NEW x, RowOK(e, x),
           e \in DOMAIN L /\ L[e].proven => x.proven /\ x.key = L[e].key
    PROVE  LET M == Put(L, e, x) IN
           LoftsOK(M) /\ ClaimsOK(M, C) /\ ReservedOK(M, C, R) /\ RowsKept(L, M)
<1>0. PICK M : M = Put(L, e, x)
  OBVIOUS
<1>1. /\ DOMAIN M = DOMAIN L \cup {e} /\ M[e] = x
      /\ \A y \in DOMAIN L : y # e => M[y] = L[y]
  BY <1>0 DEF Put
<1>2. LoftsOK(M)
  <2>1. IsFiniteSet(DOMAIN M)
    BY <1>1, FS_AddElement DEF LoftsOK
  <2> QED BY <1>1, <2>1 DEF LoftsOK
<1>3. ClaimsOK(M, C)
  BY <1>1 DEF ClaimsOK, ClaimOK
<1>4. ReservedOK(M, C, R)
  <2>1. \A y \in DOMAIN R : SameAt(L, C, M, C, y)
    BY <1>1 DEF SameAt
  <2> QED BY <2>1, FramedAll
<1>5. RowsKept(L, M)
  BY <1>1 DEF RowsKept
<1> QED BY <1>0, <1>2, <1>3, <1>4, <1>5

LEMMA ClaimPut ==
    ASSUME NEW L, NEW C, NEW R, ClaimsOK(L, C), ReservedOK(L, C, R),
           NEW x \in ClaimT, x.entry.at \in DOMAIN L, x.entry.at \notin DOMAIN R
    PROVE  LET D == Put(C, ClaimOf(x.entry), x) IN ClaimsOK(L, D) /\ ReservedOK(L, D, R)
<1>0. PICK c, D : c = ClaimOf(x.entry) /\ D = Put(C, c, x)
  OBVIOUS
<1>1. /\ DOMAIN D = DOMAIN C \cup {c} /\ D[c] = x
      /\ \A y \in DOMAIN C : y # c => D[y] = C[y]
  BY <1>0 DEF Put
<1>2. ClaimsOK(L, D)
  <2>1. IsFiniteSet(DOMAIN D)
    BY <1>1, FS_AddElement DEF ClaimsOK
  <2> QED BY <1>0, <1>1, <2>1 DEF ClaimsOK, ClaimOK
<1>3. ReservedOK(L, D, R)
  <2>1. \A y \in DOMAIN R : \A k : <<y, k>> # c
    BY <1>0 DEF ClaimOf
  <2>2. \A y \in DOMAIN R : SameAt(L, C, L, D, y)
    BY <1>1, <2>1 DEF SameAt
  <2> QED BY <2>2, FramedAll
<1> QED BY <1>0, <1>2, <1>3

LEMMA ClaimsDrop ==
    ASSUME NEW L, NEW C, NEW R, ClaimsOK(L, C), ReservedOK(L, C, R),
           NEW S, \A c \in S : c[1] \notin DOMAIN R
    PROVE  LET D == Drop(C, S) IN ClaimsOK(L, D) /\ ReservedOK(L, D, R)
<1>0. PICK D : D = Drop(C, S)
  OBVIOUS
<1>1. DOMAIN D = DOMAIN C \ S /\ \A y \in DOMAIN C \ S : D[y] = C[y]
  BY <1>0 DEF Drop
<1>2. ClaimsOK(L, D)
  <2>1. DOMAIN D \in SUBSET DOMAIN C /\ IsFiniteSet(DOMAIN C)
    BY <1>1 DEF ClaimsOK
  <2>2. IsFiniteSet(DOMAIN D)
    BY <2>1, FS_Subset
  <2> QED BY <1>1, <2>2 DEF ClaimsOK, ClaimOK
<1>3. ReservedOK(L, D, R)
  <2>1. \A y \in DOMAIN R : \A k : <<y, k>> \notin S
    OBVIOUS
  <2>2. \A y \in DOMAIN R : SameAt(L, C, L, D, y)
    BY <1>1, <2>1 DEF SameAt
  <2> QED BY <2>2, FramedAll
<1> QED BY <1>0, <1>2, <1>3

LEMMA AppliedOK ==
    ASSUME NEW L, NEW C, NEW R, NEW m \in MutT, NEW t \in Int, TablesOK(L, C, R),
           m.at \notin DOMAIN R, NEW M, NEW D,
           M = AppliedLofts(L, C, R, m, t), D = AppliedClaims(L, C, R, m, t)
    PROVE  TablesOK(M, D, R) /\ RowsKept(L, M)
<1>0. /\ LoftsOK(L) /\ ClaimsOK(L, C) /\ ReservedOK(L, C, R)
      /\ \A e \in DOMAIN L : RowOK(e, L[e])
      /\ IsFiniteSet(DOMAIN L) /\ IsFiniteSet(DOMAIN C) /\ IsFiniteSet(DOMAIN R)
  BY DEF TablesOK, LoftsOK, ClaimsOK, ReservedOK
<1>a. RowsKept(L, L)
  BY DEF RowsKept
<1>b. pending_load(M, D, R) <= MaxPending
  <2>1. /\ IsFiniteSet(DOMAIN M) /\ IsFiniteSet(DOMAIN D)
        /\ \/ pending_load(M, D, R) <= pending_load(L, C, R)
           \/ HasRoom(L, C, R) /\ pending_load(M, D, R) <= pending_load(L, C, R) + 1
    BY AppliedLoad
  <2>2. pending_load(M, D, R) \in Nat /\ pending_load(L, C, R) \in Nat
    BY <1>0, <2>1, LoadParts
  <2>3. MaxPending \in Nat /\ pending_load(L, C, R) <= MaxPending
    BY DirectoryFacts DEF TablesOK
  <2> QED BY <2>1, <2>2, <2>3 DEF HasRoom
<1>c. SUFFICES LoftsOK(M) /\ ClaimsOK(M, D) /\ ReservedOK(M, D, R) /\ RowsKept(L, M)
  BY <1>b DEF TablesOK
<1>d. ASSUME NEW x, M = Put(L, m.at, x), D = C, RowOK(m.at, x),
             m.at \in DOMAIN L /\ L[m.at].proven => x.proven /\ x.key = L[m.at].key
      PROVE  LoftsOK(M) /\ ClaimsOK(M, D) /\ ReservedOK(M, D, R) /\ RowsKept(L, M)
  BY <1>0, <1>d, RowPut
<1>e. ASSUME NEW x \in ClaimT, M = L, x.entry = m, D = Put(C, ClaimOf(m), x), m.at \in DOMAIN L
      PROVE  LoftsOK(M) /\ ClaimsOK(M, D) /\ ReservedOK(M, D, R) /\ RowsKept(L, M)
  BY <1>0, <1>a, <1>e, ClaimPut
<1>1. CASE Drained(L, C, R, m, t, M, D)
  <2>1. RowOK(m.at, L[m.at]) /\ m.op = "drain" /\ L[m.at].key = m.key
    BY <1>0, <1>1 DEF Drained, Drains, SameKey
  <2>2. PICK x : /\ x = [L[m.at] EXCEPT !.state = "draining", !.drain = m.arg, !.seq = m.seq]
                 /\ RowOK(m.at, x) /\ x.proven = L[m.at].proven /\ x.key = L[m.at].key
    BY <2>1, DrainedOK
  <2>3. M = Put(L, m.at, x) /\ D = C
    BY <1>1, <2>2 DEF Drained
  <2> QED BY <1>d, <2>2, <2>3
<1>2. CASE Enrolled(L, C, R, m, t, M, D)
  <2>1. PICK x : x = NewRow(m, t) /\ RowOK(m.at, x)
    BY NewRowOK
  <2>2. M = Put(L, m.at, x) /\ D = C /\ m.at \notin DOMAIN L
    BY <1>2, <2>1 DEF Enrolled, Enrols
  <2> QED BY <1>d, <2>1, <2>2
<1>3. CASE Updated(L, C, R, m, t, M, D)
  <2>1. RowOK(m.at, L[m.at]) /\ L[m.at].key = m.key
    BY <1>0, <1>3 DEF Updated, Updates, SameKey
  <2>2. PICK x : /\ x = [L[m.at] EXCEPT !.entry = m, !.seq = m.seq]
                 /\ RowOK(m.at, x) /\ x.proven = L[m.at].proven /\ x.key = L[m.at].key
    <3>1. LET x == [L[m.at] EXCEPT !.entry = m, !.seq = m.seq] IN
          RowOK(m.at, x) /\ x.proven = L[m.at].proven /\ x.key = L[m.at].key
      BY <2>1, UpdatedOK, Zenon
    <3> QED BY <3>1
  <2>3. M = Put(L, m.at, x) /\ D = C
    BY <1>3, <2>2 DEF Updated
  <2> QED BY <1>d, <2>2, <2>3
<1>4. CASE Returned(L, C, R, m, t, M, D)
  <2>1. RowOK(m.at, L[m.at]) /\ L[m.at].key = m.key
    BY <1>0, <1>4 DEF Returned, Reenrols, SameKey
  <2>2. PICK x : /\ x = Reenrolled(L[m.at], m, t)
                 /\ RowOK(m.at, x) /\ x.proven = L[m.at].proven /\ x.key = L[m.at].key
    BY <2>1, ReenrolledOK
  <2>3. M = Put(L, m.at, x) /\ D = C
    BY <1>4, <2>2 DEF Returned
  <2> QED BY <1>d, <2>2, <2>3
<1>5. CASE Rivalled(L, C, R, m, t, M, D)
  <2>1. PICK x \in ClaimT : x = NewClaim(m, t) /\ x.entry = m
    BY NewRowOK
  <2>2. M = L /\ D = Put(C, ClaimOf(m), x) /\ m.at \in DOMAIN L
    BY <1>5, <2>1 DEF Rivalled, NewRival, MayRival
  <2> QED BY <1>e, <2>1, <2>2
<1>6. CASE RivalUpdated(L, C, R, m, t, M, D)
  <2>1. C[ClaimOf(m)] \in ClaimT /\ m.at \in DOMAIN L
    BY <1>0, <1>6 DEF RivalUpdated, UpdatesRival, MayRival, ClaimsOK, ClaimOK
  <2>2. PICK x \in ClaimT : x = [C[ClaimOf(m)] EXCEPT !.entry = m] /\ x.entry = m
    <3>1. PICK k \in ClaimT : k = C[ClaimOf(m)]
      BY <2>1
    <3>2. [k EXCEPT !.entry = m] \in ClaimT /\ [k EXCEPT !.entry = m].entry = m
      BY DEF ClaimT
    <3> QED BY <3>1, <3>2
  <2>3. M = L /\ D = Put(C, ClaimOf(m), x)
    BY <1>6, <2>2 DEF RivalUpdated
  <2> QED BY <1>e, <2>1, <2>2, <2>3
<1>7. CASE Unmoved(L, C, R, m, t, M, D)
  BY <1>0, <1>a, <1>7 DEF Unmoved
<1> QED BY AppliedForm, <1>1, <1>2, <1>3, <1>4, <1>5, <1>6, <1>7

-----------------------------------------------------------------------------
(***************************************************************************)
(* Expiry, reservation and consumption.                                    *)
(***************************************************************************)
LEMMA ExpireOK ==
    ASSUME TablesOK(lofts, claims, reserved), NEW t \in Int
    PROVE  LET L == expire_pending(t)
               C == expire_pending_claims(t) IN
           TablesOK(L, C, reserved) /\ RowsKept(lofts, L) /\ DOMAIN L = DOMAIN lofts
<1>0. PICK L, C : L = expire_pending(t) /\ C = expire_pending_claims(t)
  OBVIOUS
<1>1. /\ LoftsOK(lofts) /\ ClaimsOK(lofts, claims) /\ ReservedOK(lofts, claims, reserved)
      /\ IsFiniteSet(DOMAIN lofts) /\ IsFiniteSet(DOMAIN claims) /\ IsFiniteSet(DOMAIN reserved)
      /\ pending_load(lofts, claims, reserved) <= MaxPending
  BY DEF TablesOK, LoftsOK, ClaimsOK, ReservedOK
<1>2. DOMAIN L = DOMAIN lofts
  BY <1>0 DEF expire_pending
<1>3. ASSUME NEW e \in DOMAIN lofts
      PROVE  /\ RowOK(e, L[e]) /\ L[e].proven = lofts[e].proven /\ L[e].key = lofts[e].key
             /\ L[e].state = "pending" => lofts[e].state = "pending"
             /\ Fenced(e) => L[e] = lofts[e]
  <2>1. PICK r : r = lofts[e]
    OBVIOUS
  <2>2. RowOK(e, r)
    BY <1>1, <2>1 DEF LoftsOK
  <2>3. \/ L[e] = r
        \/ /\ L[e] = [r EXCEPT !.state = "removed", !.clean = Never, !.due = Never]
           /\ ~Fenced(e)
    BY <1>0, <2>1 DEF expire_pending
  <2>4. CASE L[e] = r
    BY <2>1, <2>2, <2>4
  <2>5. CASE /\ L[e] = [r EXCEPT !.state = "removed", !.clean = Never, !.due = Never]
             /\ ~Fenced(e)
    <3>1. r \in RowT
      BY <2>2 DEF RowOK
    <3>2. L[e] \in RowT
      <4>1. "removed" \in State /\ Never \in Int
        BY DEF State, Never
      <4> QED BY <2>5, <3>1, <4>1 DEF RowT
    <3>3. /\ L[e].state = "removed" /\ L[e].proven = r.proven /\ L[e].key = r.key
          /\ L[e].entry = r.entry
      BY <2>5, <3>1 DEF RowT
    <3> QED BY <2>1, <2>2, <2>5, <3>2, <3>3 DEF RowOK
  <2> QED BY <2>3, <2>4, <2>5
<1>4. LoftsOK(L) /\ RowsKept(lofts, L) /\ PendingRows(L) \subseteq PendingRows(lofts)
  BY <1>1, <1>2, <1>3 DEF LoftsOK, RowsKept, PendingRows
<1>5. ClaimsOK(L, claims)
  BY <1>1, <1>2 DEF ClaimsOK, ClaimOK
<1>6. ReservedOK(L, claims, reserved)
  <2>1. \A e \in DOMAIN reserved : SameAt(lofts, claims, L, claims, e)
    BY <1>2, <1>3 DEF SameAt, Fenced
  <2> QED BY <1>1, <2>1, FramedAll
<1>7. ClaimsOK(L, C) /\ ReservedOK(L, C, reserved)
  <2>1. PICK S : /\ S = {c \in DOMAIN claims : /\ claims[c].first <= t - PendingExpire
                                              /\ ~Fenced(c[1])}
                 /\ C = Drop(claims, S)
    BY <1>0 DEF expire_pending_claims
  <2>2. \A c \in S : c[1] \notin DOMAIN reserved
    BY <2>1 DEF Fenced
  <2> QED BY <1>5, <1>6, <2>1, <2>2, ClaimsDrop
<1>8. DOMAIN C \subseteq DOMAIN claims
  BY <1>0 DEF expire_pending_claims, Drop
<1>9. IsFiniteSet(DOMAIN C)
  BY <1>7 DEF ClaimsOK
<1>10. pending_load(L, C, reserved) <= pending_load(lofts, claims, reserved)
  BY <1>1, <1>2, <1>4, <1>8, <1>9, LoadShrinks
<1>11. /\ pending_load(L, C, reserved) \in Nat /\ pending_load(lofts, claims, reserved) \in Nat
       /\ MaxPending \in Nat
  BY <1>1, <1>2, <1>9, LoadParts, DirectoryFacts
<1>12. pending_load(L, C, reserved) <= MaxPending
  BY <1>1, <1>10, <1>11
<1> QED BY <1>0, <1>2, <1>4, <1>7, <1>12 DEF TablesOK

\* What applies is reserved with a place when it needs one.
LEMMA ReserveOK ==
    ASSUME NEW L, NEW C, NEW R, TablesOK(L, C, R), NEW m \in MutT, m.at \notin DOMAIN R,
           Applies(L, C, R, m), NEW t \in Nat, NEW slot \in BOOLEAN,
           slot <=> /\ m.op = "add"
                    /\ pending_load(AppliedLofts(L, C, R, m, t), AppliedClaims(L, C, R, m, t), R)
                         > pending_load(L, C, R)
    PROVE  TablesOK(L, C, Put(R, m.at, [mutation |-> m, at |-> t, slot |-> slot]))
<1>0. PICK M, D : M = AppliedLofts(L, C, R, m, t) /\ D = AppliedClaims(L, C, R, m, t)
  OBVIOUS
<1>a. PICK r, Q : r = [mutation |-> m, at |-> t, slot |-> slot] /\ Q = Put(R, m.at, r)
  OBVIOUS
<1>b. r \in ReservationT /\ r.mutation = m /\ r.slot = slot
  BY <1>a DEF ReservationT
<1>1. /\ LoftsOK(L) /\ ClaimsOK(L, C) /\ ReservedOK(L, C, R)
      /\ IsFiniteSet(DOMAIN L) /\ IsFiniteSet(DOMAIN C) /\ IsFiniteSet(DOMAIN R)
      /\ pending_load(L, C, R) <= MaxPending
  BY DEF TablesOK, LoftsOK, ClaimsOK, ReservedOK
<1>2. /\ IsFiniteSet(DOMAIN M) /\ IsFiniteSet(DOMAIN D)
      /\ \/ pending_load(M, D, R) <= pending_load(L, C, R)
         \/ HasRoom(L, C, R) /\ pending_load(M, D, R) <= pending_load(L, C, R) + 1
      /\ m.op = "add" /\ NeedsPlace(L, C, m) /\ HasRoom(L, C, R)
           => pending_load(M, D, R) > pending_load(L, C, R)
  <2>1. t \in Int
    OBVIOUS
  <2> QED BY <1>0, <2>1, AppliedLoad
<1>3. /\ pending_load(L, C, R) \in Nat /\ pending_load(M, D, R) \in Nat /\ MaxPending \in Nat
  BY <1>1, <1>2, LoadParts, DirectoryFacts
<1>4. slot => HasRoom(L, C, R)
  <2>1. slot => pending_load(M, D, R) > pending_load(L, C, R)
    BY <1>0
  <2> QED BY <2>1, <1>2, <1>3
<1>5. WillApply(L, C, r)
  <2>1. m.op \in {"add", "drain"}
    BY MutFacts
  <2>2. CASE m.op = "drain"
    BY <2>2, <1>b DEF Applies, WillApply
  <2>3. CASE m.op = "add"
    <3>1. CASE Updates(L, m) \/ UpdatesRival(L, C, m) \/ RepeatsAdd(L, C, m)
      BY <1>b, <2>3, <3>1 DEF WillApply
    <3>2. CASE Enrols(L, C, R, m) \/ Reenrols(L, C, R, m) \/ NewRival(L, C, R, m)
      <4>1. NeedsPlace(L, C, m) /\ HasRoom(L, C, R)
        BY <3>2 DEF Enrols, Reenrols, NewRival, NeedsPlace
      <4>2. slot
        BY <1>0, <1>2, <2>3, <4>1
      <4> QED BY <1>b, <2>3, <4>1, <4>2 DEF WillApply
    <3> QED BY <2>3, <3>1, <3>2 DEF Applies
  <2> QED BY <2>1, <2>2, <2>3
<1>6. /\ DOMAIN Q = DOMAIN R \cup {m.at} /\ Q[m.at] = r
      /\ \A e \in DOMAIN R : Q[e] = R[e]
  BY <1>a DEF Put
<1>7. IsFiniteSet(DOMAIN Q)
  BY <1>1, <1>6, FS_AddElement
<1>8. ReservedOK(L, C, Q)
  BY <1>1, <1>5, <1>6, <1>7, <1>b DEF ReservedOK
<1>9. pending_load(L, C, Q) \in Nat
  BY <1>1, <1>7, LoadParts
<1>10. pending_load(L, C, Q) <= MaxPending
  <2>1. CASE slot
    <3>1. Slotted(Q) \subseteq Slotted(R) \cup {m.at}
      BY <1>6 DEF Slotted
    <3>2. pending_load(L, C, Q) <= pending_load(L, C, R) + 1
      BY <1>1, <1>7, <3>1, LoadGrowsByOne
    <3> QED BY <1>3, <1>4, <1>9, <2>1, <3>2 DEF HasRoom
  <2>2. CASE ~slot
    <3>1. Slotted(Q) \subseteq Slotted(R)
      BY <1>6, <1>b, <2>2 DEF Slotted
    <3>2. pending_load(L, C, Q) <= pending_load(L, C, R)
      BY <1>1, <1>7, <3>1, LoadShrinks
    <3> QED BY <1>1, <1>3, <1>9, <3>2
  <2> QED BY <2>1, <2>2
<1> QED BY <1>1, <1>8, <1>10, <1>a DEF TablesOK

\* What is reserved applies when its reservation is consumed.
LEMMA ConsumeOK ==
    ASSUME NEW L, NEW C, NEW R, TablesOK(L, C, R), NEW e \in DOMAIN R
    PROVE  /\ TablesOK(L, C, Drop(R, {e}))
           /\ Applies(L, C, Drop(R, {e}), R[e].mutation)
<1>0. PICK Q : Q = Drop(R, {e})
  OBVIOUS
<1>1. /\ LoftsOK(L) /\ ClaimsOK(L, C) /\ ReservedOK(L, C, R)
      /\ IsFiniteSet(DOMAIN L) /\ IsFiniteSet(DOMAIN C) /\ IsFiniteSet(DOMAIN R)
      /\ pending_load(L, C, R) <= MaxPending
  BY DEF TablesOK, LoftsOK, ClaimsOK, ReservedOK
<1>2. DOMAIN Q = DOMAIN R \ {e} /\ \A y \in DOMAIN Q : Q[y] = R[y]
  BY <1>0 DEF Drop
<1>3. IsFiniteSet(DOMAIN Q)
  BY <1>1, <1>2, FS_RemoveElement
<1>4. ReservedOK(L, C, Q)
  BY <1>1, <1>2, <1>3 DEF ReservedOK
<1>5. Slotted(Q) = Slotted(R) \ {e}
  BY <1>2 DEF Slotted
<1>6. /\ pending_load(L, C, R) \in Nat /\ pending_load(L, C, Q) \in Nat /\ MaxPending \in Nat
  BY <1>1, <1>3, LoadParts, DirectoryFacts
<1>7. pending_load(L, C, Q) <= pending_load(L, C, R)
  BY <1>1, <1>3, <1>5, LoadShrinks
<1>8. R[e].slot => HasRoom(L, C, Q)
  <2> HAVE R[e].slot
  <2>1. /\ IsFiniteSet(Slotted(R)) /\ Cardinality(PendingRows(L)) \in Nat
        /\ Cardinality(DOMAIN C) \in Nat /\ Cardinality(Slotted(R)) \in Nat
        /\ pending_load(L, C, R) = Cardinality(PendingRows(L)) + Cardinality(DOMAIN C)
                                     + Cardinality(Slotted(R))
    BY <1>1, LoadParts
  <2>2. pending_load(L, C, Q) = Cardinality(PendingRows(L)) + Cardinality(DOMAIN C)
                                  + Cardinality(Slotted(Q))
    BY DEF pending_load, Slotted
  <2>3. e \in Slotted(R)
    BY DEF Slotted
  <2>4. Cardinality(Slotted(Q)) = Cardinality(Slotted(R)) - 1
    BY <1>5, <2>1, <2>3, FS_RemoveElement
  <2> QED BY <1>1, <1>6, <2>1, <2>2, <2>4 DEF HasRoom
<1>9. Applies(L, C, Q, R[e].mutation)
  <2>1. WillApply(L, C, R[e])
    BY <1>1 DEF ReservedOK
  <2>2. PICK m : m = R[e].mutation
    OBVIOUS
  <2>3. CASE m.op = "drain" /\ (RepeatsDrain(L, m) \/ Drains(L, m))
    BY <2>2, <2>3 DEF Applies
  <2>4. CASE m.op = "add" /\ (Updates(L, m) \/ UpdatesRival(L, C, m) \/ RepeatsAdd(L, C, m))
    BY <2>2, <2>4 DEF Applies
  <2>5. CASE m.op = "add" /\ R[e].slot /\ NeedsPlace(L, C, m)
    <3>1. Enrols(L, C, Q, m) \/ Reenrols(L, C, Q, m) \/ NewRival(L, C, Q, m)
      BY <1>8, <2>5 DEF NeedsPlace, Enrols, Reenrols, NewRival
    <3> QED BY <2>2, <2>5, <3>1 DEF Applies
  <2> QED BY <2>1, <2>2, <2>3, <2>4, <2>5 DEF WillApply
<1>10. pending_load(L, C, Q) <= MaxPending
  BY <1>1, <1>6, <1>7
<1> QED BY <1>0, <1>1, <1>4, <1>9, <1>10 DEF TablesOK

-----------------------------------------------------------------------------
(***************************************************************************)
(* The prober.                                                             *)
(***************************************************************************)
Leased(f, S, d) == [x \in DOMAIN f |-> IF x \in S THEN [f[x] EXCEPT !.due = d] ELSE f[x]]

\* Leasing moves the due times of entries that are not fenced.
LEMMA LeaseOK ==
    ASSUME NEW L, NEW C, NEW R, TablesOK(L, C, R), NEW d \in Int, NEW E, NEW F,
           \A e \in E : e \notin DOMAIN R, \A c \in F : c[1] \notin DOMAIN R
    PROVE  TablesOK(Leased(L, E, d), Leased(C, F, d), R) /\ RowsKept(L, Leased(L, E, d))
<1>0. PICK M, D : M = Leased(L, E, d) /\ D = Leased(C, F, d)
  OBVIOUS
<1>1. /\ LoftsOK(L) /\ ClaimsOK(L, C) /\ ReservedOK(L, C, R)
      /\ IsFiniteSet(DOMAIN L) /\ IsFiniteSet(DOMAIN C) /\ IsFiniteSet(DOMAIN R)
      /\ pending_load(L, C, R) <= MaxPending
  BY DEF TablesOK, LoftsOK, ClaimsOK, ReservedOK
<1>2. DOMAIN M = DOMAIN L /\ DOMAIN D = DOMAIN C
  BY <1>0 DEF Leased
<1>3. ASSUME NEW e \in DOMAIN L
      PROVE  /\ RowOK(e, M[e]) /\ M[e].state = L[e].state
             /\ M[e].proven = L[e].proven /\ M[e].key = L[e].key
             /\ e \notin E => M[e] = L[e]
  <2>1. PICK r : r = L[e]
    OBVIOUS
  <2>2. RowOK(e, r)
    BY <1>1, <2>1 DEF LoftsOK
  <2>3. CASE e \notin E
    BY <1>0, <2>1, <2>2, <2>3 DEF Leased
  <2>4. CASE e \in E
    <3>1. M[e] = [r EXCEPT !.due = d] /\ r \in RowT
      BY <1>0, <2>1, <2>2, <2>4 DEF RowOK, Leased
    <3>2. /\ M[e] \in RowT /\ M[e].state = r.state /\ M[e].proven = r.proven
          /\ M[e].key = r.key /\ M[e].entry = r.entry
      BY <3>1 DEF RowT
    <3> QED BY <2>1, <2>2, <2>4, <3>2 DEF RowOK
  <2> QED BY <2>3, <2>4
<1>4. ASSUME NEW c \in DOMAIN C
      PROVE  ClaimOK(M, c, D[c]) /\ (c \notin F => D[c] = C[c])
  <2>1. PICK k : k = C[c]
    OBVIOUS
  <2>2. ClaimOK(L, c, k)
    BY <1>1, <2>1 DEF ClaimsOK
  <2>3. CASE c \notin F
    BY <1>0, <1>2, <2>1, <2>2, <2>3 DEF ClaimOK, Leased
  <2>4. CASE c \in F
    <3>1. D[c] = [k EXCEPT !.due = d] /\ k \in ClaimT
      BY <1>0, <2>1, <2>2, <2>4 DEF ClaimOK, Leased
    <3>2. D[c] \in ClaimT /\ D[c].entry = k.entry
      BY <3>1 DEF ClaimT
    <3> QED BY <1>2, <2>2, <2>4, <3>2 DEF ClaimOK
  <2> QED BY <2>3, <2>4
<1>5. LoftsOK(M) /\ ClaimsOK(M, D) /\ RowsKept(L, M)
  BY <1>1, <1>2, <1>3, <1>4 DEF LoftsOK, ClaimsOK, RowsKept
<1>6. ReservedOK(M, D, R)
  <2>1. \A e \in DOMAIN R : e \in DOMAIN L => M[e] = L[e]
    BY <1>3
  <2>2. \A e \in DOMAIN R : \A k : <<e, k>> \in DOMAIN C => D[<<e, k>>] = C[<<e, k>>]
    <3> SUFFICES ASSUME NEW e \in DOMAIN R, NEW k, <<e, k>> \in DOMAIN C
                 PROVE  D[<<e, k>>] = C[<<e, k>>]
      OBVIOUS
    <3>1. <<e, k>> \notin F
      OBVIOUS
    <3> QED BY <1>4, <3>1
  <2>3. \A e \in DOMAIN R : SameAt(L, C, M, D, e)
    BY <1>2, <2>1, <2>2 DEF SameAt
  <2> QED BY <1>1, <2>3, FramedAll
<1>7. PendingRows(M) = PendingRows(L)
  BY <1>2, <1>3 DEF PendingRows
<1>8. pending_load(M, D, R) = pending_load(L, C, R)
  BY <1>2, <1>7 DEF pending_load
<1> QED BY <1>0, <1>1, <1>5, <1>6, <1>8 DEF TablesOK

\* The row r of endpoint e keeps its key and its number, stays proven and is
\* not made pending.
RowStep(e, r, x) ==
    /\ RowOK(e, x) /\ x.key = r.key /\ x.seq = r.seq /\ (r.proven => x.proven)
    /\ x.state = "pending" => r.state = "pending"

\* A probe does that, and proves a row only for its owner.
LEMMA ProbedOK ==
    ASSUME NEW L, NEW e, NEW r, RowOK(e, r), NEW ok \in BOOLEAN, ok => r.key = Owner[e],
           NEW t \in Int
    PROVE  RowStep(e, r, Probed(L, r, ok, t)) /\ (ok => Probed(L, r, ok, t).proven)
<1>0. /\ r \in RowT /\ r.fails \in Nat /\ r.clean \in Int /\ r.degraded \in Int
      /\ r.state \in State /\ r.proven \in BOOLEAN
  BY DEF RowOK, RowT
<1>1. DegradeAfter \in Nat /\ ProbeInterval \in Nat /\ Never \in Int
  BY DirectoryFacts DEF Never
<1> DEFINE fails == IF ok THEN 0 ELSE Least(r.fails + 1, DegradeAfter)
           clean == IF r.clean = Never THEN t ELSE r.clean
           next ==
             CASE r.state = "draining" ->
                    IF r.drain <= t THEN "removed" ELSE "draining"
               [] r.state = "pending" ->
                    IF t - r.first >= PendingExpire THEN "removed"
                    ELSE IF /\ ok
                            /\ t - clean >= PromoteAfter
                            /\ Cardinality(Public(L)) < MaxPublic
                         THEN "active" ELSE "pending"
               [] r.state = "active" ->
                    IF fails >= DegradeAfter THEN "degraded" ELSE "active"
               [] r.state = "degraded" ->
                    IF ok THEN "active"
                    ELSE IF t - r.degraded >= RemoveAfter THEN "removed" ELSE "degraded"
               [] OTHER -> r.state
<1>a. fails \in Nat /\ clean \in Int
  BY <1>0, <1>1 DEF Least
<1>b. next \in State /\ (next = "pending" => r.state = "pending")
  <2> HIDE DEF fails, clean
  <2>1. CASE r.state = "draining"
    BY <2>1 DEF State
  <2>2. CASE r.state = "pending"
    BY <2>2 DEF State
  <2>3. CASE r.state = "active"
    BY <2>3 DEF State
  <2>4. CASE r.state = "degraded"
    BY <2>4 DEF State
  <2>5. CASE r.state = "removed"
    BY <2>5 DEF State
  <2> QED BY <1>0, <2>1, <2>2, <2>3, <2>4, <2>5 DEF State
<1>2. PICK n, f, d : n = next /\ f = fails /\ d = t + ProbeInterval
  OBVIOUS
<1>3. PICK c : c = IF n = "pending" /\ ok THEN clean ELSE Never
  OBVIOUS
<1>4. PICK g : g = IF n # "degraded" THEN Never
                   ELSE IF r.state = "degraded" THEN r.degraded ELSE t
  OBVIOUS
<1>5. PICK b : b = (r.proven \/ ok)
  OBVIOUS
<1>6. PICK x : x = [r EXCEPT !.state = n, !.fails = f, !.clean = c, !.degraded = g,
                             !.due = d, !.proven = b]
  OBVIOUS
<1>7. Probed(L, r, ok, t) = x
  BY <1>2, <1>3, <1>4, <1>5, <1>6 DEF Probed
<1> HIDE DEF next, fails, clean
<1>8. c \in Int /\ g \in Int /\ d \in Int
  BY <1>0, <1>1, <1>a, <1>2, <1>3, <1>4
<1>9. b \in BOOLEAN /\ (r.proven => b) /\ (ok => b) /\ (b => r.key = Owner[e])
  BY <1>0, <1>5 DEF RowOK
<1>10. /\ x \in RowT /\ x.state = n /\ x.key = r.key /\ x.entry = r.entry /\ x.proven = b
       /\ x.seq = r.seq
  BY <1>0, <1>a, <1>b, <1>2, <1>6, <1>8, <1>9 DEF RowT
<1>11. RowOK(e, x)
  BY <1>9, <1>10 DEF RowOK
<1>12. RowStep(e, r, x) /\ (ok => x.proven)
  BY <1>b, <1>2, <1>9, <1>10, <1>11 DEF RowStep
<1> QED BY <1>7, <1>12

\* A row is written at an endpoint that is not fenced, its claims kept or dropped.
LEMMA MoveOK ==
    ASSUME NEW L, NEW C, NEW R, TablesOK(L, C, R), NEW e, e \notin DOMAIN R,
           NEW x, RowOK(e, x),
           e \in DOMAIN L /\ L[e].proven => x.proven /\ x.key = L[e].key,
           NEW M, M = Put(L, e, x), NEW D, D = C \/ D = Drop(C, ClaimsAt(C, e)),
           pending_load(M, D, R) <= MaxPending
    PROVE  TablesOK(M, D, R) /\ RowsKept(L, M)
<1>1. LoftsOK(M) /\ ClaimsOK(M, C) /\ ReservedOK(M, C, R) /\ RowsKept(L, M)
  BY RowPut DEF TablesOK
<1>2. ClaimsOK(M, D) /\ ReservedOK(M, D, R)
  <2>1. CASE D = C
    BY <1>1, <2>1
  <2>2. CASE D = Drop(C, ClaimsAt(C, e))
    <3>1. \A c \in ClaimsAt(C, e) : c[1] \notin DOMAIN R
      BY DEF ClaimsAt
    <3> QED BY <1>1, <2>2, <3>1, ClaimsDrop
  <2> QED BY <2>1, <2>2
<1> QED BY <1>1, <1>2 DEF TablesOK

\* A row that does not become pending.
LEMMA RowMoveOK ==
    ASSUME NEW L, NEW C, NEW R, TablesOK(L, C, R), NEW e \in DOMAIN L, e \notin DOMAIN R,
           NEW x, RowOK(e, x), L[e].proven => x.proven /\ x.key = L[e].key,
           x.state = "pending" => L[e].state = "pending",
           NEW D, D = C \/ D = Drop(C, ClaimsAt(C, e))
    PROVE  TablesOK(Put(L, e, x), D, R) /\ RowsKept(L, Put(L, e, x))
<1>0. /\ IsFiniteSet(DOMAIN L) /\ IsFiniteSet(DOMAIN C) /\ IsFiniteSet(DOMAIN R)
      /\ pending_load(L, C, R) <= MaxPending
  BY DEF TablesOK, LoftsOK, ClaimsOK, ReservedOK
<1>1. PICK M : M = Put(L, e, x)
  OBVIOUS
<1>2. DOMAIN M = DOMAIN L
  BY <1>1 DEF Put
<1>3. PendingRows(M) \subseteq PendingRows(L)
  BY <1>1 DEF PendingRows, Put
<1>4. DOMAIN D \subseteq DOMAIN C
  BY DEF Drop
<1>5. IsFiniteSet(DOMAIN D)
  BY <1>0, <1>4, FS_Subset
<1>6. pending_load(M, D, R) <= pending_load(L, C, R)
  BY <1>0, <1>2, <1>3, <1>4, <1>5, LoadShrinks
<1>7. pending_load(M, D, R) \in Nat /\ pending_load(L, C, R) \in Nat /\ MaxPending \in Nat
  BY <1>0, <1>2, <1>5, LoadParts, DirectoryFacts
<1>8. pending_load(M, D, R) <= MaxPending
  BY <1>0, <1>6, <1>7
<1> QED BY <1>1, <1>8, MoveOK

\* A claim that takes its endpoint: its own place in the queue pays for the row.
LEMMA ClaimMoveOK ==
    ASSUME NEW L, NEW C, NEW R, TablesOK(L, C, R), NEW e \in DOMAIN L, e \notin DOMAIN R,
           ~L[e].proven, NEW x, RowOK(e, x), NEW c \in ClaimsAt(C, e)
    PROVE  LET M == Put(L, e, x)
               D == Drop(C, ClaimsAt(C, e)) IN TablesOK(M, D, R) /\ RowsKept(L, M)
<1>0. /\ IsFiniteSet(DOMAIN L) /\ IsFiniteSet(DOMAIN C) /\ IsFiniteSet(DOMAIN R)
      /\ pending_load(L, C, R) <= MaxPending
  BY DEF TablesOK, LoftsOK, ClaimsOK, ReservedOK
<1>1. PICK M, D : M = Put(L, e, x) /\ D = Drop(C, ClaimsAt(C, e))
  OBVIOUS
<1>2. DOMAIN M = DOMAIN L
  BY <1>1 DEF Put
<1>3. PendingRows(M) \subseteq PendingRows(L) \cup {e}
  BY <1>1 DEF PendingRows, Put
<1>4. c \in DOMAIN C /\ DOMAIN D \subseteq DOMAIN C \ {c}
  BY <1>1 DEF Drop, ClaimsAt
<1>5. IsFiniteSet(DOMAIN C \ {c}) /\ Cardinality(DOMAIN C \ {c}) = Cardinality(DOMAIN C) - 1
  BY <1>0, <1>4, FS_RemoveElement
<1>6. IsFiniteSet(DOMAIN D)
  BY <1>4, <1>5, FS_Subset
<1>7. Cardinality(DOMAIN D) <= Cardinality(DOMAIN C) - 1
  <2>1. Cardinality(DOMAIN D) <= Cardinality(DOMAIN C \ {c})
    BY <1>4, <1>5, NoMore
  <2> QED BY <1>5, <2>1
<1>8. /\ IsFiniteSet(PendingRows(L)) /\ Cardinality(PendingRows(L)) \in Nat
      /\ Cardinality(DOMAIN C) \in Nat /\ Cardinality(Slotted(R)) \in Nat
      /\ pending_load(L, C, R) = Cardinality(PendingRows(L)) + Cardinality(DOMAIN C)
                                   + Cardinality(Slotted(R))
  BY <1>0, LoadParts
<1>9. /\ Cardinality(PendingRows(M)) \in Nat /\ Cardinality(DOMAIN D) \in Nat
      /\ pending_load(M, D, R) = Cardinality(PendingRows(M)) + Cardinality(DOMAIN D)
                                   + Cardinality(Slotted(R))
  BY <1>0, <1>2, <1>6, LoadParts
<1>10. Cardinality(PendingRows(M)) <= Cardinality(PendingRows(L)) + 1
  BY <1>3, <1>8, OneMore
<1>11. MaxPending \in Nat
  BY DirectoryFacts
<1>12. pending_load(M, D, R) <= MaxPending
  BY <1>0, <1>7, <1>8, <1>9, <1>10, <1>11
<1> QED BY <1>1, <1>12, MoveOK

\* The row of the endpoint was probed.
LEMMA RowProbedOK ==
    ASSUME NEW L, NEW C, NEW R, TablesOK(L, C, R), NEW p, p.at \in DOMAIN L,
           p.at \notin DOMAIN R, IsRow(L, p), NEW ok \in BOOLEAN,
           ok => p.key = Owner[p.at], NEW t \in Int,
           NEW D, D = C \/ D = Drop(C, ClaimsAt(C, p.at))
    PROVE  LET M == Put(L, p.at, Probed(L, L[p.at], ok, t)) IN
           TablesOK(M, D, R) /\ RowsKept(L, M)
<1>1. PICK e, r : e = p.at /\ r = L[e]
  OBVIOUS
<1>2. RowOK(e, r) /\ (ok => r.key = Owner[e])
  BY <1>1 DEF TablesOK, LoftsOK, IsRow
<1>3. PICK x : x = Probed(L, r, ok, t)
  OBVIOUS
<1>4. RowStep(e, r, x)
  BY <1>2, <1>3, ProbedOK
<1>5. TablesOK(Put(L, e, x), D, R) /\ RowsKept(L, Put(L, e, x))
  BY <1>1, <1>4, RowMoveOK DEF RowStep
<1> QED BY <1>1, <1>3, <1>5

\* The loft of a claim answered, and nobody is proven.
LEMMA ClaimWonOK ==
    ASSUME NEW L, NEW C, NEW R, TablesOK(L, C, R), NEW p, p.at \in DOMAIN L,
           p.at \notin DOMAIN R, IsClaim(C, p), ~L[p.at].proven,
           p.key = Owner[p.at], NEW t \in Int
    PROVE  LET M == Put(L, p.at, Probed(L, Winner(C, p, t), TRUE, t))
               D == Drop(C, ClaimsAt(C, p.at)) IN TablesOK(M, D, R) /\ RowsKept(L, M)
<1>1. PICK c : c = ClaimOf(p) /\ c \in DOMAIN C /\ ClaimOK(L, c, C[c])
  BY DEF IsClaim, TablesOK, ClaimsOK
<1>2. PICK m \in MutT : m = C[c].entry /\ m.at = p.at /\ m.key = p.key
  BY <1>1 DEF ClaimOK, ClaimOf, ClaimT
<1>3. PICK r : r = Winner(C, p, t) /\ RowOK(p.at, r) /\ r.key = Owner[p.at]
  BY <1>1, <1>2, NewRowOK DEF Winner
<1>4. PICK x : x = Probed(L, r, TRUE, t) /\ RowOK(p.at, x)
  BY <1>3, ProbedOK DEF RowStep
<1>5. c \in ClaimsAt(C, p.at)
  BY <1>1 DEF ClaimsAt, ClaimOf
<1>6. LET M == Put(L, p.at, x)
          D == Drop(C, ClaimsAt(C, p.at)) IN TablesOK(M, D, R) /\ RowsKept(L, M)
  BY <1>4, <1>5, ClaimMoveOK
<1> QED BY <1>3, <1>4, <1>6

\* A claim lost to a proven row.
LEMMA ClaimLostOK ==
    ASSUME NEW L, NEW C, NEW R, TablesOK(L, C, R), NEW e, e \notin DOMAIN R
    PROVE  TablesOK(L, Drop(C, ClaimsAt(C, e)), R)
<1>0. /\ IsFiniteSet(DOMAIN L) /\ IsFiniteSet(DOMAIN C) /\ IsFiniteSet(DOMAIN R)
      /\ pending_load(L, C, R) <= MaxPending /\ ClaimsOK(L, C) /\ ReservedOK(L, C, R)
  BY DEF TablesOK, LoftsOK, ClaimsOK, ReservedOK
<1>1. PICK D : D = Drop(C, ClaimsAt(C, e))
  OBVIOUS
<1>2. \A c \in ClaimsAt(C, e) : c[1] \notin DOMAIN R
  BY DEF ClaimsAt
<1>3. ClaimsOK(L, D) /\ ReservedOK(L, D, R)
  BY <1>0, <1>1, <1>2, ClaimsDrop
<1>4. DOMAIN D \subseteq DOMAIN C /\ IsFiniteSet(DOMAIN D)
  BY <1>1, <1>3 DEF Drop, ClaimsOK
<1>5. pending_load(L, D, R) <= pending_load(L, C, R)
  BY <1>0, <1>4, LoadShrinks
<1>6. pending_load(L, D, R) \in Nat /\ pending_load(L, C, R) \in Nat /\ MaxPending \in Nat
  BY <1>0, <1>4, LoadParts, DirectoryFacts
<1>7. pending_load(L, D, R) <= MaxPending
  BY <1>0, <1>5, <1>6
<1> QED BY <1>1, <1>3, <1>7 DEF TablesOK

-----------------------------------------------------------------------------
(***************************************************************************)
(* The transactions on the tables, as the actions make them.               *)
(***************************************************************************)
TablesKept ==
    TablesOK(lofts, claims, reserved)' /\ RowsKept(lofts, lofts')

LEMMA RowsKeptTwice ==
    ASSUME NEW L, NEW M, NEW N, RowsKept(L, M), RowsKept(M, N)
    PROVE  RowsKept(L, N)
BY DEF RowsKept

LEMMA SameTables ==
    ASSUME TablesOK(lofts, claims, reserved), UNCHANGED <<lofts, claims, reserved>>
    PROVE  TablesKept
BY DEF TablesKept, RowsKept

LEMMA ReserveStep ==
    ASSUME TablesOK(lofts, claims, reserved), clock \in Nat, NEW m \in MutT, Reserve(m)
    PROVE  TablesKept
<1>1. PICK L, C : L = LoftsFor(m) /\ C = ClaimsFor(m)
  OBVIOUS
<1>2. TablesOK(L, C, reserved) /\ RowsKept(lofts, L)
  <2>1. CASE Expires(m)
    <3>1. clock \in Int
      OBVIOUS
    <3>2. L = expire_pending(clock) /\ C = expire_pending_claims(clock)
      BY <1>1, <2>1 DEF LoftsFor, ClaimsFor
    <3> QED BY <3>1, <3>2, ExpireOK
  <2>2. CASE ~Expires(m)
    BY <1>1, <2>2 DEF LoftsFor, ClaimsFor, RowsKept
  <2> QED BY <2>1, <2>2
<1>3. lofts' = L /\ claims' = C
  BY <1>1 DEF Reserve
<1>4. CASE AlreadyReserved(m)
  BY <1>2, <1>3, <1>4 DEF Reserve, TablesKept
<1>5. CASE ~AlreadyReserved(m)
  <2>1. Reservable(m)
    BY <1>5 DEF Reserve, MayReserve
  <2>2. m.at \notin DOMAIN reserved /\ Applies(L, C, reserved, m)
    BY <1>1, <2>1 DEF Reservable, Fenced
  <2>3. TakesSlot(m) \in BOOLEAN
    BY DEF TakesSlot
  <2>4. PICK slot \in BOOLEAN : slot = TakesSlot(m)
    BY <2>3
  <2>5. slot <=> /\ m.op = "add"
                 /\ pending_load(AppliedLofts(L, C, reserved, m, clock),
                                 AppliedClaims(L, C, reserved, m, clock), reserved)
                      > pending_load(L, C, reserved)
    BY <1>1, <2>4 DEF TakesSlot
  <2>6. TablesOK(L, C, Put(reserved, m.at, [mutation |-> m, at |-> clock, slot |-> slot]))
    BY <1>2, <2>2, <2>5, ReserveOK
  <2>7. reserved' = Put(reserved, m.at, [mutation |-> m, at |-> clock, slot |-> slot])
    BY <1>5, <2>4 DEF Reserve
  <2> QED BY <1>2, <1>3, <2>6, <2>7 DEF TablesKept
<1> QED BY <1>4, <1>5

LEMMA FinalizeStep ==
    ASSUME TablesOK(lofts, claims, reserved), NEW m \in MutT, NEW n, Finalize(m, n)
    PROVE  TablesKept
<1>1. CASE ~AlreadyReserved(m)
  BY <1>1, SameTables DEF Finalize
<1>2. CASE AlreadyReserved(m)
  <2>1. m.at \in DOMAIN reserved /\ reserved[m.at].mutation = m
    BY <1>2 DEF AlreadyReserved, Fenced
  <2>2. reserved[m.at] \in ReservationT
    BY <2>1 DEF TablesOK, ReservedOK
  <2>3. PICK t \in Int : t = reserved[m.at].at
    BY <2>2 DEF ReservationT
  <2>4. PICK R : R = Drop(reserved, {m.at})
    OBVIOUS
  <2>5. TablesOK(lofts, claims, R)
    BY <2>1, <2>4, ConsumeOK
  <2>6. m.at \notin DOMAIN R
    BY <2>4 DEF Drop
  <2>7. /\ lofts' = AppliedLofts(lofts, claims, R, m, t)
        /\ claims' = AppliedClaims(lofts, claims, R, m, t)
        /\ reserved' = R
    BY <1>2, <2>3, <2>4 DEF Finalize
  <2>8. TablesOK(lofts', claims', R) /\ RowsKept(lofts, lofts')
    BY <2>5, <2>6, <2>7, AppliedOK
  <2> QED BY <2>7, <2>8 DEF TablesKept
<1> QED BY <1>1, <1>2

LEMMA RecordStep ==
    ASSUME TablesOK(lofts, claims, reserved), clock \in Nat, NEW p, p.at \in DOMAIN lofts,
           NEW ok \in BOOLEAN, ok => p.key = Owner[p.at], Record(p, ok), UNCHANGED reserved
    PROVE  TablesKept
<1>1. PICK L, C : L = expire_pending(clock) /\ C = expire_pending_claims(clock)
  OBVIOUS
<1>2. clock \in Int
  OBVIOUS
<1>3. TablesOK(L, C, reserved) /\ RowsKept(lofts, L) /\ p.at \in DOMAIN L
  BY <1>1, <1>2, ExpireOK
<1>4. SUFFICES TablesOK(lofts', claims', reserved) /\ RowsKept(L, lofts')
  BY <1>3, RowsKeptTwice DEF TablesKept
<1>5. CASE lofts' = L /\ claims' = C
  BY <1>3, <1>5 DEF RowsKept
<1>6. CASE /\ p.at \notin DOMAIN reserved /\ IsRow(L, p)
           /\ lofts' = Put(L, p.at, Probed(L, L[p.at], ok, clock))
           /\ claims' = IF ok THEN Drop(C, ClaimsAt(C, p.at)) ELSE C
  BY <1>2, <1>3, <1>6, RowProbedOK
<1>7. CASE /\ p.at \notin DOMAIN reserved /\ IsClaim(C, p)
           /\ lofts' = IF ok /\ ~L[p.at].proven
                       THEN Put(L, p.at, Probed(L, Winner(C, p, clock), ok, clock)) ELSE L
           /\ claims' = IF ok \/ L[p.at].proven THEN Drop(C, ClaimsAt(C, p.at)) ELSE C
  <2>1. CASE ok /\ ~L[p.at].proven
    <3>1. ok = TRUE /\ p.key = Owner[p.at]
      BY <2>1
    <3>2. /\ lofts' = Put(L, p.at, Probed(L, Winner(C, p, clock), TRUE, clock))
          /\ claims' = Drop(C, ClaimsAt(C, p.at))
      BY <1>7, <2>1, <3>1
    <3> QED BY <1>2, <1>3, <1>7, <2>1, <3>1, <3>2, ClaimWonOK
  <2>2. CASE ~(ok /\ ~L[p.at].proven)
    <3>1. lofts' = L /\ (claims' = C \/ claims' = Drop(C, ClaimsAt(C, p.at)))
      BY <1>7, <2>2
    <3>2. TablesOK(L, Drop(C, ClaimsAt(C, p.at)), reserved)
      BY <1>3, <1>7, ClaimLostOK
    <3> QED BY <1>3, <3>1, <3>2 DEF RowsKept
  <2> QED BY <2>1, <2>2
<1> QED BY <1>1, <1>5, <1>6, <1>7 DEF Record, Fenced

LEMMA SweepStep ==
    ASSUME TablesOK(lofts, claims, reserved), clock \in Nat, StartSweep
    PROVE  TablesKept /\ \A p \in sweep' : p \in MutT /\ p.at \in DOMAIN lofts'
<1>1. PICK L, C : L = expire_pending(clock) /\ C = expire_pending_claims(clock)
  OBVIOUS
<1>2. clock \in Int /\ clock + ProbeInterval \in Int
  BY DirectoryFacts
<1>3. TablesOK(L, C, reserved) /\ RowsKept(lofts, L)
  BY <1>1, <1>2, ExpireOK
<1>4. PICK E, F :
        /\ E = {e \in DOMAIN L : L[e].state # "removed" /\ L[e].due <= clock /\ ~Fenced(e)}
        /\ F = {c \in DOMAIN C : C[c].due <= clock /\ ~Fenced(c[1])}
  OBVIOUS
<1>5. /\ lofts' = [e \in DOMAIN L |->
                     IF e \in E THEN [L[e] EXCEPT !.due = clock + ProbeInterval] ELSE L[e]]
      /\ claims' = [c \in DOMAIN C |->
                      IF c \in F THEN [C[c] EXCEPT !.due = clock + ProbeInterval] ELSE C[c]]
      /\ sweep' = {L[e].entry : e \in E} \cup {C[c].entry : c \in F}
      /\ reserved' = reserved
  BY <1>1, <1>4 DEF StartSweep
<1>6. (\A e \in E : e \notin DOMAIN reserved) /\ (\A c \in F : c[1] \notin DOMAIN reserved)
  BY <1>4 DEF Fenced
<1>7. TablesOK(lofts', claims', reserved) /\ RowsKept(L, lofts')
  <2>1. PICK d \in Int : d = clock + ProbeInterval
    BY <1>2
  <2>2. lofts' = Leased(L, E, d) /\ claims' = Leased(C, F, d)
    BY <1>5, <2>1 DEF Leased
  <2> QED BY <1>3, <1>6, <2>2, LeaseOK
<1>8. TablesKept
  BY <1>3, <1>5, <1>7, RowsKeptTwice DEF TablesKept
<1>9. DOMAIN lofts' = DOMAIN L
  BY <1>5
<1>10. ASSUME NEW e \in E PROVE L[e].entry \in MutT /\ L[e].entry.at \in DOMAIN L
  <2>1. e \in DOMAIN L /\ RowOK(e, L[e])
    BY <1>3, <1>4 DEF TablesOK, LoftsOK
  <2> QED BY <2>1 DEF RowOK, RowT
<1>11. ASSUME NEW c \in F PROVE C[c].entry \in MutT /\ C[c].entry.at \in DOMAIN L
  <2>1. ClaimOK(L, c, C[c])
    BY <1>3, <1>4 DEF TablesOK, ClaimsOK
  <2> QED BY <2>1 DEF ClaimOK, ClaimT
<1> QED BY <1>5, <1>8, <1>9, <1>10, <1>11

-----------------------------------------------------------------------------
(***************************************************************************)
(* The invariant of the whole state.                                       *)
(***************************************************************************)
WorkerT ==
    [phase : {"idle", "reserve", "append", "finalize"},
     request : SUBSET MutT, queue : Seq(MutT), size : Nat]

WorkerOK(w) == w \in WorkerT /\ (w.phase \in {"append", "finalize"} => w.queue # << >>)

LeafT == [mutation : MutT, by : {"this", "other"}]

LogOK ==
    /\ leaves \in Seq(LeafT) /\ witnessed \in Nat /\ witnessed <= Len(leaves) /\ pin \in Nat
    /\ elsewhere \in [Claimant -> Nat]

ControlOK ==
    /\ clock \in Nat
    /\ journal \in [Claimant -> [committed : Nat, pending : SUBSET MutT]]
    /\ WorkerOK(worker)
    /\ loose \subseteq [mutation : MutT, size : Nat \cup {Never}]
    /\ \A p \in sweep : p \in MutT /\ p.at \in DOMAIN lofts

DInv == TablesOK(lofts, claims, reserved) /\ LogOK /\ ControlOK

LEMMA InitOK == DirectoryInit => DInv
<1> SUFFICES ASSUME DirectoryInit PROVE DInv
  OBVIOUS
<1>1. DOMAIN lofts = {} /\ DOMAIN claims = {} /\ DOMAIN reserved = {}
  BY DEF DirectoryInit
<1>2. IsFiniteSet({}) /\ Cardinality({}) = 0
  BY FS_EmptySet
<1>3. TablesOK(lofts, claims, reserved)
  <2>1. LoftsOK(lofts) /\ ClaimsOK(lofts, claims) /\ ReservedOK(lofts, claims, reserved)
    BY <1>1, <1>2 DEF LoftsOK, ClaimsOK, ReservedOK
  <2>2. PendingRows(lofts) = {} /\ {e \in DOMAIN reserved : reserved[e].slot} = {}
    BY <1>1 DEF PendingRows
  <2>3. pending_load(lofts, claims, reserved) = 0
    BY <1>1, <1>2, <2>2 DEF pending_load
  <2> QED BY <2>1, <2>3, DirectoryFacts DEF TablesOK
<1>4. LogOK
  BY DEF DirectoryInit, LogOK
<1>5. WorkerOK(worker)
  BY DEF DirectoryInit, Idle, WorkerOK, WorkerT
<1>6. journal \in [Claimant -> [committed : Nat, pending : SUBSET MutT]]
  BY DEF DirectoryInit
<1>7. ControlOK
  BY <1>5, <1>6 DEF ControlOK, DirectoryInit
<1> QED BY <1>3, <1>4, <1>7 DEF DInv

\* What an operator signs, and what the directory takes up again.
LEMMA SignableT ==
    ASSUME NEW c \in Claimant, NEW n \in Nat PROVE Signable(c, n) \subseteq MutT
<1>1. c[1] \in Endpoint /\ c[2] \in Key
  BY DEF Endpoint, Key
<1> QED BY <1>1 DEF Signable, MutT

LEMMA ElsewhereT ==
    ASSUME LogOK, NEW c \in Claimant, PublishedElsewhere(c)
    PROVE  \E m \in MutT : ClaimOf(m) = c /\ Accepts(m) /\ leaves' = Appended(m, "other")
<1>1. elsewhere[c] + 1 \in Nat /\ MaxSequence[c] \in Nat
  BY DirectoryFacts DEF LogOK
<1>2. \A n \in (IF c \in Careful THEN {elsewhere[c] + 1} ELSE 0..MaxSequence[c]) : n \in Nat
  BY <1>1
<1>3. PICK n \in Nat : \E m \in Signable(c, n) : Accepts(m) /\ leaves' = Appended(m, "other")
  BY <1>2 DEF PublishedElsewhere
<1>4. PICK m \in Signable(c, n) : Accepts(m) /\ leaves' = Appended(m, "other")
  BY <1>3
<1>5. m \in MutT /\ m.at = c[1] /\ m.key = c[2]
  BY <1>4, SignableT DEF Signable
<1>6. c = <<c[1], c[2]>>
  BY DirectoryAssumption
<1> QED BY <1>4, <1>5, <1>6 DEF ClaimOf

LEMMA PendingT ==
    ASSUME TablesOK(lofts, claims, reserved), NEW q \in Pending
    PROVE  /\ q \in Seq(MutT)
           /\ \A i \in DOMAIN q : \E e \in DOMAIN reserved : q[i] = reserved[e].mutation
<1>1. PICK s \in SetToSeqs(DOMAIN reserved) :
        q = [i \in 1..Least(Len(s), MaxRecovery) |-> reserved[s[i]].mutation]
  BY DEF Pending
<1>2. PICK n : n = Cardinality(DOMAIN reserved)
  OBVIOUS
<1>3. n \in Nat
  BY <1>2, FS_CardinalityType DEF TablesOK, ReservedOK
<1>4. s \in [1..n -> DOMAIN reserved] /\ Len(s) = n
  <2>1. s \in [1..n -> DOMAIN reserved]
    BY <1>1, <1>2 DEF SetToSeqs
  <2>2. s \in Seq(DOMAIN reserved)
    BY <1>3, <2>1, SeqDef
  <2> QED BY <1>3, <2>1, <2>2
<1>5. \A e \in DOMAIN reserved : reserved[e].mutation \in MutT
  BY DEF TablesOK, ReservedOK, ReservationT
<1>6. PICK k : k = Least(Len(s), MaxRecovery)
  OBVIOUS
<1>7. k \in Nat /\ k <= n
  BY <1>3, <1>4, <1>6, DirectoryFacts DEF Least
<1>8. q \in [1..k -> MutT] /\ \A i \in 1..k : \E e \in DOMAIN reserved : q[i] = reserved[e].mutation
  <2>1. q = [i \in 1..k |-> reserved[s[i]].mutation]
    BY <1>1, <1>6
  <2>2. \A i \in 1..k : i \in 1..n
    BY <1>3, <1>7
  <2>3. \A i \in 1..k : s[i] \in DOMAIN reserved
    BY <1>4, <2>2
  <2> QED BY <1>5, <2>1, <2>3
<1>9. DOMAIN q = 1..k
  BY <1>8
<1> QED BY <1>7, <1>8, <1>9, SeqDef

LEMMA ReconcilingT ==
    ASSUME NEW q \in Seq(MutT), NEW request \in SUBSET MutT, NEW R
    PROVE  WorkerOK(Reconciling(q, request, R))
<1>1. Idle \in WorkerT /\ Idle.phase = "idle"
  BY DEF Idle, WorkerT
<1>2. CASE q # << >>
  <2>1. Reconciling(q, request, R) =
          [phase |-> "append", request |-> request, queue |-> q, size |-> 0]
    BY <1>2 DEF Reconciling, Idle
  <2> QED BY <1>2, <2>1 DEF WorkerOK, WorkerT
<1>3. CASE q = << >> /\ DOMAIN R = {} /\ request # {}
  <2>1. Reconciling(q, request, R) =
          [phase |-> "reserve", request |-> request, queue |-> << >>, size |-> 0]
    BY <1>3 DEF Reconciling, Idle
  <2> QED BY <2>1 DEF WorkerOK, WorkerT
<1>4. CASE q = << >> /\ ~(DOMAIN R = {} /\ request # {})
  <2>1. Reconciling(q, request, R) = Idle
    BY <1>4 DEF Reconciling
  <2> QED BY <1>1, <2>1 DEF WorkerOK
<1> QED BY <1>2, <1>3, <1>4

LEMMA AppendedT ==
    ASSUME LogOK, NEW m \in MutT, NEW by \in {"this", "other"},
           leaves' = Appended(m, by)
    PROVE  leaves' \in Seq(LeafT) /\ Len(leaves') >= Len(leaves)
<1>1. [mutation |-> m, by |-> by] \in LeafT
  BY DEF LeafT
<1> QED BY <1>1 DEF LogOK, Appended

LEMMA HeadT ==
    ASSUME WorkerOK(worker), worker.phase \in {"append", "finalize"}
    PROVE  Head1 \in MutT /\ Tail(worker.queue) \in Seq(MutT) /\ worker.size \in Nat
BY DEF WorkerOK, WorkerT, Head1

LEMMA IdleT == WorkerOK(Idle)
BY DEF WorkerOK, WorkerT, Idle

(***************************************************************************)
(* Every step keeps the invariant, and keeps rows and proven keys.         *)
(***************************************************************************)
LEMMA StepOK ==
    ASSUME DInv, [DirectoryNext]_directoryVars
    PROVE  DInv' /\ RowsKept(lofts, lofts')
<1> USE DEF DInv
<1>t. ASSUME UNCHANGED <<lofts, claims, reserved>> PROVE TablesKept
  BY <1>t, SameTables
<1>s. ASSUME TablesKept, UNCHANGED sweep
      PROVE  \A p \in sweep' : p \in MutT /\ p.at \in DOMAIN lofts'
  BY <1>s DEF ControlOK, TablesKept, RowsKept
<1>k. SUFFICES TablesKept /\ LogOK' /\ ControlOK'
  BY DEF TablesKept
<1>1. ASSUME NEW c \in Claimant, Command(c) PROVE TablesKept /\ LogOK' /\ ControlOK'
  <2>1. UNCHANGED <<clock, tables, registry, loose, sweep>>
    BY <1>1 DEF Command
  <2>2. TablesKept /\ LogOK'
    BY <2>1, <1>t DEF tables, registry, LogOK
  <2>3. journal[c] \in [committed : Nat, pending : SUBSET MutT]
    BY DEF ControlOK
  <2>4. Signable(c, journal[c].committed + 1) \subseteq MutT
    BY <2>3, SignableT
  <2>5. PICK m \in MutT :
          /\ journal' = [journal EXCEPT ![c].pending = {m}]
          /\ \E queue \in Pending : worker' = Reconciling(queue, {m}, reserved)
    BY <1>1, <2>3, <2>4 DEF Command
  <2>6. journal' \in [Claimant -> [committed : Nat, pending : SUBSET MutT]]
    BY <2>5 DEF ControlOK
  <2>7. WorkerOK(worker')
    BY <2>5, PendingT, ReconcilingT
  <2> QED BY <1>s, <2>1, <2>2, <2>6, <2>7 DEF ControlOK
<1>u. ASSUME NEW c \in Claimant, Submit(c) PROVE TablesKept /\ LogOK' /\ ControlOK'
  <2>1. UNCHANGED <<clock, journal, tables, registry, loose, sweep>>
    BY <1>u DEF Submit
  <2>2. TablesKept /\ LogOK'
    BY <2>1, <1>t DEF tables, registry, LogOK
  <2>3. PICK n \in 0..MaxSequence[c] : \E m \in Signable(c, n) :
          \E queue \in Pending : worker' = Reconciling(queue, {m}, reserved)
    BY <1>u DEF Submit
  <2>n. n \in Nat
    BY DirectoryFacts
  <2>4. PICK m \in MutT, queue \in Pending : worker' = Reconciling(queue, {m}, reserved)
    BY <2>3, <2>n, SignableT
  <2>5. WorkerOK(worker')
    BY <2>4, PendingT, ReconcilingT
  <2> QED BY <1>s, <2>1, <2>2, <2>5 DEF ControlOK
<1>2. ASSUME Recover PROVE TablesKept /\ LogOK' /\ ControlOK'
  <2>1. UNCHANGED <<clock, journal, tables, registry, loose, sweep>>
    BY <1>2 DEF Recover
  <2>2. TablesKept /\ LogOK'
    BY <2>1, <1>t DEF tables, registry, LogOK
  <2>3. WorkerOK(worker')
    BY <1>2, PendingT, ReconcilingT DEF Recover
  <2> QED BY <1>s, <2>1, <2>2, <2>3 DEF ControlOK
<1>3. ASSUME WorkerReserves PROVE TablesKept /\ LogOK' /\ ControlOK'
  <2>1. UNCHANGED <<clock, journal, registry, loose, sweep>>
    BY <1>3 DEF WorkerReserves
  <2>2. worker \in WorkerT
    BY DEF ControlOK, WorkerOK
  <2>3. PICK m \in worker.request :
          \/ /\ Reserve(m)
             /\ worker' = [worker EXCEPT !.phase = "append", !.queue = <<m>>]
          \/ /\ ~MayReserve(m)
             /\ worker' = Idle
             /\ UNCHANGED tables
    BY <1>3 DEF WorkerReserves
  <2>4. m \in MutT
    BY <2>2 DEF WorkerT
  <2>5. CASE Reserve(m) /\ worker' = [worker EXCEPT !.phase = "append", !.queue = <<m>>]
    <3>1. TablesKept
      BY <2>4, <2>5, ReserveStep DEF ControlOK
    <3>2. <<m>> \in Seq(MutT) /\ <<m>> # << >>
      BY <2>4
    <3>3. WorkerOK(worker')
      BY <2>2, <2>5, <3>2 DEF WorkerOK, WorkerT
    <3>4. UNCHANGED pin
      BY <2>5 DEF Reserve
    <3> QED BY <1>s, <2>1, <3>1, <3>3, <3>4 DEF ControlOK, LogOK, registry
  <2>6. CASE worker' = Idle /\ UNCHANGED tables
    <3>1. TablesKept /\ LogOK'
      BY <2>1, <2>6, <1>t DEF tables, registry, LogOK
    <3> QED BY <1>s, <2>1, <2>6, <3>1, IdleT DEF ControlOK
  <2> QED BY <2>3, <2>5, <2>6
<1>4. ASSUME PostLeaf PROVE TablesKept /\ LogOK' /\ ControlOK'
  <2>1. UNCHANGED <<clock, journal, tables, witnessed, elsewhere, worker, loose, sweep>>
    BY <1>4 DEF PostLeaf
  <2>2. Head1 \in MutT
    BY <1>4, HeadT DEF PostLeaf, ControlOK
  <2>3. leaves' \in Seq(LeafT) /\ Len(leaves') >= Len(leaves)
    BY <1>4, <2>2, AppendedT DEF PostLeaf
  <2>4. LogOK'
    BY <2>1, <2>3 DEF LogOK, tables
  <2>5. TablesKept
    BY <2>1, <1>t DEF tables
  <2> QED BY <1>s, <2>1, <2>4, <2>5 DEF ControlOK
<1>5. ASSUME Receipt PROVE TablesKept /\ LogOK' /\ ControlOK'
  <2>1. UNCHANGED <<clock, journal, tables, registry, loose, sweep>>
    BY <1>5 DEF Receipt
  <2>2. TablesKept /\ LogOK'
    BY <2>1, <1>t DEF tables, registry, LogOK
  <2>3. WorkerOK(worker')
    BY <1>5 DEF Receipt, WorkerOK, WorkerT, ControlOK, LogOK
  <2> QED BY <1>s, <2>1, <2>2, <2>3 DEF ControlOK
<1>6. ASSUME RegistryRefuses PROVE TablesKept /\ LogOK' /\ ControlOK'
  <2>1. UNCHANGED <<clock, journal, tables, registry, loose, sweep>> /\ worker' = Idle
    BY <1>6 DEF RegistryRefuses
  <2>2. TablesKept /\ LogOK'
    BY <2>1, <1>t DEF tables, registry, LogOK
  <2> QED BY <1>s, <2>1, <2>2, IdleT DEF ControlOK
<1>7. ASSUME WorkerFinalizes PROVE TablesKept /\ LogOK' /\ ControlOK'
  <2>1. UNCHANGED <<clock, registry, loose, sweep>> /\ worker.phase = "finalize"
    BY <1>7 DEF WorkerFinalizes
  <2>2. Head1 \in MutT /\ Tail(worker.queue) \in Seq(MutT) /\ worker.size \in Nat
    BY <2>1, HeadT DEF ControlOK
  <2>3. worker.request \in SUBSET MutT
    BY DEF ControlOK, WorkerOK, WorkerT
  <2>4. journal' \in [Claimant -> [committed : Nat, pending : SUBSET MutT]]
    <3>1. Head1.seq \in Nat
      BY <2>2, MutFacts
    <3>2. [committed |-> Head1.seq, pending |-> {}] \in [committed : Nat, pending : SUBSET MutT]
      BY <3>1
    <3>3. \/ journal' = journal
          \/ journal' = [journal EXCEPT ![ClaimOf(Head1)] =
                            [committed |-> Head1.seq, pending |-> {}]]
      BY <1>7 DEF WorkerFinalizes
    <3>4. PICK v \in [committed : Nat, pending : SUBSET MutT] : \E k :
            journal' = journal \/ journal' = [journal EXCEPT ![k] = v]
      BY <3>2, <3>3
    <3> QED BY <3>4 DEF ControlOK
  <2>5. WorkerOK(worker')
    <3>1. WorkerOK(Reconciling(Tail(worker.queue), worker.request, reserved'))
      BY <2>2, <2>3, ReconcilingT
    <3> QED BY <1>7, <3>1, IdleT DEF WorkerFinalizes
  <2>6. CASE Finalize(Head1, worker.size)
    <3>1. TablesKept
      BY <2>2, <2>6, FinalizeStep
    <3>2. pin' \in Nat
      BY <2>2, <2>6 DEF Finalize
    <3> QED BY <1>s, <2>1, <2>4, <2>5, <3>1, <3>2 DEF ControlOK, LogOK, registry
  <2>7. CASE UNCHANGED tables
    <3>1. TablesKept /\ LogOK'
      BY <2>1, <2>7, <1>t DEF tables, registry, LogOK
    <3> QED BY <1>s, <2>1, <2>4, <2>5, <3>1 DEF ControlOK
  <2> QED BY <1>7, <2>6, <2>7 DEF WorkerFinalizes
<1>8. ASSUME Cancel PROVE TablesKept /\ LogOK' /\ ControlOK'
  <2>1. UNCHANGED <<clock, journal, tables, registry, sweep>> /\ worker' = Idle
    BY <1>8 DEF Cancel
  <2>2. TablesKept /\ LogOK'
    BY <2>1, <1>t DEF tables, registry, LogOK
  <2>3. \A m \in worker.request :
          [mutation |-> m, size |-> Never] \in [mutation : MutT, size : Nat \cup {Never}]
    BY DEF ControlOK, WorkerOK, WorkerT
  <2>4. worker.phase = "finalize" =>
          [mutation |-> Head1, size |-> worker.size] \in [mutation : MutT, size : Nat \cup {Never}]
    BY HeadT DEF ControlOK
  <2>5. loose' \subseteq [mutation : MutT, size : Nat \cup {Never}]
    BY <1>8, <2>3, <2>4 DEF Cancel, ControlOK
  <2> QED BY <1>s, <2>1, <2>2, <2>5, IdleT DEF ControlOK
<1>9. ASSUME NEW x \in loose, LooseRuns(x) PROVE TablesKept /\ LogOK' /\ ControlOK'
  <2>1. UNCHANGED <<clock, journal, registry, worker, sweep>> /\ loose' \subseteq loose
    BY <1>9 DEF LooseRuns
  <2>2. x.mutation \in MutT /\ x.size \in Nat \cup {Never}
    BY DEF ControlOK
  <2>3. TablesKept /\ pin' \in Nat
    <3>1. CASE x.size = Never /\ Reserve(x.mutation)
      <4>1. TablesKept
        BY <2>2, <3>1, ReserveStep DEF ControlOK
      <4> QED BY <3>1, <4>1 DEF Reserve, LogOK
    <3>2. CASE x.size # Never /\ Finalize(x.mutation, x.size)
      <4>1. TablesKept
        BY <2>2, <3>2, FinalizeStep
      <4> QED BY <2>2, <3>2, <4>1 DEF Finalize
    <3>3. CASE UNCHANGED tables
      BY <3>3, <1>t DEF tables, LogOK
    <3> QED BY <1>9, <3>1, <3>2, <3>3 DEF LooseRuns
  <2> QED BY <1>s, <2>1, <2>3 DEF ControlOK, LogOK, registry
<1>10. ASSUME StartSweep PROVE TablesKept /\ LogOK' /\ ControlOK'
  <2>1. UNCHANGED <<clock, journal, reserved, pin, registry, worker, loose>>
    BY <1>10 DEF StartSweep
  <2>2. TablesKept /\ \A p \in sweep' : p \in MutT /\ p.at \in DOMAIN lofts'
    BY <1>10, SweepStep DEF ControlOK
  <2> QED BY <2>1, <2>2 DEF ControlOK, LogOK, registry
<1>11. ASSUME NEW p \in sweep, RecordProbe(p) PROVE TablesKept /\ LogOK' /\ ControlOK'
  <2>1. /\ UNCHANGED <<clock, journal, reserved, pin, registry, worker, loose>>
        /\ sweep' \subseteq sweep
    BY <1>11 DEF RecordProbe
  <2>2. PICK ok \in BOOLEAN : Record(p, ok) /\ (ok => p.key = Owner[p.at])
    BY <1>11 DEF RecordProbe
  <2>3. p.at \in DOMAIN lofts /\ clock \in Nat
    BY DEF ControlOK
  <2>4. TablesKept
    BY <2>1, <2>2, <2>3, RecordStep
  <2>5. \A y \in sweep' : y \in MutT /\ y.at \in DOMAIN lofts'
    BY <2>1, <2>4 DEF ControlOK, TablesKept, RowsKept
  <2> QED BY <2>1, <2>4, <2>5 DEF ControlOK, LogOK, registry
<1>12. ASSUME SweepDeadline \/ DirectoryCrash PROVE TablesKept /\ LogOK' /\ ControlOK'
  <2>1. /\ UNCHANGED <<clock, journal, tables, registry>> /\ sweep' = {}
        /\ worker' = Idle \/ worker' = worker
        /\ loose' \subseteq loose
    BY <1>12 DEF SweepDeadline, DirectoryCrash
  <2>2. TablesKept /\ LogOK'
    BY <2>1, <1>t DEF tables, registry, LogOK
  <2>3. WorkerOK(worker')
    BY <2>1, IdleT DEF ControlOK
  <2> QED BY <2>1, <2>2, <2>3 DEF ControlOK
<1>13. ASSUME Cosign PROVE TablesKept /\ LogOK' /\ ControlOK'
  <2>1. /\ UNCHANGED <<clock, journal, tables, leaves, elsewhere, worker, loose, sweep>>
        /\ witnessed' = Len(leaves)
    BY <1>13 DEF Cosign
  <2>2. TablesKept /\ LogOK'
    BY <2>1, <1>t DEF tables, LogOK
  <2> QED BY <1>s, <2>1, <2>2 DEF ControlOK
<1>14. ASSUME NEW c \in Claimant, PublishedElsewhere(c)
       PROVE  TablesKept /\ LogOK' /\ ControlOK'
  <2>1. UNCHANGED <<clock, journal, tables, witnessed, worker, loose, sweep>>
    BY <1>14 DEF PublishedElsewhere
  <2>2. TablesKept
    BY <2>1, <1>t DEF tables
  <2>3. elsewhere[c] + 1 \in Nat
    BY DEF LogOK
  <2>4. PICK m \in MutT : leaves' = Appended(m, "other")
    BY <1>14, ElsewhereT
  <2>5. leaves' \in Seq(LeafT) /\ Len(leaves') >= Len(leaves)
    BY <2>4, AppendedT
  <2>6. elsewhere' \in [Claimant -> Nat]
    BY <1>14, <2>3 DEF PublishedElsewhere, LogOK
  <2>7. LogOK'
    BY <2>1, <2>5, <2>6 DEF LogOK, tables
  <2> QED BY <1>s, <2>1, <2>2, <2>7 DEF ControlOK
<1>15. ASSUME Tick PROVE TablesKept /\ LogOK' /\ ControlOK'
  <2>1. UNCHANGED <<journal, tables, registry, worker, loose, sweep>> /\ clock' = clock + 1
    BY <1>15 DEF Tick
  <2>2. TablesKept /\ LogOK'
    BY <2>1, <1>t DEF tables, registry, LogOK
  <2> QED BY <1>s, <2>1, <2>2 DEF ControlOK
<1>16. CASE UNCHANGED directoryVars
  <2>1. UNCHANGED <<clock, journal, tables, registry, worker, loose, sweep>>
    BY <1>16 DEF directoryVars
  <2>2. TablesKept /\ LogOK'
    BY <2>1, <1>t DEF tables, registry, LogOK
  <2> QED BY <1>s, <2>1, <2>2 DEF ControlOK
<1>17. Elsewhere \subseteq Claimant /\ Careful \subseteq Claimant
  BY DirectoryAssumption
<1> QED BY <1>1, <1>u, <1>2, <1>3, <1>4, <1>5, <1>6, <1>7, <1>8, <1>9, <1>10, <1>11, <1>12,
           <1>13, <1>14, <1>15, <1>16, <1>17 DEF DirectoryNext

-----------------------------------------------------------------------------
(***************************************************************************)
(* Theorems.                                                               *)
(***************************************************************************)
\* The tables of the directory, the log, the worker and the closures that
\* outlive their request keep DInv, whatever is cancelled or crashes: every
\* reservation can still be applied, and the pending queue never exceeds
\* MAX_PENDING_ENTRIES.
THEOREM DirectoryInvariant == DirectorySpec => []DInv
<1>1. DInv /\ [DirectoryNext]_directoryVars => DInv'
  BY StepOK
<1> QED BY InitOK, <1>1, PTL DEF DirectorySpec

\* finalize_add and finalize_drain never fail on the local tables for what
\* reserve_add or reserve_drain has reserved.
THEOREM ReservedAlwaysApplies == DirectorySpec => []ReservedCanBeApplied
<1>1. DInv => ReservedCanBeApplied
  <2> SUFFICES ASSUME DInv, NEW e \in DOMAIN reserved
               PROVE  Consumable(reserved[e].mutation)
    BY DEF ReservedCanBeApplied
  <2>1. TablesOK(lofts, claims, reserved)
    BY DEF DInv
  <2>2. reserved[e].mutation.at = e
    BY <2>1 DEF TablesOK, ReservedOK
  <2>3. Applies(lofts, claims, Drop(reserved, {e}), reserved[e].mutation)
    BY <2>1, ConsumeOK
  <2> QED BY <2>2, <2>3 DEF Consumable, AlreadyReserved, Fenced
<1> QED BY <1>1, DirectoryInvariant, PTL

\* record_probe proves nobody but the loft that answers at the endpoint.
THEOREM OnlyOwnersProven == DirectorySpec => []ProvenIsOwner
<1>1. DInv => ProvenIsOwner
  BY DEF DInv, TablesOK, LoftsOK, RowOK, ProvenIsOwner
<1> QED BY <1>1, DirectoryInvariant, PTL

\* No submission, rival claim, expiry or probe takes a proven endpoint from
\* its key.
THEOREM ProvenForGood == DirectorySpec => ProvenStays
<1>1. DInv /\ [DirectoryNext]_directoryVars
        => [\A e \in DOMAIN lofts :
              lofts[e].proven => /\ e \in DOMAIN lofts'
                                 /\ lofts'[e].proven
                                 /\ lofts'[e].key = lofts[e].key]_directoryVars
  BY StepOK DEF RowsKept
<1> QED BY <1>1, DirectoryInvariant, PTL DEF DirectorySpec, ProvenStays
-----------------------------------------------------------------------------
(***************************************************************************)
(* The tables and the log.  A stream is the endpoint and key of a claimant *)
(* whose mutations are numbered; InFlight is what careful claimants have   *)
(* signed for this directory and is kept somewhere.                        *)
(***************************************************************************)
Ours(i) == leaves[i].by = "this"

OurLeaves == {leaves[i].mutation : i \in {j \in DOMAIN leaves : Ours(j)}}

InLog(m, n) == \E i \in 1..n : i \in DOMAIN leaves /\ leaves[i].mutation = m

Queued == {worker.queue[i] : i \in DOMAIN worker.queue}

InFlight ==
    {m \in worker.request \cup Queued \cup {x.mutation : x \in loose}
             \cup {reserved[e].mutation : e \in DOMAIN reserved} \cup OurLeaves :
       ClaimOf(m) \in Careful}

Committed(m) == journal[ClaimOf(m)].committed

\* The tables L and C say that the stream of key k at e is at number n.
Shown(L, C, e, k, n) ==
    \/ e \in DOMAIN L /\ L[e].key = k /\ L[e].seq = n
    \/ <<e, k>> \in DOMAIN C /\ C[<<e, k>>].entry.seq = n

\* A claim that is not due to expire.
FreshClaim(C, c) == c \in DOMAIN C /\ C[c].first > clock - PendingExpire

\* Key k cannot enrol at e with its first number: it has the endpoint or a
\* fresh claim to it, or the endpoint is proven for another.
Anchored(L, C, e, k) ==
    /\ e \in DOMAIN L
    /\ L[e].key = k \/ L[e].proven \/ FreshClaim(C, <<e, k>>)

Reserving == \E x \in loose : x.size = Never

\* The operator has at most one mutation pending, with the next number.
JournalOK ==
    \A c \in Claimant :
        \/ journal[c].pending = {}
        \/ \E m \in MutT : /\ journal[c].pending = {m}
                           /\ ClaimOf(m) = c /\ m.seq = journal[c].committed + 1

\* It signs one mutation for every number.
NumberOK(m) ==
    /\ ClaimOf(m) \in Claimant /\ m.seq >= 1 /\ m.seq <= Committed(m) + 1
    /\ m.seq = Committed(m) + 1 => journal[ClaimOf(m)].pending = {m}

SignedOK ==
    /\ \A m \in InFlight : NumberOK(m)
    /\ \A m, n \in InFlight : ClaimOf(m) = ClaimOf(n) /\ m.seq = n.seq => m = n

RequestOK ==
    \A m \in worker.request :
        worker.request = {m} /\ (ClaimOf(m) \in Careful => m.seq = Committed(m) + 1)

\* The log ascends in every stream, and others write only their own streams.
LogAscends ==
    /\ \A i, j \in DOMAIN leaves :
         i < j /\ ClaimOf(leaves[i].mutation) = ClaimOf(leaves[j].mutation)
           => leaves[i].mutation.seq < leaves[j].mutation.seq
    /\ \A i \in DOMAIN leaves : ~Ours(i) => ClaimOf(leaves[i].mutation) \in Elsewhere

\* What is being published is reserved or in the log, and what is being applied
\* is in the log below the size of its receipt.
PublishingOK ==
    /\ \A m \in Queued : AlreadyReserved(m) \/ InLog(m, Len(leaves))
    /\ worker.phase = "finalize" => InLog(Head1, worker.size)
    /\ \A x \in loose : x.size # Never => InLog(x.mutation, x.size)

\* Nothing this directory has published in a careful claimant's stream is later
\* than what it has reserved there.
ReservedLast ==
    \A e \in DOMAIN reserved : \A l \in OurLeaves :
        ClaimOf(l) = ClaimOf(reserved[e].mutation) /\ ClaimOf(l) \in Careful
            => l.seq <= reserved[e].mutation.seq

RivalsDiffer(L, C) == \A e, k : <<e, k>> \in DOMAIN C => e \in DOMAIN L /\ L[e].key # k

\* While a reservation may still be made, all there are were made this second.
ReservedNow ==
    worker.phase = "reserve" \/ Reserving =>
        \A e \in DOMAIN reserved : reserved[e].at = clock

\* A claim was fresh when a change of it was reserved.
ClaimsReserved ==
    \A e \in DOMAIN reserved : \A m :
        m = reserved[e].mutation /\ m.op = "add" /\ ClaimOf(m) \in DOMAIN claims =>
            claims[ClaimOf(m)].first > reserved[e].at - PendingExpire

ClaimsQueued ==
    Reserving =>
        \A m \in Queued :
            m.op = "add" /\ ClaimOf(m) \in DOMAIN claims => FreshClaim(claims, ClaimOf(m))

\* A closure that comes to reserve what is long accepted finds its stream taken.
LateReserve ==
    \A x \in loose :
        (/\ x.size = Never /\ ClaimOf(x.mutation) \in Careful
         /\ x.mutation.seq <= Committed(x.mutation))
            => Anchored(lofts, claims, x.mutation.at, x.mutation.key)

\* What the worker or a closure is to apply, and all that the worker holds.
Applying(m) ==
    \/ worker.phase = "finalize" /\ m = Head1
    \/ \E x \in loose : x.size # Never /\ x.mutation = m

Held(m) == (worker.phase # "idle" /\ m \in Queued) \/ Applying(m)

\* What has taken the place of something held was reserved this second.
SupersededNow ==
    \A m : Held(m) /\ Fenced(m.at) /\ reserved[m.at].mutation # m => reserved[m.at].at = clock

Overtaken(m) == \E l \in OurLeaves : ClaimOf(l) = ClaimOf(m) /\ l.seq > m.seq

\* What comes to be applied when a later leaf of its stream is out finds the
\* later one reserved or its stream taken, so that it is not reserved again.
LateFinalize ==
    \A m : Applying(m) /\ Overtaken(m) =>
        \/ /\ Fenced(m.at) /\ reserved[m.at].mutation # m
           /\ ClaimOf(reserved[m.at].mutation) = ClaimOf(m)
        \/ ~AlreadyReserved(m) /\ Anchored(lofts, claims, m.at, m.key)

ShownInLog ==
    \A e, k, n : Shown(lofts, claims, e, k, n) =>
        \E i \in 1..pin : /\ i \in DOMAIN leaves
                          /\ ClaimOf(leaves[i].mutation) = <<e, k>>
                          /\ leaves[i].mutation.seq = n

LaterIsReserved ==
    \A e, k, n : Shown(lofts, claims, e, k, n) =>
        \A l \in OurLeaves :
            ClaimOf(l) = <<e, k>> /\ l.seq > n => Fenced(e) /\ reserved[e].mutation = l

SignaturesOK == JournalOK /\ SignedOK /\ RequestOK

FollowOK == RivalsDiffer(lofts, claims) /\ ShownInLog /\ LaterIsReserved /\ ReservedLast

TimesOK == ReservedNow /\ ClaimsReserved /\ ClaimsQueued /\ LateReserve

ClosuresOK == SupersededNow /\ LateFinalize

FInv == SignaturesOK /\ LogAscends /\ PublishingOK /\ FollowOK /\ TimesOK /\ ClosuresOK

-----------------------------------------------------------------------------
(***************************************************************************)
(* Expiry, leases and probes show nothing new and give no stream away.     *)
(***************************************************************************)
Fading(L, C, M, D) ==
    /\ \A e, k, n : Shown(M, D, e, k, n) => Shown(L, C, e, k, n)
    /\ RivalsDiffer(L, C) => RivalsDiffer(M, D)
    /\ \A e, k : Anchored(L, C, e, k) => Anchored(M, D, e, k)
    /\ \A c \in DOMAIN D : c \in DOMAIN C /\ D[c].first = C[c].first

LEMMA FadingTwice ==
    ASSUME NEW L, NEW C, NEW M, NEW D, NEW N, NEW E, Fading(L, C, M, D), Fading(M, D, N, E)
    PROVE  Fading(L, C, N, E)
BY DEF Fading

\* Rows keep key and number, claims are the same, fewer, or leased.
LEMMA RowsFade ==
    ASSUME NEW L, NEW C, NEW M, NEW D, DOMAIN M = DOMAIN L,
           \A e \in DOMAIN L : /\ M[e].key = L[e].key /\ M[e].seq = L[e].seq
                               /\ L[e].proven => M[e].proven,
           \A c \in DOMAIN D : /\ c \in DOMAIN C /\ D[c].first = C[c].first
                               /\ D[c].entry = C[c].entry,
           \A e, k : FreshClaim(C, <<e, k>>) /\ e \in DOMAIN L
                       => <<e, k>> \in DOMAIN D \/ M[e].proven
    PROVE  Fading(L, C, M, D)
<1>1. \A e, k, n : Shown(M, D, e, k, n) => Shown(L, C, e, k, n)
  BY DEF Shown
<1>2. RivalsDiffer(L, C) => RivalsDiffer(M, D)
  BY DEF RivalsDiffer
<1>3. \A e, k : Anchored(L, C, e, k) => Anchored(M, D, e, k)
  BY DEF Anchored, FreshClaim
<1> QED BY <1>1, <1>2, <1>3 DEF Fading

LEMMA ExpireFades ==
    ASSUME TablesOK(lofts, claims, reserved), clock \in Nat
    PROVE  Fading(lofts, claims, expire_pending(clock), expire_pending_claims(clock))
<1>0. PICK L, C : L = expire_pending(clock) /\ C = expire_pending_claims(clock)
  OBVIOUS
<1>1. DOMAIN L = DOMAIN lofts
  BY <1>0 DEF expire_pending
<1>2. ASSUME NEW e \in DOMAIN lofts
      PROVE  L[e].key = lofts[e].key /\ L[e].seq = lofts[e].seq /\ L[e].proven = lofts[e].proven
  <2>1. PICK r : r = lofts[e] /\ r \in RowT
    BY DEF TablesOK, LoftsOK, RowOK
  <2>2. \/ L[e] = r
        \/ L[e] = [r EXCEPT !.state = "removed", !.clean = Never, !.due = Never]
    BY <1>0, <2>1 DEF expire_pending
  <2> QED BY <2>1, <2>2 DEF RowT
<1>3. PICK S : /\ S = {c \in DOMAIN claims : /\ claims[c].first <= clock - PendingExpire
                                            /\ ~Fenced(c[1])}
               /\ C = Drop(claims, S)
  BY <1>0 DEF expire_pending_claims
<1>4. DOMAIN C = DOMAIN claims \ S /\ \A c \in DOMAIN C : C[c] = claims[c]
  BY <1>3 DEF Drop
<1>5. \A c : FreshClaim(claims, c) => c \in DOMAIN C
  <2> SUFFICES ASSUME NEW c, FreshClaim(claims, c) PROVE c \in DOMAIN C
    OBVIOUS
  <2>1. c \in DOMAIN claims /\ claims[c].first > clock - PendingExpire
    BY DEF FreshClaim
  <2>2. claims[c].first \in Int
    BY <2>1 DEF TablesOK, ClaimsOK, ClaimOK, ClaimT
  <2>3. ~(claims[c].first <= clock - PendingExpire)
    BY <2>1, <2>2, DirectoryFacts
  <2> QED BY <1>3, <1>4, <2>1, <2>3
<1> QED BY <1>0, <1>1, <1>2, <1>4, <1>5, RowsFade

LEMMA LeaseFades ==
    ASSUME NEW L, NEW C, NEW R, TablesOK(L, C, R), NEW d \in Int, NEW E, NEW F
    PROVE  Fading(L, C, Leased(L, E, d), Leased(C, F, d))
<1>0. PICK M, D : M = Leased(L, E, d) /\ D = Leased(C, F, d)
  OBVIOUS
<1>1. DOMAIN M = DOMAIN L /\ DOMAIN D = DOMAIN C
  BY <1>0 DEF Leased
<1>2. ASSUME NEW e \in DOMAIN L
      PROVE  M[e].key = L[e].key /\ M[e].seq = L[e].seq /\ M[e].proven = L[e].proven
  <2>1. PICK r : r = L[e] /\ r \in RowT
    BY DEF TablesOK, LoftsOK, RowOK
  <2>2. M[e] = r \/ M[e] = [r EXCEPT !.due = d]
    BY <1>0, <2>1 DEF Leased
  <2> QED BY <2>1, <2>2 DEF RowT
<1>3. ASSUME NEW c \in DOMAIN C PROVE D[c].first = C[c].first /\ D[c].entry = C[c].entry
  <2>1. PICK k : k = C[c] /\ k \in ClaimT
    BY DEF TablesOK, ClaimsOK, ClaimOK
  <2>2. D[c] = k \/ D[c] = [k EXCEPT !.due = d]
    BY <1>0, <2>1 DEF Leased
  <2> QED BY <2>1, <2>2 DEF ClaimT
<1>4. \A e, k : FreshClaim(C, <<e, k>>) => <<e, k>> \in DOMAIN D
  BY <1>1 DEF FreshClaim
<1> QED BY <1>0, <1>1, <1>2, <1>3, <1>4, RowsFade

\* The row of the endpoint was probed; a success decides against its claims.
LEMMA RowProbedFades ==
    ASSUME NEW L, NEW C, NEW R, TablesOK(L, C, R), NEW p, p.at \in DOMAIN L, IsRow(L, p),
           NEW ok \in BOOLEAN, ok => p.key = Owner[p.at], NEW t \in Int,
           NEW M, M = Put(L, p.at, Probed(L, L[p.at], ok, t)),
           NEW D, D = IF ok THEN Drop(C, ClaimsAt(C, p.at)) ELSE C
    PROVE  Fading(L, C, M, D)
<1>1. PICK e, r : e = p.at /\ r = L[e]
  OBVIOUS
<1>2. RowOK(e, r) /\ (ok => r.key = Owner[e])
  BY <1>1 DEF TablesOK, LoftsOK, IsRow
<1>3. PICK x : x = Probed(L, r, ok, t)
  OBVIOUS
<1>4. RowStep(e, r, x) /\ (ok => x.proven)
  BY <1>2, <1>3, ProbedOK
<1>5. DOMAIN M = DOMAIN L /\ M[e] = x /\ \A y \in DOMAIN L : y # e => M[y] = L[y]
  <2>1. M = Put(L, e, x)
    BY <1>1, <1>3
  <2> QED BY <1>1, <2>1 DEF Put
<1>6. \A y \in DOMAIN L : /\ M[y].key = L[y].key /\ M[y].seq = L[y].seq
                          /\ L[y].proven => M[y].proven
  BY <1>1, <1>4, <1>5 DEF RowStep
<1>7. CASE ~ok
  BY <1>5, <1>6, <1>7, RowsFade DEF FreshClaim
<1>8. CASE ok
  <2>1. D = Drop(C, ClaimsAt(C, e))
    BY <1>1, <1>8
  <2>2. DOMAIN D = DOMAIN C \ ClaimsAt(C, e) /\ \A c \in DOMAIN D : D[c] = C[c]
    BY <2>1 DEF Drop
  <2>3. \A y, k : <<y, k>> \in DOMAIN C => <<y, k>> \in DOMAIN D \/ y = e
    BY <2>2 DEF ClaimsAt
  <2>4. \A y, k : FreshClaim(C, <<y, k>>) /\ y \in DOMAIN L
                    => <<y, k>> \in DOMAIN D \/ M[y].proven
    BY <1>4, <1>5, <1>8, <2>3 DEF FreshClaim
  <2> QED BY <1>5, <1>6, <2>2, <2>4, RowsFade
<1> QED BY <1>7, <1>8

\* A claim took the endpoint: it is at the same number as a row.
LEMMA ClaimWonFades ==
    ASSUME NEW L, NEW C, NEW R, TablesOK(L, C, R), NEW p, p.at \in DOMAIN L,
           IsClaim(C, p), p.key = Owner[p.at], ~L[p.at].proven, NEW t \in Int,
           NEW M, M = Put(L, p.at, Probed(L, Winner(C, p, t), TRUE, t)),
           NEW D, D = Drop(C, ClaimsAt(C, p.at))
    PROVE  Fading(L, C, M, D)
<1>0. PICK e : e = p.at
  OBVIOUS
<1>1. PICK c : c = <<e, p.key>> /\ c = ClaimOf(p) /\ c \in DOMAIN C /\ ClaimOK(L, c, C[c])
  BY <1>0 DEF IsClaim, TablesOK, ClaimsOK, ClaimOf
<1>2. PICK m \in MutT : m = C[c].entry /\ m.at = e /\ m.key = p.key
  BY <1>1 DEF ClaimOK, ClaimOf, ClaimT
<1>3. PICK r : r = Winner(C, p, t) /\ RowOK(e, r) /\ r.key = Owner[e] /\ r.key = m.key
               /\ r.seq = m.seq
  <2>1. Winner(C, p, t) = NewRow(m, t)
    BY <1>1, <1>2 DEF Winner
  <2>2. NewRow(m, t).seq = m.seq
    BY DEF NewRow
  <2> QED BY <1>0, <1>2, <2>1, <2>2, NewRowOK
<1>4. PICK x : x = Probed(L, r, TRUE, t)
  OBVIOUS
<1>5. RowStep(e, r, x) /\ x.proven
  BY <1>3, <1>4, ProbedOK
<1>6. DOMAIN M = DOMAIN L /\ M[e] = x /\ \A y \in DOMAIN L : y # e => M[y] = L[y]
  <2>1. M = Put(L, e, x)
    BY <1>0, <1>3, <1>4
  <2> QED BY <1>0, <2>1 DEF Put
<1>7. DOMAIN D = DOMAIN C \ ClaimsAt(C, e) /\ \A y \in DOMAIN D : D[y] = C[y]
  BY <1>0 DEF Drop
<1>8. \A y, k : <<y, k>> \in DOMAIN C => (<<y, k>> \in DOMAIN D <=> y # e)
  BY <1>7 DEF ClaimsAt
<1>9. M[e].key = p.key /\ M[e].seq = C[<<e, p.key>>].entry.seq /\ M[e].proven
  BY <1>1, <1>2, <1>3, <1>5, <1>6 DEF RowStep
<1>10. \A y, k, n : Shown(M, D, y, k, n) => Shown(L, C, y, k, n)
  <2> SUFFICES ASSUME NEW y, NEW k, NEW n, Shown(M, D, y, k, n) PROVE Shown(L, C, y, k, n)
    OBVIOUS
  <2>1. CASE <<y, k>> \in DOMAIN D /\ D[<<y, k>>].entry.seq = n
    BY <1>7, <2>1 DEF Shown
  <2>2. CASE y \in DOMAIN M /\ M[y].key = k /\ M[y].seq = n
    <3>1. CASE y # e
      BY <1>6, <2>2, <3>1 DEF Shown
    <3>2. CASE y = e
      <4>1. k = p.key /\ <<y, k>> \in DOMAIN C /\ C[<<y, k>>].entry.seq = n
        BY <1>1, <1>9, <2>2, <3>2
      <4> QED BY <4>1 DEF Shown
    <3> QED BY <3>1, <3>2
  <2> QED BY <2>1, <2>2 DEF Shown
<1>11. RivalsDiffer(L, C) => RivalsDiffer(M, D)
  BY <1>6, <1>7, <1>8 DEF RivalsDiffer
<1>12. \A y, k : Anchored(L, C, y, k) => Anchored(M, D, y, k)
  BY <1>6, <1>7, <1>8, <1>9 DEF Anchored, FreshClaim
<1> QED BY <1>7, <1>10, <1>11, <1>12 DEF Fading

\* Claims lost to a proven row.
LEMMA ClaimsLostFade ==
    ASSUME NEW L, NEW C, NEW e, e \in DOMAIN L, L[e].proven,
           NEW D, D = Drop(C, ClaimsAt(C, e))
    PROVE  Fading(L, C, L, D)
<1>1. DOMAIN D = DOMAIN C \ ClaimsAt(C, e) /\ \A y \in DOMAIN D : D[y] = C[y]
  BY DEF Drop
<1>2. \A y, k : <<y, k>> \in DOMAIN C => <<y, k>> \in DOMAIN D \/ y = e
  BY <1>1 DEF ClaimsAt
<1> QED BY <1>1, <1>2, RowsFade DEF FreshClaim

LEMMA SameFades ==
    ASSUME NEW L, NEW C PROVE Fading(L, C, L, C)
BY DEF Fading

\* record_probe
LEMMA RecordFades ==
    ASSUME TablesOK(lofts, claims, reserved), clock \in Nat, NEW p, p.at \in DOMAIN lofts,
           NEW ok \in BOOLEAN, ok => p.key = Owner[p.at], Record(p, ok)
    PROVE  Fading(lofts, claims, lofts', claims')
<1>1. PICK L, C : L = expire_pending(clock) /\ C = expire_pending_claims(clock)
  OBVIOUS
<1>2. clock \in Int
  OBVIOUS
<1>3. TablesOK(L, C, reserved) /\ p.at \in DOMAIN L /\ Fading(lofts, claims, L, C)
  BY <1>1, <1>2, ExpireOK, ExpireFades
<1>4. SUFFICES Fading(L, C, lofts', claims')
  BY <1>3, FadingTwice
<1>5. CASE lofts' = L /\ claims' = C
  BY <1>5, SameFades
<1>6. CASE /\ IsRow(L, p)
           /\ lofts' = Put(L, p.at, Probed(L, L[p.at], ok, clock))
           /\ claims' = IF ok THEN Drop(C, ClaimsAt(C, p.at)) ELSE C
  BY <1>2, <1>3, <1>6, RowProbedFades
<1>7. CASE /\ IsClaim(C, p)
           /\ lofts' = IF ok /\ ~L[p.at].proven
                       THEN Put(L, p.at, Probed(L, Winner(C, p, clock), ok, clock)) ELSE L
           /\ claims' = IF ok \/ L[p.at].proven THEN Drop(C, ClaimsAt(C, p.at)) ELSE C
  <2>1. CASE ok /\ ~L[p.at].proven
    <3>1. ok = TRUE /\ p.key = Owner[p.at]
      BY <2>1
    <3>2. /\ lofts' = Put(L, p.at, Probed(L, Winner(C, p, clock), TRUE, clock))
          /\ claims' = Drop(C, ClaimsAt(C, p.at))
      BY <1>7, <2>1, <3>1
    <3> QED BY <1>2, <1>3, <1>7, <2>1, <3>1, <3>2, ClaimWonFades
  <2>2. CASE L[p.at].proven
    <3>1. lofts' = L /\ claims' = Drop(C, ClaimsAt(C, p.at))
      BY <1>7, <2>2
    <3> QED BY <1>3, <2>2, <3>1, ClaimsLostFade
  <2>3. CASE ~ok /\ ~L[p.at].proven
    <3>1. lofts' = L /\ claims' = C
      BY <1>7, <2>3
    <3> QED BY <3>1, SameFades
  <2> QED BY <2>1, <2>2, <2>3
<1> QED BY <1>1, <1>5, <1>6, <1>7 DEF Record

\* claim_probe_candidates
LEMMA SweepFades ==
    ASSUME TablesOK(lofts, claims, reserved), clock \in Nat, StartSweep
    PROVE  Fading(lofts, claims, lofts', claims')
<1>1. PICK L, C : L = expire_pending(clock) /\ C = expire_pending_claims(clock)
  OBVIOUS
<1>2. clock \in Int /\ clock + ProbeInterval \in Int
  BY DirectoryFacts
<1>3. TablesOK(L, C, reserved) /\ Fading(lofts, claims, L, C)
  BY <1>1, <1>2, ExpireOK, ExpireFades
<1>4. PICK d \in Int : d = clock + ProbeInterval
  BY <1>2
<1>5. \E E, F : lofts' = Leased(L, E, d) /\ claims' = Leased(C, F, d)
  <2>1. PICK E, F :
        /\ E = {e \in DOMAIN L : L[e].state # "removed" /\ L[e].due <= clock /\ ~Fenced(e)}
        /\ F = {c \in DOMAIN C : C[c].due <= clock /\ ~Fenced(c[1])}
    OBVIOUS
  <2>2. /\ lofts' = [e \in DOMAIN L |->
                       IF e \in E THEN [L[e] EXCEPT !.due = d] ELSE L[e]]
        /\ claims' = [c \in DOMAIN C |->
                        IF c \in F THEN [C[c] EXCEPT !.due = d] ELSE C[c]]
    BY <1>1, <1>4, <2>1 DEF StartSweep
  <2>3. lofts' = Leased(L, E, d) /\ claims' = Leased(C, F, d)
    BY <2>2 DEF Leased
  <2> QED BY <2>3
<1>6. Fading(L, C, lofts', claims')
  BY <1>3, <1>5, LeaseFades
<1> QED BY <1>3, <1>6, FadingTwice

-----------------------------------------------------------------------------
(***************************************************************************)
(* The log.                                                                *)
(***************************************************************************)
LEMMA Greatest ==
    ASSUME NEW n \in Nat, NEW S, S \subseteq 1..n, S # {}
    PROVE  \E i \in S : \A j \in S : j <= i
<1>1. PICK T : T = {k \in Nat : \E j \in S : k = n - j}
  OBVIOUS
<1>2. T \subseteq Nat /\ T # {}
  <2>1. PICK j : j \in S
    OBVIOUS
  <2>2. n - j \in Nat
    BY <2>1
  <2> QED BY <1>1, <2>1, <2>2
<1>3. PICK t \in T : \A u \in T : ~(<<u, t>> \in OpToRel(<, Nat))
  BY <1>2, NatLessThanWellFounded, WFMin
<1>4. \A u \in T : ~(u < t)
  BY <1>2, <1>3 DEF OpToRel
<1>5. PICK i \in S : t = n - i
  BY <1>1
<1>6. ASSUME NEW j \in S PROVE j <= i
  <2>1. n - j \in T
    BY <1>1
  <2>2. i \in Nat /\ j \in Nat
    OBVIOUS
  <2> QED BY <1>4, <1>5, <2>1, <2>2
<1> QED BY <1>6

\* The registry's last leaf of a stream.
LEMMA CurrentIs ==
    ASSUME LogOK, NEW c, Stream(c) # {}
    PROVE  \E i \in Stream(c) : /\ \A j \in Stream(c) : j <= i
                                /\ Current(c) = leaves[i].mutation
<1> DEFINE i == CHOOSE k \in Stream(c) : \A j \in Stream(c) : j <= k
<1>1. DOMAIN leaves = 1..Len(leaves) /\ Len(leaves) \in Nat
  BY DEF LogOK
<1>2. Stream(c) \subseteq 1..Len(leaves)
  BY <1>1 DEF Stream
<1>3. \E k \in Stream(c) : \A j \in Stream(c) : j <= k
  BY <1>1, <1>2, Greatest
<1>4. i \in Stream(c) /\ \A j \in Stream(c) : j <= i
  BY <1>3
<1>5. Current(c) = leaves[i].mutation
  BY DEF Current
<1> HIDE DEF i
<1> QED BY <1>4, <1>5

LEMMA LeafT1 ==
    ASSUME LogOK, NEW i \in DOMAIN leaves
    PROVE  /\ i \in Nat /\ i <= Len(leaves) /\ i >= 1 /\ leaves[i].mutation \in MutT
           /\ leaves[i].by \in {"this", "other"}
<1>1. leaves[i] \in LeafT /\ i \in 1..Len(leaves)
  BY DEF LogOK
<1> QED BY <1>1 DEF LeafT

\* What the registry accepts is its last leaf of the stream, or later than all
\* of them.
LEMMA AcceptedIs ==
    ASSUME LogOK, LogAscends, NEW m \in MutT, Accepts(m)
    PROVE  LET c == ClaimOf(m) IN
           \/ Stream(c) # {} /\ m = Current(c) /\ InLog(m, Len(leaves))
           \/ /\ ~(Stream(c) # {} /\ m = Current(c))
              /\ \A i \in Stream(c) : leaves[i].mutation.seq < m.seq
<1>1. CASE Stream(ClaimOf(m)) = {}
  BY <1>1
<1>2. CASE Stream(ClaimOf(m)) # {}
  <2>1. PICK i \in Stream(ClaimOf(m)) : /\ \A j \in Stream(ClaimOf(m)) : j <= i
                                        /\ Current(ClaimOf(m)) = leaves[i].mutation
    BY <1>2, CurrentIs
  <2>2. i \in DOMAIN leaves /\ ClaimOf(leaves[i].mutation) = ClaimOf(m)
    BY <2>1 DEF Stream
  <2>3. i \in 1..Len(leaves)
    BY <2>2 DEF LogOK
  <2>4. CASE m = Current(ClaimOf(m))
    BY <1>2, <2>1, <2>2, <2>3, <2>4 DEF InLog
  <2>5. CASE m # Current(ClaimOf(m))
    <3>1. leaves[i].mutation.seq < m.seq
      BY <1>2, <2>1, <2>5 DEF Accepts
    <3>2. ASSUME NEW j \in Stream(ClaimOf(m)) PROVE leaves[j].mutation.seq < m.seq
      <4>1. j \in DOMAIN leaves /\ ClaimOf(leaves[j].mutation) = ClaimOf(m) /\ j <= i
        BY <2>1 DEF Stream
      <4>2. /\ i \in Nat /\ j \in Nat /\ m.seq \in Nat
            /\ leaves[i].mutation.seq \in Nat /\ leaves[j].mutation.seq \in Nat
        BY <2>2, <4>1, LeafT1, MutFacts
      <4>3. CASE j = i
        BY <3>1, <4>3
      <4>4. CASE j < i
        <5>1. leaves[j].mutation.seq < leaves[i].mutation.seq
          BY <2>2, <4>1, <4>4 DEF LogAscends
        <5> QED BY <3>1, <4>2, <5>1
      <4> QED BY <4>1, <4>2, <4>3, <4>4
    <3> QED BY <2>5, <3>2
  <2> QED BY <2>4, <2>5
<1> QED BY <1>1, <1>2

\* append_directory_mutation
LEMMA LogStep ==
    ASSUME LogOK, LogAscends, NEW m \in MutT, NEW by \in {"this", "other"},
           by = "other" => ClaimOf(m) \in Elsewhere, Accepts(m), leaves' = Appended(m, by)
    PROVE  /\ LogAscends'
           /\ \A x, n : InLog(x, n) => InLog(x, n)'
           /\ \A x : InLog(x, Len(leaves)) => InLog(x, Len(leaves))'
           /\ \A i \in DOMAIN leaves : i \in DOMAIN leaves' /\ leaves'[i] = leaves[i]
           /\ \A l \in OurLeaves' : l \in OurLeaves \/ (l = m /\ by = "this")
           /\ InLog(m, Len(leaves)) => leaves' = leaves
<1>0. PICK c : c = ClaimOf(m)
  OBVIOUS
<1>1. CASE Stream(c) # {} /\ m = Current(c)
  <2>1. leaves' = leaves
    BY <1>0, <1>1 DEF Appended
  <2> QED BY <2>1 DEF LogAscends, InLog, OurLeaves, Ours
<1>2. CASE ~(Stream(c) # {} /\ m = Current(c))
  <2>1. \A i \in Stream(c) : leaves[i].mutation.seq < m.seq
    BY <1>0, <1>2, AcceptedIs
  <2>2. leaves' = Append(leaves, [mutation |-> m, by |-> by])
    BY <1>0, <1>2 DEF Appended
  <2>3. PICK k : k = Len(leaves) + 1
    OBVIOUS
  <2>4. [mutation |-> m, by |-> by] \in LeafT
    BY DEF LeafT
  <2>5. /\ DOMAIN leaves = 1..Len(leaves) /\ Len(leaves) \in Nat /\ Len(leaves') = k
        /\ DOMAIN leaves' = 1..k /\ leaves'[k].mutation = m /\ leaves'[k].by = by
        /\ \A i \in DOMAIN leaves : leaves'[i] = leaves[i]
    BY <2>2, <2>3, <2>4 DEF LogOK
  <2>6. \A i \in DOMAIN leaves' : i \in DOMAIN leaves \/ i = k
    BY <2>3, <2>5
  <2>7. \A i \in DOMAIN leaves : i \in DOMAIN leaves' /\ i < k
    BY <2>3, <2>5
  <2>8. ASSUME NEW i \in DOMAIN leaves', NEW j \in DOMAIN leaves', i < j,
               ClaimOf(leaves'[i].mutation) = ClaimOf(leaves'[j].mutation)
        PROVE  leaves'[i].mutation.seq < leaves'[j].mutation.seq
    <3>0. i \in Nat /\ j \in Nat /\ k \in Nat /\ i <= k /\ j <= k
      BY <2>3, <2>5
    <3>1. i \in DOMAIN leaves
      BY <2>6, <2>8, <3>0
    <3>2. CASE j \in DOMAIN leaves
      BY <2>5, <2>8, <3>1, <3>2 DEF LogAscends
    <3>3. CASE j = k
      <4>1. i \in Stream(c)
        BY <1>0, <2>5, <2>8, <3>1, <3>3 DEF Stream
      <4> QED BY <2>1, <2>5, <3>1, <3>3, <4>1
    <3> QED BY <2>6, <3>2, <3>3
  <2>9. ASSUME NEW i \in DOMAIN leaves', leaves'[i].by # "this"
        PROVE  ClaimOf(leaves'[i].mutation) \in Elsewhere
    <3>1. CASE i \in DOMAIN leaves
      BY <2>5, <2>9, <3>1 DEF LogAscends, Ours
    <3>2. CASE i = k
      BY <2>5, <2>9, <3>2
    <3> QED BY <2>6, <3>1, <3>2
  <2>10. LogAscends'
    BY <2>8, <2>9 DEF LogAscends, Ours
  <2>11. \A x, n : InLog(x, n) => InLog(x, n)'
    BY <2>5, <2>7 DEF InLog
  <2>12. \A x : InLog(x, Len(leaves)) => InLog(x, Len(leaves))'
    <3> SUFFICES ASSUME NEW x, InLog(x, Len(leaves)) PROVE InLog(x, Len(leaves))'
      OBVIOUS
    <3>1. PICK i \in DOMAIN leaves : leaves[i].mutation = x
      BY DEF InLog
    <3>2. i \in 1..Len(leaves') /\ i \in DOMAIN leaves' /\ leaves'[i].mutation = x
      BY <2>5, <2>7, <3>1
    <3> QED BY <3>2 DEF InLog
  <2>13. \A l \in OurLeaves' : l \in OurLeaves \/ (l = m /\ by = "this")
    <3> SUFFICES ASSUME NEW l \in OurLeaves' PROVE l \in OurLeaves \/ (l = m /\ by = "this")
      OBVIOUS
    <3>1. PICK i \in DOMAIN leaves' : leaves'[i].by = "this" /\ l = leaves'[i].mutation
      BY DEF OurLeaves, Ours
    <3>2. CASE i \in DOMAIN leaves
      BY <2>5, <3>1, <3>2 DEF OurLeaves, Ours
    <3>3. CASE i = k
      BY <2>5, <3>1, <3>3
    <3> QED BY <2>6, <3>2, <3>3
  <2>14. ~InLog(m, Len(leaves))
    <3> SUFFICES ASSUME InLog(m, Len(leaves)) PROVE FALSE
      OBVIOUS
    <3>1. PICK i \in DOMAIN leaves : leaves[i].mutation = m
      BY DEF InLog
    <3>2. i \in Stream(c)
      BY <1>0, <3>1 DEF Stream
    <3>3. m.seq < m.seq /\ m.seq \in Nat
      BY <2>1, <3>1, <3>2, MutFacts
    <3> QED BY <3>3
  <2> QED BY <2>5, <2>7, <2>10, <2>11, <2>12, <2>13, <2>14
<1> QED BY <1>1, <1>2

-----------------------------------------------------------------------------
(***************************************************************************)
(* apply_submission and apply_drain leave the stream of the mutation at    *)
(* its number, and the others where they were.                             *)
(***************************************************************************)
Advances(L, C, M, D, m, t) ==
    /\ \A e, k, n : Shown(M, D, e, k, n) =>
         \/ <<e, k>> # ClaimOf(m) /\ Shown(L, C, e, k, n)
         \/ <<e, k>> = ClaimOf(m) /\ n = m.seq
    /\ RivalsDiffer(M, D)
    /\ \A e, k : Anchored(L, C, e, k) => Anchored(M, D, e, k)
    /\ \A c \in DOMAIN D : \/ c \in DOMAIN C /\ D[c].first = C[c].first
                           \/ c = ClaimOf(m) /\ D[c].first = t
    /\ m.at \in DOMAIN M
    /\ M[m.at].key = m.key \/ (m.op = "add" /\ ClaimOf(m) \in DOMAIN D)

\* A row of the submitting key is written.
LEMMA RowAdvances ==
    ASSUME NEW L, NEW C, NEW m, NEW x, NEW M, M = Put(L, m.at, x), RivalsDiffer(L, C),
           x.key = m.key, x.seq = m.seq,
           m.at \in DOMAIN L => L[m.at].key = x.key /\ (L[m.at].proven => x.proven),
           NEW t
    PROVE  Advances(L, C, M, C, m, t)
<1>1. /\ DOMAIN M = DOMAIN L \cup {m.at} /\ M[m.at] = x
      /\ \A y \in DOMAIN L : y # m.at => M[y] = L[y]
  BY DEF Put
<1>2. \A k : <<m.at, k>> \in DOMAIN C => k # m.key
  BY DEF RivalsDiffer
<1>3. \A e, k, n : Shown(M, C, e, k, n) =>
         \/ <<e, k>> # <<m.at, m.key>> /\ Shown(L, C, e, k, n)
         \/ <<e, k>> = <<m.at, m.key>> /\ n = m.seq
  BY <1>1, <1>2 DEF Shown
<1>4. RivalsDiffer(M, C)
  BY <1>1 DEF RivalsDiffer
<1>5. \A e, k : Anchored(L, C, e, k) => Anchored(M, C, e, k)
  BY <1>1 DEF Anchored
<1> QED BY <1>1, <1>3, <1>4, <1>5 DEF Advances, ClaimOf

\* A claim of a rival is written.
LEMMA ClaimAdvances ==
    ASSUME NEW L, NEW C, NEW m, MayRival(L, m), m.op = "add", RivalsDiffer(L, C),
           NEW v, v.entry = m, NEW t,
           (ClaimOf(m) \in DOMAIN C /\ v.first = C[ClaimOf(m)].first)
             \/ (ClaimOf(m) \notin DOMAIN C /\ v.first = t),
           NEW D, D = Put(C, ClaimOf(m), v)
    PROVE  Advances(L, C, L, D, m, t)
<1>0. PICK c : c = <<m.at, m.key>> /\ c = ClaimOf(m)
  BY DEF ClaimOf
<1>1. /\ DOMAIN D = DOMAIN C \cup {c} /\ D[c] = v
      /\ \A y \in DOMAIN C : y # c => D[y] = C[y]
  BY <1>0 DEF Put
<1>2. m.at \in DOMAIN L /\ L[m.at].key # m.key
  BY DEF MayRival
<1>3. \A e, k, n : Shown(L, D, e, k, n) =>
         \/ <<e, k>> # c /\ Shown(L, C, e, k, n)
         \/ <<e, k>> = c /\ n = m.seq
  <2> SUFFICES ASSUME NEW e, NEW k, NEW n, Shown(L, D, e, k, n)
               PROVE  \/ <<e, k>> # c /\ Shown(L, C, e, k, n)
                      \/ <<e, k>> = c /\ n = m.seq
    OBVIOUS
  <2>1. CASE <<e, k>> = c
    <3>1. e = m.at /\ k = m.key
      BY <1>0, <2>1
    <3>2. D[<<e, k>>].entry.seq = n
      BY <1>2, <3>1 DEF Shown
    <3> QED BY <1>1, <2>1, <3>2
  <2>2. CASE <<e, k>> # c
    BY <1>1, <2>2 DEF Shown
  <2> QED BY <2>1, <2>2
<1>4. RivalsDiffer(L, D)
  BY <1>0, <1>1, <1>2 DEF RivalsDiffer
<1>5. \A e, k : Anchored(L, C, e, k) => Anchored(L, D, e, k)
  <2> SUFFICES ASSUME NEW e, NEW k, FreshClaim(C, <<e, k>>) PROVE FreshClaim(D, <<e, k>>)
    BY DEF Anchored
  <2>1. CASE <<e, k>> = c
    BY <1>0, <1>1, <2>1 DEF FreshClaim
  <2>2. CASE <<e, k>> # c
    BY <1>1, <2>2 DEF FreshClaim
  <2> QED BY <2>1, <2>2
<1>6. \A y \in DOMAIN D : \/ y \in DOMAIN C /\ D[y].first = C[y].first
                          \/ y = c /\ D[y].first = t
  BY <1>0, <1>1
<1> QED BY <1>0, <1>1, <1>2, <1>3, <1>4, <1>5, <1>6 DEF Advances

LEMMA AppliedAdvances ==
    ASSUME NEW L, NEW C, NEW R, TablesOK(L, C, R), RivalsDiffer(L, C), NEW m \in MutT,
           NEW t \in Int, Applies(L, C, R, m), NEW M, NEW D,
           M = AppliedLofts(L, C, R, m, t), D = AppliedClaims(L, C, R, m, t)
    PROVE  Advances(L, C, M, D, m, t)
<1>0. \A e \in DOMAIN L : RowOK(e, L[e]) /\ L[e] \in RowT
  BY DEF TablesOK, LoftsOK, RowOK
<1>1. CASE Drained(L, C, R, m, t, M, D)
  <2>1. PICK r : r = L[m.at] /\ RowOK(m.at, r) /\ r.key = m.key
    BY <1>0, <1>1 DEF Drained, Drains, SameKey
  <2>2. PICK x : x = [r EXCEPT !.state = "draining", !.drain = m.arg, !.seq = m.seq]
    OBVIOUS
  <2>3. x.key = r.key /\ x.proven = r.proven
    BY <2>1, <2>2 DEF RowOK, RowT
  <2>4. x.seq = m.seq
    BY <2>1, <2>2 DEF RowOK, RowT
  <2>5. M = Put(L, m.at, x) /\ D = C
    BY <1>1, <2>1, <2>2 DEF Drained
  <2> QED BY <2>1, <2>3, <2>4, <2>5, RowAdvances
<1>2. CASE Enrolled(L, C, R, m, t, M, D)
  <2>1. PICK x : x = NewRow(m, t)
    OBVIOUS
  <2>2. x.key = m.key /\ x.seq = m.seq
    BY <2>1 DEF NewRow
  <2>3. M = Put(L, m.at, x) /\ D = C /\ m.at \notin DOMAIN L
    BY <1>2, <2>1 DEF Enrolled, Enrols
  <2> QED BY <2>2, <2>3, RowAdvances
<1>3. CASE Updated(L, C, R, m, t, M, D)
  <2>1. PICK r : r = L[m.at] /\ RowOK(m.at, r) /\ r.key = m.key
    BY <1>0, <1>3 DEF Updated, Updates, SameKey
  <2>2. PICK x : x = [r EXCEPT !.entry = m, !.seq = m.seq]
    OBVIOUS
  <2>3. x.key = r.key /\ x.proven = r.proven
    BY <2>1, <2>2 DEF RowOK, RowT
  <2>4. x.seq = m.seq
    BY <2>1, <2>2 DEF RowOK, RowT
  <2>5. M = Put(L, m.at, x) /\ D = C
    BY <1>3, <2>1, <2>2 DEF Updated
  <2> QED BY <2>1, <2>3, <2>4, <2>5, RowAdvances
<1>4. CASE Returned(L, C, R, m, t, M, D)
  <2>1. PICK r : r = L[m.at] /\ RowOK(m.at, r) /\ r.key = m.key
    BY <1>0, <1>4 DEF Returned, Reenrols, SameKey
  <2>2. PICK x : x = Reenrolled(r, m, t)
    OBVIOUS
  <2>3. x.key = r.key /\ x.proven = r.proven
    BY <2>1, <2>2, ReenrolledOK
  <2>4. x.seq = m.seq
    BY <2>2 DEF Reenrolled, NewRow
  <2>5. M = Put(L, m.at, x) /\ D = C
    BY <1>4, <2>1, <2>2 DEF Returned
  <2> QED BY <2>1, <2>3, <2>4, <2>5, RowAdvances
<1>5. CASE Rivalled(L, C, R, m, t, M, D)
  <2>1. PICK v : v = NewClaim(m, t)
    OBVIOUS
  <2>2. v.entry = m /\ v.first = t
    BY <2>1 DEF NewClaim
  <2>3. /\ M = L /\ D = Put(C, ClaimOf(m), v) /\ MayRival(L, m) /\ m.op = "add"
        /\ ClaimOf(m) \notin DOMAIN C
    BY <1>5, <2>1 DEF Rivalled, NewRival
  <2> QED BY <2>2, <2>3, ClaimAdvances
<1>6. CASE RivalUpdated(L, C, R, m, t, M, D)
  <2>1. MayRival(L, m) /\ ClaimOf(m) \in DOMAIN C /\ m.op = "add"
    BY <1>6 DEF RivalUpdated, UpdatesRival
  <2>2. PICK y : y = C[ClaimOf(m)] /\ y \in ClaimT
    BY <2>1 DEF TablesOK, ClaimsOK, ClaimOK
  <2>3. PICK v : v = [y EXCEPT !.entry = m]
    OBVIOUS
  <2>4. v.entry = m /\ v.first = y.first
    BY <2>2, <2>3 DEF ClaimT
  <2>5. M = L /\ D = Put(C, ClaimOf(m), v)
    BY <1>6, <2>2, <2>3 DEF RivalUpdated
  <2> QED BY <2>1, <2>2, <2>4, <2>5, ClaimAdvances
<1>7. CASE Unmoved(L, C, R, m, t, M, D)
  <2>1. M = L /\ D = C
    BY <1>7 DEF Unmoved
  <2>2. CASE SameKey(L, m) /\ m.seq = L[m.at].seq
    <3>1. \A e, k, n : Shown(L, C, e, k, n) =>
             \/ <<e, k>> # <<m.at, m.key>> /\ Shown(L, C, e, k, n)
             \/ <<e, k>> = <<m.at, m.key>> /\ n = m.seq
      BY <2>2 DEF Shown, SameKey, RivalsDiffer
    <3>2. m.at \in DOMAIN L /\ L[m.at].key = m.key
      BY <2>2 DEF SameKey
    <3> QED BY <2>1, <3>1, <3>2 DEF Advances, ClaimOf
  <2>3. CASE MayRival(L, m) /\ ClaimOf(m) \in DOMAIN C /\ C[ClaimOf(m)].entry = m /\ m.op = "add"
    <3>1. \A e, k, n : Shown(L, C, e, k, n) =>
             \/ <<e, k>> # <<m.at, m.key>> /\ Shown(L, C, e, k, n)
             \/ <<e, k>> = <<m.at, m.key>> /\ n = m.seq
      <4> SUFFICES ASSUME NEW e, NEW k, NEW n, Shown(L, C, e, k, n), e = m.at, k = m.key
                   PROVE  n = m.seq
        OBVIOUS
      <4>1. L[e].key # k /\ <<e, k>> = ClaimOf(m)
        BY <2>3 DEF MayRival, ClaimOf
      <4> QED BY <2>3, <4>1 DEF Shown
    <3>2. m.at \in DOMAIN L
      BY <2>3 DEF MayRival
    <3> QED BY <2>1, <2>3, <3>1, <3>2 DEF Advances, ClaimOf
  <2>4. m.op \in {"add", "drain"}
    BY MutFacts
  <2>5. CASE m.op = "drain"
    <3>1. RepeatsDrain(L, m)
      BY <1>7, <2>5 DEF Applies, Unmoved
    <3> QED BY <2>2, <3>1 DEF RepeatsDrain
  <2>6. CASE m.op = "add"
    <3>1. RepeatsAdd(L, C, m)
      BY <1>7, <2>6 DEF Applies, Unmoved
    <3> QED BY <2>2, <2>3, <2>6, <3>1 DEF RepeatsAdd
  <2> QED BY <2>4, <2>5, <2>6
<1> QED BY AppliedForm, <1>1, <1>2, <1>3, <1>4, <1>5, <1>6, <1>7

-----------------------------------------------------------------------------
(***************************************************************************)
(* reserve_add, reserve_drain, finalize_add and finalize_drain.            *)
(***************************************************************************)
\* What applies continues the stream the tables show, or starts one.
LEMMA AppliesTo ==
    ASSUME NEW L, NEW C, NEW R, TablesOK(L, C, R), NEW m \in MutT, Applies(L, C, R, m)
    PROVE  \/ \E n \in Nat : n <= m.seq /\ Shown(L, C, m.at, m.key, n)
           \/ /\ m.op = "add" /\ m.seq <= 1
              /\ \/ m.at \notin DOMAIN L
                 \/ MayRival(L, m) /\ ClaimOf(m) \notin DOMAIN C
<1>0. m.op \in {"add", "drain"} /\ m.seq \in Nat
  BY MutFacts
<1>1. CASE SameKey(L, m) /\ m.seq >= L[m.at].seq
  <2>1. m.at \in DOMAIN L /\ L[m.at].key = m.key
    BY <1>1 DEF SameKey
  <2>2. L[m.at].seq \in Nat
    BY <2>1 DEF TablesOK, LoftsOK, RowOK, RowT
  <2>3. Shown(L, C, m.at, m.key, L[m.at].seq)
    BY <2>1 DEF Shown
  <2> QED BY <1>0, <1>1, <2>2, <2>3
<1>2. CASE ClaimOf(m) \in DOMAIN C /\ m.seq >= C[ClaimOf(m)].entry.seq
  <2>1. C[ClaimOf(m)].entry \in MutT
    BY <1>2 DEF TablesOK, ClaimsOK, ClaimOK, ClaimT
  <2>2. C[ClaimOf(m)].entry.seq \in Nat
    BY <2>1, MutFacts
  <2>3. Shown(L, C, m.at, m.key, C[ClaimOf(m)].entry.seq)
    BY <1>2 DEF Shown, ClaimOf
  <2> QED BY <1>0, <1>2, <2>2, <2>3
<1>a. m.at \in DOMAIN L => L[m.at].seq \in Nat
  BY DEF TablesOK, LoftsOK, RowOK, RowT
<1>b. ClaimOf(m) \in DOMAIN C => C[ClaimOf(m)].entry.seq \in Nat
  <2> SUFFICES ASSUME ClaimOf(m) \in DOMAIN C PROVE C[ClaimOf(m)].entry.seq \in Nat
    OBVIOUS
  <2>1. C[ClaimOf(m)].entry \in MutT
    BY DEF TablesOK, ClaimsOK, ClaimOK, ClaimT
  <2> QED BY <2>1, MutFacts
<1>3. CASE m.op = "drain"
  <2>1. RepeatsDrain(L, m) \/ Drains(L, m)
    BY <1>3 DEF Applies
  <2>2. SameKey(L, m) /\ m.seq >= L[m.at].seq
    BY <1>0, <1>a, <2>1 DEF RepeatsDrain, Drains, SameKey
  <2> QED BY <1>1, <2>2
<1>4. CASE m.op = "add"
  <2>1. \/ Enrols(L, C, R, m) \/ Updates(L, m) \/ Reenrols(L, C, R, m)
        \/ NewRival(L, C, R, m) \/ UpdatesRival(L, C, m) \/ RepeatsAdd(L, C, m)
    BY <1>4 DEF Applies
  <2>2. CASE Enrols(L, C, R, m)
    BY <1>4, <2>2 DEF Enrols
  <2>3. CASE Updates(L, m) \/ Reenrols(L, C, R, m)
    <3>1. SameKey(L, m) /\ m.seq >= L[m.at].seq
      BY <1>0, <1>a, <2>3 DEF Updates, Reenrols, SameKey
    <3> QED BY <1>1, <3>1
  <2>4. CASE NewRival(L, C, R, m)
    BY <1>4, <2>4 DEF NewRival
  <2>5. CASE UpdatesRival(L, C, m)
    <3>1. ClaimOf(m) \in DOMAIN C /\ m.seq >= C[ClaimOf(m)].entry.seq
      BY <1>0, <1>b, <2>5 DEF UpdatesRival
    <3> QED BY <1>2, <3>1
  <2>6. CASE RepeatsAdd(L, C, m)
    <3>1. \/ SameKey(L, m) /\ m.seq >= L[m.at].seq
          \/ ClaimOf(m) \in DOMAIN C /\ m.seq >= C[ClaimOf(m)].entry.seq
      BY <1>0, <2>6 DEF RepeatsAdd
    <3> QED BY <1>1, <1>2, <3>1
  <2> QED BY <2>1, <2>2, <2>3, <2>4, <2>5, <2>6
<1> QED BY <1>0, <1>3, <1>4

LEMMA OurLeafT ==
    ASSUME LogOK, NEW l \in OurLeaves
    PROVE  l \in MutT /\ l.seq \in Nat
<1>1. PICK i \in DOMAIN leaves : l = leaves[i].mutation
  BY DEF OurLeaves
<1>2. l \in MutT
  BY <1>1, LeafT1
<1> QED BY <1>2, MutFacts

LEMMA ReserveFollows ==
    ASSUME DInv, FInv, NEW m \in MutT, Reserve(m), UNCHANGED <<clock, leaves>>,
           ClaimOf(m) \in Careful =>
             m.seq = Committed(m) + 1 \/ Anchored(lofts, claims, m.at, m.key)
    PROVE  /\ FollowOK' /\ ClaimsReserved' /\ Fading(lofts, claims, lofts', claims')
           /\ AlreadyReserved(m)'
           /\ \A e \in DOMAIN reserved : e \in DOMAIN reserved' /\ reserved'[e] = reserved[e]
           /\ \A e \in DOMAIN reserved' :
                \/ e \in DOMAIN reserved
                \/ e = m.at /\ reserved'[e].mutation = m /\ reserved'[e].at = clock
           /\ AlreadyReserved(m) \/ ~Overtaken(m) \/ ~Anchored(lofts, claims, m.at, m.key)
<1>0. /\ TablesOK(lofts, claims, reserved) /\ LogOK /\ clock \in Nat /\ clock \in Int
      /\ RivalsDiffer(lofts, claims) /\ ShownInLog /\ LaterIsReserved /\ ReservedLast
      /\ SignedOK /\ ClaimsReserved
  BY DEF DInv, ControlOK, FInv, FollowOK, SignaturesOK, TimesOK
<1>1. PICK L, C : L = LoftsFor(m) /\ C = ClaimsFor(m)
  OBVIOUS
<1>2. TablesOK(L, C, reserved) /\ Fading(lofts, claims, L, C)
  <2>1. CASE Expires(m)
    <3>1. L = expire_pending(clock) /\ C = expire_pending_claims(clock)
      BY <1>1, <2>1 DEF LoftsFor, ClaimsFor
    <3> QED BY <1>0, <3>1, ExpireOK, ExpireFades
  <2>2. CASE ~Expires(m)
    BY <1>0, <1>1, <2>2, SameFades DEF LoftsFor, ClaimsFor
  <2> QED BY <2>1, <2>2
<1>3. lofts' = L /\ claims' = C /\ pin' = pin
  BY <1>1 DEF Reserve
<1>4. \/ AlreadyReserved(m) /\ reserved' = reserved
      \/ /\ m.at \notin DOMAIN reserved /\ Applies(L, C, reserved, m)
         /\ reserved' = Put(reserved, m.at, [mutation |-> m, at |-> clock, slot |-> TakesSlot(m)])
  BY <1>1 DEF Reserve, MayReserve, Reservable, AlreadyReserved, Fenced
<1>5. /\ AlreadyReserved(m)'
      /\ \A e \in DOMAIN reserved : e \in DOMAIN reserved' /\ reserved'[e] = reserved[e]
      /\ \A e \in DOMAIN reserved' :
           \/ e \in DOMAIN reserved
           \/ /\ e = m.at /\ reserved'[e].mutation = m /\ reserved'[e].at = clock
              /\ m.at \notin DOMAIN reserved /\ Applies(L, C, reserved, m)
  BY <1>4 DEF Put, AlreadyReserved, Fenced
<1>6. RivalsDiffer(lofts, claims)'
  BY <1>0, <1>2, <1>3 DEF Fading
<1>7. ShownInLog'
  BY <1>0, <1>2, <1>3 DEF Fading, ShownInLog
<1>8. OurLeaves' = OurLeaves
  BY DEF OurLeaves, Ours
<1>9. LaterIsReserved'
  <2> SUFFICES ASSUME NEW e, NEW k, NEW n, Shown(L, C, e, k, n), NEW l \in OurLeaves,
                      ClaimOf(l) = <<e, k>>, l.seq > n
               PROVE  e \in DOMAIN reserved' /\ reserved'[e].mutation = l
    BY <1>3, <1>8 DEF LaterIsReserved, Fenced
  <2>1. Shown(lofts, claims, e, k, n)
    BY <1>2 DEF Fading
  <2>2. e \in DOMAIN reserved /\ reserved[e].mutation = l
    BY <1>0, <2>1 DEF LaterIsReserved, Fenced
  <2> QED BY <1>5, <2>2
<1>10. ASSUME m.at \notin DOMAIN reserved, Applies(L, C, reserved, m),
              NEW l \in OurLeaves, ClaimOf(l) = ClaimOf(m),
              \/ Anchored(lofts, claims, m.at, m.key)
              \/ ClaimOf(m) \in Careful /\ m.seq = Committed(m) + 1
       PROVE  l.seq <= m.seq
  <2>0. l.seq \in Nat /\ m.seq \in Nat
    BY <1>0, OurLeafT, MutFacts
  <2>1. CASE \E n \in Nat : n <= m.seq /\ Shown(L, C, m.at, m.key, n)
    <3>1. PICK n \in Nat : n <= m.seq /\ Shown(lofts, claims, m.at, m.key, n)
      BY <1>2, <2>1 DEF Fading
    <3>2. ~(l.seq > n)
      BY <1>0, <1>10, <3>1 DEF LaterIsReserved, ClaimOf, Fenced
    <3> QED BY <2>0, <3>1, <3>2
  <2>2. CASE m.op = "add" /\ m.seq <= 1 /\ (\/ m.at \notin DOMAIN L
                                            \/ MayRival(L, m) /\ ClaimOf(m) \notin DOMAIN C)
    <3>1. ~Anchored(L, C, m.at, m.key)
      BY <2>2 DEF Anchored, FreshClaim, MayRival, ClaimOf
    <3>2. ClaimOf(m) \in Careful /\ m.seq = Committed(m) + 1
      BY <1>2, <1>10, <3>1 DEF Fading
    <3>3. l \in InFlight
      BY <1>10, <3>2 DEF InFlight
    <3>4. l.seq <= Committed(l) + 1 /\ Committed(l) = Committed(m)
      BY <1>0, <1>10, <3>3 DEF SignedOK, NumberOK, Committed
    <3> QED BY <3>2, <3>4
  <2> QED BY <1>2, <1>10, <2>1, <2>2, AppliesTo
<1>11. ReservedLast'
  <2> SUFFICES ASSUME NEW e \in DOMAIN reserved', NEW l \in OurLeaves,
                      ClaimOf(l) = ClaimOf(reserved'[e].mutation), ClaimOf(l) \in Careful
               PROVE  l.seq <= reserved'[e].mutation.seq
    BY <1>8 DEF ReservedLast
  <2>1. CASE e \in DOMAIN reserved
    BY <1>0, <1>5, <2>1 DEF ReservedLast
  <2>2. CASE e \notin DOMAIN reserved
    BY <1>5, <1>10, <2>2
  <2> QED BY <2>1, <2>2
<1>12. ClaimsReserved'
  <2> SUFFICES ASSUME NEW e \in DOMAIN reserved', NEW x, x = reserved'[e].mutation,
                      x.op = "add", ClaimOf(x) \in DOMAIN C
               PROVE  C[ClaimOf(x)].first > reserved'[e].at - PendingExpire
    BY <1>3 DEF ClaimsReserved
  <2>1. ClaimOf(x) \in DOMAIN claims /\ C[ClaimOf(x)].first = claims[ClaimOf(x)].first
    BY <1>2 DEF Fading
  <2>2. CASE e \in DOMAIN reserved
    BY <1>0, <1>5, <2>1, <2>2 DEF ClaimsReserved
  <2>3. CASE e \notin DOMAIN reserved
    <3>1. x = m /\ e = m.at /\ reserved'[e].at = clock /\ ~Fenced(m.at)
      BY <1>5, <2>3 DEF Fenced
    <3>2. C = expire_pending_claims(clock)
      BY <1>1, <3>1 DEF ClaimsFor, Expires
    <3>3. ~(claims[ClaimOf(m)].first <= clock - PendingExpire /\ ~Fenced(ClaimOf(m)[1]))
      BY <3>1, <3>2 DEF expire_pending_claims, Drop
    <3>4. ClaimOf(m)[1] = m.at
      BY DEF ClaimOf
    <3>5. claims[ClaimOf(m)].first \in Int
      BY <1>0, <2>1, <3>1 DEF TablesOK, ClaimsOK, ClaimOK, ClaimT
    <3>6. claims[ClaimOf(m)].first > clock - PendingExpire
      BY <1>0, <3>1, <3>3, <3>4, <3>5, DirectoryFacts
    <3> QED BY <2>1, <3>1, <3>6
  <2> QED BY <2>2, <2>3
<1>13. Fading(lofts, claims, lofts', claims')
  BY <1>2, <1>3
<1>14. AlreadyReserved(m) \/ ~Overtaken(m) \/ ~Anchored(lofts, claims, m.at, m.key)
  <2> SUFFICES ASSUME ~AlreadyReserved(m), Anchored(lofts, claims, m.at, m.key),
                      NEW l \in OurLeaves, ClaimOf(l) = ClaimOf(m), l.seq > m.seq
               PROVE  FALSE
    BY DEF Overtaken
  <2>1. l.seq <= m.seq
    BY <1>4, <1>10
  <2>2. l.seq \in Nat /\ m.seq \in Nat
    BY <1>0, OurLeafT, MutFacts
  <2> QED BY <2>1, <2>2
<1> QED BY <1>5, <1>6, <1>7, <1>9, <1>11, <1>12, <1>13, <1>14 DEF FollowOK

LEMMA FinalizeFollows ==
    ASSUME DInv, FInv, NEW m \in MutT, NEW size \in Nat, Finalize(m, size), InLog(m, size),
           Applying(m), UNCHANGED <<clock, leaves>>
    PROVE  /\ FollowOK' /\ ClaimsReserved'
           /\ \A e \in DOMAIN reserved' : e \in DOMAIN reserved /\ reserved'[e] = reserved[e]
           /\ \A n : AlreadyReserved(n) => AlreadyReserved(n)' \/ n = m
           /\ \A e, k : Anchored(lofts, claims, e, k) => Anchored(lofts', claims', e, k)
           /\ \A c \in DOMAIN claims' :
                \/ c \in DOMAIN claims /\ claims'[c].first = claims[c].first
                \/ /\ AlreadyReserved(m) /\ c = ClaimOf(m)
                   /\ claims'[c].first = reserved[m.at].at
           /\ \/ AlreadyReserved(m) /\ reserved[m.at].at = clock
              \/ /\ ~AlreadyReserved(m)
                 /\ m.op = "add" /\ ClaimOf(m) \in DOMAIN claims
                      => FreshClaim(claims, ClaimOf(m))
              => Anchored(lofts', claims', m.at, m.key)
<1>0. /\ TablesOK(lofts, claims, reserved) /\ LogOK /\ clock \in Nat /\ pin \in Nat
      /\ RivalsDiffer(lofts, claims) /\ ShownInLog /\ LaterIsReserved /\ ReservedLast
      /\ ClaimsReserved
  BY DEF DInv, ControlOK, LogOK, FInv, FollowOK, TimesOK
<1>1. pin' = size /\ pin <= size
  BY DEF Finalize, Finalizable
<1>2. OurLeaves' = OurLeaves
  BY DEF OurLeaves, Ours
<1>3. PICK i \in 1..size : i \in DOMAIN leaves /\ leaves[i].mutation = m
  BY DEF InLog
<1>4. \A j \in 1..pin : j \in 1..size
  BY <1>0, <1>1
<1>5. CASE ~AlreadyReserved(m)
  <2>1. UNCHANGED <<lofts, claims, reserved>> /\ ~Fenced(m.at) /\ ExactlyApplied(m)
    BY <1>5 DEF Finalize, Finalizable, Consumable
  <2>2. ShownInLog'
    BY <1>0, <1>1, <1>4, <2>1 DEF ShownInLog
  <2>3. FollowOK' /\ ClaimsReserved'
    <3>1. LaterIsReserved'
      BY <1>0, <1>2, <2>1 DEF LaterIsReserved, Fenced
    <3>2. ReservedLast'
      BY <1>0, <1>2, <2>1 DEF ReservedLast
    <3>3. RivalsDiffer(lofts, claims)' /\ ClaimsReserved'
      BY <1>0, <2>1 DEF ClaimsReserved
    <3> QED BY <2>2, <3>1, <3>2, <3>3 DEF FollowOK
  <2>4. \A n : AlreadyReserved(n) => AlreadyReserved(n)'
    BY <2>1 DEF AlreadyReserved, Fenced
  <2>5. ASSUME m.op = "add" /\ ClaimOf(m) \in DOMAIN claims => FreshClaim(claims, ClaimOf(m))
        PROVE  Anchored(lofts, claims, m.at, m.key)
    <3>0. m.op \in {"add", "drain"}
      BY MutFacts
    <3>1. CASE m.op = "drain"
      BY <2>1, <3>1 DEF ExactlyApplied, RepeatsDrain, SameKey, Anchored
    <3>2. CASE m.op = "add" /\ m.at \in DOMAIN lofts /\ lofts[m.at].entry = m
      <4>1. lofts[m.at].key = m.key
        BY <1>0, <3>2 DEF TablesOK, LoftsOK, RowOK
      <4> QED BY <3>2, <4>1 DEF Anchored
    <3>3. CASE m.op = "add" /\ ClaimOf(m) \in DOMAIN claims
      <4>1. m.at \in DOMAIN lofts
        BY <1>0, <3>3 DEF RivalsDiffer, ClaimOf
      <4> QED BY <2>5, <3>3, <4>1 DEF Anchored, ClaimOf
    <3> QED BY <2>1, <3>0, <3>1, <3>2, <3>3 DEF ExactlyApplied
  <2> QED BY <1>5, <2>1, <2>3, <2>4, <2>5
<1>6. CASE AlreadyReserved(m)
  <2>1. m.at \in DOMAIN reserved /\ reserved[m.at].mutation = m
    BY <1>6 DEF AlreadyReserved, Fenced
  <2>2. reserved[m.at] \in ReservationT
    BY <1>0, <2>1 DEF TablesOK, ReservedOK
  <2>3. PICK t \in Int : t = reserved[m.at].at
    BY <2>2 DEF ReservationT
  <2>4. PICK R : R = Drop(reserved, {m.at})
    OBVIOUS
  <2>5. TablesOK(lofts, claims, R) /\ Applies(lofts, claims, R, m)
    <3>1. TablesOK(lofts, claims, R)
      BY <1>0, <2>1, <2>4, ConsumeOK
    <3>2. Applies(lofts, claims, R, m)
      BY <1>6, <2>4 DEF Finalize, Finalizable, Consumable, AlreadyReserved
    <3> QED BY <3>1, <3>2
  <2>6. /\ lofts' = AppliedLofts(lofts, claims, R, m, t)
        /\ claims' = AppliedClaims(lofts, claims, R, m, t)
        /\ reserved' = R
    BY <1>6, <2>3, <2>4 DEF Finalize
  <2>7. Advances(lofts, claims, lofts', claims', m, t)
    BY <1>0, <2>5, <2>6, AppliedAdvances
  <2>8. /\ DOMAIN reserved' = DOMAIN reserved \ {m.at}
        /\ \A e \in DOMAIN reserved' : reserved'[e] = reserved[e]
    BY <2>4, <2>6 DEF Drop
  <2>9. ShownInLog'
    <3> SUFFICES ASSUME NEW e, NEW k, NEW n, Shown(lofts', claims', e, k, n)
                 PROVE  \E j \in 1..size : /\ j \in DOMAIN leaves
                                           /\ ClaimOf(leaves[j].mutation) = <<e, k>>
                                           /\ leaves[j].mutation.seq = n
      BY <1>1 DEF ShownInLog
    <3>1. CASE Shown(lofts, claims, e, k, n)
      BY <1>0, <1>4, <3>1 DEF ShownInLog
    <3>2. CASE <<e, k>> = ClaimOf(m) /\ n = m.seq
      BY <1>3, <3>2
    <3> QED BY <2>7, <3>1, <3>2 DEF Advances
  <2>10. LaterIsReserved'
    <3> SUFFICES ASSUME NEW e, NEW k, NEW n, Shown(lofts', claims', e, k, n),
                        NEW l \in OurLeaves, ClaimOf(l) = <<e, k>>, l.seq > n
                 PROVE  e \in DOMAIN reserved' /\ reserved'[e].mutation = l
      BY <1>2 DEF LaterIsReserved, Fenced
    <3>1. CASE <<e, k>> # ClaimOf(m) /\ Shown(lofts, claims, e, k, n)
      <4>1. e \in DOMAIN reserved /\ reserved[e].mutation = l
        BY <1>0, <3>1 DEF LaterIsReserved, Fenced
      <4>2. e # m.at
        BY <2>1, <3>1, <4>1
      <4> QED BY <2>8, <4>1, <4>2
    <3>2. CASE <<e, k>> = ClaimOf(m) /\ n = m.seq
      <4>1. Overtaken(m)
        BY <3>2 DEF Overtaken
      <4>2. ~AlreadyReserved(m)
        BY <4>1 DEF FInv, ClosuresOK, LateFinalize, AlreadyReserved
      <4> QED BY <1>6, <4>2
    <3> QED BY <2>7, <3>1, <3>2 DEF Advances
  <2>11. ReservedLast'
    BY <1>0, <1>2, <2>8 DEF ReservedLast
  <2>12. \A c \in DOMAIN claims' : \/ c \in DOMAIN claims /\ claims'[c].first = claims[c].first
                                   \/ c = ClaimOf(m) /\ claims'[c].first = t
    BY <2>7 DEF Advances
  <2>13. ClaimsReserved'
    <3> SUFFICES ASSUME NEW e \in DOMAIN reserved', NEW x, x = reserved'[e].mutation,
                        x.op = "add", ClaimOf(x) \in DOMAIN claims'
                 PROVE  claims'[ClaimOf(x)].first > reserved'[e].at - PendingExpire
      BY DEF ClaimsReserved
    <3>1. e \in DOMAIN reserved /\ reserved'[e] = reserved[e] /\ e # m.at
      BY <2>8
    <3>2. x.at = e
      BY <1>0, <3>1 DEF TablesOK, ReservedOK
    <3>3. ClaimOf(x) # ClaimOf(m)
      BY <3>1, <3>2 DEF ClaimOf
    <3>4. /\ ClaimOf(x) \in DOMAIN claims
          /\ claims'[ClaimOf(x)].first = claims[ClaimOf(x)].first
      BY <2>12, <3>3
    <3> QED BY <1>0, <3>1, <3>4 DEF ClaimsReserved
  <2>14. \A n : AlreadyReserved(n) => AlreadyReserved(n)' \/ n = m
    BY <2>1, <2>8 DEF AlreadyReserved, Fenced
  <2>15. ASSUME t = clock PROVE Anchored(lofts', claims', m.at, m.key)
    <3>1. /\ m.at \in DOMAIN lofts'
          /\ lofts'[m.at].key = m.key \/ (m.op = "add" /\ ClaimOf(m) \in DOMAIN claims')
      BY <2>7 DEF Advances
    <3>2. ASSUME m.op = "add", ClaimOf(m) \in DOMAIN claims'
          PROVE  FreshClaim(claims', ClaimOf(m))
      <4>1. CASE claims'[ClaimOf(m)].first = clock
        <5>1. clock > clock - PendingExpire
          BY <1>0, DirectoryFacts
        <5> QED BY <3>2, <4>1, <5>1 DEF FreshClaim
      <4>2. CASE /\ ClaimOf(m) \in DOMAIN claims
                 /\ claims'[ClaimOf(m)].first = claims[ClaimOf(m)].first
        <5>1. claims[ClaimOf(m)].first > clock - PendingExpire
          BY <1>0, <2>1, <2>3, <2>15, <3>2, <4>2 DEF ClaimsReserved
        <5> QED BY <3>2, <4>2, <5>1 DEF FreshClaim
      <4> QED BY <2>12, <2>15, <3>2, <4>1, <4>2
    <3> QED BY <3>1, <3>2 DEF Anchored, ClaimOf
  <2>16. RivalsDiffer(lofts, claims)'
    BY <2>7 DEF Advances
  <2>17. \A e, k : Anchored(lofts, claims, e, k) => Anchored(lofts', claims', e, k)
    BY <2>7 DEF Advances
  <2>18. FollowOK'
    BY <2>9, <2>10, <2>11, <2>16 DEF FollowOK
  <2> QED BY <1>6, <2>3, <2>8, <2>12, <2>13, <2>14, <2>15, <2>17, <2>18
<1> QED BY <1>5, <1>6

\* What the worker and the closures hold: steps that reserve and apply nothing,
\* one that makes a reservation and one that consumes it.
LEMMA ClosuresStay ==
    ASSUME ClosuresOK, UNCHANGED <<clock, reserved, leaves>>,
           \A e, k : Anchored(lofts, claims, e, k) => Anchored(lofts', claims', e, k),
           \A n : Applying(n)' => Applying(n),
           \A n : Held(n)' => Held(n) \/ AlreadyReserved(n)
    PROVE  ClosuresOK'
<1>1. SupersededNow'
  BY DEF ClosuresOK, SupersededNow, AlreadyReserved, Fenced
<1>2. \A n : Overtaken(n)' => Overtaken(n)
  BY DEF Overtaken, OurLeaves, Ours
<1>3. LateFinalize'
  <2> SUFFICES ASSUME NEW n, Applying(n), Overtaken(n)
               PROVE  \/ /\ Fenced(n.at)' /\ reserved'[n.at].mutation # n
                         /\ ClaimOf(reserved'[n.at].mutation) = ClaimOf(n)
                      \/ ~AlreadyReserved(n)' /\ Anchored(lofts, claims, n.at, n.key)'
    BY <1>2 DEF LateFinalize
  <2>1. CASE /\ Fenced(n.at) /\ reserved[n.at].mutation # n
             /\ ClaimOf(reserved[n.at].mutation) = ClaimOf(n)
    BY <2>1 DEF Fenced
  <2>2. CASE ~AlreadyReserved(n) /\ Anchored(lofts, claims, n.at, n.key)
    <3>1. ~AlreadyReserved(n)'
      BY <2>2 DEF AlreadyReserved, Fenced
    <3>2. Anchored(lofts', claims', n.at, n.key)
      BY <2>2
    <3> QED BY <3>1, <3>2 DEF Anchored, FreshClaim
  <2> QED BY <2>1, <2>2 DEF ClosuresOK, LateFinalize
<1> QED BY <1>1, <1>3 DEF ClosuresOK

LEMMA ClosuresReserve ==
    ASSUME ClosuresOK, NEW m, UNCHANGED <<clock, leaves>>, AlreadyReserved(m)',
           \A e, k : Anchored(lofts, claims, e, k) => Anchored(lofts', claims', e, k),
           \A e \in DOMAIN reserved : e \in DOMAIN reserved' /\ reserved'[e] = reserved[e],
           \A e \in DOMAIN reserved' :
             \/ e \in DOMAIN reserved
             \/ e = m.at /\ reserved'[e].mutation = m /\ reserved'[e].at = clock,
           AlreadyReserved(m) \/ ~Overtaken(m) \/ ~Anchored(lofts, claims, m.at, m.key),
           \A n : Applying(n)' => Applying(n),
           \A n : Held(n)' => Held(n) \/ n = m
    PROVE  ClosuresOK'
<1>1. SupersededNow'
  <2> SUFFICES ASSUME NEW n, Held(n) \/ n = m, n.at \in DOMAIN reserved',
                      reserved'[n.at].mutation # n
               PROVE  reserved'[n.at].at = clock
    BY DEF SupersededNow, Fenced
  <2>1. n # m
    BY DEF AlreadyReserved, Fenced
  <2>2. CASE n.at \in DOMAIN reserved
    BY <2>1, <2>2 DEF ClosuresOK, SupersededNow, Fenced
  <2>3. CASE n.at \notin DOMAIN reserved
    BY <2>3
  <2> QED BY <2>2, <2>3
<1>2. \A n : Overtaken(n)' => Overtaken(n)
  BY DEF Overtaken, OurLeaves, Ours
<1>3. LateFinalize'
  <2> SUFFICES ASSUME NEW n, Applying(n), Overtaken(n)
               PROVE  \/ /\ Fenced(n.at)' /\ reserved'[n.at].mutation # n
                         /\ ClaimOf(reserved'[n.at].mutation) = ClaimOf(n)
                      \/ ~AlreadyReserved(n)' /\ Anchored(lofts, claims, n.at, n.key)'
    BY <1>2 DEF LateFinalize
  <2>1. CASE /\ Fenced(n.at) /\ reserved[n.at].mutation # n
             /\ ClaimOf(reserved[n.at].mutation) = ClaimOf(n)
    BY <2>1 DEF Fenced
  <2>2. CASE ~AlreadyReserved(n) /\ Anchored(lofts, claims, n.at, n.key)
    <3>1. n # m
      BY <2>2
    <3>2. ~AlreadyReserved(n)'
      BY <2>2, <3>1 DEF AlreadyReserved, Fenced
    <3>3. Anchored(lofts', claims', n.at, n.key)
      BY <2>2
    <3> QED BY <3>2, <3>3 DEF Anchored, FreshClaim
  <2> QED BY <2>1, <2>2 DEF ClosuresOK, LateFinalize
<1> QED BY <1>1, <1>3 DEF ClosuresOK

LEMMA ClosuresFinalize ==
    ASSUME ClosuresOK, ReservedOK(lofts, claims, reserved), NEW m, UNCHANGED <<clock, leaves>>,
           \A e \in DOMAIN reserved' : e \in DOMAIN reserved /\ reserved'[e] = reserved[e],
           \A n : AlreadyReserved(n) => AlreadyReserved(n)' \/ n = m,
           \A e, k : Anchored(lofts, claims, e, k) => Anchored(lofts', claims', e, k),
           AlreadyReserved(m) /\ reserved[m.at].at = clock
             => Anchored(lofts', claims', m.at, m.key),
           \A n : Applying(n)' => Applying(n),
           \A n : Held(n)' => Held(n)
    PROVE  ClosuresOK'
<1>1. SupersededNow'
  BY DEF ClosuresOK, SupersededNow, Fenced
<1>2. \A n : Overtaken(n)' => Overtaken(n)
  BY DEF Overtaken, OurLeaves, Ours
<1>3. LateFinalize'
  <2> SUFFICES ASSUME NEW n, Applying(n), Overtaken(n)
               PROVE  \/ /\ Fenced(n.at)' /\ reserved'[n.at].mutation # n
                         /\ ClaimOf(reserved'[n.at].mutation) = ClaimOf(n)
                      \/ ~AlreadyReserved(n)' /\ Anchored(lofts, claims, n.at, n.key)'
    BY <1>2 DEF LateFinalize
  <2>1. CASE /\ Fenced(n.at) /\ reserved[n.at].mutation # n
             /\ ClaimOf(reserved[n.at].mutation) = ClaimOf(n)
    <3>1. PICK r : r = reserved[n.at].mutation
      OBVIOUS
    <3>2. r.at = n.at /\ r.key = n.key
      BY <2>1, <3>1 DEF ClaimOf
    <3>3. AlreadyReserved(r)
      BY <2>1, <3>1, <3>2 DEF AlreadyReserved, Fenced
    <3>4. CASE AlreadyReserved(r)'
      BY <2>1, <3>1, <3>2, <3>4 DEF AlreadyReserved, Fenced
    <3>5. CASE r = m
      <4>1. reserved[n.at].at = clock
        BY <2>1 DEF ClosuresOK, SupersededNow, Held
      <4>2. Anchored(lofts', claims', n.at, n.key)
        BY <3>2, <3>3, <3>5, <4>1
      <4>3. ~AlreadyReserved(n)'
        BY <2>1 DEF AlreadyReserved, Fenced
      <4> QED BY <4>2, <4>3 DEF Anchored, FreshClaim
    <3> QED BY <3>3, <3>4, <3>5
  <2>2. CASE ~AlreadyReserved(n) /\ Anchored(lofts, claims, n.at, n.key)
    <3>1. ~AlreadyReserved(n)'
      BY <2>2 DEF AlreadyReserved, Fenced
    <3>2. Anchored(lofts', claims', n.at, n.key)
      BY <2>2
    <3> QED BY <3>1, <3>2 DEF Anchored, FreshClaim
  <2> QED BY <2>1, <2>2 DEF ClosuresOK, LateFinalize
<1> QED BY <1>1, <1>3 DEF ClosuresOK

\* A step that moves the tables as expiry, leases and probes do.
LEMMA FadingFollows ==
    ASSUME FInv, Fading(lofts, claims, lofts', claims'),
           UNCHANGED <<clock, journal, reserved, pin, leaves, worker, loose>>
    PROVE  FInv'
<1>1. OurLeaves' = OurLeaves /\ Reserving' = Reserving /\ Queued' = Queued
  BY DEF OurLeaves, Ours, Reserving, Queued
<1>2. SignaturesOK' /\ LogAscends'
  BY DEF FInv, SignaturesOK, JournalOK, SignedOK, NumberOK, RequestOK, Committed, InFlight,
         OurLeaves, Ours, Queued, LogAscends
<1>3. PublishingOK'
  BY DEF FInv, PublishingOK, Queued, AlreadyReserved, Fenced, InLog, Head1
<1>4. FollowOK'
  <2>1. RivalsDiffer(lofts, claims)'
    BY DEF FInv, FollowOK, Fading
  <2>2. ShownInLog'
    BY DEF FInv, FollowOK, Fading, ShownInLog
  <2>3. LaterIsReserved'
    BY <1>1 DEF FInv, FollowOK, Fading, LaterIsReserved, Fenced
  <2>4. ReservedLast'
    BY <1>1 DEF FInv, FollowOK, ReservedLast
  <2> QED BY <2>1, <2>2, <2>3, <2>4 DEF FollowOK
<1>5. TimesOK'
  <2>1. ReservedNow'
    BY <1>1 DEF FInv, TimesOK, ReservedNow
  <2>2. ClaimsReserved'
    BY DEF FInv, TimesOK, ClaimsReserved, Fading
  <2>3. ClaimsQueued'
    BY <1>1 DEF FInv, TimesOK, ClaimsQueued, Fading, FreshClaim
  <2>4. LateReserve'
    <3> SUFFICES ASSUME NEW x \in loose, x.size = Never, ClaimOf(x.mutation) \in Careful,
                        x.mutation.seq <= Committed(x.mutation)
                 PROVE  Anchored(lofts, claims, x.mutation.at, x.mutation.key)'
      BY DEF LateReserve, Committed
    <3>1. Anchored(lofts, claims, x.mutation.at, x.mutation.key)
      BY DEF FInv, TimesOK, LateReserve
    <3>2. Anchored(lofts', claims', x.mutation.at, x.mutation.key)
      BY <3>1 DEF Fading
    <3> QED BY <3>2 DEF Anchored, FreshClaim
  <2> QED BY <2>1, <2>2, <2>3, <2>4 DEF TimesOK
<1>6. ClosuresOK'
  <2>1. \A n : Applying(n)' => Applying(n)
    BY DEF Applying, Head1
  <2>2. \A n : Held(n)' => Held(n)
    BY <1>1, <2>1 DEF Held
  <2> QED BY <2>1, <2>2, ClosuresStay DEF FInv, Fading
<1> QED BY <1>2, <1>3, <1>4, <1>5, <1>6 DEF FInv

-----------------------------------------------------------------------------
(***************************************************************************)
(* The steps of the permit's holder, of loose closures and of the registry.*)
(***************************************************************************)
LEMMA FollowStays ==
    ASSUME FollowOK, UNCHANGED <<lofts, claims, reserved, pin, leaves>>
    PROVE  FollowOK'
<1>1. OurLeaves' = OurLeaves
  BY DEF OurLeaves, Ours
<1>2. RivalsDiffer(lofts, claims)'
  BY DEF FollowOK, RivalsDiffer
<1>3. ShownInLog'
  BY DEF FollowOK, ShownInLog, Shown
<1>4. LaterIsReserved'
  BY <1>1 DEF FollowOK, LaterIsReserved, Shown, Fenced
<1>5. ReservedLast'
  BY <1>1 DEF FollowOK, ReservedLast
<1> QED BY <1>2, <1>3, <1>4, <1>5 DEF FollowOK

LEMMA SignedStays ==
    ASSUME SignedOK, \A m \in InFlight' : m \in InFlight, UNCHANGED journal
    PROVE  SignedOK'
BY DEF SignedOK, NumberOK, Committed

LEMMA FInvInit ==
    ASSUME DirectoryInit
    PROVE  FInv
<1>1. /\ DOMAIN lofts = {} /\ DOMAIN claims = {} /\ DOMAIN reserved = {} /\ leaves = << >>
      /\ DOMAIN leaves = {} /\ loose = {} /\ worker = Idle
      /\ journal = [c \in Claimant |-> [committed |-> 0, pending |-> {}]]
  BY DEF DirectoryInit
<1>2. worker.request = {} /\ DOMAIN worker.queue = {} /\ worker.phase = "idle"
  BY <1>1 DEF Idle
<1>3. OurLeaves = {} /\ Queued = {} /\ ~Reserving
  BY <1>1, <1>2 DEF OurLeaves, Queued, Reserving
<1>4. InFlight = {}
  BY <1>1, <1>2, <1>3 DEF InFlight
<1>5. SignaturesOK
  <2>1. JournalOK
    BY <1>1 DEF JournalOK
  <2> QED BY <1>2, <1>4, <2>1 DEF SignaturesOK, SignedOK, RequestOK
<1>6. LogAscends /\ PublishingOK
  BY <1>1, <1>2, <1>3 DEF LogAscends, PublishingOK
<1>7. \A e, k, n : ~Shown(lofts, claims, e, k, n)
  BY <1>1 DEF Shown
<1>8. FollowOK
  BY <1>1, <1>7 DEF FollowOK, RivalsDiffer, ShownInLog, LaterIsReserved, ReservedLast
<1>9. TimesOK
  BY <1>1, <1>2, <1>3 DEF TimesOK, ReservedNow, ClaimsReserved, ClaimsQueued, LateReserve
<1>10. ClosuresOK
  BY <1>1, <1>2 DEF ClosuresOK, SupersededNow, LateFinalize, Held, Applying
<1> QED BY <1>5, <1>6, <1>8, <1>9, <1>10 DEF FInv

\* What is taken up again is reserved.
LEMMA PendingReserved ==
    ASSUME TablesOK(lofts, claims, reserved), NEW q \in Pending, NEW i \in DOMAIN q
    PROVE  \E e \in DOMAIN reserved : q[i] = reserved[e].mutation /\ AlreadyReserved(q[i])
<1>1. PICK e \in DOMAIN reserved : q[i] = reserved[e].mutation
  BY PendingT
<1>2. reserved[e].mutation.at = e
  BY DEF TablesOK, ReservedOK
<1> QED BY <1>1, <1>2 DEF AlreadyReserved, Fenced

LEMMA ReconcilingIs ==
    ASSUME NEW q, NEW request, NEW R, NEW w, w = Reconciling(q, request, R)
    PROVE  /\ w.phase \in {"append", "reserve", "idle"}
           /\ w.phase = "reserve" => DOMAIN R = {}
           /\ w.request = request \/ w.request = {}
           /\ w.queue = q \/ w.queue = << >>
<1>1. CASE q # << >>
  <2>1. w = [phase |-> "append", request |-> request, queue |-> q, size |-> 0]
    BY <1>1 DEF Reconciling, Idle
  <2> QED BY <2>1
<1>2. CASE q = << >> /\ DOMAIN R = {} /\ request # {}
  <2>1. w = [phase |-> "reserve", request |-> request, queue |-> << >>, size |-> 0]
    BY <1>2 DEF Reconciling, Idle
  <2> QED BY <1>2, <2>1
<1>3. CASE q = << >> /\ ~(DOMAIN R = {} /\ request # {})
  <2>1. w = [phase |-> "idle", request |-> {}, queue |-> << >>, size |-> 0]
    BY <1>3 DEF Reconciling, Idle
  <2> QED BY <2>1
<1> QED BY <1>1, <1>2, <1>3

\* The permit is taken: by a command or to publish what is reserved.
LEMMA StartFollows ==
    ASSUME DInv, FInv, UNCHANGED <<clock, tables, leaves, loose>>,
           \A c \in Claimant : journal'[c].committed = journal[c].committed,
           NEW q \in Pending, NEW request, worker' = Reconciling(q, request, reserved)
    PROVE  /\ LogAscends' /\ PublishingOK' /\ FollowOK' /\ TimesOK' /\ ClosuresOK'
           /\ worker'.request = request \/ worker'.request = {}
           /\ \A m \in InFlight' : m \in InFlight \/ m \in request
<1>0. /\ TablesOK(lofts, claims, reserved)
      /\ UNCHANGED <<clock, lofts, claims, reserved, pin, leaves, loose>>
  BY DEF DInv, tables
<1>1. /\ worker'.phase \in {"append", "reserve", "idle"}
      /\ worker'.phase = "reserve" => DOMAIN reserved = {}
      /\ worker'.request = request \/ worker'.request = {}
      /\ worker'.queue = q \/ worker'.queue = << >>
  BY ReconcilingIs
<1>2. \A m \in Queued' : /\ AlreadyReserved(m)
                         /\ \E e \in DOMAIN reserved : m = reserved[e].mutation
  BY <1>0, <1>1, PendingReserved DEF Queued
<1>3. OurLeaves' = OurLeaves /\ Reserving' = Reserving
  BY <1>0 DEF OurLeaves, Ours, Reserving
<1>4. \A m \in InFlight' : m \in InFlight \/ m \in request
  BY <1>0, <1>1, <1>2, <1>3 DEF InFlight
<1>5. LogAscends'
  BY DEF FInv, LogAscends, Ours
<1>6. PublishingOK'
  <2>1. \A m \in Queued' : AlreadyReserved(m)'
    BY <1>0, <1>2 DEF AlreadyReserved, Fenced
  <2>2. \A x \in loose' : x.size # Never => InLog(x.mutation, x.size)'
    BY <1>0 DEF FInv, PublishingOK, InLog
  <2> QED BY <1>1, <2>1, <2>2 DEF PublishingOK
<1>7. FollowOK'
  BY <1>0, FollowStays DEF FInv
<1>8. ReservedNow' /\ ClaimsReserved'
  BY <1>0, <1>1, <1>3 DEF FInv, TimesOK, ReservedNow, ClaimsReserved
<1>9. ClaimsQueued'
  <2> SUFFICES ASSUME Reserving, NEW m \in Queued', m.op = "add", ClaimOf(m) \in DOMAIN claims
               PROVE  claims[ClaimOf(m)].first > clock - PendingExpire
    BY <1>0, <1>3 DEF ClaimsQueued, FreshClaim
  <2>1. PICK e \in DOMAIN reserved : m = reserved[e].mutation
    BY <1>2
  <2>2. reserved[e].at = clock
    BY DEF FInv, TimesOK, ReservedNow
  <2> QED BY <2>1, <2>2 DEF FInv, TimesOK, ClaimsReserved
<1>10. LateReserve'
  <2> SUFFICES ASSUME NEW x \in loose, x.size = Never, ClaimOf(x.mutation) \in Careful,
                      x.mutation.seq <= Committed(x.mutation)'
               PROVE  Anchored(lofts, claims, x.mutation.at, x.mutation.key)'
    BY <1>0 DEF LateReserve
  <2>1. ClaimOf(x.mutation) \in Claimant
    BY DirectoryFacts
  <2>2. x.mutation.seq <= Committed(x.mutation)
    BY <2>1 DEF Committed
  <2>3. Anchored(lofts, claims, x.mutation.at, x.mutation.key)
    BY <2>2 DEF FInv, TimesOK, LateReserve
  <2> QED BY <1>0, <2>3 DEF Anchored, FreshClaim
<1>11. ClosuresOK'
  <2>1. \A n : Applying(n)' => Applying(n)
    BY <1>0, <1>1 DEF Applying
  <2>2. \A n : Held(n)' => Held(n) \/ AlreadyReserved(n)
    BY <1>2, <2>1 DEF Held
  <2>3. \A e, k : Anchored(lofts, claims, e, k) => Anchored(lofts', claims', e, k)
    BY <1>0
  <2> QED BY <1>0, <2>1, <2>2, <2>3, ClosuresStay DEF FInv
<1> QED BY <1>1, <1>4, <1>5, <1>6, <1>7, <1>8, <1>9, <1>10, <1>11 DEF TimesOK

LEMMA ClaimantPairs == \A c \in Claimant : c = <<c[1], c[2]>>
BY DirectoryAssumption

LEMMA CommandFollows ==
    ASSUME DInv, FInv, NEW c \in Claimant, c \in Careful, Command(c)
    PROVE  FInv'
<1>0. JournalOK /\ SignedOK /\ journal[c] \in [committed : Nat, pending : SUBSET MutT]
      /\ journal \in [Claimant -> [committed : Nat, pending : SUBSET MutT]]
  BY DEF DInv, ControlOK, FInv, SignaturesOK
<1>1. PICK n : n = journal[c].committed + 1
  OBVIOUS
<1>2. n \in Nat /\ n >= 1
  BY <1>0, <1>1
<1>3. PICK m, q :
        /\ m \in (IF journal[c].pending # {} THEN journal[c].pending ELSE Signable(c, n))
        /\ journal' = [journal EXCEPT ![c].pending = {m}]
        /\ q \in Pending /\ worker' = Reconciling(q, {m}, reserved)
  BY <1>1 DEF Command
<1>4. /\ m \in MutT /\ ClaimOf(m) = c /\ m.seq = n
      /\ journal[c].pending = {} \/ journal[c].pending = {m}
  <2>1. CASE journal[c].pending # {}
    BY <1>0, <1>1, <1>3, <2>1 DEF JournalOK
  <2>2. CASE journal[c].pending = {}
    <3>1. m \in Signable(c, n)
      BY <1>3, <2>2
    <3>2. m \in MutT
      BY <1>2, <3>1, SignableT
    <3>3. m.at = c[1] /\ m.key = c[2] /\ m.seq = n
      BY <3>1 DEF Signable
    <3>4. c = <<c[1], c[2]>>
      BY ClaimantPairs
    <3> QED BY <2>2, <3>2, <3>3, <3>4 DEF ClaimOf
  <2> QED BY <2>1, <2>2
<1>5. /\ \A d \in Claimant : journal'[d].committed = journal[d].committed
      /\ \A d \in Claimant : d # c => journal'[d] = journal[d]
      /\ journal'[c].pending = {m}
  BY <1>0, <1>3
<1>6. UNCHANGED <<clock, tables, leaves, loose>>
  BY DEF Command, registry
<1>7. /\ LogAscends' /\ PublishingOK' /\ FollowOK' /\ TimesOK' /\ ClosuresOK'
      /\ worker'.request = {m} \/ worker'.request = {}
      /\ \A l \in InFlight' : l \in InFlight \/ l \in {m}
  BY <1>3, <1>5, <1>6, StartFollows
<1>8. JournalOK'
  <2> SUFFICES ASSUME NEW d \in Claimant
               PROVE  \/ journal'[d].pending = {}
                      \/ \E l \in MutT : /\ journal'[d].pending = {l}
                                         /\ ClaimOf(l) = d /\ l.seq = journal'[d].committed + 1
    BY DEF JournalOK
  <2>1. CASE d = c
    BY <1>1, <1>4, <1>5, <2>1
  <2>2. CASE d # c
    BY <1>0, <1>5, <2>2 DEF JournalOK
  <2> QED BY <2>1, <2>2
<1>9. ASSUME NEW l \in InFlight
      PROVE  NumberOK(l)' /\ (ClaimOf(l) = c /\ l.seq = n => l = m)
  <2>1. NumberOK(l)
    BY <1>0 DEF SignedOK
  <2>2. CASE ClaimOf(l) # c
    BY <1>5, <2>1, <2>2 DEF NumberOK, Committed
  <2>3. CASE ClaimOf(l) = c
    <3>1. l.seq = n => l = m
      BY <1>1, <1>4, <2>1, <2>3 DEF NumberOK, Committed
    <3> QED BY <1>1, <1>5, <2>1, <2>3, <3>1 DEF NumberOK, Committed
  <2> QED BY <2>2, <2>3
<1>10. NumberOK(m)'
  BY <1>1, <1>2, <1>4, <1>5 DEF NumberOK, Committed
<1>11. SignedOK'
  <2>1. \A l \in InFlight' : NumberOK(l)'
    BY <1>7, <1>9, <1>10
  <2>2. \A l, k \in InFlight' : ClaimOf(l) = ClaimOf(k) /\ l.seq = k.seq => l = k
    BY <1>0, <1>4, <1>7, <1>9 DEF SignedOK
  <2> QED BY <2>1, <2>2 DEF SignedOK
<1>12. RequestOK'
  BY <1>1, <1>4, <1>5, <1>7 DEF RequestOK, Committed
<1> QED BY <1>7, <1>8, <1>11, <1>12 DEF FInv, SignaturesOK

\* Another client's mutation is of a stream that is not careful.
LEMMA SubmitFollows ==
    ASSUME DInv, FInv, NEW c \in Claimant, c \notin Careful, Submit(c)
    PROVE  FInv'
<1>1. PICK n, m, q : /\ m \in Signable(c, n) /\ q \in Pending
                     /\ worker' = Reconciling(q, {m}, reserved)
  BY DEF Submit
<1>2. UNCHANGED <<clock, tables, leaves, loose>> /\ UNCHANGED journal
  BY DEF Submit, registry
<1>3. /\ LogAscends' /\ PublishingOK' /\ FollowOK' /\ TimesOK' /\ ClosuresOK'
      /\ worker'.request = {m} \/ worker'.request = {}
      /\ \A l \in InFlight' : l \in InFlight \/ l \in {m}
  BY <1>1, <1>2, StartFollows
<1>4. ClaimOf(m) \notin Careful
  <2>1. m.at = c[1] /\ m.key = c[2]
    BY <1>1 DEF Signable
  <2>2. c = <<c[1], c[2]>>
    BY ClaimantPairs
  <2> QED BY <2>1, <2>2 DEF ClaimOf
<1>5. \A l \in InFlight' : l \in InFlight
  <2>1. \A l \in InFlight' : ClaimOf(l) \in Careful
    BY DEF InFlight
  <2> QED BY <1>3, <1>4, <2>1
<1>6. JournalOK'
  BY <1>2 DEF FInv, SignaturesOK, JournalOK
<1>7. RequestOK'
  BY <1>3, <1>4 DEF RequestOK
<1>8. SignedOK'
  BY <1>2, <1>5, SignedStays DEF FInv, SignaturesOK
<1> QED BY <1>3, <1>6, <1>7, <1>8 DEF FInv, SignaturesOK

LEMMA RecoverFollows ==
    ASSUME DInv, FInv, Recover
    PROVE  FInv'
<1>1. PICK q \in Pending : worker' = Reconciling(q, {}, reserved)
  BY DEF Recover
<1>2. UNCHANGED <<clock, tables, leaves, loose>> /\ UNCHANGED journal
  BY DEF Recover, registry
<1>3. /\ LogAscends' /\ PublishingOK' /\ FollowOK' /\ TimesOK' /\ ClosuresOK'
      /\ worker'.request = {}
      /\ \A m \in InFlight' : m \in InFlight
  BY <1>1, <1>2, StartFollows
<1>4. JournalOK' /\ RequestOK'
  BY <1>2, <1>3 DEF FInv, SignaturesOK, JournalOK, RequestOK
<1>5. SignedOK'
  BY <1>2, <1>3, SignedStays DEF FInv, SignaturesOK
<1> QED BY <1>3, <1>4, <1>5 DEF FInv, SignaturesOK

\* The holder of the permit ends; its closure may run on.
LEMMA IdleFollows ==
    ASSUME DInv, FInv, worker' = Idle, UNCHANGED <<clock, journal, tables, leaves>>,
           \A x \in loose' :
             \/ x \in loose
             \/ x.size = Never /\ x.mutation \in worker.request /\ worker.phase = "reserve"
             \/ x.size = worker.size /\ x.mutation = Head1 /\ worker.phase = "finalize"
    PROVE  FInv'
<1>0. UNCHANGED <<clock, journal, lofts, claims, reserved, pin, leaves>>
  BY DEF tables
<1>1. worker'.request = {} /\ worker'.queue = << >> /\ worker'.phase = "idle" /\ Queued' = {}
  BY DEF Idle, Queued
<1>2. OurLeaves' = OurLeaves
  BY <1>0 DEF OurLeaves, Ours
<1>3. worker.phase = "finalize" => Head1 \in Queued
  <2>1. worker.phase = "finalize" => worker.queue # << >> /\ worker.queue \in Seq(MutT)
    BY DEF DInv, ControlOK, WorkerOK, WorkerT
  <2> QED BY <2>1 DEF Head1, Queued
<1>4. \A m \in InFlight' : m \in InFlight
  BY <1>0, <1>1, <1>2, <1>3 DEF InFlight
<1>5. SignaturesOK'
  BY <1>0, <1>1, <1>4, SignedStays DEF FInv, SignaturesOK, JournalOK, RequestOK
<1>6. LogAscends'
  BY <1>0 DEF FInv, LogAscends, Ours
<1>7. PublishingOK'
  <2>1. \A x \in loose' : x.size # Never => InLog(x.mutation, x.size)
    BY DEF FInv, PublishingOK
  <2>2. \A x \in loose' : x.size # Never => InLog(x.mutation, x.size)'
    BY <1>0, <2>1 DEF InLog
  <2> QED BY <1>1, <2>2 DEF PublishingOK
<1>8. FollowOK'
  BY <1>0, FollowStays DEF FInv
<1>9. Reserving' => Reserving \/ worker.phase = "reserve"
  <2>1. worker.phase = "finalize" => worker.size # Never
    BY DEF DInv, ControlOK, WorkerOK, WorkerT, Never
  <2> QED BY <2>1 DEF Reserving
<1>10. ReservedNow' /\ ClaimsReserved' /\ ClaimsQueued'
  BY <1>0, <1>1, <1>9 DEF FInv, TimesOK, ReservedNow, ClaimsReserved, ClaimsQueued
<1>11. LateReserve'
  <2> SUFFICES ASSUME NEW x \in loose', x.size = Never, ClaimOf(x.mutation) \in Careful,
                      x.mutation.seq <= Committed(x.mutation)
               PROVE  Anchored(lofts, claims, x.mutation.at, x.mutation.key)'
    BY <1>0 DEF LateReserve, Committed
  <2>1. CASE x \in loose
    <3>1. Anchored(lofts, claims, x.mutation.at, x.mutation.key)
      BY <2>1 DEF FInv, TimesOK, LateReserve
    <3> QED BY <1>0, <3>1 DEF Anchored, FreshClaim
  <2>2. CASE x.mutation \in worker.request
    <3>1. x.mutation.seq = Committed(x.mutation) + 1
      BY <2>2 DEF FInv, SignaturesOK, RequestOK
    <3>2. NumberOK(x.mutation)
      BY <2>2 DEF FInv, SignaturesOK, SignedOK, InFlight
    <3>3. Committed(x.mutation) \in Nat
      BY <3>2 DEF NumberOK, Committed, DInv, ControlOK
    <3> QED BY <3>1, <3>3
  <2>3. CASE x.size = worker.size /\ worker.phase = "finalize"
    BY <2>3 DEF DInv, ControlOK, WorkerOK, WorkerT, Never
  <2> QED BY <2>1, <2>2, <2>3
<1>12. ClosuresOK'
  <2>1. \A n : Applying(n)' => Applying(n)
    BY <1>1 DEF Applying
  <2>2. \A n : Held(n)' => Held(n)
    BY <1>1, <2>1 DEF Held
  <2>3. \A e, k : Anchored(lofts, claims, e, k) => Anchored(lofts', claims', e, k)
    BY <1>0
  <2> QED BY <1>0, <2>1, <2>2, <2>3, ClosuresStay DEF FInv
<1> QED BY <1>5, <1>6, <1>7, <1>8, <1>10, <1>11, <1>12 DEF FInv, TimesOK

\* A leaf is appended: what is reserved, or something from elsewhere.
LEMMA LogFollows ==
    ASSUME DInv, FInv, NEW m \in MutT, NEW by \in {"this", "other"},
           by = "other" => ClaimOf(m) \in Elsewhere, by = "this" => AlreadyReserved(m),
           Accepts(m), leaves' = Appended(m, by),
           UNCHANGED <<clock, journal, tables, worker, loose>>
    PROVE  FInv'
<1>0. /\ UNCHANGED <<clock, journal, lofts, claims, reserved, pin, worker, loose>>
      /\ TablesOK(lofts, claims, reserved)
  BY DEF tables, DInv
<1>1. /\ LogAscends'
      /\ \A x, n : InLog(x, n) => InLog(x, n)'
      /\ \A x : InLog(x, Len(leaves)) => InLog(x, Len(leaves))'
      /\ \A i \in DOMAIN leaves : i \in DOMAIN leaves' /\ leaves'[i] = leaves[i]
      /\ \A l \in OurLeaves' : l \in OurLeaves \/ (l = m /\ by = "this")
  BY LogStep DEF DInv, FInv
<1>2. \A l \in OurLeaves' : l \in OurLeaves \/ (l = m /\ AlreadyReserved(m))
  BY <1>1
<1>3. Queued' = Queued /\ Reserving' = Reserving
  BY <1>0 DEF Queued, Reserving
<1>4. AlreadyReserved(m) /\ ClaimOf(m) \in Careful => m \in InFlight
  BY DEF AlreadyReserved, Fenced, InFlight
<1>5. \A l \in InFlight' : l \in InFlight
  BY <1>0, <1>2, <1>3, <1>4 DEF InFlight
<1>6. SignaturesOK'
  BY <1>0, <1>5, SignedStays DEF FInv, SignaturesOK, JournalOK, RequestOK, Committed
<1>7. PublishingOK'
  <2>1. \A x \in Queued : AlreadyReserved(x)' \/ InLog(x, Len(leaves))'
    BY <1>0, <1>1 DEF FInv, PublishingOK, AlreadyReserved, Fenced
  <2>2. worker'.phase = "finalize" => InLog(Head1, worker.size)'
    <3>1. PICK h, n : h = Head1 /\ n = worker.size
      OBVIOUS
    <3>2. h = Head1' /\ n = worker'.size
      BY <1>0, <3>1 DEF Head1
    <3>3. worker'.phase = "finalize" => InLog(h, n)'
      BY <1>0, <1>1, <3>1 DEF FInv, PublishingOK
    <3> QED BY <3>2, <3>3
  <2>3. \A x \in loose : x.size # Never => InLog(x.mutation, x.size)'
    BY <1>1 DEF FInv, PublishingOK
  <2> QED BY <1>0, <1>3, <2>1, <2>2, <2>3 DEF PublishingOK
<1>8. AlreadyReserved(m) => /\ m.at \in DOMAIN reserved /\ reserved[m.at].mutation = m
                            /\ \A e \in DOMAIN reserved :
                                 ClaimOf(reserved[e].mutation) = ClaimOf(m) => e = m.at
  BY <1>0 DEF AlreadyReserved, Fenced, TablesOK, ReservedOK, ClaimOf
<1>9. FollowOK'
  <2>1. RivalsDiffer(lofts, claims)'
    BY <1>0 DEF FInv, FollowOK, RivalsDiffer
  <2>2. ShownInLog'
    BY <1>0, <1>1 DEF FInv, FollowOK, ShownInLog
  <2>3. LaterIsReserved'
    <3> SUFFICES ASSUME NEW e, NEW k, NEW n, Shown(lofts, claims, e, k, n),
                        NEW l \in OurLeaves', ClaimOf(l) = <<e, k>>, l.seq > n
                 PROVE  e \in DOMAIN reserved /\ reserved[e].mutation = l
      BY <1>0 DEF LaterIsReserved, Fenced
    <3>1. CASE l \in OurLeaves
      BY <3>1 DEF FInv, FollowOK, LaterIsReserved, Fenced
    <3>2. CASE l = m /\ AlreadyReserved(m)
      BY <1>8, <3>2 DEF ClaimOf
    <3> QED BY <1>2, <3>1, <3>2
  <2>4. ReservedLast'
    <3> SUFFICES ASSUME NEW e \in DOMAIN reserved, NEW l \in OurLeaves',
                        ClaimOf(l) = ClaimOf(reserved[e].mutation), ClaimOf(l) \in Careful
                 PROVE  l.seq <= reserved[e].mutation.seq
      BY <1>0 DEF ReservedLast
    <3>1. CASE l \in OurLeaves
      BY <3>1 DEF FInv, FollowOK, ReservedLast
    <3>2. CASE l = m /\ AlreadyReserved(m)
      <4>1. reserved[e].mutation = m
        BY <1>8, <3>2
      <4>2. m.seq \in Nat
        BY MutFacts
      <4> QED BY <3>2, <4>1, <4>2
    <3> QED BY <1>2, <3>1, <3>2
  <2> QED BY <2>1, <2>2, <2>3, <2>4 DEF FollowOK
<1>10. TimesOK'
  BY <1>0, <1>3 DEF FInv, TimesOK, ReservedNow, ClaimsReserved, ClaimsQueued, LateReserve,
                    Committed, Anchored, FreshClaim
<1>11. ClosuresOK'
  <2>1. \A n : (Applying(n)' <=> Applying(n)) /\ (Held(n)' <=> Held(n))
    BY <1>0, <1>3 DEF Held, Applying, Head1
  <2>2. SupersededNow'
    BY <1>0, <2>1 DEF FInv, ClosuresOK, SupersededNow, Fenced
  <2>3. LateFinalize'
    <3> SUFFICES ASSUME NEW n, Applying(n), Overtaken(n)'
                 PROVE  \/ /\ Fenced(n.at) /\ reserved[n.at].mutation # n
                           /\ ClaimOf(reserved[n.at].mutation) = ClaimOf(n)
                        \/ ~AlreadyReserved(n) /\ Anchored(lofts, claims, n.at, n.key)
      BY <1>0, <2>1 DEF LateFinalize, Fenced, AlreadyReserved, Anchored, FreshClaim
    <3>1. CASE Overtaken(n)
      BY <3>1 DEF FInv, ClosuresOK, LateFinalize
    <3>2. CASE ~Overtaken(n)
      <4>1. ClaimOf(m) = ClaimOf(n) /\ m.seq > n.seq /\ AlreadyReserved(m)
        BY <1>2, <3>2 DEF Overtaken
      <4>2. m.seq \in Nat
        BY MutFacts
      <4>3. m # n /\ n.at = m.at
        BY <4>1, <4>2 DEF ClaimOf
      <4> QED BY <1>8, <4>1, <4>3 DEF Fenced
    <3> QED BY <3>1, <3>2
  <2> QED BY <2>2, <2>3 DEF ClosuresOK
<1> QED BY <1>1, <1>6, <1>7, <1>9, <1>10, <1>11 DEF FInv

LEMMA PostFollows ==
    ASSUME DInv, FInv, PostLeaf
    PROVE  FInv'
<1>1. PICK m : m = Head1
  OBVIOUS
<1>2. /\ Accepts(m) /\ leaves' = Appended(m, "this") /\ leaves' # leaves
      /\ UNCHANGED <<clock, journal, tables, worker, loose>>
      /\ worker.phase = "append"
  BY <1>1 DEF PostLeaf
<1>3. m \in MutT
  BY <1>1, <1>2, HeadT DEF DInv, ControlOK
<1>4. m \in Queued
  <2>1. worker.queue # << >> /\ worker.queue \in Seq(MutT)
    BY <1>2 DEF DInv, ControlOK, WorkerOK, WorkerT
  <2> QED BY <1>1, <2>1 DEF Head1, Queued
<1>5. LogOK /\ LogAscends
  BY DEF DInv, FInv
<1>6. InLog(m, Len(leaves)) => leaves' = leaves
  BY <1>2, <1>3, <1>5, LogStep
<1>7. AlreadyReserved(m)
  BY <1>2, <1>4, <1>6 DEF FInv, PublishingOK
<1> QED BY <1>2, <1>3, <1>7, LogFollows

LEMMA ElsewhereFollows ==
    ASSUME DInv, FInv, NEW c \in Elsewhere, PublishedElsewhere(c)
    PROVE  FInv'
<1>1. c \in Claimant
  BY DirectoryAssumption
<1>2. PICK m \in MutT : ClaimOf(m) = c /\ Accepts(m) /\ leaves' = Appended(m, "other")
  BY <1>1, ElsewhereT DEF DInv
<1>3. UNCHANGED <<clock, journal, tables, worker, loose>>
  BY DEF PublishedElsewhere
<1> QED BY <1>2, <1>3, LogFollows

\* The receipt shows the leaf under a witnessed head.
LEMMA ReceiptFollows ==
    ASSUME DInv, FInv, Receipt
    PROVE  FInv'
<1>1. /\ UNCHANGED <<clock, journal, lofts, claims, reserved, pin, leaves, loose>>
      /\ worker' = [worker EXCEPT !.phase = "finalize", !.size = witnessed]
      /\ Included(Head1) /\ worker \in WorkerT
  BY DEF Receipt, tables, registry, DInv, ControlOK, WorkerOK
<1>2. /\ worker'.request = worker.request /\ worker'.queue = worker.queue
      /\ worker'.phase = "finalize" /\ worker'.size = witnessed
  BY <1>1 DEF WorkerT
<1>3. Queued' = Queued /\ Reserving' = Reserving /\ OurLeaves' = OurLeaves
  BY <1>1, <1>2 DEF Queued, Reserving, OurLeaves, Ours
<1>4. InFlight' = InFlight
  BY <1>1, <1>2, <1>3 DEF InFlight
<1>5. SignaturesOK'
  BY <1>1, <1>2, <1>4, SignedStays DEF FInv, SignaturesOK, JournalOK, RequestOK, Committed
<1>6. LogAscends'
  BY <1>1 DEF FInv, LogAscends, Ours
<1>7. PublishingOK'
  <2>1. InLog(Head1, witnessed)
    <3>1. PICK i \in 1..witnessed : leaves[i].mutation = Head1
      BY <1>1 DEF Included
    <3>2. i \in DOMAIN leaves
      BY DEF DInv, LogOK
    <3> QED BY <3>1, <3>2 DEF InLog
  <2>2. Head1' = Head1
    BY <1>2 DEF Head1
  <2>3. InLog(Head1, worker.size)'
    BY <1>1, <1>2, <2>1, <2>2 DEF InLog
  <2>4. \A x \in Queued : AlreadyReserved(x)' \/ InLog(x, Len(leaves))'
    BY <1>1 DEF FInv, PublishingOK, AlreadyReserved, Fenced, InLog
  <2>5. \A x \in loose : x.size # Never => InLog(x.mutation, x.size)'
    BY <1>1 DEF FInv, PublishingOK, InLog
  <2> QED BY <1>1, <1>3, <2>3, <2>4, <2>5 DEF PublishingOK
<1>8. FollowOK'
  BY <1>1, FollowStays DEF FInv
<1>9. TimesOK'
  BY <1>1, <1>2, <1>3 DEF FInv, TimesOK, ReservedNow, ClaimsReserved, ClaimsQueued, LateReserve,
                          Committed, Anchored, FreshClaim
<1>10. PICK h : h = Head1
  OBVIOUS
<1>11. h \in MutT /\ h \in Queued /\ Accepts(h) /\ worker.phase = "append" /\ Included(h)
  <2>1. worker.phase = "append" /\ Accepts(h) /\ Included(h)
    BY <1>10 DEF Receipt
  <2>2. worker.queue # << >> /\ worker.queue \in Seq(MutT)
    BY <2>1 DEF DInv, ControlOK, WorkerOK, WorkerT
  <2> QED BY <1>10, <2>1, <2>2 DEF Head1, Queued
<1>12. ~Overtaken(h)
  <2> SUFFICES ASSUME NEW l \in OurLeaves, ClaimOf(l) = ClaimOf(h), l.seq > h.seq
               PROVE  FALSE
    BY DEF Overtaken
  <2>1. PICK i \in DOMAIN leaves : l = leaves[i].mutation
    BY DEF OurLeaves
  <2>2. i \in Stream(ClaimOf(h))
    BY <2>1 DEF Stream
  <2>3. l.seq \in Nat /\ h.seq \in Nat /\ LogOK /\ LogAscends
    BY <1>11, OurLeafT, MutFacts DEF DInv, FInv
  <2>4. ~(l.seq < h.seq)
    BY <2>3
  <2>5. h = Current(ClaimOf(h))
    BY <1>11, <2>1, <2>2, <2>3, <2>4, AcceptedIs
  <2>6. PICK j \in Stream(ClaimOf(h)) : /\ \A k \in Stream(ClaimOf(h)) : k <= j
                                        /\ Current(ClaimOf(h)) = leaves[j].mutation
    BY <2>2, <2>3, CurrentIs
  <2>7. j \in DOMAIN leaves /\ i \in Int /\ j \in Int /\ i <= j
    BY <2>2, <2>3, <2>6 DEF Stream, LogOK
  <2>8. i = j \/ l.seq < h.seq
    BY <2>1, <2>3, <2>5, <2>6, <2>7 DEF LogAscends, Stream
  <2> QED BY <2>1, <2>3, <2>4, <2>5, <2>6, <2>8
<1>13. ClosuresOK'
  <2>1. \A n : Applying(n)' => Applying(n) \/ n = h
    BY <1>1, <1>2, <1>10 DEF Applying, Head1
  <2>2. \A n : Held(n)' => Held(n)
    BY <1>1, <1>2, <1>3, <1>11, <2>1 DEF Held
  <2>3. SupersededNow'
    BY <1>1, <2>2 DEF FInv, ClosuresOK, SupersededNow, Fenced
  <2>4. \A n : Overtaken(n)' => Overtaken(n)
    BY <1>3 DEF Overtaken
  <2>5. \A n : Applying(n)' /\ Overtaken(n)' => Applying(n) /\ Overtaken(n)
    BY <1>12, <2>1, <2>4
  <2>6. LateFinalize'
    BY <1>1, <2>5 DEF FInv, ClosuresOK, LateFinalize, Fenced, AlreadyReserved, Anchored, FreshClaim
  <2> QED BY <2>3, <2>6 DEF ClosuresOK
<1> QED BY <1>5, <1>6, <1>7, <1>8, <1>9, <1>13 DEF FInv

\* Time passes only when nothing is under way.
LEMMA TickFollows ==
    ASSUME DInv, FInv, Tick
    PROVE  FInv'
<1>1. /\ UNCHANGED <<journal, lofts, claims, reserved, pin, leaves, worker, loose>>
      /\ worker.phase = "idle" /\ loose = {}
  BY DEF Tick, tables, registry
<1>2. Queued' = Queued /\ ~Reserving' /\ OurLeaves' = OurLeaves
  BY <1>1 DEF Queued, Reserving, OurLeaves, Ours
<1>3. InFlight' = InFlight
  BY <1>1, <1>2 DEF InFlight
<1>4. SignaturesOK'
  BY <1>1, <1>3, SignedStays DEF FInv, SignaturesOK, JournalOK, RequestOK, Committed
<1>5. LogAscends'
  BY <1>1 DEF FInv, LogAscends, Ours
<1>6. PublishingOK'
  BY <1>1, <1>2 DEF FInv, PublishingOK, AlreadyReserved, Fenced, InLog
<1>7. FollowOK'
  BY <1>1, FollowStays DEF FInv
<1>8. TimesOK'
  BY <1>1, <1>2 DEF FInv, TimesOK, ReservedNow, ClaimsReserved, ClaimsQueued, LateReserve
<1>9. ClosuresOK'
  BY <1>1 DEF ClosuresOK, SupersededNow, LateFinalize, Held, Applying
<1> QED BY <1>4, <1>5, <1>6, <1>7, <1>8, <1>9 DEF FInv

\* A reservation is made, by the holder of the permit or by a loose closure.
LEMMA ReserveSteps ==
    ASSUME DInv, FInv, NEW m \in MutT, Reserve(m),
           UNCHANGED <<clock, leaves, journal>>,
           ClaimOf(m) \in Careful =>
             /\ m \in InFlight
             /\ m.seq = Committed(m) + 1 \/ Anchored(lofts, claims, m.at, m.key),
           worker.phase = "reserve" \/ Reserving,
           \A x \in loose' : x \in loose,
           worker'.request = worker.request,
           \/ worker' = worker
           \/ worker'.phase = "append" /\ Queued' = {m}
    PROVE  FInv'
<1>0. /\ SignedOK /\ PublishingOK /\ TimesOK /\ LogAscends /\ JournalOK /\ RequestOK
      /\ ClosuresOK
  BY DEF FInv, SignaturesOK
<1>1. /\ FollowOK' /\ ClaimsReserved' /\ Fading(lofts, claims, lofts', claims')
      /\ AlreadyReserved(m)'
      /\ \A e \in DOMAIN reserved : e \in DOMAIN reserved' /\ reserved'[e] = reserved[e]
      /\ \A e \in DOMAIN reserved' :
           \/ e \in DOMAIN reserved
           \/ e = m.at /\ reserved'[e].mutation = m /\ reserved'[e].at = clock
      /\ AlreadyReserved(m) \/ ~Overtaken(m) \/ ~Anchored(lofts, claims, m.at, m.key)
  BY ReserveFollows
<1>2. OurLeaves' = OurLeaves /\ (Reserving' => Reserving)
  BY DEF OurLeaves, Ours, Reserving
<1>3. \A n \in Queued' : n \in Queued \/ n = m
  BY DEF Queued
<1>4. \A e \in DOMAIN reserved' : \/ reserved'[e].mutation = m
                                  \/ e \in DOMAIN reserved /\ reserved'[e] = reserved[e]
  BY <1>1
<1>5. \A n \in InFlight' : n \in InFlight
  <2> SUFFICES ASSUME NEW n \in InFlight' PROVE n \in InFlight
    OBVIOUS
  <2>0. ClaimOf(n) \in Careful
    BY DEF InFlight
  <2>1. CASE n \in worker'.request \/ n \in Queued' \/ n \in OurLeaves'
    BY <1>2, <1>3, <2>0, <2>1 DEF InFlight
  <2>2. CASE \E x \in loose' : n = x.mutation
    BY <2>0, <2>2 DEF InFlight
  <2>3. CASE \E e \in DOMAIN reserved' : n = reserved'[e].mutation
    BY <1>4, <2>0, <2>3 DEF InFlight
  <2> QED BY <2>1, <2>2, <2>3 DEF InFlight
<1>6. SignaturesOK'
  BY <1>0, <1>5, SignedStays DEF SignaturesOK, JournalOK, RequestOK, Committed
<1>7. LogAscends'
  BY <1>0 DEF LogAscends, Ours
<1>8. PublishingOK'
  <2>1. \A n : AlreadyReserved(n) => AlreadyReserved(n)'
    BY <1>1 DEF AlreadyReserved, Fenced
  <2>2. \A n \in Queued' : AlreadyReserved(n)' \/ InLog(n, Len(leaves))'
    BY <1>0, <1>1, <1>3, <2>1 DEF PublishingOK, InLog
  <2>3. worker'.phase = "finalize" => InLog(Head1, worker.size)'
    BY <1>0 DEF PublishingOK, InLog, Head1
  <2>4. \A x \in loose' : x.size # Never => InLog(x.mutation, x.size)'
    BY <1>0 DEF PublishingOK, InLog
  <2> QED BY <2>2, <2>3, <2>4 DEF PublishingOK
<1>9. \A e \in DOMAIN reserved' : reserved'[e].at = clock
  BY <1>0, <1>1 DEF TimesOK, ReservedNow
<1>10. ReservedNow'
  BY <1>9 DEF ReservedNow
<1>11. ClaimsQueued'
  <2> SUFFICES ASSUME Reserving, NEW n \in Queued', n.op = "add", ClaimOf(n) \in DOMAIN claims'
               PROVE  claims'[ClaimOf(n)].first > clock - PendingExpire
    BY <1>2 DEF ClaimsQueued, FreshClaim
  <2>1. CASE n = m
    <3>1. m.at \in DOMAIN reserved' /\ reserved'[m.at].mutation = m
      BY <1>1 DEF AlreadyReserved, Fenced
    <3> QED BY <1>1, <1>9, <2>1, <3>1 DEF ClaimsReserved
  <2>2. CASE n \in Queued
    <3>1. ClaimOf(n) \in DOMAIN claims /\ claims'[ClaimOf(n)].first = claims[ClaimOf(n)].first
      BY <1>1 DEF Fading
    <3>2. FreshClaim(claims, ClaimOf(n))
      BY <1>0, <2>2, <3>1 DEF TimesOK, ClaimsQueued
    <3> QED BY <3>1, <3>2 DEF FreshClaim
  <2> QED BY <1>3, <2>1, <2>2
<1>12. LateReserve'
  <2> SUFFICES ASSUME NEW x \in loose, x.size = Never, ClaimOf(x.mutation) \in Careful,
                      x.mutation.seq <= Committed(x.mutation)
               PROVE  Anchored(lofts, claims, x.mutation.at, x.mutation.key)'
    BY DEF LateReserve, Committed
  <2>1. Anchored(lofts, claims, x.mutation.at, x.mutation.key)
    BY <1>0 DEF TimesOK, LateReserve
  <2>2. Anchored(lofts', claims', x.mutation.at, x.mutation.key)
    BY <1>1, <2>1 DEF Fading
  <2> QED BY <2>2 DEF Anchored, FreshClaim
<1>13. ClosuresOK'
  <2>1. \A n : Applying(n)' => Applying(n)
    BY DEF Applying, Head1
  <2>2. \A n : Held(n)' => Held(n) \/ n = m
    BY <2>1 DEF Held, Queued
  <2>3. \A e, k : Anchored(lofts, claims, e, k) => Anchored(lofts', claims', e, k)
    BY <1>1 DEF Fading
  <2> QED BY <1>0, <1>1, <2>1, <2>2, <2>3, ClosuresReserve
<1> QED BY <1>1, <1>6, <1>7, <1>8, <1>10, <1>11, <1>12, <1>13 DEF FInv, TimesOK

LEMMA WorkerReservesFollows ==
    ASSUME DInv, FInv, WorkerReserves
    PROVE  FInv'
<1>1. UNCHANGED <<clock, journal, leaves, loose>> /\ worker.phase = "reserve"
  BY DEF WorkerReserves, registry
<1>2. PICK m \in worker.request :
        \/ Reserve(m) /\ worker' = [worker EXCEPT !.phase = "append", !.queue = <<m>>]
        \/ worker' = Idle /\ UNCHANGED tables
  BY DEF WorkerReserves
<1>3. worker \in WorkerT
  BY DEF DInv, ControlOK, WorkerOK
<1>4. CASE worker' = Idle /\ UNCHANGED tables
  BY <1>1, <1>4, IdleFollows
<1>5. CASE Reserve(m) /\ worker' = [worker EXCEPT !.phase = "append", !.queue = <<m>>]
  <2>1. worker'.phase = "append" /\ worker'.queue = <<m>> /\ worker'.request = worker.request
    BY <1>3, <1>5 DEF WorkerT
  <2>2. Queued' = {m}
    BY <2>1 DEF Queued
  <2>3. m \in MutT /\ (ClaimOf(m) \in Careful => m \in InFlight)
    BY <1>3 DEF WorkerT, InFlight
  <2>4. ClaimOf(m) \in Careful => m.seq = Committed(m) + 1
    BY DEF FInv, SignaturesOK, RequestOK
  <2> QED BY <1>1, <1>5, <2>1, <2>2, <2>3, <2>4, ReserveSteps
<1> QED BY <1>2, <1>4, <1>5

\* A mutation is applied, by the holder of the permit or by a loose closure.
LEMMA FinalizeSteps ==
    ASSUME DInv, FInv, NEW m \in MutT, NEW size \in Nat, Finalize(m, size), InLog(m, size),
           Applying(m), UNCHANGED <<clock, leaves>>, \A x \in loose' : x \in loose,
           \A n \in worker'.request : n \in worker.request,
           \A n \in Queued' : n \in Queued,
           worker'.phase = "finalize" => worker' = worker,
           worker'.phase = "reserve" => worker' = worker \/ DOMAIN reserved' = {},
           worker.phase = "idle" => worker' = worker
    PROVE  /\ LogAscends' /\ PublishingOK' /\ FollowOK' /\ ClosuresOK'
           /\ ReservedNow' /\ ClaimsReserved' /\ ClaimsQueued'
           /\ \A n \in InFlight' : n \in InFlight
           /\ \A e, k : Anchored(lofts, claims, e, k) => Anchored(lofts', claims', e, k)
           /\ Reserving /\ m \in Queued => Anchored(lofts', claims', m.at, m.key)
<1>0. PublishingOK /\ TimesOK /\ LogAscends /\ LogOK
  BY DEF DInv, FInv
<1>1. /\ FollowOK' /\ ClaimsReserved'
      /\ \A e \in DOMAIN reserved' : e \in DOMAIN reserved /\ reserved'[e] = reserved[e]
      /\ \A n : AlreadyReserved(n) => AlreadyReserved(n)' \/ n = m
      /\ \A e, k : Anchored(lofts, claims, e, k) => Anchored(lofts', claims', e, k)
      /\ \A c \in DOMAIN claims' :
           \/ c \in DOMAIN claims /\ claims'[c].first = claims[c].first
           \/ /\ AlreadyReserved(m) /\ c = ClaimOf(m)
              /\ claims'[c].first = reserved[m.at].at
      /\ \/ AlreadyReserved(m) /\ reserved[m.at].at = clock
         \/ /\ ~AlreadyReserved(m)
            /\ m.op = "add" /\ ClaimOf(m) \in DOMAIN claims
                 => FreshClaim(claims, ClaimOf(m))
         => Anchored(lofts', claims', m.at, m.key)
  BY FinalizeFollows
<1>2. OurLeaves' = OurLeaves /\ (Reserving' => Reserving)
  BY DEF OurLeaves, Ours, Reserving
<1>3. \A n \in InFlight' : n \in InFlight
  BY <1>1, <1>2 DEF InFlight
<1>4. LogAscends'
  BY <1>0 DEF LogAscends, Ours
<1>5. PublishingOK'
  <2>1. InLog(m, Len(leaves))'
    <3>1. PICK i \in 1..size : i \in DOMAIN leaves /\ leaves[i].mutation = m
      BY DEF InLog
    <3>2. i \in 1..Len(leaves)
      BY <1>0, <3>1 DEF LogOK
    <3> QED BY <3>1, <3>2 DEF InLog
  <2>2. \A n \in Queued' : AlreadyReserved(n)' \/ InLog(n, Len(leaves))'
    BY <1>0, <1>1, <2>1 DEF PublishingOK, InLog
  <2>3. worker'.phase = "finalize" => InLog(Head1, worker.size)'
    BY <1>0 DEF PublishingOK, InLog, Head1
  <2>4. \A x \in loose' : x.size # Never => InLog(x.mutation, x.size)'
    BY <1>0 DEF PublishingOK, InLog
  <2> QED BY <2>2, <2>3, <2>4 DEF PublishingOK
<1>6. ReservedNow'
  BY <1>0, <1>1, <1>2 DEF TimesOK, ReservedNow
<1>7. Reserving /\ AlreadyReserved(m) => reserved[m.at].at = clock
  BY <1>0 DEF TimesOK, ReservedNow, AlreadyReserved, Fenced
<1>8. ClaimsQueued'
  <2> SUFFICES ASSUME Reserving, NEW n \in Queued', n.op = "add", ClaimOf(n) \in DOMAIN claims'
               PROVE  claims'[ClaimOf(n)].first > clock - PendingExpire
    BY <1>2 DEF ClaimsQueued, FreshClaim
  <2>1. CASE /\ ClaimOf(n) \in DOMAIN claims
             /\ claims'[ClaimOf(n)].first = claims[ClaimOf(n)].first
    <3>1. FreshClaim(claims, ClaimOf(n))
      BY <1>0, <2>1 DEF TimesOK, ClaimsQueued
    <3> QED BY <2>1, <3>1 DEF FreshClaim
  <2>2. CASE AlreadyReserved(m) /\ claims'[ClaimOf(n)].first = reserved[m.at].at
    <3>1. claims'[ClaimOf(n)].first = clock
      BY <1>7, <2>2
    <3>2. clock \in Nat
      BY DEF DInv, ControlOK
    <3> QED BY <3>1, <3>2, DirectoryFacts
  <2> QED BY <1>1, <2>1, <2>2
<1>9. Reserving /\ m \in Queued => Anchored(lofts', claims', m.at, m.key)
  BY <1>0, <1>1, <1>7 DEF TimesOK, ClaimsQueued
<1>10. ClosuresOK'
  <2>1. \A n : Applying(n)' => Applying(n)
    BY DEF Applying, Head1
  <2>2. \A n : Held(n)' => Held(n)
    BY <2>1 DEF Held
  <2>3. ClosuresOK /\ ReservedOK(lofts, claims, reserved)
    BY DEF DInv, TablesOK, FInv
  <2>4. AlreadyReserved(m) /\ reserved[m.at].at = clock => Anchored(lofts', claims', m.at, m.key)
    BY <1>1
  <2> QED BY <1>1, <2>1, <2>2, <2>3, <2>4, ClosuresFinalize
<1> QED BY <1>1, <1>3, <1>4, <1>5, <1>6, <1>8, <1>9, <1>10

LEMMA LooseFollows ==
    ASSUME DInv, FInv, NEW x \in loose, LooseRuns(x)
    PROVE  FInv'
<1>0. /\ UNCHANGED <<clock, journal, leaves, worker>> /\ (\A y \in loose' : y \in loose)
      /\ x.mutation \in MutT /\ x.size \in Nat \cup {Never}
  BY DEF LooseRuns, registry, DInv, ControlOK
<1>1. PICK m : m = x.mutation
  OBVIOUS
<1>2. m \in MutT /\ (ClaimOf(m) \in Careful => m \in InFlight)
  BY <1>0, <1>1 DEF InFlight
<1>3. CASE x.size = Never /\ Reserve(m)
  <2>4. ASSUME ClaimOf(m) \in Careful
        PROVE  m.seq = Committed(m) + 1 \/ Anchored(lofts, claims, m.at, m.key)
    <3>1. NumberOK(m)
      BY <1>2, <2>4 DEF FInv, SignaturesOK, SignedOK
    <3>2. Committed(m) \in Nat /\ m.seq \in Nat
      BY <1>2, <3>1, MutFacts DEF NumberOK, Committed, DInv, ControlOK
    <3>3. m.seq = Committed(m) + 1 \/ m.seq <= Committed(m)
      BY <3>1, <3>2 DEF NumberOK
    <3> QED BY <1>1, <1>3, <2>4, <3>3 DEF FInv, TimesOK, LateReserve
  <2>5. Reserving
    BY <1>3 DEF Reserving
  <2> QED BY <1>0, <1>2, <1>3, <2>4, <2>5, ReserveSteps
<1>4. CASE x.size # Never /\ Finalize(m, x.size)
  <2>1. x.size \in Nat /\ InLog(m, x.size)
    BY <1>0, <1>1, <1>4 DEF FInv, PublishingOK
  <2>2. Queued' = Queued
    BY <1>0 DEF Queued
  <2>a. Applying(m)
    BY <1>1, <1>4 DEF Applying
  <2>3. /\ LogAscends' /\ PublishingOK' /\ FollowOK' /\ ClosuresOK'
        /\ ReservedNow' /\ ClaimsReserved' /\ ClaimsQueued'
        /\ \A n \in InFlight' : n \in InFlight
        /\ \A e, k : Anchored(lofts, claims, e, k) => Anchored(lofts', claims', e, k)
    BY <1>0, <1>2, <1>4, <2>1, <2>2, <2>a, FinalizeSteps
  <2>4. SignaturesOK'
    BY <1>0, <2>3, SignedStays DEF FInv, SignaturesOK, JournalOK, RequestOK, Committed
  <2>5. LateReserve'
    <3> SUFFICES ASSUME NEW y \in loose, y.size = Never, ClaimOf(y.mutation) \in Careful,
                        y.mutation.seq <= Committed(y.mutation)
                 PROVE  Anchored(lofts, claims, y.mutation.at, y.mutation.key)'
      BY <1>0 DEF LateReserve, Committed
    <3>1. Anchored(lofts, claims, y.mutation.at, y.mutation.key)
      BY DEF FInv, TimesOK, LateReserve
    <3>2. Anchored(lofts', claims', y.mutation.at, y.mutation.key)
      BY <2>3, <3>1
    <3> QED BY <1>0, <3>2 DEF Anchored, FreshClaim
  <2> QED BY <2>3, <2>4, <2>5 DEF FInv, TimesOK
<1>5. CASE UNCHANGED tables
  <2>0. UNCHANGED <<lofts, claims, reserved, pin>>
    BY <1>5 DEF tables
  <2>1. OurLeaves' = OurLeaves /\ Queued' = Queued /\ (Reserving' => Reserving)
    BY <1>0 DEF OurLeaves, Ours, Queued, Reserving
  <2>2. \A n \in InFlight' : n \in InFlight
    BY <1>0, <2>0, <2>1 DEF InFlight
  <2>3. SignaturesOK'
    BY <1>0, <2>2, SignedStays DEF FInv, SignaturesOK, JournalOK, RequestOK, Committed
  <2>4. LogAscends' /\ PublishingOK'
    BY <1>0, <2>0, <2>1 DEF FInv, LogAscends, Ours, PublishingOK, AlreadyReserved, Fenced,
                            InLog, Head1
  <2>5. FollowOK'
    BY <1>0, <2>0, FollowStays DEF FInv
  <2>6. TimesOK'
    BY <1>0, <2>0, <2>1 DEF FInv, TimesOK, ReservedNow, ClaimsReserved, ClaimsQueued,
                            LateReserve, Committed, Anchored, FreshClaim
  <2>7. ClosuresOK'
    <3>1. \A n : Applying(n)' => Applying(n)
      BY <1>0 DEF Applying, Head1
    <3>2. \A n : Held(n)' => Held(n)
      BY <1>0, <2>1, <3>1 DEF Held
    <3>3. \A e, k : Anchored(lofts, claims, e, k) => Anchored(lofts', claims', e, k)
      BY <2>0
    <3> QED BY <1>0, <2>0, <3>1, <3>2, <3>3, ClosuresStay DEF FInv
  <2> QED BY <2>3, <2>4, <2>5, <2>6, <2>7 DEF FInv
<1> QED BY <1>1, <1>3, <1>4, <1>5 DEF LooseRuns

LEMMA InFlightT ==
    ASSUME DInv, NEW n \in InFlight
    PROVE  n \in MutT /\ n.seq \in Int
<1> SUFFICES n \in MutT
  BY MutFacts
<1>1. CASE n \in worker.request \/ n \in Queued
  BY <1>1 DEF DInv, ControlOK, WorkerOK, WorkerT, Queued
<1>2. CASE \E x \in loose : n = x.mutation
  BY <1>2 DEF DInv, ControlOK
<1>3. CASE \E e \in DOMAIN reserved : n = reserved[e].mutation
  BY <1>3 DEF DInv, TablesOK, ReservedOK, ReservationT
<1>4. CASE n \in OurLeaves
  BY <1>4, OurLeafT DEF DInv
<1> QED BY <1>1, <1>2, <1>3, <1>4 DEF InFlight

\* The receipt is applied, and the operator may be told.
LEMMA WorkerFinalizesFollows ==
    ASSUME DInv, FInv, WorkerFinalizes
    PROVE  FInv'
<1>0. UNCHANGED <<clock, leaves, loose>> /\ worker.phase = "finalize" /\ worker \in WorkerT
  BY DEF WorkerFinalizes, registry, DInv, ControlOK, WorkerOK
<1>1. PICK m, size : m = Head1 /\ size = worker.size
  OBVIOUS
<1>2. worker.queue # << >> /\ worker.queue \in Seq(MutT)
  BY <1>0 DEF DInv, ControlOK, WorkerOK, WorkerT
<1>3. m \in MutT /\ size \in Nat /\ m \in Queued /\ Applying(m)
  BY <1>0, <1>1, <1>2 DEF WorkerT, Head1, Queued, Applying
<1>4. InLog(m, size)
  BY <1>0, <1>1, <1>3 DEF FInv, PublishingOK
<1>5. CASE worker' = Idle /\ UNCHANGED <<tables, journal>>
  BY <1>0, <1>5, IdleFollows
<1>6. ASSUME Finalize(m, size),
             worker' = IF {m} = worker.request THEN Idle
                       ELSE Reconciling(Tail(worker.queue), worker.request, reserved'),
             \/ UNCHANGED journal
             \/ /\ {m} = worker.request /\ ClaimOf(m) \in Careful
                /\ journal' = [journal EXCEPT ![ClaimOf(m)] = [committed |-> m.seq, pending |-> {}]]
      PROVE  FInv'
  <2>1. /\ worker'.phase \in {"append", "reserve", "idle"}
        /\ worker'.phase = "reserve" => DOMAIN reserved' = {}
        /\ worker'.request = worker.request \/ worker'.request = {}
        /\ worker'.queue = Tail(worker.queue) \/ worker'.queue = << >>
        /\ {m} = worker.request => worker'.request = {}
    <3>1. CASE {m} = worker.request
      BY <1>6, <3>1 DEF Idle
    <3>2. CASE {m} # worker.request
      <4>1. worker' = Reconciling(Tail(worker.queue), worker.request, reserved')
        BY <1>6, <3>2
      <4> QED BY <3>2, <4>1, ReconcilingIs
    <3> QED BY <3>1, <3>2
  <2>2. \A n \in Queued' : n \in Queued
    <3>1. \A i \in DOMAIN Tail(worker.queue) :
            i + 1 \in DOMAIN worker.queue /\ Tail(worker.queue)[i] = worker.queue[i + 1]
      BY <1>2
    <3>2. CASE worker'.queue = Tail(worker.queue)
      BY <3>1, <3>2 DEF Queued
    <3>3. CASE worker'.queue = << >>
      BY <3>3 DEF Queued
    <3> QED BY <2>1, <3>2, <3>3
  <2>3. /\ LogAscends' /\ PublishingOK' /\ FollowOK' /\ ClosuresOK'
        /\ ReservedNow' /\ ClaimsReserved' /\ ClaimsQueued'
        /\ \A n \in InFlight' : n \in InFlight
        /\ \A e, k : Anchored(lofts, claims, e, k) => Anchored(lofts', claims', e, k)
        /\ Reserving /\ m \in Queued => Anchored(lofts', claims', m.at, m.key)
    BY <1>0, <1>3, <1>4, <1>6, <2>1, <2>2, FinalizeSteps
  <2>4. ASSUME NEW y \in loose, y.size = Never, ClaimOf(y.mutation) \in Careful,
               y.mutation.seq <= Committed(y.mutation) \/ ClaimOf(y.mutation) = ClaimOf(m)
        PROVE  Anchored(lofts, claims, y.mutation.at, y.mutation.key)'
    <3>1. CASE y.mutation.seq <= Committed(y.mutation)
      <4>1. Anchored(lofts, claims, y.mutation.at, y.mutation.key)
        BY <2>4, <3>1 DEF FInv, TimesOK, LateReserve
      <4>2. Anchored(lofts', claims', y.mutation.at, y.mutation.key)
        BY <2>3, <4>1
      <4> QED BY <1>0, <4>2 DEF Anchored, FreshClaim
    <3>2. CASE ClaimOf(y.mutation) = ClaimOf(m)
      <4>1. y.mutation.at = m.at /\ y.mutation.key = m.key
        BY <3>2 DEF ClaimOf
      <4>2. Anchored(lofts', claims', y.mutation.at, y.mutation.key)
        BY <1>3, <2>3, <2>4, <4>1 DEF Reserving
      <4> QED BY <1>0, <4>2 DEF Anchored, FreshClaim
    <3> QED BY <2>4, <3>1, <3>2
  <2>5. CASE UNCHANGED journal
    <3>1. SignaturesOK'
      BY <2>1, <2>3, <2>5, SignedStays DEF FInv, SignaturesOK, JournalOK, RequestOK, Committed
    <3>2. LateReserve'
      BY <1>0, <2>4, <2>5 DEF LateReserve, Committed
    <3> QED BY <2>3, <3>1, <3>2 DEF FInv, TimesOK
  <2>6. CASE /\ {m} = worker.request /\ ClaimOf(m) \in Careful
             /\ journal' = [journal EXCEPT ![ClaimOf(m)] = [committed |-> m.seq, pending |-> {}]]
    <3>0. PICK c \in Claimant : c = ClaimOf(m)
      BY <2>6, DirectoryFacts
    <3>1. journal \in [Claimant -> [committed : Nat, pending : SUBSET MutT]]
      BY DEF DInv, ControlOK
    <3>2. /\ journal'[c].committed = m.seq /\ journal'[c].pending = {}
          /\ \A d \in Claimant : d # c => journal'[d] = journal[d]
      BY <2>6, <3>0, <3>1
    <3>3. m.seq = journal[c].committed + 1 /\ journal[c].committed \in Nat
      BY <2>6, <3>0, <3>1 DEF FInv, SignaturesOK, RequestOK, Committed
    <3>4. JournalOK'
      BY <3>2 DEF FInv, SignaturesOK, JournalOK
    <3>5. ASSUME NEW n \in InFlight PROVE NumberOK(n)'
      <4>1. NumberOK(n)
        BY DEF FInv, SignaturesOK, SignedOK
      <4>2. CASE ClaimOf(n) # c
        BY <3>2, <4>1, <4>2 DEF NumberOK, Committed
      <4>3. CASE ClaimOf(n) = c
        <5>1. n.seq \in Int
          BY InFlightT
        <5>2. n.seq <= m.seq /\ n.seq >= 1
          BY <3>3, <4>1, <4>3 DEF NumberOK, Committed
        <5>3. n.seq <= m.seq + 1 /\ n.seq # m.seq + 1
          BY <3>3, <5>1, <5>2
        <5> QED BY <3>0, <3>2, <4>3, <5>2, <5>3 DEF NumberOK, Committed
      <4> QED BY <4>2, <4>3
    <3>6. SignedOK'
      BY <2>3, <3>5 DEF FInv, SignaturesOK, SignedOK
    <3>7. RequestOK'
      BY <2>1, <2>6 DEF RequestOK
    <3>8. LateReserve'
      <4> SUFFICES ASSUME NEW y \in loose, y.size = Never, ClaimOf(y.mutation) \in Careful,
                          y.mutation.seq <= Committed(y.mutation)'
                   PROVE  Anchored(lofts, claims, y.mutation.at, y.mutation.key)'
        BY <1>0 DEF LateReserve
      <4>2. ClaimOf(y.mutation) \in Claimant
        BY DirectoryFacts
      <4>3. y.mutation.seq <= Committed(y.mutation) \/ ClaimOf(y.mutation) = ClaimOf(m)
        BY <3>0, <3>2, <4>2 DEF Committed
      <4> QED BY <2>4, <4>3
    <3> QED BY <2>3, <3>4, <3>6, <3>7, <3>8 DEF FInv, SignaturesOK, TimesOK
  <2> QED BY <1>6, <2>5, <2>6
<1> QED BY <1>1, <1>5, <1>6 DEF WorkerFinalizes

-----------------------------------------------------------------------------
(***************************************************************************)
(* Every step keeps FInv.                                                  *)
(***************************************************************************)
LEMMA ProbeFollows ==
    ASSUME DInv, FInv, NEW p \in sweep, RecordProbe(p)
    PROVE  FInv'
<1>1. PICK ok \in {FALSE, p.key = Owner[p.at]} : Record(p, ok)
  BY DEF RecordProbe
<1>2. UNCHANGED <<clock, journal, reserved, pin, leaves, worker, loose>>
  BY DEF RecordProbe, registry
<1>3. ok \in BOOLEAN /\ (ok => p.key = Owner[p.at])
  OBVIOUS
<1>4. TablesOK(lofts, claims, reserved) /\ clock \in Nat /\ p.at \in DOMAIN lofts
  BY DEF DInv, ControlOK
<1>5. Fading(lofts, claims, lofts', claims')
  BY <1>1, <1>3, <1>4, RecordFades
<1> QED BY <1>2, <1>5, FadingFollows

LEMMA CancelFollows ==
    ASSUME DInv, FInv, RegistryRefuses \/ Cancel \/ DirectoryCrash
    PROVE  FInv'
<1>1. worker' = Idle /\ UNCHANGED <<clock, journal, tables, leaves>>
  BY DEF RegistryRefuses, Cancel, DirectoryCrash, registry
<1>2. \A x \in loose' :
        \/ x \in loose
        \/ x.size = Never /\ x.mutation \in worker.request /\ worker.phase = "reserve"
        \/ x.size = worker.size /\ x.mutation = Head1 /\ worker.phase = "finalize"
  <2>1. CASE RegistryRefuses
    BY <2>1 DEF RegistryRefuses
  <2>2. CASE Cancel
    BY <2>2 DEF Cancel
  <2>3. CASE DirectoryCrash
    BY <2>3 DEF DirectoryCrash
  <2> QED BY <2>1, <2>2, <2>3
<1> QED BY <1>1, <1>2, IdleFollows

LEMMA FStep ==
    ASSUME DInv, FInv, [DirectoryNext]_directoryVars
    PROVE  FInv'
<1>0. Careful \subseteq Claimant
  BY DirectoryFacts
<1>1. CASE \E c \in Careful : Command(c)
  BY <1>0, <1>1, CommandFollows
<1>u. CASE \E c \in Claimant \ Careful : Submit(c)
  BY <1>u, SubmitFollows
<1>2. CASE Recover
  BY <1>2, RecoverFollows
<1>3. CASE WorkerReserves
  BY <1>3, WorkerReservesFollows
<1>4. CASE PostLeaf
  BY <1>4, PostFollows
<1>5. CASE Receipt
  BY <1>5, ReceiptFollows
<1>6. CASE RegistryRefuses \/ Cancel \/ DirectoryCrash
  BY <1>6, CancelFollows
<1>7. CASE WorkerFinalizes
  BY <1>7, WorkerFinalizesFollows
<1>8. CASE \E x \in loose : LooseRuns(x)
  BY <1>8, LooseFollows
<1>9. CASE StartSweep
  <2>1. Fading(lofts, claims, lofts', claims')
    BY <1>9, SweepFades DEF DInv, ControlOK
  <2>2. UNCHANGED <<clock, journal, reserved, pin, leaves, worker, loose>>
    BY <1>9 DEF StartSweep, registry
  <2> QED BY <2>1, <2>2, FadingFollows
<1>10. CASE \E p \in sweep : RecordProbe(p)
  BY <1>10, ProbeFollows
<1>11. CASE SweepDeadline \/ Cosign \/ UNCHANGED directoryVars
  <2>1. UNCHANGED <<clock, journal, lofts, claims, reserved, pin, leaves, worker, loose>>
    BY <1>11 DEF SweepDeadline, Cosign, directoryVars, tables, registry
  <2>2. Fading(lofts, claims, lofts', claims')
    BY <2>1, SameFades
  <2> QED BY <2>1, <2>2, FadingFollows
<1>12. CASE \E c \in Elsewhere : PublishedElsewhere(c)
  BY <1>12, ElsewhereFollows
<1>13. CASE Tick
  BY <1>13, TickFollows
<1> QED BY <1>1, <1>u, <1>2, <1>3, <1>4, <1>5, <1>6, <1>7, <1>8, <1>9, <1>10, <1>11, <1>12,
           <1>13 DEF DirectoryNext

\* A careful claimant signs one mutation for every number, the log ascends in every
\* stream, what is being published is reserved or logged, and the tables show
\* nothing that is not in the log: through dropped requests whose closures run
\* on, crashes, expiry, probes and another directory of the same registry.
THEOREM FollowInvariant == DirectorySpec => [](DInv /\ FInv)
<1>1. DirectoryInit => DInv /\ FInv
  BY InitOK, FInvInit
<1>2. DInv /\ FInv /\ [DirectoryNext]_directoryVars => DInv' /\ FInv'
  BY StepOK, FStep
<1> QED BY <1>1, <1>2, PTL DEF DirectorySpec

\* What finalize_add and finalize_drain wrote is in the log under the accepted
\* checkpoint, and a later leaf of this directory is the one still reserved.
THEOREM TablesAlwaysFollow == DirectorySpec => []TablesFollowLog
<1>1. DInv /\ FInv => TablesFollowLog
  <2> SUFFICES ASSUME DInv, FInv, NEW x \in Projected
               PROVE  /\ \E i \in 1..pin : /\ ClaimOf(leaves[i].mutation) = <<x[1], x[2]>>
                                           /\ leaves[i].mutation.seq = x[3]
                      /\ \A i \in DOMAIN leaves :
                           (/\ ClaimOf(leaves[i].mutation) = <<x[1], x[2]>>
                            /\ leaves[i].by = "this" /\ leaves[i].mutation.seq > x[3])
                             => (Fenced(x[1]) /\ reserved[x[1]].mutation = leaves[i].mutation)
    BY DEF TablesFollowLog
  <2>1. ShownInLog /\ LaterIsReserved
    BY DEF FInv, FollowOK
  <2>2. Shown(lofts, claims, x[1], x[2], x[3])
    <3>1. CASE \E e \in DOMAIN lofts : x = <<e, lofts[e].key, lofts[e].seq>>
      BY <3>1 DEF Shown
    <3>2. CASE \E c \in DOMAIN claims : x = <<c[1], c[2], claims[c].entry.seq>>
      <4>1. PICK c \in DOMAIN claims : x = <<c[1], c[2], claims[c].entry.seq>>
        BY <3>2
      <4>2. c = ClaimOf(claims[c].entry)
        BY DEF DInv, TablesOK, ClaimsOK, ClaimOK
      <4>3. c = <<x[1], x[2]>>
        BY <4>1, <4>2 DEF ClaimOf
      <4> QED BY <4>1, <4>3 DEF Shown
    <3> QED BY <3>1, <3>2 DEF Projected
  <2>3. \E i \in 1..pin : /\ ClaimOf(leaves[i].mutation) = <<x[1], x[2]>>
                          /\ leaves[i].mutation.seq = x[3]
    BY <2>1, <2>2 DEF ShownInLog
  <2>4. ASSUME NEW i \in DOMAIN leaves, ClaimOf(leaves[i].mutation) = <<x[1], x[2]>>,
               leaves[i].by = "this", leaves[i].mutation.seq > x[3]
        PROVE  Fenced(x[1]) /\ reserved[x[1]].mutation = leaves[i].mutation
    <3>1. leaves[i].mutation \in OurLeaves
      BY <2>4 DEF OurLeaves, Ours
    <3> QED BY <2>1, <2>2, <2>4, <3>1 DEF LaterIsReserved
  <2> QED BY <2>3, <2>4
<1> QED BY <1>1, FollowInvariant, PTL

-----------------------------------------------------------------------------
(***************************************************************************)
(* The registry and what is reserved.                                      *)
(***************************************************************************)
\* The registry accepts the leaf of every reservation of a careful claimant in a
\* stream that no other directory writes.
RecoverableUnlessShared ==
    \A e \in DOMAIN reserved :
        LET m == reserved[e].mutation IN ClaimOf(m) \in Careful \ Elsewhere => Accepts(m)

LEMMA UnsharedAccepted ==
    ASSUME DInv, FInv, NEW e \in DOMAIN reserved,
           ClaimOf(reserved[e].mutation) \in Careful \ Elsewhere
    PROVE  Accepts(reserved[e].mutation)
<1>1. PICK m : m = reserved[e].mutation
  OBVIOUS
<1>2. /\ m \in MutT /\ m.at = e /\ m.seq \in Nat
      /\ ClaimOf(m) \in Careful /\ ClaimOf(m) \notin Elsewhere
  <2>1. m \in MutT /\ m.at = e
    BY <1>1 DEF DInv, TablesOK, ReservedOK, ReservationT
  <2> QED BY <1>1, <2>1, MutFacts
<1> SUFFICES Accepts(m)
  BY <1>1
<1>3. CASE Stream(ClaimOf(m)) = {}
  <2>1. PICK R : R = Drop(reserved, {e})
    OBVIOUS
  <2>2. TablesOK(lofts, claims, R) /\ Applies(lofts, claims, R, m)
    BY <1>1, <2>1, ConsumeOK DEF DInv
  <2>3. \A n : ~Shown(lofts, claims, m.at, m.key, n)
    BY <1>3 DEF FInv, FollowOK, ShownInLog, Stream, ClaimOf
  <2>4. m.op = "add" /\ m.seq <= 1
    BY <1>2, <2>2, <2>3, AppliesTo
  <2> QED BY <1>3, <2>4 DEF Accepts
<1>4. CASE Stream(ClaimOf(m)) # {}
  <2>1. LogOK
    BY DEF DInv
  <2>2. PICK i \in Stream(ClaimOf(m)) : Current(ClaimOf(m)) = leaves[i].mutation
    BY <1>4, <2>1, CurrentIs
  <2>3. PICK l : l = leaves[i].mutation
    OBVIOUS
  <2>4. i \in DOMAIN leaves /\ ClaimOf(l) = ClaimOf(m)
    BY <2>2, <2>3 DEF Stream
  <2>5. l \in OurLeaves
    BY <1>2, <2>3, <2>4 DEF FInv, LogAscends, OurLeaves
  <2>6. l.seq \in Nat /\ l.seq <= m.seq
    BY <1>1, <1>2, <2>1, <2>4, <2>5, OurLeafT DEF FInv, FollowOK, ReservedLast
  <2>7. l.seq = m.seq => l = m
    BY <1>1, <1>2, <2>4, <2>5 DEF FInv, SignaturesOK, SignedOK, InFlight
  <2>8. m.seq > l.seq \/ m = l
    BY <1>2, <2>6, <2>7
  <2> QED BY <1>4, <2>2, <2>3, <2>8 DEF Accepts
<1> QED BY <1>3, <1>4

\* reconcile_reservations can publish what the command line has reserved, now or
\* again, in every stream that this directory alone writes: after a cut request,
\* a crash or a closure that runs late, and whatever other clients submit.
THEOREM UnsharedStaysRecoverable == DirectorySpec => []RecoverableUnlessShared
<1>1. DInv /\ FInv => RecoverableUnlessShared
  BY UnsharedAccepted DEF RecoverableUnlessShared
<1> QED BY <1>1, FollowInvariant, PTL

\* So if those who use the command line use no other directory, what they
\* reserve can be published; nothing is assumed of any other client.
THEOREM ReservedStaysRecoverable ==
    ASSUME Careful \cap Elsewhere = {}
    PROVE  DirectorySpec => []ReservationsRecoverable
<1>1. RecoverableUnlessShared => ReservationsRecoverable
  BY DEF RecoverableUnlessShared, ReservationsRecoverable
<1> QED BY <1>1, UnsharedStaysRecoverable, PTL
=============================================================================
