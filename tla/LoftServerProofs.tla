-------------------------- MODULE LoftServerProofs --------------------------
(***************************************************************************)
(* TLAPS proofs about the handlers of a loft (LoftServer) and about what   *)
(* surrounds them (LoftLimits), for any number of requests, agents, wraps, *)
(* sources, permits and lanes.  The handlers change the store only through *)
(* its transactions, so what LoftStoreProofs shows of the store holds of a *)
(* running loft.                                                           *)
(***************************************************************************)
EXTENDS LoftServer, LoftStoreProofs, LoftLimits, FiniteSetTheorems,
        WellFoundedInduction

-----------------------------------------------------------------------------
(***************************************************************************)
(* The inductive invariant of the handlers.                                *)
(***************************************************************************)
HandlerT == [phase : Phase, wrap : Wrap \cup {NoWrap}, expected : Int, start : Time,
             tries : 0..(Retries - 1), cancelled : BOOLEAN]

\* What a handler remembers of the policy is out of date, or the policy accepts
\* its wrap.
HandlerOK(h) ==
    /\ h.phase # "idle" => h.wrap \in Wrap
    /\ h.phase \in {"validated", "admitting"} =>
         /\ h.expected <= policy[Recipient[h.wrap]].seq
         /\ h.expected = policy[Recipient[h.wrap]].seq
              => Accepts(policy[Recipient[h.wrap]], h.wrap)

HandlersInv ==
    /\ pub \in [Request -> HandlerT]
    /\ \A r \in Request : HandlerOK(pub[r])

Admitting == {r \in Request : pub[r].phase = "admitting"}

PermitsInv ==
    /\ permits \in Nat
    /\ IsFiniteSet(Admitting)
    /\ PermitsMatchClosures

\* A response on its way holds every stored event between the cursor it was
\* asked with and the cursor it carries.
ReplyOK(a) ==
    /\ reply[a].rows \subseteq EventRow
    /\ reply[a].next \in 0..lastCursor
    /\ cursor[a] <= reply[a].next
    /\ \A e \in events :
         Recipient[e.wrap] = a /\ e.cursor > cursor[a] /\ e.cursor <= reply[a].next
           => \E f \in reply[a].rows : f.cursor = e.cursor

ReadersInv ==
    /\ IsFiniteSet(events)
    /\ DOMAIN reply = Agent
    /\ cursor \in [Agent -> Nat]
    /\ seen \in [Agent -> SUBSET (1..MaxCursor)]
    /\ \A a \in Agent : cursor[a] <= lastCursor
    /\ \A a \in Agent : reply[a] # NoReply => ReplyOK(a)

ClockInv == now \in Time /\ sweep \in Time \cup {-1} /\ crashes \in 0..MaxCrashes

VInv == SInv /\ ClockInv /\ HandlersInv /\ PermitsInv /\ ReadersInv /\ NoEventSkipped

-----------------------------------------------------------------------------
(***************************************************************************)
(* The store below a handler.                                              *)
(***************************************************************************)
\* The admission closure of a well formed handler is a transaction of the store.
LEMMA AdmitsAsStore ==
    ASSUME NEW w \in Wrap, NEW expected, NEW t \in Time, Admit(w, expected, t)
    PROVE  Admit(w, policy[Recipient[w]].seq, t) /\ expected = policy[Recipient[w]].seq
<1>1. expected = policy[Recipient[w]].seq
  BY DEF Admit, AdmitResult
<1> QED BY <1>1

LEMMA HandlerFacts ==
    ASSUME VInv, NEW r \in Request
    PROVE  /\ pub[r] \in HandlerT /\ pub[r].start \in Time
           /\ pub[r].phase # "idle" => pub[r].wrap \in Wrap
<1>1. pub[r] \in HandlerT /\ HandlerOK(pub[r])
  BY DEF VInv, HandlersInv
<1> QED BY <1>1 DEF HandlerT, HandlerOK

\* Every step of the loft is a transaction of its store or leaves it alone.
LEMMA StoreStep == ASSUME VInv, [Next]_vars PROVE [StoreNext]_storeVars
<1>1. CASE UNCHANGED vars
  BY <1>1 DEF vars
<1>2. ASSUME NEW r \in Request, RunAdmit(r) PROVE [StoreNext]_storeVars
  <2>1. pub[r].wrap \in Wrap /\ pub[r].start \in Time
    BY <1>2, HandlerFacts DEF RunAdmit
  <2>2. Admit(pub[r].wrap, pub[r].expected, pub[r].start) \/ UNCHANGED storeVars
    BY <1>2 DEF RunAdmit
  <2> QED BY <2>1, <2>2, AdmitsAsStore DEF StoreNext
<1>3. ASSUME NEW a \in Agent, SetPolicy(a) \/ PutAgent(a) \/ PutRotation(a)
      PROVE  StoreNext
  <2>1. now \in Time
    BY DEF VInv, ClockInv
  <2> QED BY <1>3, <2>1 DEF SetPolicy, PutAgent, PutRotation, StoreNext
<1>4. CASE SweepBatchStep
  <2>1. sweep \in Time
    BY <1>4 DEF VInv, ClockInv, SweepBatchStep
  <2> QED BY <1>4, <2>1 DEF SweepBatchStep, StoreNext
<1>5. CASE CrashRestart
  BY <1>5 DEF CrashRestart, StoreNext
<1>6. ASSUME NEW r \in Request,
             \/ \E w \in Wrap : BeginPublish(r, w)
             \/ ValidatePolicy(r) \/ StartAdmit(r) \/ Fail(r) \/ Cancel(r)
      PROVE  UNCHANGED storeVars
  BY <1>6 DEF BeginPublish, ValidatePolicy, StartAdmit, Fail, Cancel
<1>7. ASSUME NEW a \in Agent, Fetch(a) \/ Deliver(a) \/ Lose(a)
      PROVE  UNCHANGED storeVars
  BY <1>7 DEF Fetch, Deliver, Lose
<1>8. CASE SweepStart \/ SweepDone \/ Tick
  BY <1>8 DEF SweepStart, SweepDone, Tick
<1> QED BY <1>1, <1>2, <1>3, <1>4, <1>5, <1>6, <1>7, <1>8 DEF Next

\* What a transaction may do to the events and to the policies.
StoreMoves ==
    /\ lastCursor' >= lastCursor
    /\ \A e \in events' : e \in events \/ e.cursor > lastCursor
    /\ IsFiniteSet(events)'
    /\ \A a \in Agent : \/ policy'[a] = policy[a]
                        \/ policy'[a].seq \in Nat /\ policy'[a].seq > policy[a].seq

LEMMA StoreMovesHold ==
    ASSUME SInv, IsFiniteSet(events), [StoreNext]_storeVars PROVE StoreMoves
<1>0. lastCursor \in Nat /\ policy \in [Agent -> PolicyInput \cup {NoPolicy}]
  BY StoreAssumption DEF SInv, StoreTypeOK
<1>1. CASE UNCHANGED storeVars
  BY <1>0, <1>1 DEF storeVars, tables, StoreMoves
<1>2. ASSUME NEW w \in Wrap, NEW t \in Time, Admit(w, policy[Recipient[w]].seq, t)
      PROVE  StoreMoves
  <2> DEFINE e == [cursor |-> lastCursor + 1, wrap |-> w, expires |-> t + Retention]
  <2>1. events' = events \cup {e} /\ lastCursor' = lastCursor + 1 /\ policy' = policy
    BY <1>2 DEF Admit
  <2>2. e.cursor > lastCursor
    BY <1>0
  <2> HIDE DEF e
  <2>3. IsFiniteSet(events \cup {e})
    BY FS_AddElement
  <2> QED BY <1>0, <2>1, <2>2, <2>3 DEF StoreMoves
<1>3. ASSUME NEW a \in Agent, NEW p \in PolicyInput, PutPolicy(a, p)
      PROVE  StoreMoves
  BY <1>0, <1>3, InputFacts DEF PutPolicy, StoreMoves
<1>4. ASSUME NEW a \in Agent, NEW r \in RecordInput, PutAgentRecord(a, r)
      PROVE  StoreMoves
  BY <1>0, <1>4 DEF PutAgentRecord, StoreMoves
<1>5. ASSUME NEW a \in Agent, NEW x \in RotationInput, NEW t \in Time,
             PutRotationRecord(a, x, t)
      PROVE  StoreMoves
  BY <1>0, <1>5 DEF PutRotationRecord, StoreMoves
<1>6. ASSUME NEW t \in Time, SweepExpired(t) PROVE StoreMoves
  <2>1. PICK rows \in SUBSET events : events' = events \ rows
    BY <1>6 DEF SweepExpired, Expired
  <2>2. IsFiniteSet(events \ rows)
    BY FS_Difference
  <2>3. lastCursor' = lastCursor /\ policy' = policy
    BY <1>6 DEF SweepExpired
  <2> QED BY <1>0, <2>1, <2>2, <2>3 DEF StoreMoves
<1>7. CASE Reopen
  BY <1>0, <1>7 DEF Reopen, tables, StoreMoves
<1> QED BY <1>1, <1>2, <1>3, <1>4, <1>5, <1>6, <1>7 DEF StoreNext

LEMMA StoreKept ==
    ASSUME VInv, [Next]_vars PROVE SInv' /\ StoreMoves
BY StoreStep, NextSInv, StoreMovesHold DEF VInv, ReadersInv
-----------------------------------------------------------------------------
(***************************************************************************)
(* Handlers and permits.                                                   *)
(***************************************************************************)
\* A handler that is well formed stays so whatever the store does: a policy is
\* only replaced by one with a higher sequence.
LEMMA PolicyRaceClosed ==
    ASSUME SInv, StoreMoves, NEW h \in HandlerT, HandlerOK(h) PROVE HandlerOK(h)'
<1>1. CASE h.phase \notin {"validated", "admitting"}
  BY <1>1 DEF HandlerOK
<1>2. CASE h.phase \in {"validated", "admitting"}
  <2> DEFINE a == Recipient[h.wrap]
  <2>1. h.wrap \in Wrap
    BY <1>2 DEF HandlerOK
  <2>2. a \in Agent /\ h.expected \in Int
    BY <2>1, StoreAssumption DEF HandlerT
  <2>3. policy[a].seq \in Int
    BY <2>2, PolicyFacts DEF SInv
  <2>4. /\ h.expected <= policy[a].seq
        /\ h.expected = policy[a].seq => Accepts(policy[a], h.wrap)
    BY <1>2 DEF HandlerOK
  <2>5. CASE policy'[a] = policy[a]
    BY <2>1, <2>4, <2>5 DEF HandlerOK, Accepts
  <2>6. CASE policy'[a].seq \in Nat /\ policy'[a].seq > policy[a].seq
    <3>1. h.expected < policy'[a].seq
      BY <2>2, <2>3, <2>4, <2>6
    <3>2. h.expected <= policy'[a].seq /\ h.expected # policy'[a].seq
      BY <2>2, <2>6, <3>1
    <3> QED BY <2>1, <3>2 DEF HandlerOK
  <2> QED BY <2>2, <2>5, <2>6 DEF StoreMoves
<1> QED BY <1>1, <1>2

\* One handler moves, or none.
LEMMA HandlersKept ==
    ASSUME VInv, StoreMoves, NEW r \in Request, NEW h \in HandlerT, HandlerOK(h)',
           pub' = [pub EXCEPT ![r] = h]
    PROVE  HandlersInv'
<1>1. pub \in [Request -> HandlerT] /\ \A q \in Request : HandlerOK(pub[q])
  BY DEF VInv, HandlersInv
<1>2. pub' \in [Request -> HandlerT]
  BY <1>1
<1>3. ASSUME NEW q \in Request, q # r PROVE HandlerOK(pub[q])'
  <2>1. PICK k \in HandlerT : k = pub[q] /\ k = pub'[q]
    BY <1>1, <1>3
  <2>2. HandlerOK(k)
    BY <1>1, <2>1
  <2>3. HandlerOK(k)'
    BY <2>2, PolicyRaceClosed DEF VInv
  <2> QED BY <2>1, <2>3 DEF HandlerOK
<1>4. HandlerOK(pub[r])'
  <2>1. pub'[r] = h
    BY <1>1
  <2> QED BY <2>1 DEF HandlerOK
<1> QED BY <1>2, <1>3, <1>4 DEF HandlersInv

LEMMA HandlersRest ==
    ASSUME VInv, StoreMoves, pub' = pub PROVE HandlersInv'
<1>1. pub \in [Request -> HandlerT] /\ \A q \in Request : HandlerOK(pub[q])
  BY DEF VInv, HandlersInv
<1>2. ASSUME NEW q \in Request PROVE HandlerOK(pub[q])'
  <2>1. PICK k \in HandlerT : k = pub[q] /\ k = pub'[q]
    BY <1>1
  <2>2. HandlerOK(k)
    BY <1>1, <2>1
  <2>3. HandlerOK(k)'
    BY <2>2, PolicyRaceClosed DEF VInv
  <2> QED BY <2>1, <2>3 DEF HandlerOK
<1> QED BY <1>1, <1>2 DEF HandlersInv

LEMMA IdleFacts ==
    Idle \in HandlerT /\ Idle.phase = "idle" /\ HandlerOK(Idle) /\ HandlerOK(Idle)'
BY ServerAssumption, StoreAssumption DEF Idle, HandlerT, HandlerOK, Phase, Time

\* A handler that was not admitting and is not now leaves the permits alone.
LEMMA PermitsRest ==
    ASSUME VInv, permits' = permits, Admitting' = Admitting PROVE PermitsInv'
BY DEF VInv, PermitsInv, PermitsMatchClosures, Admitting

LEMMA PermitTaken ==
    ASSUME VInv, NEW r \in Request \ Admitting, permits > 0, permits' = permits - 1,
           Admitting' = Admitting \cup {r}
    PROVE  PermitsInv'
<1>1. /\ permits \in Nat /\ IsFiniteSet(Admitting)
      /\ permits + Cardinality(Admitting) = MaxBlocking
  BY DEF VInv, PermitsInv, PermitsMatchClosures, Admitting
<1>2. IsFiniteSet(Admitting \cup {r}) /\ Cardinality(Admitting \cup {r}) = Cardinality(Admitting) + 1
  BY <1>1, FS_AddElement
<1>3. IsFiniteSet(Admitting') /\ Cardinality(Admitting') = Cardinality(Admitting) + 1
  BY <1>2
<1>4. Cardinality(Admitting) \in Nat
  BY <1>1, FS_CardinalityType
<1>5. permits' \in Nat /\ permits' + Cardinality(Admitting') = MaxBlocking
  BY <1>1, <1>3, <1>4
<1> QED BY <1>3, <1>5 DEF PermitsInv, PermitsMatchClosures, Admitting

LEMMA PermitReturned ==
    ASSUME VInv, NEW r \in Admitting, permits' = permits + 1, Admitting' = Admitting \ {r}
    PROVE  PermitsInv'
<1>1. /\ permits \in Nat /\ IsFiniteSet(Admitting)
      /\ permits + Cardinality(Admitting) = MaxBlocking
  BY DEF VInv, PermitsInv, PermitsMatchClosures, Admitting
<1>2. IsFiniteSet(Admitting \ {r}) /\ Cardinality(Admitting \ {r}) = Cardinality(Admitting) - 1
  BY <1>1, FS_RemoveElement
<1>3. IsFiniteSet(Admitting') /\ Cardinality(Admitting') = Cardinality(Admitting) - 1
  BY <1>2
<1>4. Cardinality(Admitting) \in Nat
  BY <1>1, FS_CardinalityType
<1>5. permits' \in Nat /\ permits' + Cardinality(Admitting') = MaxBlocking
  BY <1>1, <1>3, <1>4
<1> QED BY <1>3, <1>5 DEF PermitsInv, PermitsMatchClosures, Admitting

\* The set of running closures after one handler moves.
LEMMA AdmittingAfter ==
    ASSUME VInv, NEW r \in Request, NEW h \in HandlerT, pub' = [pub EXCEPT ![r] = h]
    PROVE  Admitting' = IF h.phase = "admitting" THEN Admitting \cup {r} ELSE Admitting \ {r}
<1>1. pub \in [Request -> HandlerT]
  BY DEF VInv, HandlersInv
<1>2. \A q \in Request : pub'[q] = IF q = r THEN h ELSE pub[q]
  BY <1>1
<1> QED BY <1>2 DEF Admitting
-----------------------------------------------------------------------------
(***************************************************************************)
(* Readers.                                                                *)
(***************************************************************************)
LEMMA GreatestOfBounded ==
    ASSUME NEW S \in SUBSET Nat, S # {}, NEW n \in Nat, \A d \in S : d <= n
    PROVE  Max(S) \in S /\ \A d \in S : d <= Max(S)
<1> DEFINE T == {n - d : d \in S}
<1>1. T \in SUBSET Nat /\ T # {}
  <2>1. \A d \in S : n - d \in Nat
    OBVIOUS
  <2> QED BY <2>1
<1>2. PICK t \in T : \A u \in T : ~(<<u, t>> \in OpToRel(<, Nat))
  BY <1>1, NatLessThanWellFounded, WFMin
<1>3. \A u \in T : ~(u < t)
  BY <1>1, <1>2 DEF OpToRel
<1>4. PICK c \in S : t = n - c
  BY <1>2
<1>5. \A d \in S : ~(n - d < n - c)
  BY <1>3, <1>4
<1>6. \A d \in S : c >= d
  BY <1>5
<1>7. Max(S) \in S /\ \A d \in S : Max(S) >= d
  BY <1>6 DEF Max
<1> QED BY <1>7

\* A page leaves nothing out below the cursor it returns.
LEMMA PageFacts ==
    ASSUME VInv, NEW a \in Agent, NEW c \in Nat, c <= lastCursor
    PROVE  LET p == Page(a, c) IN
           /\ p.rows \subseteq EventRow
           /\ p.next \in 0..lastCursor /\ c <= p.next
           /\ \A e \in events :
                Recipient[e.wrap] = a /\ e.cursor > c /\ e.cursor <= p.next
                  => \E f \in p.rows : f.cursor = e.cursor
<1> DEFINE later == {e \in events : Recipient[e.wrap] = a /\ e.cursor > c}
           below(e) == {f \in later : f.cursor < e.cursor}
           rows == {e \in later : Cardinality(below(e)) < PageLimit}
           S == {e.cursor : e \in rows} \cup {c}
           next == Max(S)
<1>1. Page(a, c).rows = rows /\ Page(a, c).next = next
  BY DEF Page, FetchRows
<1>2. /\ IsFiniteSet(events) /\ events \subseteq EventRow /\ lastCursor \in Nat
      /\ \A e \in events : e.cursor \in Nat /\ e.cursor <= lastCursor
  BY StoreAssumption DEF VInv, ReadersInv, SInv, StoreTypeOK, CursorBound, EventRow
<1>3. S \in SUBSET Nat /\ S # {} /\ \A d \in S : d <= lastCursor
  BY <1>2
<1> HIDE DEF S
<1>4. next \in S /\ \A d \in S : d <= next
  BY <1>2, <1>3, GreatestOfBounded
<1>5. next \in Nat /\ next <= lastCursor /\ c <= next
  BY <1>3, <1>4 DEF S
<1>6. ASSUME NEW e \in later, e.cursor <= next PROVE e \in rows
  <2>1. next # c
    BY <1>2, <1>6
  <2>2. PICK f \in rows : f.cursor = next
    BY <1>4, <2>1 DEF S
  <2>3. below(e) \in SUBSET below(f)
    BY <1>2, <1>6, <2>2
  <2>4. IsFiniteSet(below(f))
    <3>1. below(f) \in SUBSET events
      OBVIOUS
    <3> QED BY <1>2, <3>1, FS_Subset
  <2>5. IsFiniteSet(below(e)) /\ Cardinality(below(e)) <= Cardinality(below(f))
    BY <2>3, <2>4, FS_Subset
  <2>6. Cardinality(below(e)) \in Nat /\ Cardinality(below(f)) \in Nat
    BY <2>4, <2>5, FS_CardinalityType
  <2>7. Cardinality(below(f)) < PageLimit
    BY <2>2
  <2>8. Cardinality(below(e)) < PageLimit
    <3> HIDE DEF below
    <3> QED BY <2>5, <2>6, <2>7, ServerAssumption
  <2> QED BY <2>8
<1>7. \A e \in events : Recipient[e.wrap] = a /\ e.cursor > c /\ e.cursor <= next => e \in rows
  BY <1>6
<1>8. rows \subseteq EventRow
  BY <1>2
<1> HIDE DEF rows, next
<1> QED BY <1>1, <1>2, <1>5, <1>7, <1>8

\* A transaction of the store takes nothing from under a reader: what it adds
\* is above every cursor handed out so far.
LEMMA ReadersRest ==
    ASSUME VInv, StoreMoves, SInv', UNCHANGED readers
    PROVE  ReadersInv' /\ NoEventSkipped'
<1>1. /\ lastCursor \in Nat /\ lastCursor' \in Nat /\ lastCursor' >= lastCursor
      /\ UNCHANGED <<reply, cursor, seen>>
  BY StoreAssumption DEF VInv, SInv, StoreTypeOK, StoreMoves, readers
<1>2. /\ cursor \in [Agent -> Nat] /\ \A a \in Agent : cursor[a] <= lastCursor
      /\ \A a \in Agent : reply[a] # NoReply => ReplyOK(a)
  BY DEF VInv, ReadersInv
<1>3. \A e \in events' : e.cursor \in Nat /\ Recipient[e.wrap] \in Agent
  BY StoreAssumption DEF SInv, StoreTypeOK, EventRow
<1>4. \A e \in events' : e.cursor <= lastCursor => e \in events
  BY <1>1, <1>3 DEF StoreMoves
<1>5. ASSUME NEW a \in Agent, reply[a] # NoReply PROVE ReplyOK(a)'
  <2>1. /\ reply[a].rows \subseteq EventRow /\ reply[a].next \in Nat
        /\ reply[a].next <= lastCursor /\ cursor[a] <= reply[a].next
    BY <1>1, <1>2, <1>5 DEF ReplyOK
  <2>2. reply[a].next \in 0..lastCursor'
    BY <1>1, <2>1
  <2>3. \A e \in events' : e.cursor <= reply[a].next => e \in events
    BY <1>1, <1>3, <1>4, <2>1
  <2>4. \A e \in events' :
          Recipient[e.wrap] = a /\ e.cursor > cursor[a] /\ e.cursor <= reply[a].next
            => \E f \in reply[a].rows : f.cursor = e.cursor
    BY <1>2, <1>5, <2>3 DEF ReplyOK
  <2> QED BY <1>1, <2>1, <2>2, <2>4 DEF ReplyOK
<1>6. \A a \in Agent : cursor[a] <= lastCursor'
  BY <1>1, <1>2
<1>7. ReadersInv'
  BY <1>1, <1>5, <1>6 DEF VInv, ReadersInv, StoreMoves
<1>8. NoEventSkipped'
  <2>1. SUFFICES ASSUME NEW e \in events', e.cursor <= cursor[Recipient[e.wrap]]
                 PROVE  e.cursor \in seen[Recipient[e.wrap]]
    BY <1>1 DEF NoEventSkipped
  <2>2. e.cursor <= lastCursor
    BY <1>1, <1>2, <1>3, <2>1
  <2>3. e \in events
    BY <1>4, <2>2
  <2> QED BY <2>1, <2>3 DEF VInv, NoEventSkipped
<1> QED BY <1>7, <1>8

LEMMA EventFacts ==
    ASSUME VInv
    PROVE  /\ lastCursor \in 0..MaxCursor /\ MaxCursor \in Nat
           /\ \A e \in events : e.cursor \in Nat /\ Recipient[e.wrap] \in Agent
BY StoreAssumption DEF VInv, SInv, StoreTypeOK, EventRow

LEMMA FetchKeeps ==
    ASSUME VInv, NEW a \in Agent, Fetch(a) PROVE ReadersInv' /\ NoEventSkipped'
<1> DEFINE p == Page(a, cursor[a])
<1>1. cursor[a] \in Nat /\ cursor[a] <= lastCursor /\ DOMAIN reply = Agent
  BY DEF VInv, ReadersInv
<1>2. /\ p.rows \subseteq EventRow
      /\ p.next \in 0..lastCursor /\ cursor[a] <= p.next
      /\ \A e \in events :
           Recipient[e.wrap] = a /\ e.cursor > cursor[a] /\ e.cursor <= p.next
             => \E f \in p.rows : f.cursor = e.cursor
  BY <1>1, PageFacts
<1> HIDE DEF p
<1>3. /\ reply' = [reply EXCEPT ![a] = p]
      /\ UNCHANGED <<events, lastCursor, cursor, seen>>
  BY DEF Fetch, storeVars, tables, p
<1>4. DOMAIN reply' = Agent /\ reply'[a] = p /\ \A b \in Agent : b # a => reply'[b] = reply[b]
  BY <1>1, <1>3
<1>5. ReplyOK(a)'
  BY <1>2, <1>3, <1>4 DEF ReplyOK
<1>6. \A b \in Agent : b # a /\ reply'[b] # NoReply => ReplyOK(b)'
  BY <1>3, <1>4 DEF VInv, ReadersInv, ReplyOK
<1>7. ReadersInv'
  BY <1>3, <1>4, <1>5, <1>6 DEF VInv, ReadersInv
<1> QED BY <1>3, <1>7 DEF VInv, NoEventSkipped

\* A response that is dropped or delivered is gone.
LEMMA ReplyGone ==
    ASSUME VInv, NEW a \in Agent, reply' = [reply EXCEPT ![a] = NoReply],
           UNCHANGED <<events, lastCursor>>, DOMAIN cursor' = Agent,
           \A b \in Agent : b # a => cursor'[b] = cursor[b]
    PROVE  DOMAIN reply' = Agent /\ \A b \in Agent : reply'[b] # NoReply => ReplyOK(b)'
<1>1. DOMAIN reply = Agent
  BY DEF VInv, ReadersInv
<1>2. DOMAIN reply' = Agent /\ reply'[a] = NoReply /\ \A b \in Agent : b # a => reply'[b] = reply[b]
  BY <1>1
<1>3. \A b \in Agent : b # a /\ reply'[b] # NoReply => ReplyOK(b)'
  BY <1>2 DEF VInv, ReadersInv, ReplyOK
<1> QED BY <1>2, <1>3

LEMMA LoseKeeps ==
    ASSUME VInv, NEW a \in Agent, Lose(a) PROVE ReadersInv' /\ NoEventSkipped'
<1>1. /\ reply' = [reply EXCEPT ![a] = NoReply]
      /\ UNCHANGED <<events, lastCursor, cursor, seen>>
  BY DEF Lose, storeVars, tables
<1>2. DOMAIN cursor' = Agent /\ cursor' = cursor
  BY <1>1 DEF VInv, ReadersInv
<1>3. DOMAIN reply' = Agent /\ \A b \in Agent : reply'[b] # NoReply => ReplyOK(b)'
  BY <1>1, <1>2, ReplyGone
<1>4. ReadersInv'
  BY <1>1, <1>3 DEF VInv, ReadersInv
<1> QED BY <1>1, <1>4 DEF VInv, NoEventSkipped

LEMMA DeliverKeeps ==
    ASSUME VInv, NEW a \in Agent, Deliver(a) PROVE ReadersInv' /\ NoEventSkipped'
<1> DEFINE new == {e.cursor : e \in reply[a].rows}
<1>1. /\ reply' = [reply EXCEPT ![a] = NoReply]
      /\ cursor' = [cursor EXCEPT ![a] = reply[a].next]
      /\ seen' = [seen EXCEPT ![a] = @ \cup new]
      /\ UNCHANGED <<events, lastCursor>>
  BY DEF Deliver, storeVars, tables
<1>2. /\ cursor \in [Agent -> Nat] /\ seen \in [Agent -> SUBSET (1..MaxCursor)]
      /\ \A b \in Agent : cursor[b] <= lastCursor
  BY DEF VInv, ReadersInv
<1>3. ReplyOK(a)
  BY DEF Deliver, VInv, ReadersInv
<1>4. reply[a].next \in Nat /\ reply[a].next <= lastCursor
  BY <1>3, EventFacts DEF ReplyOK
<1>5. new \subseteq 1..MaxCursor
  BY <1>3 DEF ReplyOK, EventRow
<1>6. \A e \in events :
        Recipient[e.wrap] = a /\ e.cursor > cursor[a] /\ e.cursor <= reply[a].next
          => e.cursor \in new
  <2>1. SUFFICES ASSUME NEW e \in events, Recipient[e.wrap] = a, e.cursor > cursor[a],
                        e.cursor <= reply[a].next
                 PROVE  e.cursor \in new
    OBVIOUS
  <2>2. PICK f \in reply[a].rows : f.cursor = e.cursor
    BY <1>3, <2>1 DEF ReplyOK
  <2> QED BY <2>2
<1> HIDE DEF new
<1>7. /\ cursor' \in [Agent -> Nat] /\ cursor'[a] = reply[a].next
      /\ \A b \in Agent : b # a => cursor'[b] = cursor[b]
  BY <1>1, <1>2, <1>4
<1>8. /\ seen' \in [Agent -> SUBSET (1..MaxCursor)]
      /\ seen'[a] = seen[a] \cup new /\ \A b \in Agent : b # a => seen'[b] = seen[b]
  BY <1>1, <1>2, <1>5
<1>9. DOMAIN reply' = Agent /\ \A b \in Agent : reply'[b] # NoReply => ReplyOK(b)'
  BY <1>1, <1>7, ReplyGone
<1>10. \A b \in Agent : cursor'[b] <= lastCursor'
  BY <1>1, <1>2, <1>4, <1>7
<1>11. ReadersInv'
  BY <1>1, <1>7, <1>8, <1>9, <1>10 DEF VInv, ReadersInv
<1>12. NoEventSkipped'
  <2>1. SUFFICES ASSUME NEW e \in events, e.cursor <= cursor'[Recipient[e.wrap]]
                 PROVE  e.cursor \in seen'[Recipient[e.wrap]]
    BY <1>1 DEF NoEventSkipped
  <2>2. e.cursor \in Nat /\ Recipient[e.wrap] \in Agent
    BY EventFacts
  <2>3. \A b \in Agent : Recipient[e.wrap] = b /\ e.cursor <= cursor[b] => e.cursor \in seen[b]
    BY DEF VInv, NoEventSkipped
  <2>4. CASE Recipient[e.wrap] # a
    BY <1>7, <1>8, <2>1, <2>2, <2>3, <2>4
  <2>5. CASE Recipient[e.wrap] = a /\ e.cursor <= cursor[a]
    BY <1>8, <2>3, <2>5
  <2>6. CASE Recipient[e.wrap] = a /\ e.cursor > cursor[a]
    BY <1>6, <1>7, <1>8, <2>1, <2>6
  <2>7. e.cursor <= cursor[a] \/ e.cursor > cursor[a]
    BY <1>2, <2>2
  <2> QED BY <2>4, <2>5, <2>6, <2>7
<1> QED BY <1>11, <1>12
-----------------------------------------------------------------------------
(***************************************************************************)
(* The steps of a publish.                                                 *)
(***************************************************************************)
LEMMA HandlerBegun ==
    ASSUME NEW k \in HandlerT, NEW w \in Wrap, NEW t \in Time
    PROVE  LET g == [k EXCEPT !.phase = "validate", !.wrap = w, !.start = t] IN
           g \in HandlerT /\ g.phase = "validate" /\ g.wrap = w
BY DEF HandlerT, Phase

LEMMA HandlerValidated ==
    ASSUME NEW k \in HandlerT, NEW x \in Int
    PROVE  LET g == [k EXCEPT !.phase = "validated", !.expected = x] IN
           g \in HandlerT /\ g.phase = "validated" /\ g.expected = x /\ g.wrap = k.wrap
BY DEF HandlerT, Phase

LEMMA HandlerRetries ==
    ASSUME NEW k \in HandlerT, k.tries + 1 < Retries
    PROVE  LET g == [k EXCEPT !.phase = "validate", !.expected = -1, !.tries = @ + 1] IN
           g \in HandlerT /\ g.phase = "validate" /\ g.wrap = k.wrap
<1>1. PICK n \in 0..(Retries - 1) : n = k.tries + 1
  BY ServerAssumption DEF HandlerT
<1>2. PICK x \in Int : x = -1
  OBVIOUS
<1>3. LET g == [k EXCEPT !.phase = "validate", !.expected = x, !.tries = n] IN
      g \in HandlerT /\ g.phase = "validate" /\ g.wrap = k.wrap
  BY DEF HandlerT, Phase
<1> QED BY <1>1, <1>2, <1>3

LEMMA BeginPublishKeeps ==
    ASSUME VInv, StoreMoves, NEW r \in Request, NEW w \in Wrap, BeginPublish(r, w)
    PROVE  HandlersInv' /\ PermitsInv'
<1> DEFINE h == [Idle EXCEPT !.phase = "validate", !.wrap = w, !.start = now]
<1>1. pub' = [pub EXCEPT ![r] = h] /\ permits' = permits /\ pub[r] = Idle
  BY DEF BeginPublish
<1>2. now \in Time
  BY DEF VInv, ClockInv
<1>3. h \in HandlerT /\ h.phase = "validate" /\ h.wrap = w
  <2>1. Idle \in HandlerT
    BY IdleFacts
  <2> QED BY <1>2, <2>1, HandlerBegun
<1>4. PICK g \in HandlerT : g = h /\ g.phase = "validate" /\ g.wrap = w
  BY <1>3
<1>5. HandlerOK(g)'
  BY <1>4 DEF HandlerOK
<1>6. pub' = [pub EXCEPT ![r] = g]
  BY <1>1, <1>4
<1>7. HandlersInv'
  BY <1>5, <1>6, HandlersKept
<1>8. r \notin Admitting
  BY <1>1, IdleFacts DEF Admitting
<1>9. Admitting' = Admitting \ {r}
  BY <1>4, <1>6, AdmittingAfter
<1> QED BY <1>1, <1>7, <1>8, <1>9, PermitsRest

\* A handler ends and held no permit.
LEMMA HandlerEnds ==
    ASSUME VInv, StoreMoves, NEW r \in Request \ Admitting,
           pub' = [pub EXCEPT ![r] = Idle], permits' = permits
    PROVE  HandlersInv' /\ PermitsInv'
<1>1. HandlersInv'
  BY IdleFacts, HandlersKept
<1>2. Admitting' = Admitting
  BY IdleFacts, AdmittingAfter
<1> QED BY <1>1, <1>2, PermitsRest

LEMMA ValidatePolicyKeeps ==
    ASSUME VInv, StoreMoves, SInv', NEW r \in Request, ValidatePolicy(r)
    PROVE  HandlersInv' /\ PermitsInv'
<1> DEFINE w == pub[r].wrap
           p == policy[Recipient[w]]
           h == [pub[r] EXCEPT !.phase = "validated", !.expected = p.seq]
<1>1. /\ pub[r].phase = "validate" /\ permits' = permits /\ policy' = policy
      /\ \/ Accepts(p, w) /\ pub' = [pub EXCEPT ![r] = h]
         \/ pub' = [pub EXCEPT ![r] = Idle]
  BY DEF ValidatePolicy, storeVars, tables
<1>2. r \notin Admitting
  BY <1>1 DEF Admitting
<1>3. pub[r] \in HandlerT /\ w \in Wrap
  BY <1>1, HandlerFacts
<1>4. p.seq \in Int
  BY <1>3, PolicyFacts, StoreAssumption DEF VInv, SInv
<1>5. CASE Accepts(p, w) /\ pub' = [pub EXCEPT ![r] = h]
  <2>1. h \in HandlerT /\ h.phase = "validated" /\ h.expected = p.seq /\ h.wrap = w
    BY <1>3, <1>4, HandlerValidated
  <2>2. PICK g \in HandlerT : /\ g = h /\ g.phase = "validated"
                             /\ g.expected = p.seq /\ g.wrap = w
    BY <2>1
  <2>3. HandlerOK(g)
    BY <1>3, <1>4, <1>5, <2>2 DEF HandlerOK
  <2>4. HandlerOK(g)'
    BY <2>3, PolicyRaceClosed DEF VInv
  <2>5. pub' = [pub EXCEPT ![r] = g]
    BY <1>5, <2>2
  <2>6. HandlersInv'
    BY <2>4, <2>5, HandlersKept
  <2>7. Admitting' = Admitting \ {r}
    BY <2>2, <2>5, AdmittingAfter
  <2> QED BY <1>1, <1>2, <2>6, <2>7, PermitsRest
<1>6. CASE pub' = [pub EXCEPT ![r] = Idle]
  BY <1>1, <1>2, <1>6, HandlerEnds
<1> QED BY <1>1, <1>5, <1>6

LEMMA FailKeeps ==
    ASSUME VInv, StoreMoves, NEW r \in Request, Fail(r)
    PROVE  HandlersInv' /\ PermitsInv'
<1>1. r \notin Admitting
  BY DEF Fail, Admitting
<1> QED BY <1>1, HandlerEnds DEF Fail

\* A handler that is kept and only changes its phase or its mark.
LEMMA StartAdmitKeeps ==
    ASSUME VInv, StoreMoves, NEW r \in Request, StartAdmit(r)
    PROVE  HandlersInv' /\ PermitsInv'
<1> DEFINE k == pub[r]
           h == [k EXCEPT !.phase = "admitting"]
<1>1. /\ k.phase = "validated" /\ permits > 0 /\ permits' = permits - 1
      /\ pub' = [pub EXCEPT ![r] = h]
  BY DEF StartAdmit
<1>2. k \in HandlerT /\ HandlerOK(k)
  BY DEF VInv, HandlersInv
<1>3. PICK g \in HandlerT : g = h
  BY <1>2 DEF HandlerT, Phase
<1>4. g.phase = "admitting" /\ g.wrap = k.wrap /\ g.expected = k.expected
  BY <1>2, <1>3 DEF HandlerT
<1>5. HandlerOK(g)
  BY <1>1, <1>2, <1>4 DEF HandlerOK
<1>6. HandlerOK(g)'
  BY <1>5, PolicyRaceClosed DEF VInv
<1>7. pub' = [pub EXCEPT ![r] = g]
  BY <1>1, <1>3
<1>8. HandlersInv'
  BY <1>6, <1>7, HandlersKept
<1>9. r \notin Admitting
  BY <1>1 DEF Admitting
<1>10. Admitting' = Admitting \cup {r}
  BY <1>4, <1>7, AdmittingAfter
<1> QED BY <1>1, <1>8, <1>9, <1>10, PermitTaken

LEMMA CancelKeeps ==
    ASSUME VInv, StoreMoves, NEW r \in Request, Cancel(r)
    PROVE  HandlersInv' /\ PermitsInv'
<1> DEFINE k == pub[r]
           h == [k EXCEPT !.cancelled = TRUE]
<1>1. k.phase = "admitting" /\ permits' = permits /\ pub' = [pub EXCEPT ![r] = h]
  BY DEF Cancel
<1>2. k \in HandlerT /\ HandlerOK(k)
  BY DEF VInv, HandlersInv
<1>3. PICK g \in HandlerT : g = h
  BY <1>2 DEF HandlerT
<1>4. g.phase = k.phase /\ g.wrap = k.wrap /\ g.expected = k.expected
  BY <1>2, <1>3 DEF HandlerT
<1>5. HandlerOK(g)
  BY <1>2, <1>4 DEF HandlerOK
<1>6. HandlerOK(g)'
  BY <1>5, PolicyRaceClosed DEF VInv
<1>7. pub' = [pub EXCEPT ![r] = g]
  BY <1>1, <1>3
<1>8. HandlersInv'
  BY <1>6, <1>7, HandlersKept
<1>9. r \in Admitting
  BY <1>1 DEF Admitting
<1>10. Admitting' = Admitting \cup {r}
  BY <1>1, <1>4, <1>7, AdmittingAfter
<1> QED BY <1>1, <1>8, <1>9, <1>10, PermitsRest

\* The closure returns: the handler ends or reads the policy again.
LEMMA RunAdmitKeeps ==
    ASSUME VInv, StoreMoves, NEW r \in Request, RunAdmit(r)
    PROVE  HandlersInv' /\ PermitsInv'
<1> DEFINE k == pub[r]
           result == AdmitResult(k.wrap, k.expected)
           h == AfterAdmit(k, result)
<1>1. k.phase = "admitting" /\ permits' = permits + 1 /\ pub' = [pub EXCEPT ![r] = h]
  BY DEF RunAdmit
<1>2. k \in HandlerT /\ k.wrap \in Wrap
  BY <1>1, HandlerFacts
<1> HIDE DEF result
<1>3. \E g \in HandlerT : /\ g = h /\ HandlerOK(g)' /\ g.phase # "admitting"
  <2>1. CASE h = Idle
    BY <2>1, IdleFacts
  <2>2. CASE h # Idle
    <3> DEFINE g == [k EXCEPT !.phase = "validate", !.expected = -1, !.tries = @ + 1]
    <3>1. h = g /\ k.tries + 1 < Retries
      BY <2>2 DEF AfterAdmit
    <3>2. g \in HandlerT /\ g.phase = "validate" /\ g.wrap = k.wrap
      BY <1>2, <3>1, HandlerRetries
    <3>3. PICK f \in HandlerT : f = g /\ f.phase = "validate" /\ f.wrap = k.wrap
      BY <3>2
    <3>4. HandlerOK(f)'
      BY <1>2, <3>3 DEF HandlerOK
    <3> QED BY <3>1, <3>3, <3>4
  <2> QED BY <2>1, <2>2
<1> HIDE DEF h
<1>4. PICK g \in HandlerT : g = h /\ HandlerOK(g)' /\ g.phase # "admitting"
  BY <1>3
<1>5. pub' = [pub EXCEPT ![r] = g]
  BY <1>1, <1>4
<1>6. HandlersInv'
  BY <1>4, <1>5, HandlersKept
<1>7. r \in Admitting
  BY <1>1 DEF Admitting
<1>8. Admitting' = Admitting \ {r}
  BY <1>4, <1>5, AdmittingAfter
<1> QED BY <1>1, <1>6, <1>7, <1>8, PermitReturned
-----------------------------------------------------------------------------
(***************************************************************************)
(* The whole loft.                                                         *)
(***************************************************************************)
LEMMA InitVInv == Init => VInv
<1> SUFFICES ASSUME Init PROVE VInv
  OBVIOUS
<1>1. SInv
  BY InitSInv DEF Init
<1>2. ClockInv
  BY StoreAssumption, ServerAssumption DEF Init, ClockInv, Time
<1>3. HandlersInv
  BY IdleFacts DEF Init, HandlersInv
<1>4. PermitsInv
  <2>1. Admitting = {}
    BY IdleFacts DEF Init, Admitting
  <2>2. Cardinality({}) = 0 /\ IsFiniteSet({})
    BY FS_EmptySet
  <2>3. Cardinality(Admitting) = 0 /\ IsFiniteSet(Admitting)
    BY <2>1, <2>2
  <2>4. permits = MaxBlocking /\ permits \in Nat
    BY ServerAssumption DEF Init
  <2> QED BY <2>3, <2>4 DEF PermitsInv, PermitsMatchClosures, Admitting
<1>5. ReadersInv
  <2>1. IsFiniteSet({})
    BY FS_EmptySet
  <2> QED BY <2>1 DEF Init, StoreInit, ReadersInv
<1>6. NoEventSkipped
  BY DEF Init, StoreInit, NoEventSkipped
<1> QED BY <1>1, <1>2, <1>3, <1>4, <1>5, <1>6 DEF VInv

LEMMA ClockKept == ASSUME VInv, [Next]_vars PROVE ClockInv'
<1>1. ClockInv /\ MaxTime \in Nat /\ MaxCrashes \in Nat
  BY StoreAssumption, ServerAssumption DEF VInv
<1>2. CASE SweepStart \/ SweepDone
  BY <1>1, <1>2 DEF SweepStart, SweepDone, ClockInv
<1>3. CASE Tick
  BY <1>1, <1>3 DEF Tick, ClockInv, Time
<1>4. CASE CrashRestart
  BY <1>1, <1>4 DEF CrashRestart, ClockInv
<1>5. CASE UNCHANGED <<now, sweep, crashes>>
  BY <1>1, <1>5 DEF ClockInv
<1>6. ASSUME NEW r \in Request,
             \/ \E w \in Wrap : BeginPublish(r, w)
             \/ ValidatePolicy(r) \/ StartAdmit(r) \/ Fail(r) \/ Cancel(r) \/ RunAdmit(r)
      PROVE  UNCHANGED <<now, sweep, crashes>>
  BY <1>6 DEF BeginPublish, ValidatePolicy, StartAdmit, Fail, Cancel, RunAdmit
<1>7. ASSUME NEW a \in Agent,
             \/ Fetch(a) \/ Deliver(a) \/ Lose(a)
             \/ SetPolicy(a) \/ PutAgent(a) \/ PutRotation(a)
      PROVE  UNCHANGED <<now, sweep, crashes>>
  BY <1>7 DEF Fetch, Deliver, Lose, SetPolicy, PutAgent, PutRotation
<1>8. CASE SweepBatchStep \/ UNCHANGED vars
  BY <1>5, <1>8 DEF SweepBatchStep, vars
<1> QED BY <1>2, <1>3, <1>4, <1>5, <1>6, <1>7, <1>8 DEF Next

\* A restart takes handlers and responses with it, and gives all permits back.
LEMMA CrashKeeps ==
    ASSUME VInv, StoreMoves, SInv', CrashRestart
    PROVE  HandlersInv' /\ PermitsInv' /\ ReadersInv' /\ NoEventSkipped'
<1>1. /\ pub' = [r \in Request |-> Idle] /\ permits' = MaxBlocking
      /\ reply' = [a \in Agent |-> NoReply]
      /\ UNCHANGED <<cursor, seen, events, lastCursor>>
  BY DEF CrashRestart, Reopen, tables
<1>2. HandlersInv'
  <2>1. \A r \in Request : pub'[r] = Idle
    BY <1>1
  <2>2. \A r \in Request : HandlerOK(pub[r])'
    BY <2>1, IdleFacts DEF HandlerOK
  <2>3. pub' \in [Request -> HandlerT]
    BY <1>1, IdleFacts
  <2> QED BY <2>2, <2>3 DEF HandlersInv
<1>3. PermitsInv'
  <2>1. Admitting' = {}
    BY <1>1, IdleFacts DEF Admitting
  <2>2. Cardinality({}) = 0 /\ IsFiniteSet({})
    BY FS_EmptySet
  <2>3. Cardinality(Admitting') = 0 /\ IsFiniteSet(Admitting')
    BY <2>1, <2>2
  <2>4. permits' \in Nat
    BY <1>1, ServerAssumption
  <2> QED BY <1>1, <2>3, <2>4 DEF PermitsInv, PermitsMatchClosures, Admitting
<1>4. ReadersInv'
  BY <1>1 DEF VInv, ReadersInv
<1>5. NoEventSkipped'
  BY <1>1 DEF VInv, NoEventSkipped
<1> QED BY <1>2, <1>3, <1>4, <1>5

LEMMA NextVInv == VInv /\ [Next]_vars => VInv'
<1> SUFFICES ASSUME VInv, [Next]_vars PROVE VInv'
  OBVIOUS
<1>1. SInv' /\ StoreMoves /\ ClockInv'
  BY StoreKept, ClockKept
<1>2. ASSUME HandlersInv' /\ PermitsInv', UNCHANGED readers PROVE VInv'
  <2>1. ReadersInv' /\ NoEventSkipped'
    BY <1>1, <1>2, ReadersRest
  <2> QED BY <1>1, <1>2, <2>1 DEF VInv
<1>3. ASSUME UNCHANGED handlers PROVE HandlersInv' /\ PermitsInv'
  <2>1. pub' = pub /\ permits' = permits
    BY <1>3 DEF handlers
  <2>2. Admitting' = Admitting
    BY <2>1 DEF Admitting
  <2> QED BY <1>1, <2>1, <2>2, HandlersRest, PermitsRest
<1>4. ASSUME NEW r \in Request, NEW w \in Wrap, BeginPublish(r, w) PROVE VInv'
  BY <1>1, <1>2, <1>4, BeginPublishKeeps DEF BeginPublish
<1>5. ASSUME NEW r \in Request, ValidatePolicy(r) PROVE VInv'
  BY <1>1, <1>2, <1>5, ValidatePolicyKeeps DEF ValidatePolicy
<1>6. ASSUME NEW r \in Request, StartAdmit(r) PROVE VInv'
  BY <1>1, <1>2, <1>6, StartAdmitKeeps DEF StartAdmit
<1>7. ASSUME NEW r \in Request, Fail(r) PROVE VInv'
  BY <1>1, <1>2, <1>7, FailKeeps DEF Fail
<1>8. ASSUME NEW r \in Request, Cancel(r) PROVE VInv'
  BY <1>1, <1>2, <1>8, CancelKeeps DEF Cancel
<1>9. ASSUME NEW r \in Request, RunAdmit(r) PROVE VInv'
  BY <1>1, <1>2, <1>9, RunAdmitKeeps DEF RunAdmit
<1>10. ASSUME NEW a \in Agent, Fetch(a) PROVE VInv'
  BY <1>1, <1>3, <1>10, FetchKeeps DEF Fetch, handlers, VInv
<1>11. ASSUME NEW a \in Agent, Deliver(a) PROVE VInv'
  BY <1>1, <1>3, <1>11, DeliverKeeps DEF Deliver, handlers, VInv
<1>12. ASSUME NEW a \in Agent, Lose(a) PROVE VInv'
  BY <1>1, <1>3, <1>12, LoseKeeps DEF Lose, handlers, VInv
<1>13. ASSUME NEW a \in Agent, SetPolicy(a) \/ PutAgent(a) \/ PutRotation(a) PROVE VInv'
  BY <1>2, <1>3, <1>13 DEF SetPolicy, PutAgent, PutRotation
<1>14. CASE SweepStart \/ SweepBatchStep \/ SweepDone \/ Tick
  BY <1>2, <1>3, <1>14 DEF SweepStart, SweepBatchStep, SweepDone, Tick
<1>15. CASE CrashRestart
  BY <1>1, <1>15, CrashKeeps DEF VInv
<1>16. CASE UNCHANGED vars
  BY <1>2, <1>3, <1>16 DEF vars
<1> QED BY <1>4, <1>5, <1>6, <1>7, <1>8, <1>9, <1>10, <1>11, <1>12, <1>13,
           <1>14, <1>15, <1>16 DEF Next

\* The handlers, the permits, the readers and the store below them stay
\* consistent with one another through every interleaving of publishes,
\* fetches, sweeps, deadlines and restarts.
THEOREM ServerInvariant == Spec => []VInv
BY InitVInv, NextVInv, PTL DEF Spec

\* A running loft changes its store by the transactions of LoftStore only:
\* whatever is proved of the store (capacity, rotations, cursors, the mailbox
\* it promises) holds of the loft and all its handlers.
THEOREM ServerRunsStore == Spec => StoreSpec
<1>1. Init => StoreInit
  BY DEF Init
<1>2. VInv /\ [Next]_vars => [StoreNext]_storeVars
  BY StoreStep
<1> QED BY <1>1, <1>2, ServerInvariant, PTL DEF Spec, StoreSpec

\* Handlers, permits, replies and cursors are well formed, and the retry loop
\* of a publish never counts past POLICY_ADMISSION_RETRIES.
THEOREM ServerTypeCorrect == Spec => []TypeOK
<1>1. VInv => TypeOK
  <2> SUFFICES ASSUME VInv PROVE TypeOK
    OBVIOUS
  <2>1. StoreTypeOK /\ now \in Time /\ sweep \in Time \cup {-1} /\ crashes \in 0..MaxCrashes
    BY DEF VInv, SInv, ClockInv
  <2>2. ASSUME NEW r \in Request
        PROVE  /\ pub[r].phase \in Phase /\ pub[r].wrap \in Wrap \cup {NoWrap}
               /\ pub[r].tries \in 0..(Retries - 1) /\ pub[r].start \in Time
    <3>1. pub[r] \in HandlerT
      BY DEF VInv, HandlersInv
    <3> QED BY <3>1 DEF HandlerT
  <2>3. permits \in 0..MaxBlocking
    <3>1. /\ permits \in Nat /\ IsFiniteSet(Admitting)
          /\ permits + Cardinality(Admitting) = MaxBlocking
      BY DEF VInv, PermitsInv, PermitsMatchClosures, Admitting
    <3>2. Cardinality(Admitting) \in Nat
      BY <3>1, FS_CardinalityType
    <3> QED BY <3>1, <3>2, ServerAssumption
  <2>4. ASSUME NEW a \in Agent
        PROVE  /\ reply[a].rows \subseteq EventRow /\ cursor[a] \in 0..MaxCursor
               /\ seen[a] \subseteq 1..MaxCursor
    <3>1. reply[a].rows \subseteq EventRow
      BY DEF VInv, ReadersInv, ReplyOK, NoReply
    <3>2. cursor[a] \in Nat /\ cursor[a] <= lastCursor /\ seen[a] \subseteq 1..MaxCursor
      BY DEF VInv, ReadersInv
    <3> QED BY <3>1, <3>2, EventFacts
  <2> QED BY <2>1, <2>2, <2>3, <2>4 DEF TypeOK
<1> QED BY <1>1, ServerInvariant, PTL

\* No agent that polls from its last cursor is ever past a stored event it was
\* not given (fetch).
THEOREM NothingSkipped == Spec => []NoEventSkipped
<1>1. VInv => NoEventSkipped
  BY DEF VInv
<1> QED BY <1>1, ServerInvariant, PTL

\* The blocking permits that are out are those of the running closures, also
\* of requests that were dropped (run_blocking).
THEOREM PermitsExact == Spec => []PermitsMatchClosures
<1>1. VInv => PermitsMatchClosures
  BY DEF VInv, PermitsInv
<1> QED BY <1>1, ServerInvariant, PTL

\* What is stored was accepted by the policy of that very moment, although the
\* handler read it in another closure (publish, admit).
THEOREM AdmittedByCurrentPolicy == Spec => AdmittedUnderCurrentPolicy
<1> DEFINE Accepted == \A e \in events' \ events : Accepts(policy[Recipient[e.wrap]], e.wrap)
<1>1. VInv /\ [Next]_vars => [Accepted]_vars
  <2> SUFFICES ASSUME VInv, Next, NEW e \in events' \ events
               PROVE  Accepts(policy[Recipient[e.wrap]], e.wrap)
    OBVIOUS
  <2>1. ASSUME NEW r \in Request, RunAdmit(r) PROVE Accepts(policy[Recipient[e.wrap]], e.wrap)
    <3> DEFINE q == pub[r]
    <3>1. q.phase = "admitting" /\ Admit(q.wrap, q.expected, q.start)
      BY <2>1 DEF RunAdmit, storeVars, tables
    <3>2. q.wrap \in Wrap /\ q.start \in Time /\ HandlerOK(q)
      BY <3>1, HandlerFacts DEF VInv, HandlersInv
    <3>3. q.expected = policy[Recipient[q.wrap]].seq
      BY <3>1, <3>2, AdmitsAsStore
    <3>4. Accepts(policy[Recipient[q.wrap]], q.wrap)
      BY <3>1, <3>2, <3>3 DEF HandlerOK
    <3>5. e.wrap = q.wrap
      BY <3>1 DEF Admit
    <3> QED BY <3>4, <3>5
  <2>2. ASSUME events' \subseteq events PROVE FALSE
    BY <2>2
  <2>3. ASSUME NEW a \in Agent, SetPolicy(a) \/ PutAgent(a) \/ PutRotation(a)
        PROVE  events' = events
    BY <2>3 DEF SetPolicy, PutAgent, PutRotation, PutPolicy, PutAgentRecord, PutRotationRecord
  <2>4. CASE SweepBatchStep
    BY <2>2, <2>4 DEF SweepBatchStep, SweepExpired
  <2>5. CASE CrashRestart
    BY <2>2, <2>5 DEF CrashRestart, Reopen, tables
  <2>6. ASSUME NEW r \in Request,
               \/ \E w \in Wrap : BeginPublish(r, w)
               \/ ValidatePolicy(r) \/ StartAdmit(r) \/ Fail(r) \/ Cancel(r)
        PROVE  events' = events
    BY <2>6 DEF BeginPublish, ValidatePolicy, StartAdmit, Fail, Cancel, storeVars, tables
  <2>7. ASSUME NEW a \in Agent, Fetch(a) \/ Deliver(a) \/ Lose(a)
        PROVE  events' = events
    BY <2>7 DEF Fetch, Deliver, Lose, storeVars, tables
  <2>8. CASE SweepStart \/ SweepDone \/ Tick
    BY <2>2, <2>8 DEF SweepStart, SweepDone, Tick, storeVars, tables
  <2> QED BY <2>1, <2>2, <2>3, <2>4, <2>5, <2>6, <2>7, <2>8 DEF Next
<1> QED BY <1>1, ServerInvariant, PTL DEF Spec, AdmittedUnderCurrentPolicy
-----------------------------------------------------------------------------
(***************************************************************************)
(* Around the handlers: lanes and maps of budgets.                         *)
(***************************************************************************)
Stage == {"idle", "global", "source", "owner", "trace", "tracing", "handle",
          "egress global", "egress source", "egress owner", "respond"}

VisitT == [at : Stage, kind : {"none", "publish", "fetch", "probe"},
           source : Source \cup {"none"}, owner : Owner \cup {"none"}, seen : Nat]

\* A request in flight has its keys, and the time it read is not ahead.
VisitOK(w, t) ==
    /\ w \in VisitT /\ w.seen <= t
    /\ w.at # "idle" => w.source \in Source /\ w.owner \in Owner

BucketT == [requests : Nat, bytes : Nat, start : Int]

MapT(K) == [at : [K -> BucketT], cleanup : Int]

\* The next scan of a map comes before any key in it is two windows old.
ScanInTime(m) ==
    \A k \in Keys(m) : m.cleanup # -1 /\ m.cleanup < m.at[k].start + 2 * Span

MapOK(m, K) == m \in MapT(K) /\ ScanInTime(m)

Tracing == {v \in Visit : visit[v].at = "tracing"}

LanesInv ==
    /\ lanes \in Nat /\ orphans \in Nat
    /\ IsFiniteSet(Tracing)
    /\ lanes + Cardinality(Tracing) + orphans = Lanes

VisitsInv ==
    /\ clock \in Nat
    /\ DOMAIN visit = Visit
    /\ \A v \in Visit : VisitOK(visit[v], clock)

MapsInv == MapOK(sources, Source) /\ MapOK(owners, Owner)

LInv == VisitsInv /\ LanesInv /\ MapsInv

LEMMA LimitsFacts ==
    /\ Slots \in Nat \ {0} /\ Lanes \in Nat \ {0} /\ MaxKeys \in Nat \ {0} /\ Span \in Nat \ {0}
    /\ GlobalLimits \in [requests : Nat, bytes : Nat]
    /\ SourceLimits \in [requests : Nat, bytes : Nat]
    /\ OwnerLimits \in [requests : Nat, bytes : Nat]
    /\ MaxStall \in Nat /\ MaxClock \in Nat
BY LimitsAssumption

\* A charge leaves a bucket.
LEMMA ChargedBucket ==
    ASSUME NEW b \in BucketT, NEW t \in Nat, NEW n \in {0, 1}, NEW limits
    PROVE  ChargeBucket(b, t, n, limits) \in BucketT
<1>1. Fresh(t) \in BucketT
  BY DEF Fresh, BucketT
<1>2. Renewed(b, t) \in BucketT
  BY <1>1 DEF Renewed
<1>3. Added(b, t, n) \in BucketT
  <2>1. PICK r \in BucketT : r = Renewed(b, t)
    BY <1>2
  <2>2. r.requests + n \in Nat /\ r.bytes + 1 \in Nat
    BY DEF BucketT
  <2>3. PICK x \in Nat, y \in Nat : x = r.requests + n /\ y = r.bytes + 1
    BY <2>2
  <2>4. [r EXCEPT !.requests = x, !.bytes = y] \in BucketT
    BY DEF BucketT
  <2> QED BY <2>1, <2>3, <2>4 DEF Added
<1> QED BY <1>2, <1>3 DEF ChargeBucket

LEMMA LeastOfTwo ==
    ASSUME NEW a \in Int, NEW b \in Int
    PROVE  Min({a, b}) = IF a <= b THEN a ELSE b
<1>1. CASE a <= b
  <2>1. \A x \in {a, b} : (\A y \in {a, b} : x <= y) => x = a
    BY <1>1
  <2>2. \A y \in {a, b} : a <= y
    BY <1>1
  <2> QED BY <1>1, <2>1, <2>2 DEF Min
<1>2. CASE ~(a <= b)
  <2>1. \A x \in {a, b} : (\A y \in {a, b} : x <= y) => x = b
    BY <1>2
  <2>2. \A y \in {a, b} : b <= y
    BY <1>2
  <2> QED BY <1>2, <2>1, <2>2 DEF Min
<1> QED BY <1>1, <1>2

\* A scan drops budgets and plans the next one if any is left.
LEMMA SweptOK ==
    ASSUME NEW K, NEW m, NEW t \in Nat, MapOK(m, K)
    PROVE  /\ MapOK(Swept(m, t), K)
           /\ \A k \in Keys(Swept(m, t)) : t - Swept(m, t).at[k].start < Span
<1> DEFINE kept == {k \in Keys(m) : Live(m.at[k], t)}
           at == [k \in DOMAIN m.at |-> IF k \in kept THEN m.at[k] ELSE NoBucket]
           cleanup == IF kept = {} THEN -1 ELSE t + Span
<1>1. m.at \in [K -> BucketT] /\ DOMAIN m.at = K
  BY DEF MapOK, MapT
<1>2. NoBucket \in BucketT
  BY DEF NoBucket, BucketT
<1>3. /\ at \in [K -> BucketT]
      /\ \A k \in K : at[k] = IF k \in kept THEN m.at[k] ELSE NoBucket
  BY <1>1, <1>2
<1>4. cleanup \in Int
  BY LimitsFacts
<1>5. \A k \in kept : t - m.at[k].start < Span
  BY DEF Live
<1>6. Swept(m, t) = [at |-> at, cleanup |-> cleanup]
  BY DEF Swept
<1>7. kept # {} => cleanup = t + Span
  OBVIOUS
<1> HIDE DEF at, cleanup, kept
<1>8. Swept(m, t) \in MapT(K) /\ Swept(m, t).at = at /\ Swept(m, t).cleanup = cleanup
  BY <1>3, <1>4, <1>6 DEF MapT
<1>9. ASSUME NEW k \in Keys(Swept(m, t))
      PROVE  /\ t - Swept(m, t).at[k].start < Span
             /\ Swept(m, t).cleanup # -1
             /\ Swept(m, t).cleanup < Swept(m, t).at[k].start + 2 * Span
  <2>1. k \in K /\ at[k] # NoBucket
    BY <1>3, <1>8 DEF Keys
  <2>2. k \in kept /\ at[k] = m.at[k]
    BY <1>3, <2>1
  <2>3. at[k].start \in Int
    BY <1>3, <2>1 DEF BucketT
  <2>4. t - at[k].start < Span /\ cleanup = t + Span
    BY <1>5, <1>7, <2>2
  <2> QED BY <1>8, <2>3, <2>4, LimitsFacts
<1> QED BY <1>8, <1>9 DEF MapOK, ScanInTime

\* A charge starts a window at its time, or leaves the start alone; a window is
\* only ever started anew at a later time.
LEMMA ChargedStart ==
    ASSUME NEW b \in BucketT, NEW t \in Nat, NEW n \in {0, 1}, NEW limits
    PROVE  LET s == ChargeBucket(b, t, n, limits).start
           IN  s \in Int /\ s >= b.start /\ (s = b.start \/ s = t)
<1>1. Fresh(t) \in BucketT /\ Fresh(t).start = t
  BY DEF Fresh, BucketT
<1>2. PICK r \in BucketT : r = Renewed(b, t)
  BY <1>1 DEF Renewed
<1>3. r.start \in Int /\ r.start >= b.start /\ (r.start = b.start \/ r.start = t)
  <2>1. b.start \in Int
    BY DEF BucketT
  <2>2. CASE Live(b, t)
    BY <1>2, <2>1, <2>2 DEF Renewed
  <2>3. CASE ~ Live(b, t)
    <3>1. r.start = t
      BY <1>1, <1>2, <2>3 DEF Renewed
    <3>2. ~ (t - b.start < Span)
      BY <2>3 DEF Live
    <3> QED BY <2>1, <3>1, <3>2, LimitsFacts
  <2> QED BY <2>2, <2>3
<1>4. Added(b, t, n).start = r.start
  <2>1. \A x, y : [r EXCEPT !.requests = x, !.bytes = y].start = r.start
    BY DEF BucketT
  <2> QED BY <1>2, <2>1 DEF Added
<1>5. ChargeBucket(b, t, n, limits) \in {Added(b, t, n), r}
  BY <1>2 DEF ChargeBucket
<1> QED BY <1>3, <1>4, <1>5

\* The map after a charge is scanned in time.
LEMMA ChargeKeyOK ==
    ASSUME NEW K, NEW m, NEW k \in K, NEW t \in Nat,
           NEW n \in {0, 1}, NEW limits, MapOK(m, K)
    PROVE  MapOK(ChargeKey(m, k, t, n, limits), K)
<1> DEFINE roomy == MakeRoom(m, k, t)
           known == k \in Keys(roomy)
           b == IF known THEN roomy.at[k] ELSE Fresh(t)
           nb == ChargeBucket(b, t, n, limits)
           at == [roomy.at EXCEPT ![k] = nb]
           cleanup == IF known THEN roomy.cleanup ELSE NoteInsert(roomy, t)
<1>1. MapOK(roomy, K)
  BY SweptOK DEF MakeRoom
<1> HIDE DEF roomy
<1>2. roomy.at \in [K -> BucketT] /\ DOMAIN roomy.at = K /\ roomy.cleanup \in Int
  BY <1>1 DEF MapOK, MapT
<1>3. Fresh(t) \in BucketT /\ Fresh(t).start = t
  BY DEF Fresh, BucketT
<1>4. b \in BucketT /\ b.start \in Int
  <2>1. b \in BucketT
    BY <1>2, <1>3
  <2> HIDE DEF b
  <2> QED BY <2>1 DEF BucketT
<1>5. known => b = roomy.at[k]
  OBVIOUS
<1>6. ~ known => b.start = t
  BY <1>3
<1> HIDE DEF b
<1>7. nb \in BucketT /\ nb.start \in Int /\ nb.start >= b.start
  BY <1>4, ChargedBucket, ChargedStart
<1> HIDE DEF nb
<1>8. /\ at \in [K -> BucketT]
      /\ \A j \in K : at[j] = IF j = k THEN nb ELSE roomy.at[j]
  BY <1>2, <1>7
<1>9. ASSUME NEW j \in Keys(roomy)
      PROVE  /\ j \in K /\ roomy.cleanup # -1 /\ roomy.at[j].start \in Int
             /\ roomy.cleanup < roomy.at[j].start + 2 * Span
  <2>1. j \in K /\ roomy.cleanup # -1 /\ roomy.cleanup < roomy.at[j].start + 2 * Span
    BY <1>1, <1>2 DEF MapOK, ScanInTime, Keys
  <2>2. roomy.at[j] \in BucketT
    BY <1>2, <2>1
  <2> QED BY <2>1, <2>2 DEF BucketT
<1>10. ASSUME ~ known
       PROVE  /\ cleanup \in Int /\ cleanup # -1 /\ cleanup <= t + Span
              /\ roomy.cleanup # -1 => cleanup <= roomy.cleanup
  <2>1. t + Span \in Int /\ t + Span # -1
    BY LimitsFacts
  <2>2. CASE roomy.cleanup = -1
    BY <1>10, <2>1, <2>2 DEF NoteInsert
  <2>3. CASE roomy.cleanup # -1
    <3>1. cleanup = Min({roomy.cleanup, t + Span})
      BY <1>10, <2>3 DEF NoteInsert
    <3>2. cleanup = IF roomy.cleanup <= t + Span THEN roomy.cleanup ELSE t + Span
      BY <1>2, <2>1, <3>1, LeastOfTwo
    <3> HIDE DEF cleanup
    <3> QED BY <1>2, <2>1, <2>3, <3>2
  <2> QED BY <2>2, <2>3
<1>11. known => cleanup = roomy.cleanup
  OBVIOUS
<1>12. ChargeKey(m, k, t, n, limits) \in {m, roomy, [at |-> at, cleanup |-> cleanup]}
  BY DEF ChargeKey, roomy, b, nb
<1> HIDE DEF at, cleanup, known
<1>13. cleanup \in Int
  BY <1>2, <1>10, <1>11
<1> DEFINE r == [at |-> at, cleanup |-> cleanup]
<1>14. r \in MapT(K) /\ r.at = at /\ r.cleanup = cleanup
  BY <1>8, <1>13 DEF MapT
<1> HIDE DEF r
<1>15. ASSUME NEW j \in Keys(r)
       PROVE  r.cleanup # -1 /\ r.cleanup < r.at[j].start + 2 * Span
  <2>1. j \in K /\ at[j] # NoBucket
    BY <1>8, <1>14 DEF Keys
  <2>2. CASE j = k
    <3>1. at[j].start = nb.start
      BY <1>8, <2>1, <2>2
    <3>2. CASE known
      <4>1. k \in Keys(roomy) /\ b = roomy.at[k] /\ cleanup = roomy.cleanup
        BY <1>5, <1>11, <3>2 DEF known
      <4>2. roomy.cleanup # -1 /\ roomy.cleanup < b.start + 2 * Span
        BY <1>9, <4>1
      <4> QED BY <1>2, <1>4, <1>7, <1>14, <3>1, <4>1, <4>2, LimitsFacts
    <3>3. CASE ~ known
      BY <1>4, <1>6, <1>7, <1>10, <1>14, <3>1, <3>3, LimitsFacts
    <3> QED BY <3>2, <3>3
  <2>3. CASE j # k
    <3>1. at[j] = roomy.at[j] /\ j \in Keys(roomy)
      BY <1>2, <1>8, <2>1, <2>3 DEF Keys
    <3>2. cleanup # -1 /\ cleanup <= roomy.cleanup
      BY <1>2, <1>9, <1>10, <1>11, <3>1
    <3> QED BY <1>2, <1>9, <1>13, <1>14, <3>1, <3>2, LimitsFacts
  <2> QED BY <2>2, <2>3
<1>16. MapOK(r, K)
  BY <1>14, <1>15 DEF MapOK, ScanInTime
<1> QED BY <1>1, <1>12, <1>16 DEF r
-----------------------------------------------------------------------------
LEMMA InitLInv == LimitsInit => LInv
<1> SUFFICES ASSUME LimitsInit PROVE LInv
  OBVIOUS
<1>1. NoVisit \in VisitT /\ NoVisit.at = "idle" /\ NoVisit.seen = 0
  BY DEF NoVisit, VisitT, Stage
<1>2. VisitsInv
  BY <1>1 DEF LimitsInit, VisitsInv, VisitOK
<1>3. LanesInv
  <2>1. Tracing = {}
    BY <1>1 DEF LimitsInit, Tracing
  <2>2. Cardinality({}) = 0 /\ IsFiniteSet({})
    BY FS_EmptySet
  <2>3. Cardinality(Tracing) = 0 /\ IsFiniteSet(Tracing)
    BY <2>1, <2>2
  <2>4. lanes = Lanes /\ orphans = 0 /\ Lanes \in Nat
    BY LimitsFacts DEF LimitsInit
  <2> QED BY <2>3, <2>4 DEF LanesInv
<1>4. ASSUME NEW K PROVE MapOK(NoBuckets(K), K)
  <2>1. NoBucket \in BucketT
    BY DEF NoBucket, BucketT
  <2>2. NoBuckets(K) \in MapT(K)
    BY <2>1 DEF NoBuckets, MapT
  <2>3. Keys(NoBuckets(K)) = {}
    BY DEF Keys, NoBuckets
  <2> QED BY <2>2, <2>3 DEF MapOK, ScanInTime
<1>5. MapsInv
  BY <1>4 DEF LimitsInit, MapsInv
<1> QED BY <1>2, <1>3, <1>5 DEF LInv

\* One request moves to another stage.
LEMMA VisitMoves ==
    ASSUME VisitsInv, NEW v \in Visit, NEW w, VisitOK(w, clock), clock' = clock,
           visit' = [visit EXCEPT ![v] = w]
    PROVE  /\ VisitsInv'
           /\ Tracing' = IF w.at = "tracing" THEN Tracing \cup {v} ELSE Tracing \ {v}
<1>1. DOMAIN visit = Visit
  BY DEF VisitsInv
<1>2. DOMAIN visit' = Visit /\ \A u \in Visit : visit'[u] = IF u = v THEN w ELSE visit[u]
  BY <1>1
<1>3. VisitsInv'
  BY <1>2 DEF VisitsInv
<1>4. Tracing' = IF w.at = "tracing" THEN Tracing \cup {v} ELSE Tracing \ {v}
  BY <1>2 DEF Tracing
<1> QED BY <1>3, <1>4

LEMMA GoesMoves ==
    ASSUME VisitsInv, NEW v \in Visit, NEW stage \in Stage \ {"idle"}, visit[v].at # "idle",
           Goes(v, stage), clock' = clock
    PROVE  /\ VisitsInv'
           /\ Tracing' = IF stage = "tracing" THEN Tracing \cup {v} ELSE Tracing \ {v}
<1>1. clock \in Nat /\ VisitOK(visit[v], clock)
  BY DEF VisitsInv
<1>2. PICK s \in Nat : s = (IF stage \in Waiting THEN clock ELSE 0) /\ s <= clock
  BY <1>1
<1>3. PICK k : k = visit[v] /\ k \in VisitT /\ k.source \in Source /\ k.owner \in Owner
  BY <1>1 DEF VisitOK
<1> DEFINE w == [k EXCEPT !.at = stage, !.seen = s]
<1>4. visit' = [visit EXCEPT ![v] = w]
  BY <1>2, <1>3 DEF Goes
<1>5. /\ w \in VisitT /\ w.seen = s /\ w.at = stage
      /\ w.source = k.source /\ w.owner = k.owner
  BY <1>3 DEF VisitT
<1> HIDE DEF w
<1>6. VisitOK(w, clock)
  BY <1>2, <1>3, <1>5 DEF VisitOK
<1> QED BY <1>4, <1>5, <1>6, VisitMoves

LEMMA LanesRest ==
    ASSUME LanesInv, UNCHANGED <<lanes, orphans>>, Tracing' = Tracing PROVE LanesInv'
BY DEF LanesInv

\* A capture begins, ends in time, or goes on without its request.
LEMMA LanesMove ==
    ASSUME LanesInv, NEW v \in Visit
    PROVE  /\ (/\ v \notin Tracing /\ lanes > 0 /\ lanes' = lanes - 1 /\ orphans' = orphans
               /\ Tracing' = Tracing \cup {v}) => LanesInv'
           /\ (/\ v \in Tracing /\ lanes' = lanes + 1 /\ orphans' = orphans
               /\ Tracing' = Tracing \ {v}) => LanesInv'
           /\ (/\ v \in Tracing /\ lanes' = lanes /\ orphans' = orphans + 1
               /\ Tracing' = Tracing \ {v}) => LanesInv'
<1>1. /\ lanes \in Nat /\ orphans \in Nat /\ IsFiniteSet(Tracing)
      /\ lanes + Cardinality(Tracing) + orphans = Lanes
  BY DEF LanesInv
<1>2. Cardinality(Tracing) \in Nat
  BY <1>1, FS_CardinalityType
<1>3. ASSUME v \notin Tracing
      PROVE  /\ IsFiniteSet(Tracing \cup {v})
             /\ Cardinality(Tracing \cup {v}) = Cardinality(Tracing) + 1
  BY <1>1, <1>3, FS_AddElement
<1>4. ASSUME v \in Tracing
      PROVE  /\ IsFiniteSet(Tracing \ {v})
             /\ Cardinality(Tracing \ {v}) = Cardinality(Tracing) - 1
  BY <1>1, <1>4, FS_RemoveElement
<1>5. ASSUME v \notin Tracing, lanes > 0, lanes' = lanes - 1, orphans' = orphans,
             Tracing' = Tracing \cup {v}
      PROVE  LanesInv'
  <2>1. IsFiniteSet(Tracing') /\ Cardinality(Tracing') = Cardinality(Tracing) + 1
    BY <1>3, <1>5
  <2> QED BY <1>1, <1>2, <1>5, <2>1 DEF LanesInv
<1>6. ASSUME v \in Tracing, Tracing' = Tracing \ {v},
             \/ lanes' = lanes + 1 /\ orphans' = orphans
             \/ lanes' = lanes /\ orphans' = orphans + 1
      PROVE  LanesInv'
  <2>1. IsFiniteSet(Tracing') /\ Cardinality(Tracing') = Cardinality(Tracing) - 1
    BY <1>4, <1>6
  <2> QED BY <1>1, <1>2, <1>6, <2>1 DEF LanesInv
<1> QED BY <1>5, <1>6

LEMMA MapsRest == ASSUME MapsInv, UNCHANGED <<sources, owners>> PROVE MapsInv'
BY DEF MapsInv

LEMMA LimitsStep == ASSUME LInv, NEW v \in Visit PROVE
    /\ Enter(v) \/ BodyEnds(v) => LInv'
    /\ ChargeGlobal(v) => LInv'
    /\ Handle(v) \/ HandlerFails(v) => LInv'
    /\ ChargeSource(v) => LInv'
    /\ ChargeOwner(v) => LInv'
    /\ BeginTrace(v) \/ TraceEnds(v) \/ TraceTimeout(v) => LInv'
<1>0. VisitsInv /\ LanesInv /\ MapsInv /\ clock \in Nat
  BY DEF LInv, VisitsInv
<1>1. ASSUME Enter(v) PROVE LInv'
  <2>1. PICK k \in {"publish", "fetch", "probe"}, s \in Source, o \in Owner :
          visit' = [visit EXCEPT ![v] = [at |-> "global", kind |-> k, source |-> s,
                                         owner |-> o, seen |-> 0]]
    BY <1>1 DEF Enter
  <2> DEFINE w == [at |-> "global", kind |-> k, source |-> s, owner |-> o, seen |-> 0]
  <2>2. /\ visit[v].at = "idle"
        /\ UNCHANGED <<clock, sources, owners, lanes, orphans>>
    BY <1>1 DEF Enter, In, buckets
  <2>3. VisitOK(w, clock) /\ w.at = "global"
    BY <1>0 DEF VisitOK, VisitT, Stage
  <2> HIDE DEF w
  <2>4. VisitsInv' /\ Tracing' = Tracing \ {v}
    BY <1>0, <2>1, <2>2, <2>3, VisitMoves DEF w
  <2>5. Tracing' = Tracing
    BY <2>2, <2>4 DEF Tracing
  <2> QED BY <1>0, <2>2, <2>4, <2>5, LanesRest, MapsRest DEF LInv
<1>2. ASSUME BodyEnds(v) PROVE LInv'
  <2>1. /\ visit[v].at = "respond" /\ visit' = [visit EXCEPT ![v] = NoVisit]
        /\ UNCHANGED <<clock, sources, owners, lanes, orphans>>
    BY <1>2 DEF BodyEnds, In, buckets
  <2>2. VisitOK(NoVisit, clock) /\ NoVisit.at = "idle"
    BY <1>0 DEF VisitOK, VisitT, Stage, NoVisit
  <2>3. VisitsInv' /\ Tracing' = Tracing \ {v}
    BY <1>0, <2>1, <2>2, VisitMoves
  <2>4. Tracing' = Tracing
    BY <2>1, <2>3 DEF Tracing
  <2> QED BY <1>0, <2>1, <2>3, <2>4, LanesRest, MapsRest DEF LInv
<1>3. ASSUME NEW stage \in Stage \ {"idle", "tracing"}, Goes(v, stage),
             visit[v].at \notin {"idle", "tracing"}, UNCHANGED <<clock, lanes, orphans>>
      PROVE  VisitsInv' /\ LanesInv'
  <2>1. VisitsInv' /\ Tracing' = Tracing \ {v}
    BY <1>0, <1>3, GoesMoves
  <2>2. Tracing' = Tracing
    BY <1>3, <2>1 DEF Tracing
  <2> QED BY <1>0, <1>3, <2>1, <2>2, LanesRest
<1>4. ASSUME ChargeGlobal(v) PROVE LInv'
  <2>1. /\ visit[v].at \notin {"idle", "tracing"}
        /\ UNCHANGED <<clock, lanes, orphans, sources, owners>>
        /\ \E stage \in {"egress source", "trace", "source", "respond"} : Goes(v, stage)
    BY <1>4 DEF ChargeGlobal, In
  <2>2. VisitsInv' /\ LanesInv'
    BY <1>3, <2>1 DEF Stage
  <2> QED BY <1>0, <2>1, <2>2, MapsRest DEF LInv
<1>5. ASSUME Handle(v) \/ HandlerFails(v) PROVE LInv'
  <2>1. /\ visit[v].at \notin {"idle", "tracing"}
        /\ UNCHANGED <<clock, lanes, orphans, sources, owners>>
        /\ \E stage \in {"egress global", "respond"} : Goes(v, stage)
    BY <1>5 DEF Handle, HandlerFails, In, buckets
  <2>2. VisitsInv' /\ LanesInv'
    BY <1>3, <2>1 DEF Stage
  <2> QED BY <1>0, <2>1, <2>2, MapsRest DEF LInv
<1>6. ASSUME visit[v].at # "idle"
      PROVE  /\ visit[v].source \in Source /\ visit[v].owner \in Owner
             /\ visit[v].seen \in Nat /\ visit[v].seen <= clock
  <2>1. VisitOK(visit[v], clock)
    BY <1>0 DEF VisitsInv
  <2> QED BY <1>6, <2>1 DEF VisitOK, VisitT
<1>7. ASSUME ChargeSource(v) PROVE LInv'
  <2>1. /\ visit[v].at \in {"source", "egress source"}
        /\ UNCHANGED <<clock, lanes, orphans, owners>>
        /\ \E stage \in {"egress owner", "owner", "trace", "respond"} : Goes(v, stage)
        /\ \E n \in {0, 1} : sources' = ChargeKey(sources, visit[v].source, visit[v].seen,
                                                  n, SourceLimits)
    BY <1>7 DEF ChargeSource, In
  <2>2. VisitsInv' /\ LanesInv'
    BY <1>3, <2>1 DEF Stage
  <2>3. MapOK(sources', Source)
    BY <1>0, <1>6, <2>1, ChargeKeyOK DEF MapsInv
  <2>4. MapsInv'
    BY <1>0, <2>1, <2>3 DEF MapsInv
  <2> QED BY <2>2, <2>4 DEF LInv
<1>8. ASSUME ChargeOwner(v) PROVE LInv'
  <2>1. /\ visit[v].at \in {"owner", "egress owner"}
        /\ UNCHANGED <<clock, lanes, orphans, sources>>
        /\ \E stage \in {"trace", "respond"} : Goes(v, stage)
        /\ \E n \in {0, 1} : owners' = ChargeKey(owners, visit[v].owner, visit[v].seen,
                                                 n, OwnerLimits)
    BY <1>8 DEF ChargeOwner, In
  <2>2. VisitsInv' /\ LanesInv'
    BY <1>3, <2>1 DEF Stage
  <2>3. MapOK(owners', Owner)
    BY <1>0, <1>6, <2>1, ChargeKeyOK DEF MapsInv
  <2>4. MapsInv'
    BY <1>0, <2>1, <2>3 DEF MapsInv
  <2> QED BY <2>2, <2>4 DEF LInv
<1>9. ASSUME BeginTrace(v) PROVE LInv'
  <2>1. visit[v].at = "trace" /\ UNCHANGED <<clock, sources, owners, orphans>>
    BY <1>9 DEF BeginTrace, In, buckets
  <2>2. CASE lanes > 0 /\ lanes' = lanes - 1 /\ Goes(v, "tracing")
    <3>1. VisitsInv' /\ Tracing' = Tracing \cup {v}
      BY <1>0, <2>1, <2>2, GoesMoves DEF Stage
    <3>2. v \notin Tracing
      BY <2>1 DEF Tracing
    <3> QED BY <1>0, <2>1, <2>2, <3>1, <3>2, LanesMove, MapsRest DEF LInv
  <2>3. CASE lanes' = lanes /\ Goes(v, "respond")
    BY <1>0, <1>3, <2>1, <2>3, MapsRest DEF LInv, Stage
  <2> QED BY <1>9, <2>2, <2>3 DEF BeginTrace
<1>10. ASSUME TraceEnds(v) \/ TraceTimeout(v) PROVE LInv'
  <2>1. /\ visit[v].at = "tracing" /\ UNCHANGED <<clock, sources, owners>>
        /\ Goes(v, "respond") \/ Goes(v, "handle")
        /\ \/ lanes' = lanes + 1 /\ orphans' = orphans
           \/ lanes' = lanes /\ orphans' = orphans + 1
    BY <1>10 DEF TraceEnds, TraceTimeout, In, buckets
  <2>2. VisitsInv' /\ Tracing' = Tracing \ {v}
    <3>1. PICK stage \in Stage \ {"idle", "tracing"} : Goes(v, stage)
      BY <2>1 DEF Stage
    <3>2. visit[v].at # "idle" /\ clock' = clock
      BY <2>1
    <3> QED BY <1>0, <3>1, <3>2, GoesMoves
  <2>3. v \in Tracing
    BY <2>1 DEF Tracing
  <2>4. ASSUME lanes' = lanes + 1, orphans' = orphans PROVE LanesInv'
    BY <1>0, <2>2, <2>3, <2>4, LanesMove
  <2>5. ASSUME lanes' = lanes, orphans' = orphans + 1 PROVE LanesInv'
    BY <1>0, <2>2, <2>3, <2>5, LanesMove
  <2>6. LanesInv'
    BY <2>1, <2>4, <2>5
  <2> QED BY <1>0, <2>1, <2>2, <2>6, MapsRest DEF LInv
<1> QED BY <1>1, <1>2, <1>4, <1>5, <1>7, <1>8, <1>9, <1>10

LEMMA NextLInv == LInv /\ [LimitsNext]_limitVars => LInv'
<1> SUFFICES ASSUME LInv, [LimitsNext]_limitVars PROVE LInv'
  OBVIOUS
<1>0. VisitsInv /\ LanesInv /\ MapsInv /\ clock \in Nat
  BY DEF LInv, VisitsInv
<1>1. CASE UNCHANGED limitVars
  <2>1. UNCHANGED <<clock, sources, owners, lanes, orphans, visit>>
    BY <1>1 DEF limitVars, buckets
  <2>2. VisitsInv' /\ Tracing' = Tracing
    BY <1>0, <2>1 DEF VisitsInv, Tracing
  <2> QED BY <1>0, <2>1, <2>2, LanesRest, MapsRest DEF LInv
<1>2. CASE OrphanEnds
  <2>1. /\ orphans > 0 /\ orphans' = orphans - 1 /\ lanes' = lanes + 1
        /\ UNCHANGED <<clock, sources, owners, visit>>
    BY <1>2 DEF OrphanEnds, buckets
  <2>2. VisitsInv' /\ Tracing' = Tracing
    BY <1>0, <2>1 DEF VisitsInv, Tracing
  <2>3. LanesInv'
    <3>1. /\ lanes \in Nat /\ orphans \in Nat /\ IsFiniteSet(Tracing)
          /\ lanes + Cardinality(Tracing) + orphans = Lanes
      BY <1>0 DEF LanesInv
    <3>2. Cardinality(Tracing) \in Nat
      BY <3>1, FS_CardinalityType
    <3>3. IsFiniteSet(Tracing') /\ Cardinality(Tracing') = Cardinality(Tracing)
      BY <2>2, <3>1
    <3> QED BY <2>1, <3>1, <3>2, <3>3 DEF LanesInv
  <2> QED BY <1>0, <2>1, <2>2, <2>3, MapsRest DEF LInv
<1>3. CASE TimePasses
  <2>1. clock' = clock + 1 /\ UNCHANGED <<sources, owners, lanes, orphans, visit>>
    BY <1>3 DEF TimePasses, buckets
  <2>2. \A u \in Visit : VisitOK(visit[u], clock + 1)
    <3>1. SUFFICES ASSUME NEW u \in Visit PROVE VisitOK(visit[u], clock + 1)
      OBVIOUS
    <3>2. VisitOK(visit[u], clock) /\ visit[u].seen \in Nat
      BY <1>0 DEF VisitsInv, VisitOK, VisitT
    <3> QED BY <1>0, <3>2 DEF VisitOK
  <2>3. VisitsInv' /\ Tracing' = Tracing
    BY <1>0, <2>1, <2>2 DEF VisitsInv, Tracing
  <2>4. MapsInv'
    BY <1>0, <2>1, MapsRest
  <2> QED BY <1>0, <2>1, <2>3, <2>4, LanesRest DEF LInv
<1> QED BY <1>1, <1>2, <1>3, LimitsStep DEF LimitsNext

\* The lanes of the trace capture and the maps of budgets stay consistent.
THEOREM LimitsInvariant == LimitsSpec => []LInv
BY InitLInv, NextLInv, PTL DEF LimitsSpec

\* Captures that outlive their request keep their lane, so no more of them run
\* than there are lanes (run_trace_blocking).
THEOREM CapturesStayBounded == LimitsSpec => []CapturesBounded
<1>1. LInv => CapturesBounded
  <2> SUFFICES ASSUME LInv PROVE CapturesBounded
    OBVIOUS
  <2>1. /\ lanes \in Nat /\ orphans \in Nat /\ IsFiniteSet(Tracing)
        /\ lanes + Cardinality(Tracing) + orphans = Lanes
    BY DEF LInv, LanesInv
  <2>2. Cardinality(Tracing) \in Nat
    BY <2>1, FS_CardinalityType
  <2>3. Cardinality(Tracing) + orphans <= Lanes
    BY <2>1, <2>2, LimitsFacts
  <2> QED BY <2>3 DEF CapturesBounded, Tracing, In
<1> QED BY <1>1, LimitsInvariant, PTL

\* A full map turns newcomers away only while each of its keys has started a
\* window less than two windows ago, whatever keys and times it was charged with
\* (make_room, note_insert).
THEOREM RoomAlwaysComesBack == LimitsSpec => []RoomComesBack
<1>1. ASSUME NEW K, NEW m, MapOK(m, K), NEW k \in K, NEW t \in Nat,
             ~ HasRoom(MakeRoom(m, k, t), k), NEW j \in Keys(MakeRoom(m, k, t))
      PROVE  t - MakeRoom(m, k, t).at[j].start < 2 * Span
  <2>1. CASE MakeRoom(m, k, t) = Swept(m, t)
    <3>1. t - Swept(m, t).at[j].start < Span /\ Swept(m, t) \in MapT(K)
      BY <1>1, <2>1, SweptOK DEF MapOK
    <3>2. j \in K /\ Swept(m, t).at[j] \in BucketT
      BY <1>1, <2>1, <3>1 DEF MapT, Keys
    <3>3. Swept(m, t).at[j].start \in Int
      BY <3>2 DEF BucketT
    <3> QED BY <2>1, <3>1, <3>3, LimitsFacts
  <2>2. CASE MakeRoom(m, k, t) = m /\ ~ (m.cleanup # -1 /\ t >= m.cleanup)
    <3>1. /\ m \in MapT(K) /\ j \in Keys(m)
          /\ m.cleanup # -1 /\ m.cleanup < m.at[j].start + 2 * Span
      BY <1>1, <2>2 DEF MapOK, ScanInTime
    <3>2. j \in K /\ m.at[j] \in BucketT /\ m.cleanup \in Int
      BY <3>1 DEF MapT, Keys
    <3>3. m.at[j].start \in Int
      BY <3>2 DEF BucketT
    <3> QED BY <2>2, <3>1, <3>2, <3>3, LimitsFacts
  <2>3. MakeRoom(m, k, t) = m => ~ HasRoom(m, k)
    BY <1>1
  <2> QED BY <2>1, <2>2, <2>3 DEF MakeRoom
<1>2. LInv => RoomComesBack
  <2> SUFFICES ASSUME LInv PROVE RoomComesBack
    OBVIOUS
  <2>1. /\ MapOK(sources, Source) /\ DOMAIN sources.at = Source
        /\ MapOK(owners, Owner) /\ DOMAIN owners.at = Owner
        /\ 0 .. clock + 2 * Span \subseteq Nat
    BY LimitsFacts DEF LInv, MapsInv, MapOK, MapT, VisitsInv
  <2> QED BY <1>1, <2>1 DEF RoomComesBack
<1> QED BY <1>2, LimitsInvariant, PTL

-----------------------------------------------------------------------------
(***************************************************************************)
(* What a source is granted.  Recent adds up the youngest k ages of a      *)
(* source's history; the invariant bounds it by the budget in force and    *)
(* the one before it.                                                      *)
(***************************************************************************)
History == [0 .. Span - 1 -> Nat]

Youngest(k) == 0 .. (IF k < Span THEN k ELSE Span) - 1

Recent(h, k) == SumOver(h, Youngest(k))

LEMMA RecentFacts ==
    ASSUME NEW h \in History, NEW k \in Int
    PROVE  /\ Recent(h, k) \in Nat /\ IsFiniteSet(Youngest(k)) /\ Maps(h, Youngest(k))
           /\ k <= 0 => Recent(h, k) = 0
           /\ \A j \in Int : j <= k => Recent(h, j) <= Recent(h, k)
<1>1. ASSUME NEW j \in Int
      PROVE  IsFiniteSet(Youngest(j)) /\ Youngest(j) \in SUBSET (0 .. Span - 1)
  <2> DEFINE n == (IF j < Span THEN j ELSE Span) - 1
  <2>1. n \in Int /\ n <= Span - 1
    BY LimitsFacts
  <2> HIDE DEF n
  <2>2. IsFiniteSet(0 .. n) /\ 0 .. n \in SUBSET (0 .. Span - 1)
    <3>1. IsFiniteSet(0 .. n)
      BY <2>1, FS_Interval
    <3>2. 0 .. n \in SUBSET (0 .. Span - 1)
      BY <2>1, LimitsFacts
    <3> QED BY <3>1, <3>2
  <2>3. Youngest(j) = 0 .. n
    BY DEF Youngest, n
  <2> QED BY <2>2, <2>3
<1>2. ASSUME NEW j \in Int PROVE Maps(h, Youngest(j)) /\ Recent(h, j) \in Nat
  <2>1. Maps(h, Youngest(j))
    BY <1>1 DEF Maps, History
  <2>2. SumOver(h, Youngest(j)) \in Nat
    BY <1>1, <2>1, SumType
  <2> QED BY <2>1, <2>2 DEF Recent
<1>3. ASSUME k <= 0 PROVE Recent(h, k) = 0
  <2>1. Youngest(k) = {}
    BY <1>3, LimitsFacts DEF Youngest
  <2> QED BY <2>1, SumEmpty DEF Recent
<1>4. ASSUME NEW j \in Int, j <= k PROVE Recent(h, j) <= Recent(h, k)
  <2>1. Youngest(j) \in SUBSET Youngest(k)
    BY <1>4, LimitsFacts DEF Youngest
  <2>2. Recent(h, k) = Recent(h, j) + SumOver(h, Youngest(k) \ Youngest(j))
    <3>1. SumOver(h, Youngest(k))
            = SumOver(h, Youngest(j)) + SumOver(h, Youngest(k) \ Youngest(j))
      BY <1>1, <1>2, <2>1, SumSplit
    <3> QED BY <3>1 DEF Recent
  <2>3. SumOver(h, Youngest(k) \ Youngest(j)) \in Nat
    <3>1. IsFiniteSet(Youngest(k) \ Youngest(j)) /\ Maps(h, Youngest(k) \ Youngest(j))
      BY <1>1, <1>2, FS_Difference DEF Maps
    <3> QED BY <3>1, SumType
  <2> QED BY <1>2, <2>2, <2>3
<1> QED BY <1>1, <1>2, <1>3, <1>4

\* A grant is the youngest entry.
LEMMA RecentGrant ==
    ASSUME NEW h \in History, NEW g \in History, NEW n \in Nat, NEW k \in Int,
           g[0] = h[0] + n, \A age \in 1 .. Span - 1 : g[age] = h[age]
    PROVE  Recent(g, k) <= Recent(h, k) + n
<1>1. /\ Recent(h, k) \in Nat /\ IsFiniteSet(Youngest(k)) /\ Maps(h, Youngest(k))
      /\ Maps(g, Youngest(k)) /\ Recent(g, k) \in Nat
  BY RecentFacts
<1>2. 0 \in 0 .. Span - 1 /\ h[0] \in Nat /\ g[0] = h[0] + n
  BY LimitsFacts DEF History
<1>3. \A age \in Youngest(k) \ {0} : g[age] = h[age]
  BY LimitsFacts DEF Youngest, History
<1>4. CASE 0 \in Youngest(k)
  <2>1. SumOver(g, Youngest(k)) = SumOver(h, Youngest(k)) - h[0] + g[0]
    <3> DEFINE Y == Youngest(k)
    <3>1. /\ IsFiniteSet(Y) /\ Maps(h, Y) /\ Maps(g, Y) /\ 0 \in Y
          /\ \A age \in Y \ {0} : g[age] = h[age]
      BY <1>1, <1>3, <1>4
    <3> HIDE DEF Y
    <3>2. SumOver(g, Y) = SumOver(h, Y) - h[0] + g[0]
      BY ONLY <3>1, SumChange
    <3> QED BY <3>2 DEF Y
  <2>2. SumOver(h, Youngest(k)) \in Nat
    BY <1>1 DEF Recent
  <2>3. SumOver(g, Youngest(k)) = SumOver(h, Youngest(k)) + n
    BY <1>2, <2>1, <2>2
  <2> QED BY <1>1, <2>3 DEF Recent
<1>5. CASE 0 \notin Youngest(k)
  <2>1. \A age \in Youngest(k) : g[age] = h[age]
    BY <1>3, <1>5
  <2>2. Recent(g, k) = Recent(h, k)
    <3>1. SumOver(g, Youngest(k)) = SumOver(h, Youngest(k))
      BY <1>1, <2>1, SumSame
    <3> QED BY <3>1 DEF Recent
  <2> QED BY <1>1, <2>2
<1> QED BY <1>4, <1>5

LEMMA ByCounting ==
    ASSUME NEW T \in SUBSET Nat, 0 \in T, \A k \in T : k + 1 \in T
    PROVE  T = Nat
<1>1. SUFFICES ASSUME Nat \ T # {} PROVE FALSE
  OBVIOUS
<1>2. PICK n \in Nat \ T : \A m \in Nat \ T : n <= m
  BY <1>1, LeastNumber
<1>3. n - 1 \in Nat /\ n - 1 \in T
  <2>1. n # 0
    BY <1>2
  <2>2. n - 1 \in Nat
    BY <2>1
  <2> QED BY <1>2, <2>2
<1>4. (n - 1) + 1 \in T /\ (n - 1) + 1 = n
  BY <1>3
<1> QED BY <1>2, <1>4

\* Every entry is one unit older; the oldest one is forgotten.
LEMMA RecentOlder ==
    ASSUME NEW h \in History, NEW k \in Int
    PROVE  /\ [age \in 0 .. Span - 1 |-> IF age = 0 THEN 0 ELSE h[age - 1]] \in History
           /\ Recent([age \in 0 .. Span - 1 |-> IF age = 0 THEN 0 ELSE h[age - 1]], k + 1)
                <= Recent(h, k)
<1> DEFINE g == [age \in 0 .. Span - 1 |-> IF age = 0 THEN 0 ELSE h[age - 1]]
<1>1. g \in History
  BY LimitsFacts DEF History
<1>2. /\ \A age \in 0 .. Span - 1 : g[age] = IF age = 0 THEN 0 ELSE h[age - 1]
      /\ \A age \in 0 .. Span - 1 : g[age] \in Nat /\ h[age] \in Nat
  BY <1>1 DEF History
<1> HIDE DEF g
<1> DEFINE T == {n \in Nat : n < Span => SumOver(g, 0 .. n) = SumOver(h, 0 .. n - 1)}
<1>3. 0 \in T
  <2>1. 0 .. 0 = {} \cup {0} /\ 0 .. 0 - 1 = {}
    OBVIOUS
  <2>2. g[0] = 0 /\ Maps(g, {} \cup {0})
    BY <1>2, LimitsFacts DEF Maps
  <2>3. SumOver(g, {} \cup {0}) = SumOver(g, {}) + g[0]
    BY <2>2, SumAdd, FS_EmptySet
  <2>4. SumOver(g, {}) = 0 /\ SumOver(h, {}) = 0
    BY SumEmpty
  <2>5. SumOver(g, 0 .. 0) = SumOver(h, 0 .. 0 - 1)
    BY <2>1, <2>2, <2>3, <2>4
  <2> QED BY <2>5
<1>4. ASSUME NEW n \in T PROVE n + 1 \in T
  <2>1. SUFFICES ASSUME n + 1 < Span
                 PROVE  SumOver(g, 0 .. n + 1) = SumOver(h, 0 .. (n + 1) - 1)
    OBVIOUS
  <2>2. n \in Nat /\ n < Span /\ SumOver(g, 0 .. n) = SumOver(h, 0 .. n - 1)
    BY <2>1, LimitsFacts
  <2> HIDE DEF T
  <2>3. /\ 0 .. n + 1 = (0 .. n) \cup {n + 1} /\ 0 .. (n + 1) - 1 = (0 .. n - 1) \cup {n}
        /\ n + 1 \notin 0 .. n /\ n \notin 0 .. n - 1
    BY <2>2
  <2>4. IsFiniteSet(0 .. n) /\ IsFiniteSet(0 .. n - 1)
    BY <2>2, FS_Interval
  <2>5. Maps(g, (0 .. n) \cup {n + 1}) /\ Maps(h, (0 .. n - 1) \cup {n})
    BY <1>2, <2>1, <2>2, LimitsFacts DEF Maps
  <2>6. SumOver(g, (0 .. n) \cup {n + 1}) = SumOver(g, 0 .. n) + g[n + 1]
    <3> DEFINE X == 0 .. n
               y == n + 1
    <3>1. IsFiniteSet(X) /\ y \notin X /\ Maps(g, X \cup {y})
      BY <2>3, <2>4, <2>5
    <3> HIDE DEF X, y
    <3>2. SumOver(g, X \cup {y}) = SumOver(g, X) + g[y]
      BY ONLY <3>1, SumAdd
    <3> QED BY <3>2 DEF X, y
  <2>7. SumOver(h, (0 .. n - 1) \cup {n}) = SumOver(h, 0 .. n - 1) + h[n]
    BY <2>3, <2>4, <2>5, SumAdd
  <2>8. g[n + 1] = h[n]
    <3>1. n + 1 \in 0 .. Span - 1 /\ n + 1 # 0 /\ (n + 1) - 1 = n
      BY <2>1, <2>2, LimitsFacts
    <3> QED BY <1>2, <3>1
  <2> QED BY <2>2, <2>3, <2>6, <2>7, <2>8
<1>5. T = Nat
  <2>1. T \in SUBSET Nat
    OBVIOUS
  <2> HIDE DEF T
  <2> QED BY <1>3, <1>4, <2>1, ByCounting
<1>6. Recent(g, k + 1) <= Recent(h, k)
  <2>1. CASE k < 0
    BY <1>1, <2>1, RecentFacts
  <2>2. CASE k >= 0 /\ k < Span
    <3>1. CASE k + 1 <= Span /\ k < Span
      <4>1. Youngest(k + 1) = 0 .. k /\ Youngest(k) = 0 .. k - 1
        BY <2>2, <3>1, LimitsFacts DEF Youngest
      <4>2. SumOver(g, 0 .. k) = SumOver(h, 0 .. k - 1)
        BY <1>5, <2>2
      <4>3. Recent(g, k + 1) = Recent(h, k)
        BY <4>1, <4>2 DEF Recent
      <4> QED BY <4>3, RecentFacts
    <3> QED BY <2>2, <3>1, LimitsFacts
  <2>3. CASE k >= Span
    <3>0. PICK n \in Nat : n = Span - 1
      BY LimitsFacts
    <3>1. n < Span
      BY <3>0, LimitsFacts
    <3>2. Youngest(k + 1) = 0 .. n /\ Youngest(n) = 0 .. n - 1
      BY <2>3, <3>0, LimitsFacts DEF Youngest
    <3>3. SumOver(g, 0 .. n) = SumOver(h, 0 .. n - 1)
      BY <1>5, <3>1
    <3>4. Recent(g, k + 1) = Recent(h, n)
      BY <3>2, <3>3 DEF Recent
    <3>5. Recent(h, n) <= Recent(h, k)
      <4>1. n \in Int /\ n <= k
        BY <2>3, <3>0, LimitsFacts
      <4> QED BY <4>1, RecentFacts
    <3> QED BY <3>4, <3>5
  <2> QED BY <2>1, <2>2, <2>3, LimitsFacts
<1> QED BY <1>1, <1>6 DEF g

(***************************************************************************)
(* A source without a budget was granted at most one in the last Span less *)
(* one wait; one with a budget was granted no more than its charges since  *)
(* it started, one wait aside, and one budget more in the window before.   *)
(***************************************************************************)
Charged(h, b, c) ==
    /\ b \in BucketT /\ b.start \in Nat /\ b.start <= c
    /\ b.requests <= SourceLimits.requests
    /\ Recent(h, c - b.start - MaxStall) <= b.requests
    /\ Recent(h, c - b.start + Span - 2 * MaxStall) <= SourceLimits.requests + b.requests

Unbudgeted(h) == Recent(h, Span - MaxStall) <= SourceLimits.requests

Budgeted(h, b, c) == (b = NoBucket /\ Unbudgeted(h)) \/ Charged(h, b, c)

\* No request waits longer for the lock of a map than a wait may last.
WaitsInv ==
    \A v \in Visit : visit[v].at \in Waiting => clock - visit[v].seen <= MaxStall

GrantsInv ==
    /\ admitted \in [Source -> History]
    /\ SourceLimits.requests # 0 =>
         \A s \in Source : Budgeted(admitted[s], sources.at[s], clock)

LEMMA FreshBudget ==
    ASSUME NEW h \in History, NEW c \in Nat, NEW t \in Nat, t <= c, c - t <= MaxStall,
           Unbudgeted(h)
    PROVE  Charged(h, Fresh(t), c)
<1> DEFINE b == Fresh(t)
<1>1. b \in BucketT /\ b.start = t /\ b.requests = 0
  BY DEF Fresh, BucketT
<1> HIDE DEF b
<1>2. SourceLimits.requests \in Nat
  BY LimitsFacts
<1>3. Recent(h, c - b.start - MaxStall) = 0
  <2>1. c - b.start - MaxStall \in Int /\ c - b.start - MaxStall <= 0
    BY <1>1, LimitsFacts
  <2> QED BY <2>1, RecentFacts
<1>4. Recent(h, c - b.start + Span - 2 * MaxStall) <= SourceLimits.requests
  <2> DEFINE i == c - b.start + Span - 2 * MaxStall
             j == Span - MaxStall
  <2>1. i \in Int /\ j \in Int /\ i <= j
    BY <1>1, LimitsFacts
  <2>2. Recent(h, j) <= SourceLimits.requests
    BY DEF Unbudgeted
  <2> HIDE DEF i, j
  <2>3. Recent(h, i) <= Recent(h, j) /\ Recent(h, i) \in Nat /\ Recent(h, j) \in Nat
    BY <2>1, RecentFacts
  <2>4. Recent(h, i) <= SourceLimits.requests
    BY <1>2, <2>2, <2>3
  <2> QED BY <2>4 DEF i
<1>5. Charged(h, b, c)
  BY <1>1, <1>2, <1>3, <1>4 DEF Charged
<1> QED BY <1>5 DEF b

\* A budget whose window is over at the time some request read is behind all
\* of its charges.
LEMMA EndedBudget ==
    ASSUME NEW h \in History, NEW b, NEW c \in Nat, NEW t \in Nat, t <= c,
           Charged(h, b, c), ~ Live(b, t)
    PROVE  Unbudgeted(h)
<1> DEFINE i == Span - MaxStall
           j == c - b.start - MaxStall
<1>1. b.start \in Nat /\ b.requests \in Nat /\ b.requests <= SourceLimits.requests
  BY DEF Charged, BucketT
<1>2. i \in Int /\ j \in Int /\ i <= j
  BY <1>1, LimitsFacts DEF Live
<1>3. Recent(h, j) <= b.requests
  BY DEF Charged
<1> HIDE DEF i, j
<1>4. Recent(h, i) <= Recent(h, j) /\ Recent(h, i) \in Nat /\ Recent(h, j) \in Nat
  BY <1>2, RecentFacts
<1>5. Recent(h, i) <= SourceLimits.requests
  BY <1>1, <1>3, <1>4, LimitsFacts
<1> QED BY <1>5 DEF Unbudgeted, i

LEMMA RenewedBudget ==
    ASSUME NEW h \in History, NEW b, NEW c \in Nat, NEW t \in Nat, t <= c, c - t <= MaxStall,
           Charged(h, b, c)
    PROVE  Charged(h, Renewed(b, t), c)
<1>1. CASE Live(b, t)
  BY <1>1 DEF Renewed
<1>2. CASE ~ Live(b, t)
  <2>1. Charged(h, Fresh(t), c)
    BY <1>2, EndedBudget, FreshBudget
  <2> QED BY <1>2, <2>1 DEF Renewed
<1> QED BY <1>1, <1>2

\* A grant counts on both sides.
LEMMA GrantedBudget ==
    ASSUME NEW h \in History, NEW g \in History, NEW n \in Nat, NEW b, NEW c \in Nat,
           g[0] = h[0] + n, \A age \in 1 .. Span - 1 : g[age] = h[age],
           Charged(h, b, c), b.requests + n <= SourceLimits.requests
    PROVE  Charged(g, [b EXCEPT !.requests = @ + n, !.bytes = @ + 1], c)
<1> DEFINE d == [b EXCEPT !.requests = @ + n, !.bytes = @ + 1]
           i == c - b.start - MaxStall
           j == c - b.start + Span - 2 * MaxStall
<1>1. /\ b \in BucketT /\ b.start \in Nat /\ b.start <= c /\ b.requests \in Nat
      /\ Recent(h, i) <= b.requests /\ Recent(h, j) <= SourceLimits.requests + b.requests
  BY DEF Charged, BucketT
<1>2. d \in BucketT /\ d.start = b.start /\ d.requests = b.requests + n
  <2>1. b \in BucketT /\ b.requests + n \in Nat /\ b.bytes + 1 \in Nat
    BY <1>1 DEF BucketT
  <2> QED BY ONLY <2>1 DEF BucketT
<1>3. i \in Int /\ j \in Int /\ SourceLimits.requests \in Nat
  BY <1>1, LimitsFacts
<1>4. i = c - d.start - MaxStall /\ j = c - d.start + Span - 2 * MaxStall
  BY <1>2
<1> HIDE DEF d, i, j
<1>5. \A k \in Int : /\ Recent(g, k) <= Recent(h, k) + n
                    /\ Recent(g, k) \in Nat /\ Recent(h, k) \in Nat
  BY RecentGrant, RecentFacts
<1>6. Recent(g, i) <= d.requests /\ Recent(g, j) <= SourceLimits.requests + d.requests
  <2>1. Recent(g, i) <= Recent(h, i) + n /\ Recent(g, i) \in Nat /\ Recent(h, i) \in Nat
    BY <1>3, <1>5
  <2>2. Recent(g, j) <= Recent(h, j) + n /\ Recent(g, j) \in Nat /\ Recent(h, j) \in Nat
    BY <1>3, <1>5
  <2> QED BY <1>1, <1>2, <1>3, <2>1, <2>2
<1>7. Charged(g, d, c)
  BY <1>1, <1>2, <1>4, <1>6 DEF Charged
<1> QED BY <1>7 DEF d

\* Time passes for the budget and for the history alike.
LEMMA OlderBudget ==
    ASSUME NEW h \in History, NEW g \in History, NEW b, NEW c \in Nat,
           \A k \in Int : Recent(g, k + 1) <= Recent(h, k),
           Budgeted(h, b, c)
    PROVE  Budgeted(g, b, c + 1)
<1>0. /\ SourceLimits.requests \in Nat
      /\ \A k \in Int : Recent(g, k) \in Nat /\ Recent(h, k) \in Nat
  BY LimitsFacts, RecentFacts
<1>1. CASE b = NoBucket /\ Unbudgeted(h)
  <2> DEFINE i == Span - MaxStall - 1
             j == Span - MaxStall
  <2>1. i \in Int /\ j \in Int /\ i <= j /\ i + 1 = j
    BY LimitsFacts
  <2>2. Recent(h, j) <= SourceLimits.requests
    BY <1>1 DEF Unbudgeted
  <2> HIDE DEF i, j
  <2>3. Recent(g, j) <= Recent(h, i) /\ Recent(h, i) <= Recent(h, j)
    BY <2>1, RecentFacts
  <2>4. Recent(g, j) <= SourceLimits.requests
    BY <1>0, <2>1, <2>2, <2>3
  <2> QED BY <1>1, <2>4 DEF Budgeted, Unbudgeted, j
<1>2. CASE Charged(h, b, c)
  <2> DEFINE i == c - b.start - MaxStall
             j == c - b.start + Span - 2 * MaxStall
  <2>1. /\ b \in BucketT /\ b.start \in Nat /\ b.start <= c /\ b.requests \in Nat
        /\ b.requests <= SourceLimits.requests
        /\ Recent(h, i) <= b.requests /\ Recent(h, j) <= SourceLimits.requests + b.requests
    BY <1>2 DEF Charged, BucketT
  <2>2. i \in Int /\ j \in Int
    BY <2>1, LimitsFacts
  <2>3. i + 1 = (c + 1) - b.start - MaxStall /\ j + 1 = (c + 1) - b.start + Span - 2 * MaxStall
    <3>1. b.start \in Int /\ c \in Int /\ Span \in Int /\ MaxStall \in Int
      BY <2>1, LimitsFacts
    <3> QED BY ONLY <3>1
  <2> HIDE DEF i, j
  <2>4. Recent(g, i + 1) <= Recent(h, i) /\ Recent(g, j + 1) <= Recent(h, j)
    BY <2>2
  <2>5. i + 1 \in Int /\ j + 1 \in Int
    BY <2>2
  <2>6. /\ Recent(g, i + 1) \in Nat /\ Recent(h, i) \in Nat
        /\ Recent(g, j + 1) \in Nat /\ Recent(h, j) \in Nat
    BY <1>0, <2>2, <2>5
  <2>7. Recent(g, i + 1) <= b.requests /\ Recent(g, j + 1) <= SourceLimits.requests + b.requests
    BY <1>0, <2>1, <2>4, <2>6
  <2>8. b.start <= c + 1
    BY <2>1
  <2>9. Charged(g, b, c + 1)
    BY <2>1, <2>3, <2>7, <2>8 DEF Charged
  <2> QED BY <2>9 DEF Budgeted
<1> QED BY <1>1, <1>2 DEF Budgeted

\* What a grant of n does to the history of a source.
Granted(h, g, n) == g[0] = h[0] + n /\ \A age \in 1 .. Span - 1 : g[age] = h[age]

\* A charge: granted and counted, or refused.
LEMMA ChargedBudget ==
    ASSUME NEW h \in History, NEW g \in History, NEW n \in Nat, NEW b, NEW c \in Nat,
           NEW t \in Nat, t <= c, c - t <= MaxStall, SourceLimits.requests # 0,
           Charged(h, b, c),
           IF Within(Added(b, t, n), SourceLimits) THEN Granted(h, g, n) ELSE g = h
    PROVE  Charged(g, ChargeBucket(b, t, n, SourceLimits), c)
<1> DEFINE r == Renewed(b, t)
           d == [r EXCEPT !.requests = @ + n, !.bytes = @ + 1]
<1>1. Charged(h, r, c)
  BY RenewedBudget
<1>2. Added(b, t, n) = d
  BY DEF Added
<1> HIDE DEF r
<1>3. CASE Within(d, SourceLimits)
  <2>1. r \in BucketT /\ d.requests = r.requests + n
    BY <1>1 DEF Charged, BucketT
  <2>2. r.requests + n <= SourceLimits.requests
    <3>1. r.requests \in Nat /\ SourceLimits.requests \in Nat
      BY <2>1, LimitsFacts DEF BucketT
    <3>2. ~(r.requests + n > SourceLimits.requests)
      BY <1>3, <2>1 DEF Within, Over
    <3> QED BY <3>1, <3>2
  <2>3. Granted(h, g, n)
    BY <1>2, <1>3
  <2>4. Charged(g, d, c)
    BY <1>1, <2>2, <2>3, GrantedBudget DEF Granted
  <2> QED BY <1>2, <1>3, <2>4 DEF ChargeBucket
<1>4. CASE ~ Within(d, SourceLimits)
  BY <1>1, <1>2, <1>4 DEF ChargeBucket, r
<1> QED BY <1>3, <1>4

LEMMA RealBucket ==
    ASSUME NEW h, NEW b, NEW c, Charged(h, b, c) PROVE b # NoBucket
BY DEF Charged, NoBucket

\* A scan drops only budgets whose window is over.
LEMMA SweptBudgets ==
    ASSUME NEW a \in [Source -> History], NEW m, NEW c \in Nat, NEW t \in Nat, t <= c,
           DOMAIN m.at = Source, \A s \in Source : Budgeted(a[s], m.at[s], c)
    PROVE  \A s \in Source : Budgeted(a[s], Swept(m, t).at[s], c)
<1> SUFFICES ASSUME NEW s \in Source PROVE Budgeted(a[s], Swept(m, t).at[s], c)
  OBVIOUS
<1>1. s \in Keys(m) <=> m.at[s] # NoBucket
  BY DEF Keys
<1>2. Swept(m, t).at[s] = IF s \in Keys(m) /\ Live(m.at[s], t) THEN m.at[s] ELSE NoBucket
  BY DEF Swept
<1>3. CASE s \in Keys(m) /\ ~ Live(m.at[s], t)
  <2>1. Charged(a[s], m.at[s], c)
    BY <1>1, <1>3 DEF Budgeted
  <2>2. Unbudgeted(a[s])
    BY <1>3, <2>1, EndedBudget
  <2> QED BY <1>2, <1>3, <2>2 DEF Budgeted
<1>4. CASE ~(s \in Keys(m) /\ ~ Live(m.at[s], t))
  <2>1. Swept(m, t).at[s] = m.at[s]
    BY <1>1, <1>2, <1>4
  <2> QED BY <2>1
<1> QED BY <1>3, <1>4

\* A charge of n at t, with clock c, to key k of map m takes the grants from a to a2.
Charging(a, a2, m, k, c, t, n) ==
    /\ a \in [Source -> History] /\ a2 \in [Source -> History] /\ k \in Source
    /\ c \in Nat /\ t \in Nat /\ t <= c /\ c - t <= MaxStall /\ n \in {0, 1}
    /\ SourceLimits.requests # 0 /\ MapOK(m, Source)
    /\ \A s \in Source : Budgeted(a[s], m.at[s], c)
    /\ \A s \in Source \ {k} : a2[s] = a[s]
    /\ IF Grants(m, k, t, n, SourceLimits) THEN Granted(a[k], a2[k], n) ELSE a2[k] = a[k]

LEMMA ChargeKeyBudgets ==
    ASSUME NEW a, NEW a2, NEW m, NEW k, NEW c, NEW t, NEW n, Charging(a, a2, m, k, c, t, n)
    PROVE  \A s \in Source : Budgeted(a2[s], ChargeKey(m, k, t, n, SourceLimits).at[s], c)
<1> SUFFICES ASSUME
        a \in [Source -> History], a2 \in [Source -> History], k \in Source,
        c \in Nat, t \in Nat, t <= c, c - t <= MaxStall, n \in {0, 1},
        SourceLimits.requests # 0, MapOK(m, Source),
        \A s \in Source : Budgeted(a[s], m.at[s], c),
        \A s \in Source \ {k} : a2[s] = a[s],
        IF Grants(m, k, t, n, SourceLimits) THEN Granted(a[k], a2[k], n) ELSE a2[k] = a[k]
      PROVE \A s \in Source : Budgeted(a2[s], ChargeKey(m, k, t, n, SourceLimits).at[s], c)
  BY DEF Charging
<1> DEFINE roomy == MakeRoom(m, k, t)
           known == k \in Keys(roomy)
           b == IF known THEN roomy.at[k] ELSE Fresh(t)
           nb == ChargeBucket(b, t, n, SourceLimits)
           after == ChargeKey(m, k, t, n, SourceLimits)
<1>0. MapOK(roomy, Source) /\ DOMAIN roomy.at = Source /\ DOMAIN m.at = Source
  <2>1. MapOK(roomy, Source)
    BY SweptOK DEF MakeRoom
  <2> QED BY <2>1 DEF MapOK, MapT
<1>1. \A s \in Source : Budgeted(a[s], roomy.at[s], c)
  <2>1. \A s \in Source : Budgeted(a[s], Swept(m, t).at[s], c)
    BY <1>0, SweptBudgets
  <2> QED BY <2>1 DEF MakeRoom
<1>2. CASE Unlimited(SourceLimits, n)
  <2>1. n = 0 /\ after = m
    BY <1>2 DEF Unlimited, ChargeKey
  <2>2. Grants(m, k, t, n, SourceLimits)
    BY <1>2 DEF Grants
  <2>3. a2[k] = a[k]
    <3>1. a[k] \in History /\ a2[k] \in History /\ Granted(a[k], a2[k], 0)
      BY <2>1, <2>2
    <3>2. a2[k][0] = a[k][0]
      BY <3>1, LimitsFacts DEF Granted, History
    <3>3. \A age \in 0 .. Span - 1 : a2[k][age] = a[k][age]
      BY <3>1, <3>2, LimitsFacts DEF Granted
    <3>4. /\ a[k] = [age \in 0 .. Span - 1 |-> a[k][age]]
          /\ a2[k] = [age \in 0 .. Span - 1 |-> a2[k][age]]
      BY <3>1 DEF History
    <3> QED BY <3>3, <3>4
  <2> QED BY <2>1, <2>3
<1>3. CASE ~ Unlimited(SourceLimits, n) /\ ~ HasRoom(roomy, k)
  <2>1. after = roomy
    BY <1>3 DEF ChargeKey
  <2>2. ~ Grants(m, k, t, n, SourceLimits)
    BY <1>3 DEF Grants
  <2> QED BY <1>1, <2>1, <2>2
<1>4. CASE ~ Unlimited(SourceLimits, n) /\ HasRoom(roomy, k)
  <2>1. after.at = [roomy.at EXCEPT ![k] = nb]
    BY <1>4 DEF ChargeKey
  <2>2. Grants(m, k, t, n, SourceLimits) <=> Within(Added(b, t, n), SourceLimits)
    BY <1>4 DEF Grants
  <2>3. Charged(a[k], b, c)
    <3>1. CASE known
      BY <1>1, <3>1 DEF Budgeted, Keys
    <3>2. CASE ~known
      <4>1. Unbudgeted(a[k])
        <5>1. roomy.at[k] = NoBucket
          BY <1>0, <3>2 DEF Keys
        <5> QED BY <1>1, <5>1, RealBucket DEF Budgeted
      <4> QED BY <3>2, <4>1, FreshBudget
    <3> QED BY <3>1, <3>2
  <2> HIDE DEF b, roomy
  <2>4. Charged(a2[k], nb, c)
    <3>1. n \in Nat /\ a[k] \in History /\ a2[k] \in History
      OBVIOUS
    <3>2. IF Within(Added(b, t, n), SourceLimits) THEN Granted(a[k], a2[k], n) ELSE a2[k] = a[k]
      BY <2>2
    <3> QED BY <2>3, <3>1, <3>2, ChargedBudget
  <2> HIDE DEF nb, after
  <2>5. after.at[k] = nb /\ \A s \in Source \ {k} : after.at[s] = roomy.at[s]
    BY <1>0, <2>1
  <2>6. \A s \in Source : Budgeted(a2[s], after.at[s], c)
    BY <1>1, <2>4, <2>5 DEF Budgeted
  <2> QED BY <2>6 DEF after
<1> QED BY <1>2, <1>3, <1>4

\* The invariant is kept where the histories, the maps and the clock are.
LEMMA GrantsRest ==
    ASSUME GrantsInv, UNCHANGED <<clock, sources, admitted>> PROVE GrantsInv'
BY DEF GrantsInv

\* A request that goes to a lock reads the clock on the way.
LEMMA WaitsMove ==
    ASSUME LInv, WaitsInv, NEW v \in Visit, NEW w, visit' = [visit EXCEPT ![v] = w],
           w.at \in Waiting => w.seen = clock, clock' = clock
    PROVE  WaitsInv'
<1>1. DOMAIN visit = Visit /\ clock \in Nat
  BY DEF LInv, VisitsInv
<1>2. visit'[v] = w /\ \A u \in Visit \ {v} : visit'[u] = visit[u]
  BY <1>1
<1>3. ASSUME NEW u \in Visit, visit'[u].at \in Waiting
      PROVE  clock - visit'[u].seen <= MaxStall
  <2>1. CASE u = v
    BY <1>1, <1>2, <1>3, <2>1, LimitsFacts
  <2>2. CASE u # v
    BY <1>2, <1>3, <2>2 DEF WaitsInv
  <2> QED BY <2>1, <2>2
<1> QED BY <1>3 DEF WaitsInv

LEMMA WaitsGo ==
    ASSUME LInv, WaitsInv, NEW v \in Visit, NEW stage, Goes(v, stage), clock' = clock
    PROVE  WaitsInv'
<1> DEFINE w == [visit[v] EXCEPT !.at = stage, !.seen = IF stage \in Waiting THEN clock ELSE 0]
<1>1. visit' = [visit EXCEPT ![v] = w]
  <2>1. v \in DOMAIN visit
    BY DEF LInv, VisitsInv
  <2> QED BY <2>1 DEF Goes
<1>2. w.at = stage /\ w.seen = IF stage \in Waiting THEN clock ELSE 0
  <2>1. visit[v] \in VisitT
    BY DEF LInv, VisitsInv, VisitOK
  <2> QED BY <2>1 DEF VisitT
<1> HIDE DEF w
<1> QED BY <1>1, <1>2, WaitsMove

LEMMA ChargeSourceGrants ==
    ASSUME LInv, WaitsInv, GrantsInv, NEW v \in Visit, ChargeSource(v)
    PROVE  GrantsInv'
<1> DEFINE w == visit[v]
           n == IF In(v, "source") THEN 1 ELSE 0
           ok == Grants(sources, w.source, w.seen, n, SourceLimits)
<1>0. /\ w \in VisitT /\ w.seen \in Nat /\ w.seen <= clock /\ clock \in Nat
      /\ w.at # "idle" => w.source \in Source
  BY DEF LInv, VisitsInv, VisitOK, VisitT
<1>1. /\ In(v, "source") \/ In(v, "egress source")
      /\ sources' = ChargeKey(sources, w.source, w.seen, n, SourceLimits)
      /\ admitted' = IF ok THEN [admitted EXCEPT ![w.source][0] = @ + n] ELSE admitted
      /\ clock' = clock
  BY DEF ChargeSource
<1>2. w.source \in Source /\ clock - w.seen <= MaxStall /\ n \in {0, 1}
  <2>1. w.at \in {"source", "egress source"}
    BY <1>1 DEF In
  <2> QED BY <1>0, <2>1 DEF WaitsInv, Waiting
<1>3. MapOK(sources, Source)
  BY DEF LInv, MapsInv
<1>4. admitted \in [Source -> History]
  BY DEF GrantsInv
<1> HIDE DEF n, ok
<1>5. PICK k \in Source, t \in Nat : k = w.source /\ t = w.seen
  BY <1>0, <1>2
<1>6. /\ admitted' \in [Source -> History]
      /\ \A s \in Source \ {k} : admitted'[s] = admitted[s]
      /\ IF ok THEN Granted(admitted[k], admitted'[k], n) ELSE admitted'[k] = admitted[k]
  <2>1. CASE ok
    <3> DEFINE g == [admitted[k] EXCEPT ![0] = @ + n]
    <3>1. admitted[k] \in [0 .. Span - 1 -> Nat] /\ 0 \in 0 .. Span - 1
      BY <1>4, LimitsFacts DEF History
    <3>2. g \in [0 .. Span - 1 -> Nat]
      <4>1. PICK h \in [0 .. Span - 1 -> Nat] : h = admitted[k]
        BY <3>1
      <4>2. h[0] \in Nat /\ n \in Nat
        BY <1>2, <3>1
      <4>3. h[0] + n \in Nat
        BY <4>2
      <4>4. [h EXCEPT ![0] = h[0] + n] \in [0 .. Span - 1 -> Nat]
        BY <4>3
      <4> QED BY <4>1, <4>4
    <3>3. g[0] = admitted[k][0] + n /\ \A age \in 1 .. Span - 1 : g[age] = admitted[k][age]
      <4>1. PICK h \in [0 .. Span - 1 -> Nat] : h = admitted[k]
        BY <3>1
      <4>2. /\ [h EXCEPT ![0] = @ + n][0] = h[0] + n
            /\ \A age \in 1 .. Span - 1 : [h EXCEPT ![0] = @ + n][age] = h[age]
        BY ONLY <3>1, <4>1, LimitsFacts
      <4> QED BY <4>1, <4>2
    <3>4. admitted' = [admitted EXCEPT ![k] = g]
      BY <1>1, <1>5, <2>1
    <3> HIDE DEF g
    <3>5. admitted'[k] = g /\ \A s \in Source \ {k} : admitted'[s] = admitted[s]
      BY <1>4, <3>4
    <3>6. admitted' \in [Source -> History]
      BY <1>4, <3>2, <3>4 DEF History
    <3> QED BY <2>1, <3>3, <3>5, <3>6 DEF Granted
  <2>2. CASE ~ok
    BY <1>1, <1>4, <2>2
  <2> QED BY <2>1, <2>2
<1>7. ASSUME SourceLimits.requests # 0
      PROVE  \A s \in Source : Budgeted(admitted'[s], sources'.at[s], clock)
  <2>1. \A s \in Source : Budgeted(admitted[s], sources.at[s], clock)
    BY <1>7 DEF GrantsInv
  <2>2. sources' = ChargeKey(sources, k, t, n, SourceLimits)
    BY <1>1, <1>5
  <2>3. ok = Grants(sources, k, t, n, SourceLimits)
    BY <1>5 DEF ok
  <2>4. t <= clock /\ clock - t <= MaxStall
    BY <1>0, <1>2, <1>5
  <2>5. IF Grants(sources, k, t, n, SourceLimits)
          THEN Granted(admitted[k], admitted'[k], n) ELSE admitted'[k] = admitted[k]
    BY <1>6, <2>3
  <2>6. \A s \in Source :
          Budgeted(admitted'[s], ChargeKey(sources, k, t, n, SourceLimits).at[s], clock)
    <3>1. Charging(admitted, admitted', sources, k, clock, t, n)
      BY <1>0, <1>2, <1>3, <1>4, <1>6, <1>7, <2>1, <2>4, <2>5 DEF Charging
    <3> QED BY <3>1, ChargeKeyBudgets
  <2> QED BY <2>2, <2>6
<1> QED BY <1>1, <1>6, <1>7 DEF GrantsInv

LEMMA TimePassesGrants ==
    ASSUME LInv, WaitsInv, GrantsInv, TimePasses PROVE WaitsInv' /\ GrantsInv'
<1>0. clock \in Nat /\ \A v \in Visit : visit[v].seen \in Nat
  BY DEF LInv, VisitsInv, VisitOK, VisitT
<1>1. /\ clock' = clock + 1 /\ visit' = visit /\ sources' = sources
      /\ admitted' = [s \in Source |-> [age \in 0 .. Span - 1 |->
                        IF age = 0 THEN 0 ELSE admitted[s][age - 1]]]
      /\ \A v \in Visit : visit[v].at \in Waiting => clock - visit[v].seen < MaxStall
  BY DEF TimePasses, buckets
<1>2. WaitsInv'
  <2>1. ASSUME NEW v \in Visit, visit[v].at \in Waiting
        PROVE  (clock + 1) - visit[v].seen <= MaxStall
    BY <1>0, <1>1, <2>1, LimitsFacts
  <2> QED BY <1>1, <2>1 DEF WaitsInv
<1>3. ASSUME NEW s \in Source
      PROVE  /\ admitted[s] \in History /\ admitted'[s] \in History
             /\ \A k \in Int : Recent(admitted'[s], k + 1) <= Recent(admitted[s], k)
  <2>1. admitted[s] \in History
    BY DEF GrantsInv
  <2>2. admitted'[s] = [age \in 0 .. Span - 1 |-> IF age = 0 THEN 0 ELSE admitted[s][age - 1]]
    BY <1>1
  <2>3. ASSUME NEW h \in History
        PROVE  LET g == [age \in 0 .. Span - 1 |-> IF age = 0 THEN 0 ELSE h[age - 1]]
               IN  g \in History /\ \A k \in Int : Recent(g, k + 1) <= Recent(h, k)
    <3>1. 0 \in Int
      OBVIOUS
    <3> QED BY <3>1, RecentOlder
  <2> QED BY <2>1, <2>2, <2>3
<1>4. admitted' \in [Source -> History]
  BY <1>1, <1>3
<1>5. ASSUME SourceLimits.requests # 0, NEW s \in Source
      PROVE  Budgeted(admitted'[s], sources.at[s], clock + 1)
  <2>1. Budgeted(admitted[s], sources.at[s], clock)
    BY <1>5 DEF GrantsInv
  <2> QED BY <1>0, <1>3, <2>1, OlderBudget
<1> QED BY <1>1, <1>2, <1>4, <1>5 DEF GrantsInv

LEMMA InitGrants == LimitsInit => WaitsInv /\ GrantsInv
<1> SUFFICES ASSUME LimitsInit PROVE WaitsInv /\ GrantsInv
  OBVIOUS
<1>1. WaitsInv
  <2>1. \A v \in Visit : visit[v].at = "idle"
    BY DEF LimitsInit, NoVisit
  <2> QED BY <2>1 DEF WaitsInv, Waiting
<1>2. admitted = [s \in Source |-> [age \in 0 .. Span - 1 |-> 0]]
  BY DEF LimitsInit
<1>3. admitted \in [Source -> History]
  BY <1>2 DEF History
<1>4. ASSUME NEW s \in Source PROVE Budgeted(admitted[s], sources.at[s], clock)
  <2>1. sources.at[s] = NoBucket
    BY DEF LimitsInit, NoBuckets
  <2>2. \A age \in 0 .. Span - 1 : admitted[s][age] = 0
    BY <1>2
  <2>3. SumOver(admitted[s], Youngest(Span - MaxStall)) = 0
    <3>1. Span - MaxStall \in Int /\ admitted[s] \in History
      BY <1>3, LimitsFacts
    <3>2. IsFiniteSet(Youngest(Span - MaxStall))
      BY <3>1, RecentFacts
    <3>3. \A age \in Youngest(Span - MaxStall) : admitted[s][age] = 0
      BY <2>2, LimitsFacts DEF Youngest
    <3> QED BY <3>2, <3>3, SumZero
  <2>4. Unbudgeted(admitted[s])
    BY <2>3, LimitsFacts DEF Unbudgeted, Recent
  <2> QED BY <2>1, <2>4 DEF Budgeted
<1> QED BY <1>1, <1>3, <1>4 DEF GrantsInv

LEMMA NextGrants ==
    LInv /\ WaitsInv /\ GrantsInv /\ [LimitsNext]_limitVars => WaitsInv' /\ GrantsInv'
<1> SUFFICES ASSUME LInv, WaitsInv, GrantsInv, [LimitsNext]_limitVars
             PROVE  WaitsInv' /\ GrantsInv'
  OBVIOUS
<1>1. CASE UNCHANGED limitVars
  BY <1>1 DEF limitVars, buckets, WaitsInv, GrantsInv
<1>2. CASE TimePasses
  BY <1>2, TimePassesGrants
<1>3. CASE OrphanEnds
  BY <1>3 DEF OrphanEnds, buckets, WaitsInv, GrantsInv
<1>4. ASSUME NEW v \in Visit PROVE
        /\ Enter(v) \/ BodyEnds(v) => WaitsInv' /\ GrantsInv'
        /\ ChargeGlobal(v) \/ ChargeOwner(v) => WaitsInv' /\ GrantsInv'
        /\ Handle(v) \/ HandlerFails(v) => WaitsInv' /\ GrantsInv'
        /\ BeginTrace(v) \/ TraceEnds(v) \/ TraceTimeout(v) => WaitsInv' /\ GrantsInv'
        /\ ChargeSource(v) => WaitsInv' /\ GrantsInv'
  <2>1. ASSUME Enter(v) \/ BodyEnds(v) PROVE WaitsInv' /\ GrantsInv'
    <3>1. PICK w : visit' = [visit EXCEPT ![v] = w] /\ w.at \notin Waiting
      <4>1. ASSUME Enter(v) PROVE \E w : visit' = [visit EXCEPT ![v] = w] /\ w.at \notin Waiting
        <5>1. PICK k \in {"publish", "fetch", "probe"}, s \in Source, o \in Owner :
                visit' = [visit EXCEPT ![v] = [at |-> "global", kind |-> k, source |-> s,
                                               owner |-> o, seen |-> 0]]
          BY <4>1 DEF Enter
        <5> DEFINE w == [at |-> "global", kind |-> k, source |-> s, owner |-> o, seen |-> 0]
        <5>2. w.at \notin Waiting
          BY DEF Waiting
        <5> HIDE DEF w
        <5>3. visit' = [visit EXCEPT ![v] = w]
          BY <5>1 DEF w
        <5> QED BY <5>2, <5>3
      <4>2. ASSUME BodyEnds(v) PROVE \E w : visit' = [visit EXCEPT ![v] = w] /\ w.at \notin Waiting
        <5>1. visit' = [visit EXCEPT ![v] = NoVisit]
          BY <4>2 DEF BodyEnds
        <5>2. NoVisit.at \notin Waiting
          BY DEF NoVisit, Waiting
        <5> QED BY <5>1, <5>2
      <4> QED BY <2>1, <4>1, <4>2
    <3>2. UNCHANGED <<clock, sources, admitted>>
      BY <2>1 DEF Enter, BodyEnds, buckets
    <3> QED BY <3>1, <3>2, WaitsMove, GrantsRest
  <2>2. ASSUME ChargeGlobal(v) \/ ChargeOwner(v) \/ Handle(v) \/ HandlerFails(v)
        PROVE  WaitsInv' /\ GrantsInv'
    <3>1. \E stage : Goes(v, stage)
      BY <2>2 DEF ChargeGlobal, ChargeOwner, Handle, HandlerFails
    <3>2. UNCHANGED <<clock, sources, admitted>>
      BY <2>2 DEF ChargeGlobal, ChargeOwner, Handle, HandlerFails, buckets
    <3> QED BY <3>1, <3>2, WaitsGo, GrantsRest
  <2>3. ASSUME BeginTrace(v) \/ TraceEnds(v) \/ TraceTimeout(v) PROVE WaitsInv' /\ GrantsInv'
    <3>1. \E stage : Goes(v, stage)
      BY <2>3 DEF BeginTrace, TraceEnds, TraceTimeout
    <3>2. UNCHANGED <<clock, sources, admitted>>
      BY <2>3 DEF BeginTrace, TraceEnds, TraceTimeout, buckets
    <3> QED BY <3>1, <3>2, WaitsGo, GrantsRest
  <2>4. ASSUME ChargeSource(v) PROVE WaitsInv' /\ GrantsInv'
    <3>1. (\E stage : Goes(v, stage)) /\ clock' = clock
      BY <2>4 DEF ChargeSource
    <3> QED BY <2>4, <3>1, WaitsGo, ChargeSourceGrants
  <2> QED BY <2>1, <2>2, <2>3, <2>4
<1> QED BY <1>1, <1>2, <1>3, <1>4 DEF LimitsNext

\* In an interval shorter than a window by two waits a source is granted no
\* more than two budgets, whatever is dropped to make room and however late
\* charges come (KeyedBuckets::charge, make_room).
THEOREM SourcesKeepToBudget == LimitsSpec => []SourceBudget
<1>1. LInv /\ GrantsInv => SourceBudget
  <2> SUFFICES ASSUME LInv, GrantsInv, SourceLimits.requests # 0, NEW s \in Source
               PROVE  SumOver(admitted[s], 0 .. Span - 2 * MaxStall - 1)
                        <= 2 * SourceLimits.requests
    BY DEF SourceBudget, SumOver
  <2> DEFINE h == admitted[s]
             b == sources.at[s]
             i == Span - 2 * MaxStall
  <2>0. h \in History /\ clock \in Nat /\ Budgeted(h, b, clock) /\ SourceLimits.requests \in Nat
    BY LimitsFacts DEF GrantsInv, LInv, VisitsInv
  <2>1. i \in Int /\ i <= Span /\ Youngest(i) = 0 .. i - 1
    BY LimitsFacts DEF Youngest
  <2>2. Recent(h, i) <= 2 * SourceLimits.requests
    <3>1. CASE b = NoBucket /\ Unbudgeted(h)
      <4> DEFINE j == Span - MaxStall
      <4>1. j \in Int /\ i <= j
        BY LimitsFacts
      <4>2. Recent(h, j) <= SourceLimits.requests
        BY <3>1 DEF Unbudgeted
      <4> HIDE DEF h, i, j
      <4>3. Recent(h, i) <= Recent(h, j) /\ Recent(h, i) \in Nat /\ Recent(h, j) \in Nat
        BY <2>0, <2>1, <4>1, RecentFacts
      <4> QED BY <2>0, <4>2, <4>3
    <3>2. CASE Charged(h, b, clock)
      <4> DEFINE j == clock - b.start + Span - 2 * MaxStall
      <4>1. /\ b.start \in Nat /\ b.start <= clock /\ b.requests \in Nat
            /\ b.requests <= SourceLimits.requests
            /\ Recent(h, j) <= SourceLimits.requests + b.requests
        BY <3>2 DEF Charged, BucketT
      <4>2. j \in Int /\ i <= j
        BY <2>0, <4>1, LimitsFacts
      <4> HIDE DEF h, i, j
      <4>3. Recent(h, i) <= Recent(h, j) /\ Recent(h, i) \in Nat /\ Recent(h, j) \in Nat
        BY <2>0, <2>1, <4>2, RecentFacts
      <4> HIDE DEF b
      <4> QED BY <2>0, <4>1, <4>3
    <3> QED BY <2>0, <3>1, <3>2 DEF Budgeted
  <2> QED BY <2>1, <2>2 DEF Recent
<1> QED BY <1>1, InitLInv, NextLInv, InitGrants, NextGrants, PTL DEF LimitsSpec
=============================================================================
