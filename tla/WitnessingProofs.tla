-------------------------- MODULE WitnessingProofs --------------------------
(***************************************************************************)
(* What holds of the witnessed log for every roster, threshold, log length *)
(* and number of faults.                                                   *)
(***************************************************************************)
EXTENDS Witnessing, FiniteSetTheorems, TLAPS

-----------------------------------------------------------------------------
(* Prefixes.                                                               *)

LEMMA PrefixRefl == \A s \in Seq(Entry) : IsPrefix(s, s)
BY DEF IsPrefix

LEMMA PrefixPointwise ==
    ASSUME NEW s \in Seq(Entry), NEW t \in Seq(Entry)
    PROVE  IsPrefix(s, t) <=>
             Len(s) <= Len(t) /\ \A i \in 1 .. Len(s) : s[i] = t[i]
<1>1. ASSUME IsPrefix(s, t), NEW i \in 1 .. Len(s)
      PROVE  s[i] = t[i]
  <2>1. SubSeq(s, 1, Len(s))[i] = SubSeq(t, 1, Len(s))[i]
    BY <1>1 DEF IsPrefix
  <2>2. Len(s) <= Len(t)
    BY <1>1 DEF IsPrefix
  <2> QED BY <2>1, <2>2
<1>2. ASSUME Len(s) <= Len(t), \A i \in 1 .. Len(s) : s[i] = t[i]
      PROVE  IsPrefix(s, t)
  BY <1>2 DEF IsPrefix
<1> QED BY <1>1, <1>2 DEF IsPrefix

LEMMA PrefixTrans ==
    ASSUME NEW s \in Seq(Entry), NEW t \in Seq(Entry), NEW u \in Seq(Entry),
           IsPrefix(s, t), IsPrefix(t, u)
    PROVE  IsPrefix(s, u)
<1>1. Len(s) <= Len(u)
  BY PrefixPointwise
<1>2. \A i \in 1 .. Len(s) : s[i] = u[i]
  BY PrefixPointwise
<1> QED BY <1>1, <1>2, PrefixPointwise

\* Two prefixes of one history are ordered.
LEMMA PrefixLinear ==
    ASSUME NEW s \in Seq(Entry), NEW t \in Seq(Entry), NEW u \in Seq(Entry),
           IsPrefix(s, u), IsPrefix(t, u)
    PROVE  IsPrefix(s, t) \/ IsPrefix(t, s)
<1>1. \A i \in 1 .. Len(s) : s[i] = u[i]
  BY PrefixPointwise
<1>2. \A i \in 1 .. Len(t) : t[i] = u[i]
  BY PrefixPointwise
<1>3. CASE Len(s) <= Len(t)
  BY <1>1, <1>2, <1>3, PrefixPointwise
<1>4. CASE Len(t) <= Len(s)
  BY <1>1, <1>2, <1>4, PrefixPointwise
<1> QED BY <1>3, <1>4

-----------------------------------------------------------------------------
(* The inductive invariant.                                                *)

\* What the promises need of the types: everything stored, sent or cosigned
\* is a history of entries.
WellFormed(r) == DOMAIN r = {"old", "hist", "live"} /\ r.hist \in Seq(Entry)

Histories ==
    /\ memory \in [Witness -> SUBSET Seq(Entry)]
    /\ file \in [Witness -> SUBSET Seq(Entry)]
    /\ cosigned \in [Witness -> SUBSET Seq(Entry)]
    /\ DOMAIN serving = Witness
    /\ DOMAIN requests = Witness
    /\ \A w \in Witness : \A r \in requests[w] \cup serving[w] : WellFormed(r)
    /\ log \in Seq(Entry)
    /\ head \in Seq(Entry)

\* Between save_state and the answer the file is ahead of the memory by the
\* checkpoint being served, and only then.
Keeps(w) ==
    /\ serving[w] = {} => memory[w] = file[w]
    /\ \A r \in serving[w] :
          file[w] = {r.hist} /\ \A g \in memory[w] : IsPrefix(g, r.hist)
    /\ \A g, h \in memory[w] : g = h
    /\ Remembers(w)

HonestInv == Histories /\ \A w \in Witness \ Forgetful : Keeps(w)

-----------------------------------------------------------------------------
(* The steps of the network.                                               *)

LEMMA AbandonedKeeps ==
    ASSUME NEW rs, \A r \in rs : WellFormed(r)
    PROVE  /\ \A s \in Abandoned(rs) :
                WellFormed(s) /\ \E r \in rs : s.hist = r.hist
           /\ Abandoned(rs) = {} => rs = {}
BY DEF Abandoned, WellFormed

\* A step of the registry: the witnesses' states stay, submissions are added,
\* and the monitoring endpoint may hand out a cosignature.
LEMMA ClientStep ==
    ASSUME HonestInv, UNCHANGED <<memory, file, serving>>,
           DOMAIN requests' = Witness,
           \A v \in Witness : \A s \in requests'[v] : WellFormed(s),
           cosigned' \in [Witness -> SUBSET Seq(Entry)],
           \A v \in Witness : cosigned'[v] \subseteq cosigned[v] \cup memory[v],
           log' \in Seq(Entry), head' \in Seq(Entry)
    PROVE  HonestInv'
<1>1. Histories'
  BY DEF HonestInv, Histories, WellFormed
<1>2. ASSUME NEW v \in Witness \ Forgetful
      PROVE  Keeps(v)'
  <2>1. Keeps(v)
    BY DEF HonestInv
  <2>2. ASSUME NEW h \in cosigned'[v]
        PROVE  \E g \in memory[v] : IsPrefix(h, g)
    <3>1. CASE h \in cosigned[v]
      BY <2>1, <3>1 DEF Keeps, Remembers
    <3>2. CASE h \in memory[v]
      BY <3>2, PrefixRefl DEF HonestInv, Histories
    <3> QED BY <3>1, <3>2
  <2>3. Remembers(v)'
    BY <2>2 DEF Remembers
  <2> QED BY <2>1, <2>3 DEF Keeps
<1> QED BY <1>1, <1>2 DEF HonestInv

LEMMA QuietStep ==
    ASSUME HonestInv, UNCHANGED witnessVars,
           log' \in Seq(Entry), head' \in Seq(Entry)
    PROVE  HonestInv'
<1>1. UNCHANGED <<memory, file, serving, requests, cosigned>>
  BY DEF witnessVars
<1>2. /\ DOMAIN requests' = Witness
      /\ \A v \in Witness : \A s \in requests'[v] : WellFormed(s)
      /\ cosigned' \in [Witness -> SUBSET Seq(Entry)]
  BY <1>1 DEF HonestInv, Histories
<1> QED BY <1>1, <1>2, ClientStep

LEMMA SendForm ==
    ASSUME HonestInv, NEW w \in Witness, NEW size,
           SendTo(w, size) \/ UNCHANGED requests
    PROVE  /\ DOMAIN requests' = Witness
           /\ \A v \in Witness : \A s \in requests'[v] : WellFormed(s)
<1> DEFINE r == [old |-> size, hist |-> head, live |-> TRUE]
<1>1. WellFormed(r)
  BY DEF HonestInv, Histories, WellFormed
<1>2. CASE requests' = [requests EXCEPT ![w] = @ \cup {r}]
  <2> HIDE DEF r
  <2> QED BY <1>1, <1>2 DEF HonestInv, Histories
<1>3. CASE UNCHANGED requests
  BY <1>3 DEF HonestInv, Histories
<1> QED BY <1>2, <1>3 DEF SendTo

-----------------------------------------------------------------------------
(* The steps of a witness.                                                 *)

LEMMA RefuseStep ==
    ASSUME HonestInv, NEW w \in Witness, NEW r, Refuse(w, r),
           UNCHANGED <<log, head>>
    PROVE  HonestInv'
<1>1. Histories'
  BY DEF HonestInv, Histories, WellFormed, Refuse, Receive
<1>2. \A v \in Witness \ Forgetful : Keeps(v)'
  BY DEF HonestInv, Keeps, Remembers, Refuse
<1> QED BY <1>1, <1>2 DEF HonestInv

LEMMA PersistStep ==
    ASSUME HonestInv, NEW w \in Witness, NEW r, Persist(w, r),
           UNCHANGED <<log, head>>
    PROVE  HonestInv'
<1>1. WellFormed(r)
  BY DEF HonestInv, Histories, Persist, Receive
<1>2. Histories'
  <2>1. file' \in [Witness -> SUBSET Seq(Entry)]
    BY <1>1 DEF HonestInv, Histories, Persist, WellFormed
  <2>2. \A v \in Witness : \A s \in requests'[v] \cup serving'[v] : WellFormed(s)
    BY <1>1 DEF HonestInv, Histories, Persist, Receive
  <2> QED BY <2>1, <2>2 DEF HonestInv, Histories, Persist, Receive, WellFormed
<1>3. ASSUME NEW v \in Witness \ Forgetful
      PROVE  Keeps(v)'
  <2>0. Keeps(v)
    BY DEF HonestInv
  <2>1. CASE v = w
    <3>1. serving'[w] = {r} /\ file'[w] = {r.hist} /\ memory' = memory
      BY DEF Persist, HonestInv, Histories
    <3>2. Remembers(w)'
      BY <2>0, <2>1 DEF Keeps, Remembers, Persist
    <3>3. \A g, h \in memory[w] : g = h
      BY <2>0, <2>1 DEF Keeps
    <3> QED BY <2>1, <3>1, <3>2, <3>3 DEF Keeps, Persist, Consistent
  <2>2. CASE v # w
    BY <2>0, <2>2 DEF Keeps, Remembers, Persist, HonestInv, Histories
  <2> QED BY <2>1, <2>2
<1> QED BY <1>2, <1>3 DEF HonestInv

LEMMA RespondStep ==
    ASSUME HonestInv, NEW w \in Witness, NEW r, Respond(w, r),
           UNCHANGED <<log, head>>
    PROVE  HonestInv'
<1>1. WellFormed(r)
  BY DEF HonestInv, Histories, Respond
<1>2. Histories'
  <2>1. memory' \in [Witness -> SUBSET Seq(Entry)]
        /\ cosigned' \in [Witness -> SUBSET Seq(Entry)]
    BY <1>1 DEF HonestInv, Histories, Respond, WellFormed
  <2> QED BY <2>1 DEF HonestInv, Histories, Respond, WellFormed
<1>3. ASSUME NEW v \in Witness \ Forgetful
      PROVE  Keeps(v)'
  <2>0. Keeps(v)
    BY DEF HonestInv
  <2>1. CASE v = w
    <3>1. /\ serving'[w] = {} /\ memory'[w] = {r.hist} /\ file'[w] = {r.hist}
          /\ cosigned'[w] = cosigned[w] \cup {r.hist}
      BY <2>0, <2>1 DEF Respond, HonestInv, Histories, Keeps
    <3>2. ASSUME NEW h \in cosigned[w]
          PROVE  IsPrefix(h, r.hist)
      <4>1. PICK g \in memory[w] : IsPrefix(h, g)
        BY <2>0, <2>1 DEF Keeps, Remembers
      <4>2. IsPrefix(g, r.hist)
        BY <2>0, <2>1 DEF Keeps, Respond
      <4> QED BY <1>1, <4>1, <4>2, PrefixTrans
              DEF HonestInv, Histories, WellFormed
    <3>3. IsPrefix(r.hist, r.hist)
      BY <1>1, PrefixRefl DEF WellFormed
    <3>4. Remembers(w)'
      BY <3>1, <3>2, <3>3 DEF Remembers
    <3> QED BY <2>1, <3>1, <3>4 DEF Keeps
  <2>2. CASE v # w
    BY <2>0, <2>2 DEF Keeps, Remembers, Respond, HonestInv, Histories
  <2> QED BY <2>1, <2>2
<1> QED BY <1>2, <1>3 DEF HonestInv

\* The file holds what the memory held, or the checkpoint being served, which
\* extends it.
LEMMA RestartStep ==
    ASSUME HonestInv, NEW w \in Witness, RestartWitness(w),
           UNCHANGED <<log, head>>
    PROVE  HonestInv'
<1>2. Histories'
  BY DEF HonestInv, Histories, RestartWitness, WellFormed
<1>3. ASSUME NEW v \in Witness \ Forgetful
      PROVE  Keeps(v)'
  <2>0. Keeps(v)
    BY DEF HonestInv
  <2>1. CASE v = w
    <3>1. /\ serving'[w] = {} /\ memory'[w] = file[w] /\ file' = file
          /\ cosigned' = cosigned
      BY DEF RestartWitness, HonestInv, Histories
    <3>2. ASSUME NEW h \in cosigned[w]
          PROVE  \E g \in file[w] : IsPrefix(h, g)
      <4>1. PICK g \in memory[w] : IsPrefix(h, g)
        BY <2>0, <2>1 DEF Keeps, Remembers
      <4>2. CASE serving[w] = {}
        BY <2>0, <2>1, <4>1, <4>2 DEF Keeps
      <4>3. ASSUME NEW r \in serving[w]
            PROVE  \E f \in file[w] : IsPrefix(h, f)
        <5>1. file[w] = {r.hist} /\ IsPrefix(g, r.hist)
          BY <2>0, <2>1, <4>3 DEF Keeps
        <5>2. IsPrefix(h, r.hist)
          BY <4>1, <5>1, PrefixTrans DEF HonestInv, Histories, WellFormed
        <5> QED BY <5>1, <5>2
      <4> QED BY <4>2, <4>3
    <3>3. Remembers(w)'
      BY <3>1, <3>2 DEF Remembers
    <3>4. \A g, h \in file[w] : g = h
      <4>1. CASE serving[w] = {}
        BY <2>0, <2>1, <4>1 DEF Keeps
      <4>2. CASE \E r \in serving[w] : file[w] = {r.hist}
        BY <4>2
      <4> QED BY <2>0, <2>1, <4>1, <4>2 DEF Keeps
    <3> QED BY <2>1, <3>1, <3>3, <3>4 DEF Keeps
  <2>2. CASE v # w
    BY <2>0, <2>2 DEF Keeps, Remembers, RestartWitness, HonestInv, Histories
  <2> QED BY <2>1, <2>2
<1> QED BY <1>2, <1>3 DEF HonestInv

LEMMA PowerLossStep ==
    ASSUME HonestInv, NEW w \in Witness, PowerLoss(w),
           UNCHANGED <<log, head>>
    PROVE  HonestInv'
<1>1. PICK stored \in {{}, file[w]} \cup {{h} : h \in cosigned[w]} :
         /\ file' = [file EXCEPT ![w] = stored]
         /\ memory' = [memory EXCEPT ![w] = stored]
  BY DEF PowerLoss
<1>2. stored \in SUBSET Seq(Entry)
  BY DEF HonestInv, Histories
<1>3. Histories'
  BY <1>1, <1>2 DEF HonestInv, Histories, PowerLoss, WellFormed
<1>4. ASSUME NEW v \in Witness \ Forgetful
      PROVE  Keeps(v)'
  <2>1. v # w
    BY DEF PowerLoss
  <2> QED BY <1>1, <2>1 DEF HonestInv, Histories, Keeps, Remembers, PowerLoss
<1> QED BY <1>3, <1>4 DEF HonestInv

\* The submitter stops waiting at some of the witnesses.
LEMMA AbandonStep ==
    ASSUME HonestInv, NEW S \in SUBSET Witness,
           requests' = [v \in Witness |->
               IF v \in S THEN Abandoned(requests[v]) ELSE requests[v]],
           serving' = [v \in Witness |->
               IF v \in S THEN Abandoned(serving[v]) ELSE serving[v]],
           UNCHANGED <<memory, file, cosigned, log>>, head' \in Seq(Entry)
    PROVE  HonestInv'
<1>1. ASSUME NEW v \in Witness
      PROVE  /\ \A s \in requests'[v] \cup serving'[v] : WellFormed(s)
             /\ \A s \in serving'[v] : \E r \in serving[v] : s.hist = r.hist
             /\ serving'[v] = {} => serving[v] = {}
  <2>1. \A r \in requests[v] \cup serving[v] : WellFormed(r)
    BY DEF HonestInv, Histories
  <2>2. CASE v \in S
    BY <2>1, <2>2, AbandonedKeeps
  <2>3. CASE v \notin S
    BY <2>1, <2>3
  <2> QED BY <2>2, <2>3
<1>2. Histories'
  BY <1>1 DEF HonestInv, Histories, WellFormed
<1>3. ASSUME NEW v \in Witness \ Forgetful
      PROVE  Keeps(v)'
  <2>1. Keeps(v)
    BY DEF HonestInv
  <2>2. Remembers(v)'
    BY <2>1 DEF Keeps, Remembers
  <2> QED BY <1>1, <2>1, <2>2 DEF Keeps
<1> QED BY <1>2, <1>3 DEF HonestInv

-----------------------------------------------------------------------------
(* The whole system.                                                       *)

LEMMA HonestInit == Init => HonestInv
<1> SUFFICES ASSUME Init PROVE HonestInv
  OBVIOUS
<1>1. Histories
  BY WitnessingAssumption DEF Init, WitnessInit, Histories
<1>2. \A w \in Witness \ Forgetful : Keeps(w)
  BY DEF Init, WitnessInit, Keeps, Remembers
<1> QED BY <1>1, <1>2 DEF HonestInv

LEMMA HonestNext == HonestInv /\ [Next]_vars => HonestInv'
<1> SUFFICES ASSUME HonestInv, [Next]_vars PROVE HonestInv'
  OBVIOUS
<1>0. log \in Seq(Entry) /\ head \in Seq(Entry)
  BY DEF HonestInv, Histories
<1>1. ASSUME NEW e \in Entry, AppendEntry(e) PROVE HonestInv'
  BY <1>0, <1>1, QuietStep DEF AppendEntry
<1>2. CASE StartSync
  BY <1>0, <1>2, QuietStep DEF StartSync, database
<1>3. ASSUME NEW w \in Witness, Submit(w) PROVE HonestInv'
  <2>1. UNCHANGED <<memory, file, serving, cosigned, log, head>>
    BY <1>3 DEF Submit, database
  <2>2. SendTo(w, SizeOf(receipt[w])) \/ UNCHANGED requests
    BY <1>3 DEF Submit
  <2>3. cosigned' \in [Witness -> SUBSET Seq(Entry)]
    BY <2>1 DEF HonestInv, Histories
  <2> QED BY <1>0, <2>1, <2>2, <2>3, SendForm, ClientStep
<1>4. ASSUME NEW w \in Witness, Resubmit(w) PROVE HonestInv'
  <2>1. UNCHANGED <<memory, file, serving, cosigned, log, head>>
    BY <1>4 DEF Resubmit, database
  <2>2. SendTo(w, task[w].size)
    BY <1>4 DEF Resubmit
  <2>3. cosigned' \in [Witness -> SUBSET Seq(Entry)]
    BY <2>1 DEF HonestInv, Histories
  <2> QED BY <1>0, <2>1, <2>2, <2>3, SendForm, ClientStep
<1>5. ASSUME NEW w \in Witness, Monitor(w) PROVE HonestInv'
  <2>1. UNCHANGED <<memory, file, serving, log, head>>
    BY <1>5 DEF Monitor, database
  <2>2. PICK h : SendTo(w, Len(h)) \/ UNCHANGED requests
    BY <1>5 DEF Monitor
  <2>3. cosigned' = [cosigned EXCEPT ![w] = @ \cup Monitored(w)]
    BY <1>5 DEF Monitor
  <2>4. Monitored(w) \subseteq memory[w]
    BY DEF Monitored
  <2>5. /\ cosigned' \in [Witness -> SUBSET Seq(Entry)]
        /\ \A v \in Witness : cosigned'[v] \subseteq cosigned[v] \cup memory[v]
    BY <2>3, <2>4 DEF HonestInv, Histories
  <2> QED BY <1>0, <2>1, <2>2, <2>5, SendForm, ClientStep
<1>6. ASSUME NEW w \in Witness, SaveReceipt(w) PROVE HonestInv'
  BY <1>0, <1>6, QuietStep DEF SaveReceipt
<1>7. CASE Promote
  BY <1>0, <1>7, QuietStep DEF Promote
<1>8. ASSUME NEW w \in Witness, Handle(w) PROVE HonestInv'
  <2>1. PICK r \in requests[w] : (Refuse(w, r) \/ Persist(w, r)) /\ ClientKeeps
    BY <1>8 DEF Handle
  <2> QED BY <2>1, RefuseStep, PersistStep DEF ClientKeeps, database
<1>9. ASSUME NEW w \in Witness, Answer(w) PROVE HonestInv'
  <2>1. PICK r \in serving[w] : Respond(w, r) /\ ClientKeeps
    BY <1>9 DEF Answer
  <2> QED BY <2>1, RespondStep DEF ClientKeeps, database
<1>10. ASSUME NEW w \in Witness, SaveFails(w) PROVE HonestInv'
  BY <1>10, RefuseStep DEF SaveFails, database
<1>11. ASSUME NEW w \in Witness, Timeout(w) PROVE HonestInv'
  <2>1. requests' = [v \in Witness |->
            IF v \in {w} THEN Abandoned(requests[v]) ELSE requests[v]]
    BY <1>11 DEF Timeout, HonestInv, Histories
  <2>2. serving' = [v \in Witness |->
            IF v \in {w} THEN Abandoned(serving[v]) ELSE serving[v]]
    BY <1>11 DEF Timeout, HonestInv, Histories
  <2> QED BY <1>0, <1>11, <2>1, <2>2, AbandonStep DEF Timeout, database
<1>12. ASSUME NEW w \in Witness, WitnessCrash(w) PROVE HonestInv'
  BY <1>12, RestartStep DEF WitnessCrash, database
<1>13. ASSUME NEW w \in Witness, WitnessPowerLoss(w) PROVE HonestInv'
  BY <1>13, PowerLossStep DEF WitnessPowerLoss, database
<1>14. CASE Crash
  <2>1. requests' = [v \in Witness |->
            IF v \in Witness THEN Abandoned(requests[v]) ELSE requests[v]]
    BY <1>14 DEF Crash
  <2>2. serving' = [v \in Witness |->
            IF v \in Witness THEN Abandoned(serving[v]) ELSE serving[v]]
    BY <1>14 DEF Crash
  <2> QED BY <1>14, <2>1, <2>2, AbandonStep DEF Crash, database
<1>15. CASE Restart
  BY <1>0, <1>15, QuietStep DEF Restart, database
<1>16. CASE Restore
  BY <1>0, <1>16, QuietStep, WitnessingAssumption DEF Restore
<1>17. CASE UNCHANGED vars
  BY <1>0, <1>17, QuietStep DEF vars, database
<1> QED BY <1>1, <1>2, <1>3, <1>4, <1>5, <1>6, <1>7, <1>8, <1>9, <1>10, <1>11,
           <1>12, <1>13, <1>14, <1>15, <1>16, <1>17 DEF Next

\* An honest witness keeps its promise for every roster, log and number of
\* faults: what it remembers extends whatever it has cosigned
\* (add_checkpoint, save_state and load_state of pigeonpost-witness).
THEOREM PromiseKept == Spec => []HonestRemember
<1>1. HonestInv => HonestRemember
  BY DEF HonestInv, HonestRemember, Keeps
<1> QED BY <1>1, HonestInit, HonestNext, PTL DEF Spec

-----------------------------------------------------------------------------
(* Quorums.                                                                *)

LEMMA QuorumsShareHonest ==
    ASSUME NEW P \in SUBSET Witness, NEW Q \in SUBSET Witness,
           Quorum(P), Quorum(Q)
    PROVE  \E w \in Witness \ Forgetful : w \in P /\ w \in Q
<1>1. IsFiniteSet(Witness) /\ Forgetful \subseteq Witness
  BY RosterAssumption
<1>2. /\ IsFiniteSet(P) /\ IsFiniteSet(Q) /\ IsFiniteSet(P \cup Q)
      /\ IsFiniteSet(P \cap Q) /\ IsFiniteSet(Forgetful)
  BY <1>1, FS_Subset
<1>3. Cardinality(P \cup Q) = Cardinality(P) + Cardinality(Q)
                              - Cardinality(P \cap Q)
  BY <1>2, FS_Union
<1>4. Cardinality(P \cup Q) <= Cardinality(Witness)
  BY <1>1, FS_Subset
<1>5. /\ Cardinality(P) \in Nat /\ Cardinality(Q) \in Nat
      /\ Cardinality(P \cap Q) \in Nat /\ Cardinality(Forgetful) \in Nat
      /\ Cardinality(P \cup Q) \in Nat /\ Cardinality(Witness) \in Nat
  BY <1>1, <1>2, FS_CardinalityType
<1>6. Cardinality(P \cap Q) > Cardinality(Forgetful)
  BY <1>3, <1>4, <1>5, QuorumAssumption DEF Quorum
<1>7. ~(P \cap Q \subseteq Forgetful)
  BY <1>2, <1>5, <1>6, FS_Subset
<1> QED BY <1>7

LEMMA NoSplit == HonestInv => NoSplitView
<1> SUFFICES ASSUME HonestInv,
                    NEW v \in Witness, NEW u \in Witness,
                    NEW g \in cosigned[v], NEW h \in cosigned[u],
                    Certified(g), Certified(h)
             PROVE  IsPrefix(g, h) \/ IsPrefix(h, g)
  BY DEF NoSplitView
<1>1. PICK w \in Witness \ Forgetful : g \in cosigned[w] /\ h \in cosigned[w]
  BY QuorumsShareHonest DEF Certified
<1>2. Keeps(w)
  BY DEF HonestInv
<1>3. PICK a \in memory[w] : IsPrefix(g, a) /\ IsPrefix(h, a)
  BY <1>1, <1>2 DEF Keeps, Remembers
<1>4. a \in Seq(Entry) /\ g \in Seq(Entry) /\ h \in Seq(Entry)
  BY DEF HonestInv, Histories
<1> QED BY <1>3, <1>4, PrefixLinear

\* No split view, for every roster and threshold that docs/sds.md admits: as
\* long as fewer than 2 * threshold - |roster| witnesses forget, two histories
\* with a quorum of cosignatures are ordered, whatever the registry's operator
\* restores and whichever submissions arrive late (add_checkpoint,
\* witness_quorum_intersects).
THEOREM OneView == Spec => []NoSplitView
BY HonestInit, HonestNext, NoSplit, PTL DEF Spec

-----------------------------------------------------------------------------
(***************************************************************************)
(* What is published.  A receipt is for the head of the sync it came from, *)
(* so the invariant says which answers a task may still get: at most one   *)
(* submission of it is on its way or being served, it is for the head that *)
(* was captured, and the task waits for it.                                *)
(***************************************************************************)

\* What the database and the tasks hold.
Stored ==
    /\ receipt \in [Witness -> SUBSET Seq(Entry)]
    /\ published \in SUBSET Seq(Entry)
    /\ DOMAIN task = Witness
    /\ \A w \in Witness : DOMAIN task[w] = {"step", "size"}

\* The answer a task waits for.
Awaited(w) ==
    /\ \A r \in requests[w] \cup serving[w] :
          r.live => r.hist = head /\ task[w].step \in Waiting
    /\ \A r, s \in requests[w] : r.live /\ s.live => r = s
    /\ \A r \in requests[w], s \in serving[w] : ~(r.live /\ s.live)
    /\ \A r, s \in serving[w] : r = s
    /\ task[w].step = "done" => head \in cosigned[w]

Resting == phase # "sync" => \A w \in Witness : task[w].step = "none"

PublishInv ==
    /\ HonestInv
    /\ Stored
    /\ \A w \in Witness : Awaited(w)
    /\ Resting
    /\ PublishedIsWitnessed

LEMMA CertifiedGrows ==
    ASSUME \A w \in Witness : cosigned[w] \subseteq cosigned'[w],
           NEW h, Certified(h)
    PROVE  Certified(h)'
<1> DEFINE P == {w \in Witness : h \in cosigned[w]}
           Q == {w \in Witness : h \in cosigned'[w]}
<1>1. P \subseteq Q /\ Q \subseteq Witness
  OBVIOUS
<1>2. IsFiniteSet(Q) /\ IsFiniteSet(P)
  BY <1>1, RosterAssumption, FS_Subset
<1>3. Cardinality(P) <= Cardinality(Q) /\ Cardinality(P) \in Nat /\ Cardinality(Q) \in Nat
  BY <1>1, <1>2, FS_Subset, FS_CardinalityType
<1>4. Cardinality(P) >= Threshold
  BY DEF Certified, Quorum
<1> QED BY <1>3, <1>4, QuorumAssumption DEF Certified, Quorum

LEMMA AppendExtends ==
    ASSUME NEW s \in Seq(Entry), NEW t \in Seq(Entry), NEW e \in Entry, IsPrefix(s, t)
    PROVE  IsPrefix(s, Append(t, e))
<1>1. Append(t, e) \in Seq(Entry) /\ Len(Append(t, e)) = Len(t) + 1
  OBVIOUS
<1>2. Len(s) <= Len(t) /\ \A i \in 1 .. Len(s) : s[i] = t[i]
  BY PrefixPointwise
<1>3. \A i \in 1 .. Len(s) : s[i] = Append(t, e)[i]
  BY <1>2
<1>4. Len(s) <= Len(Append(t, e))
  BY <1>1, <1>2
<1> DEFINE u == Append(t, e)
<1> HIDE DEF u
<1>5. u \in Seq(Entry) /\ Len(s) <= Len(u) /\ \A i \in 1 .. Len(s) : s[i] = u[i]
  BY <1>1, <1>3, <1>4 DEF u
<1>6. IsPrefix(s, u)
  BY <1>5, PrefixPointwise
<1> QED BY <1>6 DEF u

\* Steps that leave the database alone and only add cosignatures.
LEMMA WitnessedStays ==
    ASSUME PublishInv, UNCHANGED database,
           \A w \in Witness : cosigned[w] \subseteq cosigned'[w]
    PROVE  PublishedIsWitnessed'
<1>1. \A h \in published : Certified(h)'
  BY CertifiedGrows DEF PublishInv, PublishedIsWitnessed
<1> QED BY <1>1 DEF PublishInv, PublishedIsWitnessed, database

\* A task moves on; nothing it waited for is left.
LEMMA GotoForm ==
    ASSUME PublishInv, NEW w \in Witness, NEW step, NEW size, Goto(w, step, size)
    PROVE  /\ DOMAIN task' = Witness
           /\ \A v \in Witness : DOMAIN task'[v] = {"step", "size"}
           /\ task'[w].step = step
           /\ \A v \in Witness : v # w => task'[v] = task[v]
BY DEF Goto, PublishInv, Stored

\* A submission leaves a task that waits for nothing else.
LEMMA SendPublish ==
    ASSUME PublishInv, NEW w \in Witness, NEW size, NEW step \in Waiting, NEW n,
           task[w].step \notin Waiting, phase = "sync",
           SendTo(w, size), Goto(w, step, n),
           UNCHANGED <<serving, head, phase, receipt, published>>,
           \A v \in Witness : cosigned[v] \subseteq cosigned'[v]
    PROVE  Stored' /\ (\A v \in Witness : Awaited(v)') /\ Resting'
<1> DEFINE q == [old |-> size, hist |-> head, live |-> TRUE]
<1>1. /\ DOMAIN task' = Witness
      /\ \A v \in Witness : DOMAIN task'[v] = {"step", "size"}
      /\ task'[w].step = step
      /\ \A v \in Witness : v # w => task'[v] = task[v]
  BY GotoForm
<1>2. Stored'
  BY <1>1 DEF PublishInv, Stored
<1>3. ASSUME NEW v \in Witness PROVE Awaited(v)'
  <2>1. CASE v # w
    <3>1. requests'[v] = requests[v]
      BY <2>1 DEF SendTo, PublishInv, HonestInv, Histories
    <3> QED BY <1>1, <2>1, <3>1 DEF PublishInv, Awaited
  <2>2. CASE v = w
    <3>1. requests'[w] = requests[w] \cup {q}
      BY DEF SendTo, PublishInv, HonestInv, Histories
    <3>2. \A r \in requests[w] \cup serving[w] : ~r.live
      BY DEF PublishInv, Awaited
    <3>3. q.hist = head /\ q.live
      OBVIOUS
    <3>4. step # "done"
      BY DEF Waiting
    <3>5. \A r, s \in serving[w] : r = s
      BY DEF PublishInv, Awaited
    <3> HIDE DEF q
    <3> QED BY <1>1, <2>2, <3>1, <3>2, <3>3, <3>4, <3>5 DEF Awaited
  <2> QED BY <2>1, <2>2
<1>4. Resting'
  BY DEF Resting
<1> QED BY <1>2, <1>3, <1>4

\* A task that waits for nothing, or whose submission is gone, goes on.
LEMMA MovePublish ==
    ASSUME PublishInv, NEW w \in Witness, NEW step, NEW size, Goto(w, step, size),
           phase = "sync",
           \A v \in Witness : requests'[v] \subseteq requests[v]
                             /\ serving'[v] \subseteq serving[v],
           \A r \in requests'[w] \cup serving'[w] : ~r.live,
           step = "done" => head \in cosigned'[w],
           UNCHANGED <<head, phase>>,
           receipt' \in [Witness -> SUBSET Seq(Entry)],
           published' \in SUBSET Seq(Entry),
           \A v \in Witness : cosigned[v] \subseteq cosigned'[v]
    PROVE  Stored' /\ (\A v \in Witness : Awaited(v)') /\ Resting'
<1>1. /\ DOMAIN task' = Witness
      /\ \A v \in Witness : DOMAIN task'[v] = {"step", "size"}
      /\ task'[w].step = step
      /\ \A v \in Witness : v # w => task'[v] = task[v]
  BY GotoForm
<1>2. Stored'
  BY <1>1 DEF Stored
<1>3. ASSUME NEW v \in Witness PROVE Awaited(v)'
  <2>1. CASE v # w
    BY <1>1, <2>1 DEF PublishInv, Awaited
  <2>2. CASE v = w
    BY <1>1, <2>2 DEF PublishInv, Awaited
  <2> QED BY <2>1, <2>2
<1>4. Resting'
  BY DEF Resting
<1> QED BY <1>2, <1>3, <1>4

\* Submissions are dropped or moved, and the tasks stay.
LEMMA KeepPublish ==
    ASSUME PublishInv, UNCHANGED <<task, head, phase, receipt, published>>,
           \A v \in Witness : requests'[v] \subseteq requests[v]
                             /\ serving'[v] \subseteq serving[v],
           \A v \in Witness : cosigned[v] \subseteq cosigned'[v]
    PROVE  Stored' /\ (\A v \in Witness : Awaited(v)') /\ Resting'
<1>1. Stored' /\ Resting'
  BY DEF PublishInv, Stored, Resting
<1>2. \A v \in Witness : Awaited(v)'
  BY DEF PublishInv, Awaited
<1> QED BY <1>1, <1>2

\* A task that waits belongs to a running sync.
LEMMA WorksInSync ==
    ASSUME PublishInv, NEW w \in Witness, task[w].step # "none"
    PROVE  phase = "sync"
BY DEF PublishInv, Resting

Progress == Stored /\ (\A v \in Witness : Awaited(v)) /\ Resting

LEMMA SubmitPublish ==
    ASSUME PublishInv, NEW w \in Witness, Submit(w)
    PROVE  Progress' /\ PublishedIsWitnessed'
<1>1. /\ task[w].step = "attempt"
      /\ UNCHANGED <<serving, cosigned, head, phase, receipt, published>>
  BY DEF Submit, database
<1>2. phase = "sync"
  BY <1>1, WorksInSync
<1>3. PublishedIsWitnessed'
  BY WitnessedStays DEF Submit
<1>4. CASE SendTo(w, SizeOf(receipt[w])) /\ Goto(w, "submitted", SizeOf(receipt[w]))
  <2>1. "submitted" \in Waiting /\ task[w].step \notin Waiting
    BY <1>1 DEF Waiting
  <2> QED BY <1>1, <1>2, <1>3, <1>4, <2>1, SendPublish DEF Progress
<1>5. CASE Goto(w, "failed", 0) /\ UNCHANGED requests
  <2>1. \A r \in requests[w] \cup serving[w] : ~r.live
    BY <1>1 DEF PublishInv, Awaited, Waiting
  <2>2. receipt' \in [Witness -> SUBSET Seq(Entry)] /\ published' \in SUBSET Seq(Entry)
    BY <1>1 DEF PublishInv, Stored
  <2> QED BY <1>1, <1>2, <1>3, <1>5, <2>1, <2>2, MovePublish DEF Progress
<1> QED BY <1>4, <1>5 DEF Submit

LEMMA ResubmitPublish ==
    ASSUME PublishInv, NEW w \in Witness, Resubmit(w)
    PROVE  Progress' /\ PublishedIsWitnessed'
<1>1. /\ task[w].step = "resubmit"
      /\ UNCHANGED <<serving, cosigned, head, phase, receipt, published>>
      /\ SendTo(w, task[w].size) /\ Goto(w, "resubmitted", task[w].size)
  BY DEF Resubmit, database
<1>2. phase = "sync"
  BY <1>1, WorksInSync
<1>3. PublishedIsWitnessed'
  BY WitnessedStays DEF Resubmit
<1>4. "resubmitted" \in Waiting /\ task[w].step \notin Waiting
  BY <1>1 DEF Waiting
<1> QED BY <1>1, <1>2, <1>3, <1>4, SendPublish DEF Progress

LEMMA MonitorPublish ==
    ASSUME PublishInv, NEW w \in Witness, Monitor(w)
    PROVE  Progress' /\ PublishedIsWitnessed'
<1>1. /\ task[w].step = "monitor"
      /\ UNCHANGED <<serving, head, phase, receipt, published>>
      /\ cosigned' = [cosigned EXCEPT ![w] = @ \cup Monitored(w)]
  BY DEF Monitor, database
<1>2. phase = "sync"
  BY <1>1, WorksInSync
<1>3. /\ \A v \in Witness : cosigned[v] \subseteq cosigned'[v]
      /\ Monitored(w) \subseteq cosigned'[w]
  BY <1>1 DEF PublishInv, HonestInv, Histories
<1>4. PublishedIsWitnessed'
  BY <1>3, WitnessedStays DEF Monitor
<1>5. \A r \in requests[w] \cup serving[w] : ~r.live
  BY <1>1 DEF PublishInv, Awaited, Waiting
<1>6. receipt' \in [Witness -> SUBSET Seq(Entry)] /\ published' \in SUBSET Seq(Entry)
  BY <1>1 DEF PublishInv, Stored
<1>7. ASSUME NEW step, step # "done", Goto(w, step, 0), UNCHANGED requests
      PROVE  Progress'
  BY <1>1, <1>2, <1>3, <1>5, <1>6, <1>7, MovePublish DEF Progress
<1>8. CASE NotYetThere(w) /\ RetryOrGiveUp(w) /\ UNCHANGED requests
  BY <1>4, <1>7, <1>8 DEF RetryOrGiveUp
<1>9. ASSUME NEW h \in memory[w], ~Recoverable(w, h), Goto(w, "failed", 0), UNCHANGED requests
      PROVE  Progress'
  BY <1>7, <1>9
<1>10. ASSUME NEW h \in memory[w], Recoverable(w, h), h = head,
              Goto(w, "done", 0), UNCHANGED requests
       PROVE  Progress'
  <2>1. head \in cosigned'[w]
    BY <1>3, <1>10 DEF Recoverable, Monitored
  <2> QED BY <1>1, <1>2, <1>3, <1>5, <1>6, <1>10, <2>1, MovePublish DEF Progress
<1>11. ASSUME NEW h \in memory[w], SendTo(w, Len(h)), Goto(w, "recovering", Len(h))
       PROVE  Progress'
  <2>1. "recovering" \in Waiting /\ task[w].step \notin Waiting
    BY <1>1 DEF Waiting
  <2> QED BY <1>1, <1>2, <1>3, <1>11, <2>1, SendPublish DEF Progress
<1> QED BY <1>4, <1>8, <1>9, <1>10, <1>11 DEF Monitor

LEMMA SavePublish ==
    ASSUME PublishInv, NEW w \in Witness, SaveReceipt(w)
    PROVE  Progress' /\ PublishedIsWitnessed'
<1>1. /\ task[w].step = "done"
      /\ UNCHANGED <<requests, serving, cosigned, head, phase, log, published>>
  BY DEF SaveReceipt, witnessVars
<1>2. phase = "sync"
  BY <1>1, WorksInSync
<1>3. head \in Seq(Entry) /\ head \in cosigned[w]
  BY <1>1 DEF PublishInv, HonestInv, Histories, Awaited
<1>4. \A r \in requests[w] \cup serving[w] : ~r.live
  BY <1>1 DEF PublishInv, Awaited, Waiting
<1>5. \A h \in published : Certified(h)'
  BY <1>1, CertifiedGrows DEF PublishInv, PublishedIsWitnessed
<1>6. CASE /\ IsPrefix(head, log)
           /\ receipt' = [receipt EXCEPT ![w] = {head}]
           /\ Goto(w, "saved", 0)
  <2>1. receipt' \in [Witness -> SUBSET Seq(Entry)] /\ published' \in SUBSET Seq(Entry)
    BY <1>1, <1>3, <1>6 DEF PublishInv, Stored
  <2>2. PublishedIsWitnessed'
    BY <1>1, <1>3, <1>5, <1>6 DEF PublishInv, Stored, PublishedIsWitnessed
  <2> QED BY <1>1, <1>2, <1>4, <1>6, <2>1, <2>2, MovePublish DEF Progress
<1>7. CASE Goto(w, "failed", 0) /\ UNCHANGED receipt
  <2>1. receipt' \in [Witness -> SUBSET Seq(Entry)] /\ published' \in SUBSET Seq(Entry)
    BY <1>1, <1>7 DEF PublishInv, Stored
  <2>2. PublishedIsWitnessed'
    BY <1>1, <1>7, WitnessedStays DEF database
  <2> QED BY <1>1, <1>2, <1>4, <1>7, <2>1, <2>2, MovePublish DEF Progress
<1> QED BY <1>6, <1>7 DEF SaveReceipt

\* The receipts that count are for the committed head, and every one of them
\* stands for a cosignature.
LEMMA PromotePublish ==
    ASSUME PublishInv, Promote
    PROVE  Progress' /\ PublishedIsWitnessed'
<1>1. /\ UNCHANGED <<requests, serving, cosigned, log, receipt>>
      /\ task' = [w \in Witness |-> NoTask] /\ phase' = "rest"
      /\ \A w \in Witness : task[w].step \in {"saved", "failed"}
  BY DEF Promote, witnessVars
<1>2. \A w \in Witness : \A r \in requests[w] \cup serving[w] : ~r.live
  BY <1>1 DEF PublishInv, Awaited, Waiting
<1>3. \A w \in Witness : Awaited(w)'
  BY <1>1, <1>2 DEF PublishInv, Awaited, NoTask
<1>4. \A h \in published : Certified(h)' /\ IsPrefix(h, log)'
  BY <1>1, CertifiedGrows DEF PublishInv, PublishedIsWitnessed
<1>5. CASE published' = {log} /\ Quorum(ForHead)
  <2>1. log \in Seq(Entry) /\ IsPrefix(log, log)
    BY PrefixRefl DEF PublishInv, HonestInv, Histories
  <2> DEFINE Q == {w \in Witness : log \in cosigned[w]}
  <2>2. ForHead \subseteq Q /\ Q \subseteq Witness
    BY DEF ForHead, PublishInv, PublishedIsWitnessed
  <2>3. IsFiniteSet(Q) /\ IsFiniteSet(ForHead)
    BY <2>2, RosterAssumption, FS_Subset
  <2>4. /\ Cardinality(ForHead) <= Cardinality(Q)
        /\ Cardinality(ForHead) \in Nat /\ Cardinality(Q) \in Nat
    BY <2>2, <2>3, FS_Subset, FS_CardinalityType
  <2>5. Certified(log)
    BY <1>5, <2>4, QuorumAssumption DEF Certified, Quorum
  <2>6. Certified(log)' /\ IsPrefix(log, log)'
    BY <1>1, <2>1, <2>5, CertifiedGrows
  <2>7. Stored'
    BY <1>1, <1>5, <2>1 DEF PublishInv, Stored, NoTask
  <2>8. PublishedIsWitnessed'
    BY <1>1, <1>5, <2>6 DEF PublishInv, PublishedIsWitnessed
  <2> QED BY <1>1, <1>3, <2>7, <2>8 DEF Progress, Resting, NoTask
<1>6. CASE published' = published
  <2>1. Stored'
    BY <1>1, <1>6 DEF PublishInv, Stored, NoTask
  <2>2. PublishedIsWitnessed'
    BY <1>1, <1>4, <1>6 DEF PublishInv, PublishedIsWitnessed
  <2> QED BY <1>1, <1>3, <2>1, <2>2 DEF Progress, Resting, NoTask
<1> QED BY <1>5, <1>6 DEF Promote

\* A refused submission was the only one its task waited for.
LEMMA HandlePublish ==
    ASSUME PublishInv, NEW w \in Witness, Handle(w)
    PROVE  Progress' /\ PublishedIsWitnessed'
<1>1. PICK r \in requests[w] :
         /\ \/ Refuse(w, r) /\ IF r.live THEN AfterConflict(w, SizeOf(memory[w]))
                             ELSE UNCHANGED task
            \/ Refuse(w, r) /\ IF r.live THEN AfterRejection(w) ELSE UNCHANGED task
            \/ Persist(w, r) /\ UNCHANGED task
         /\ ClientKeeps
  BY DEF Handle
<1>2. /\ UNCHANGED <<cosigned, head, phase, receipt, published, log>>
      /\ requests' = [requests EXCEPT ![w] = @ \ {r}]
      /\ serving[w] = {}
  BY <1>1 DEF ClientKeeps, database, Refuse, Persist, Receive
<1>3. PublishedIsWitnessed'
  BY <1>2, WitnessedStays DEF database
<1>4. /\ requests'[w] = requests[w] \ {r}
      /\ \A v \in Witness : requests'[v] \subseteq requests[v]
  BY <1>2 DEF PublishInv, HonestInv, Histories
<1>5. receipt' \in [Witness -> SUBSET Seq(Entry)] /\ published' \in SUBSET Seq(Entry)
  BY <1>2 DEF PublishInv, Stored
<1>6. CASE Refuse(w, r) /\ UNCHANGED task
  <2>1. UNCHANGED serving
    BY <1>6 DEF Refuse
  <2> QED BY <1>2, <1>3, <1>4, <1>6, <2>1, KeepPublish DEF Progress
<1>7. ASSUME Refuse(w, r), r.live,
             NEW step, NEW size, Goto(w, step, size), step # "done"
      PROVE  Progress'
  <2>1. UNCHANGED serving
    BY <1>7 DEF Refuse
  <2>2. phase = "sync"
    BY <1>7, WorksInSync DEF PublishInv, Awaited, Waiting
  <2>3. \A q \in requests'[w] \cup serving'[w] : ~q.live
    BY <1>2, <1>4, <1>7, <2>1 DEF PublishInv, Awaited
  <2> QED BY <1>2, <1>4, <1>5, <1>7, <2>1, <2>2, <2>3, MovePublish DEF Progress
<1>8. CASE Refuse(w, r) /\ r.live /\ AfterConflict(w, SizeOf(memory[w]))
  <2>1. task[w].step \in Waiting
    BY <1>8 DEF PublishInv, Awaited
  <2>2. \E step, size : Goto(w, step, size) /\ step # "done"
    <3>1. CASE task[w].step = "submitted"
      <4> DEFINE n == SizeOf(memory[w])
                 d == CASE n > Len(head) -> "failed"
                        [] n = Len(head) -> "resubmit"
                        [] n < Len(head) -> "monitor"
      <4>1. Goto(w, d, n)
        BY <1>8, <3>1 DEF AfterConflict
      <4>2. CASE n > Len(head) \/ n = Len(head) \/ n < Len(head)
        BY <4>1, <4>2
      <4>3. n \in Nat /\ Len(head) \in Nat
        BY DEF SizeOf, PublishInv, HonestInv, Histories
      <4> QED BY <4>2, <4>3
    <3>2. CASE task[w].step = "resubmitted"
      BY <1>8, <3>2 DEF AfterConflict
    <3>3. CASE task[w].step = "recovering"
      BY <1>8, <3>3 DEF AfterConflict, RetryOrGiveUp
    <3> QED BY <2>1, <3>1, <3>2, <3>3 DEF Waiting
  <2> QED BY <1>3, <1>7, <1>8, <2>2
<1>9. CASE Refuse(w, r) /\ r.live /\ AfterRejection(w)
  <2>1. \E step, size : Goto(w, step, size) /\ step # "done"
    BY <1>9 DEF AfterRejection
  <2> QED BY <1>3, <1>7, <1>9, <2>1
<1>10. CASE Persist(w, r) /\ UNCHANGED task
  <2>1. serving' = [serving EXCEPT ![w] = {r}]
    BY <1>10 DEF Persist
  <2>2. ASSUME NEW v \in Witness PROVE Awaited(v)'
    <3>1. CASE v = w
      <4>1. serving'[w] = {r}
        BY <2>1 DEF PublishInv, HonestInv, Histories
      <4> QED BY <1>2, <1>4, <1>10, <3>1, <4>1 DEF PublishInv, Awaited
    <3>2. CASE v # w
      <4>1. serving'[v] = serving[v]
        BY <2>1, <3>2 DEF PublishInv, HonestInv, Histories
      <4> QED BY <1>2, <1>4, <1>10, <3>2, <4>1 DEF PublishInv, Awaited
    <3> QED BY <3>1, <3>2
  <2>3. Stored' /\ Resting'
    BY <1>2, <1>10 DEF PublishInv, Stored, Resting
  <2> QED BY <1>3, <2>2, <2>3 DEF Progress
<1> QED BY <1>1, <1>6, <1>8, <1>9, <1>10

LEMMA AnswerPublish ==
    ASSUME PublishInv, NEW w \in Witness, Answer(w)
    PROVE  Progress' /\ PublishedIsWitnessed'
<1>1. PICK r \in serving[w] :
         /\ Respond(w, r)
         /\ IF r.live THEN Goto(w, "done", 0) ELSE UNCHANGED task
         /\ ClientKeeps
  BY DEF Answer
<1>2. /\ UNCHANGED <<requests, head, phase, receipt, published, log>>
      /\ serving' = [serving EXCEPT ![w] = {}]
      /\ cosigned' = [cosigned EXCEPT ![w] = @ \cup {r.hist}]
  BY <1>1 DEF ClientKeeps, database, Respond
<1>3. /\ \A v \in Witness : cosigned[v] \subseteq cosigned'[v]
      /\ r.hist \in cosigned'[w]
      /\ serving'[w] = {}
      /\ \A v \in Witness : serving'[v] \subseteq serving[v]
  BY <1>2 DEF PublishInv, HonestInv, Histories
<1>4. PublishedIsWitnessed'
  BY <1>2, <1>3, WitnessedStays DEF database
<1>5. receipt' \in [Witness -> SUBSET Seq(Entry)] /\ published' \in SUBSET Seq(Entry)
  BY <1>2 DEF PublishInv, Stored
<1>6. CASE r.live /\ Goto(w, "done", 0)
  <2>1. r.hist = head /\ phase = "sync"
    BY <1>6, WorksInSync DEF PublishInv, Awaited, Waiting
  <2>2. \A q \in requests'[w] \cup serving'[w] : ~q.live
    BY <1>2, <1>3, <1>6 DEF PublishInv, Awaited
  <2> QED BY <1>2, <1>3, <1>4, <1>5, <1>6, <2>1, <2>2, MovePublish DEF Progress
<1>7. CASE UNCHANGED task
  BY <1>2, <1>3, <1>4, <1>7, KeepPublish DEF Progress
<1> QED BY <1>1, <1>6, <1>7

\* The submissions of the witnesses in S lose their submitter.
LEMMA AbandonAwaited ==
    ASSUME NEW rs, \A r \in rs : WellFormed(r)
    PROVE  \A s \in Abandoned(rs) : ~s.live
BY DEF Abandoned, WellFormed

LEMMA AbandonOne ==
    ASSUME NEW rs, \A r, s \in rs : r = s
    PROVE  \A r, s \in Abandoned(rs) : r = s
BY DEF Abandoned

LEMMA TimeoutPublish ==
    ASSUME PublishInv, NEW w \in Witness, Timeout(w)
    PROVE  Progress' /\ PublishedIsWitnessed'
<1>1. /\ UNCHANGED <<cosigned, head, phase, receipt, published, log>>
      /\ requests' = [requests EXCEPT ![w] = Abandoned(@)]
      /\ serving' = [serving EXCEPT ![w] = Abandoned(@)]
      /\ task[w].step \in Waiting
  BY DEF Timeout, database
<1>2. PublishedIsWitnessed'
  BY <1>1, WitnessedStays DEF database
<1>3. PICK step \in {"attempt", "failed"} : Goto(w, step, 0)
  BY DEF Timeout, RetryOrGiveUp
<1>4. /\ DOMAIN task' = Witness
      /\ \A v \in Witness : DOMAIN task'[v] = {"step", "size"}
      /\ task'[w].step = step
      /\ \A v \in Witness : v # w => task'[v] = task[v]
  BY <1>3, GotoForm
<1>5. ASSUME NEW v \in Witness PROVE Awaited(v)'
  <2>1. CASE v = w
    <3>1. requests'[w] = Abandoned(requests[w]) /\ serving'[w] = Abandoned(serving[w])
      BY <1>1 DEF PublishInv, HonestInv, Histories
    <3>2. \A r \in requests'[w] \cup serving'[w] : ~r.live
      BY <3>1, AbandonAwaited DEF PublishInv, HonestInv, Histories
    <3>3. \A r, s \in serving'[w] : r = s
      BY <3>1, AbandonOne DEF PublishInv, Awaited
    <3> QED BY <1>1, <1>3, <1>4, <2>1, <3>2, <3>3 DEF Awaited
  <2>2. CASE v # w
    <3>1. requests'[v] = requests[v] /\ serving'[v] = serving[v]
      BY <1>1, <2>2 DEF PublishInv, HonestInv, Histories
    <3> QED BY <1>1, <1>4, <2>2, <3>1 DEF PublishInv, Awaited
  <2> QED BY <2>1, <2>2
<1>6. Stored'
  BY <1>1, <1>4 DEF PublishInv, Stored
<1>7. Resting'
  BY <1>1, WorksInSync DEF Resting, Waiting
<1> QED BY <1>2, <1>5, <1>6, <1>7 DEF Progress

LEMMA CrashPublish ==
    ASSUME PublishInv, Crash
    PROVE  Progress' /\ PublishedIsWitnessed'
<1>1. /\ UNCHANGED <<cosigned, receipt, published, log>>
      /\ requests' = [w \in Witness |-> Abandoned(requests[w])]
      /\ serving' = [w \in Witness |-> Abandoned(serving[w])]
      /\ task' = [w \in Witness |-> NoTask]
  BY DEF Crash, database
<1>2. PublishedIsWitnessed'
  BY <1>1, WitnessedStays DEF database
<1>3. ASSUME NEW v \in Witness PROVE Awaited(v)'
  <2>1. \A r \in requests'[v] \cup serving'[v] : ~r.live
    BY <1>1, AbandonAwaited DEF PublishInv, HonestInv, Histories
  <2>2. \A r, s \in serving[v] : r = s
    BY DEF PublishInv, Awaited
  <2>3. \A r, s \in serving'[v] : r = s
    BY <1>1, <2>2, AbandonOne
  <2> QED BY <1>1, <2>1, <2>3 DEF Awaited, NoTask
<1>4. Stored' /\ Resting'
  BY <1>1 DEF PublishInv, Stored, Resting, NoTask
<1> QED BY <1>2, <1>3, <1>4 DEF Progress

LEMMA PublishInit == Init => PublishInv
<1> SUFFICES ASSUME Init PROVE PublishInv
  OBVIOUS
<1>1. HonestInv
  BY HonestInit
<1>2. Stored /\ Resting /\ PublishedIsWitnessed
  BY DEF Init, Stored, Resting, PublishedIsWitnessed, NoTask
<1>3. \A w \in Witness : Awaited(w)
  BY DEF Init, WitnessInit, Awaited, NoTask
<1> QED BY <1>1, <1>2, <1>3 DEF PublishInv

LEMMA PublishNext == PublishInv /\ [Next]_vars => PublishInv'
<1> SUFFICES ASSUME PublishInv, [Next]_vars PROVE Progress' /\ PublishedIsWitnessed'
  BY HonestNext DEF PublishInv, Progress
<1>1. ASSUME NEW e \in Entry, AppendEntry(e) PROVE Progress' /\ PublishedIsWitnessed'
  <2>1. /\ UNCHANGED <<requests, serving, cosigned, receipt, published, phase, head, task>>
        /\ log' = Append(log, e)
    BY <1>1 DEF AppendEntry, witnessVars
  <2>2. \A h \in Seq(Entry) : IsPrefix(h, log) => IsPrefix(h, log')
    BY <2>1, AppendExtends DEF PublishInv, HonestInv, Histories
  <2>3. \A h \in published : Certified(h)'
    BY <2>1, CertifiedGrows DEF PublishInv, PublishedIsWitnessed
  <2>4. PublishedIsWitnessed'
    BY <2>1, <2>2, <2>3 DEF PublishInv, PublishedIsWitnessed, Stored
  <2> QED BY <2>1, <2>4, KeepPublish DEF Progress
<1>2. CASE StartSync
  <2>1. /\ UNCHANGED <<requests, serving, cosigned, log, receipt, published>>
        /\ phase = "rest" /\ phase' = "sync"
        /\ task' = [w \in Witness |-> [step |-> "attempt", size |-> 0]]
    BY <1>2 DEF StartSync, witnessVars, database
  <2>2. \A w \in Witness : \A r \in requests[w] \cup serving[w] : ~r.live
    BY <2>1 DEF PublishInv, Resting, Awaited, Waiting
  <2>3. \A w \in Witness : Awaited(w)'
    BY <2>1, <2>2 DEF PublishInv, Awaited
  <2>4. Stored' /\ Resting'
    BY <2>1 DEF PublishInv, Stored, Resting
  <2> QED BY <2>1, <2>3, <2>4, WitnessedStays DEF Progress, database
<1>3. ASSUME NEW w \in Witness, SaveFails(w) PROVE Progress' /\ PublishedIsWitnessed'
  <2>1. /\ UNCHANGED <<serving, cosigned, log, receipt, published, phase, head, task>>
        /\ \A v \in Witness : requests'[v] \subseteq requests[v]
    BY <1>3 DEF SaveFails, Refuse, Receive, database, PublishInv, HonestInv, Histories
  <2> QED BY <2>1, KeepPublish, WitnessedStays DEF Progress, database
<1>4. ASSUME NEW w \in Witness, WitnessCrash(w) \/ WitnessPowerLoss(w)
      PROVE  Progress' /\ PublishedIsWitnessed'
  <2>1. /\ UNCHANGED <<requests, cosigned, log, receipt, published, phase, head, task>>
        /\ serving' = [serving EXCEPT ![w] = {}]
    BY <1>4 DEF WitnessCrash, WitnessPowerLoss, RestartWitness, PowerLoss, database
  <2>2. \A v \in Witness : serving'[v] \subseteq serving[v]
    BY <2>1 DEF PublishInv, HonestInv, Histories
  <2> QED BY <2>1, <2>2, KeepPublish, WitnessedStays DEF Progress, database
<1>5. CASE Restart
  <2>1. /\ UNCHANGED <<requests, serving, cosigned, log, receipt, published, head, task>>
        /\ phase = "down" /\ phase' = "rest"
    BY <1>5 DEF Restart, witnessVars, database
  <2>2. Stored' /\ Resting' /\ \A v \in Witness : Awaited(v)'
    BY <2>1 DEF PublishInv, Stored, Resting, Awaited
  <2> QED BY <2>1, <2>2, WitnessedStays DEF Progress, database
<1>6. CASE Restore
  <2>1. /\ UNCHANGED <<requests, serving, cosigned, phase, head, task>>
        /\ receipt' = [w \in Witness |-> {}] /\ published' = {}
    BY <1>6 DEF Restore, witnessVars
  <2>2. Stored' /\ Resting' /\ \A v \in Witness : Awaited(v)'
    BY <2>1 DEF PublishInv, Stored, Resting, Awaited
  <2> QED BY <2>1, <2>2 DEF Progress, PublishedIsWitnessed
<1>7. CASE UNCHANGED vars
  BY <1>7, KeepPublish, WitnessedStays DEF Progress, vars, witnessVars, database
<1> QED BY <1>1, <1>2, <1>3, <1>4, <1>5, <1>6, <1>7, SubmitPublish, ResubmitPublish,
           MonitorPublish, SavePublish, PromotePublish, HandlePublish, AnswerPublish,
           TimeoutPublish, CrashPublish
        DEF Next

\* Only what a quorum of witnesses has cosigned is published, and every receipt
\* in the database stands for a cosignature on a prefix of the log: for every
\* roster, whatever is lost, answered late or served after a timeout
\* (sync_once, save_witness_receipt and promote_witnessed_head).
THEOREM OnlyWitnessedPublished == Spec => []PublishedIsWitnessed
<1>1. PublishInv => PublishedIsWitnessed
  BY DEF PublishInv
<1> QED BY <1>1, PublishInit, PublishNext, PTL DEF Spec

=============================================================================
