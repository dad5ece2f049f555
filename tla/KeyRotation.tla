---------------------------- MODULE KeyRotation -----------------------------
(***************************************************************************)
(* Key rotation of an agent, from the command to the lofts (client,        *)
(* agent.rs and state.rs, over the files of KeyStore).                     *)
(*                                                                         *)
(* A rotation first places the record of the outgoing key at a loft, then  *)
(* promotes the keys, then keeps the signed bundle (source record, target  *)
(* record, rotation) in the client database until every loft has           *)
(* acknowledged it.  Drains, placement maintenance and repeated commands   *)
(* of any process retry what is left.  The set of lofts is fixed; adding   *)
(* and removing lofts and the directory's rendezvous choice only change    *)
(* that set.                                                               *)
(***************************************************************************)
EXTENDS KeyStore, Sequences, SequencesExt

CONSTANTS
    Loft,       \* publication targets
    MaxEffort   \* bound: keys generated and record numbers drawn, together

ASSUME KeyRotationAssumption == Loft # {} /\ MaxEffort \in Nat

VARIABLES
    recordSeq,  \* meta.record_seq
    terms,      \* the configured lofts, work floor and attribution requirement
    plan,       \* own_record_publication and the targets that completed it
    own,        \* own_rotations and their publication targets, by source key
    loft,       \* what each loft has stored
    job         \* what each process is doing: phases left, attempts left

db == <<recordSeq, terms, plan, own>>

vars == <<keyVars, db, loft, job>>

NoRecord == [key |-> NoKey, succ |-> NoKey, seq |-> 0, terms |-> 0]

NoPlan == [rec |-> NoRecord, done |-> {}]

NoOwn == [rot |-> NoJournal, todo |-> {}, done |-> {}]

\* A task of a process: the phases it has still to go through, the rotation or
\* source record it is about, and, while it talks to lofts, the record it
\* sends and the attempts left.
Idle == [phases |-> <<>>, rot |-> NoJournal, src |-> NoRecord,
         running |-> FALSE, rec |-> NoRecord, left |-> {}]

\* The two records of a signed bundle.
SourceOf(x) == [key |-> x.from, succ |-> x.to, seq |-> x.seq - 1, terms |-> x.terms]

TargetOf(x) == [key |-> x.to, succ |-> x.next, seq |-> x.seq, terms |-> x.terms]

Init ==
    /\ KeyInit
    /\ recordSeq = 0 /\ terms = 0
    /\ plan = NoPlan
    /\ own = [k \in Key |-> NoOwn]
    /\ loft = [l \in Loft |-> [rec |-> [k \in Key |-> NoRecord],
                               rot |-> [k \in Key |-> NoJournal]]]
    /\ job = [p \in Proc |-> Idle]

-----------------------------------------------------------------------------
(***************************************************************************)
(* The lofts: put_agent_record and put_rotation_record of the loft store.  *)
(***************************************************************************)
TakesRecord(L, r) ==
    \/ L.rec[r.key] \in {NoRecord, r}
    \/ /\ L.rot[r.key] = NoJournal
       /\ L.rec[r.key].succ = r.succ
       /\ L.rec[r.key].seq < r.seq

TakesRotation(L, x) ==
    \/ L.rot[x.from] = x
    \/ /\ L.rot[x.from] = NoJournal
       /\ L.rec[x.from].succ = x.to
       /\ L.rec[x.from].seq + 1 = x.seq

WithRecord(L, r) == [L EXCEPT !.rec[r.key] = r]

WithRotation(L, x) == [L EXCEPT !.rot[x.from] = x]

\* The puts of a bundle stop at the first one that is refused or lost: what the
\* loft can hold afterwards, and the last of them if all three were accepted.
Bundle(L, x) ==
    LET L1 == WithRecord(L, SourceOf(x))
        L2 == WithRecord(L1, TargetOf(x))
        L3 == WithRotation(L2, x)
        ok1 == TakesRecord(L, SourceOf(x))
        ok2 == ok1 /\ TakesRecord(L1, TargetOf(x))
        ok3 == ok2 /\ TakesRotation(L2, x)
    IN  [partial |-> {L} \cup (IF ok1 THEN {L1} ELSE {}) \cup
                     (IF ok2 THEN {L2} ELSE {}) \cup (IF ok3 THEN {L3} ELSE {}),
         complete |-> IF ok3 THEN {L3} ELSE {}]

-----------------------------------------------------------------------------
(***************************************************************************)
(* Transactions of the client database (state.rs).                         *)
(***************************************************************************)

\* save_record_publication: completions survive only for the same record; an
\* older record of the same address is refused.
PlanStale(r) == plan.rec.key = r.key /\ plan.rec # r /\ plan.rec.seq >= r.seq

SavePlan(r) ==
    plan' = [rec |-> r, done |-> IF plan.rec = r THEN plan.done ELSE {}]

\* save_own_rotation: idempotent for the same bundle, bounded in rows.
OwnRows == {k \in Key : own[k] # NoOwn}

OwnFits(X) == Cardinality(OwnRows \cup {x.from : x \in X}) <= MaxLive

WithOwn(X) ==
    [k \in Key |->
       IF own[k] = NoOwn /\ \E x \in X : x.from = k
         THEN [NoOwn EXCEPT !.rot = CHOOSE x \in X : x.from = k]
         ELSE own[k]]

\* prune_expired_own_rotations.
Pruned == [k \in Key |-> IF now >= own[k].rot.at + Grace THEN NoOwn ELSE own[k]]

\* sync_own_rotation_targets.
WithTargets(O) ==
    [k \in Key |-> IF O[k] = NoOwn THEN NoOwn
                   ELSE [O[k] EXCEPT !.todo = Loft \ O[k].done]]

\* Mutant: the number used by a rotation is not taken over.
RaisedNever(X) == recordSeq

\* ensure_record_seq_at_least.
Raised(X) ==
    CHOOSE n \in {recordSeq} \cup {x.seq : x \in X} :
      \A x \in X : n >= recordSeq /\ n >= x.seq

\* The retired identities a list of the directory returns.
RetiredNow == {m \in metadata : m.from \in retired /\ m.at <= lease.time}

-----------------------------------------------------------------------------
(***************************************************************************)
(* Tasks, as the sequence of their phases.                                 *)
(***************************************************************************)
DrainTask == <<"lease", "prune", "list", "drain", "release">>

MaintainTask == <<"lease", "prune", "records", "rotations", "prepare", "sync",
                  "records", "rotations", "release">>

PublishTask == <<"lease", "terms", "prepare", "sync", "records", "rotations", "release">>

RotateTask == <<"prune", "lease", "list", "reconcile", "release", "choose">>

RotateCurrentTask == <<"lease", "source", "records", "keys">>

AfterKeysTask == <<"own", "targets", "replan", "rotations", "records">>

\* The refresh of the directories decides whether the second half runs.
ResumeTasks ==
    {<<"rotations", "records">>,
     <<"rotations", "records", "replan", "sync", "rotations", "records">>}

Doing(p, ph) == job[p].phases # <<>> /\ Head(job[p].phases) = ph

Rest(p) == [job[p] EXCEPT !.phases = Tail(@)]

\* A task without a phase left has ended.
Become(p, j) == job' = [job EXCEPT ![p] = IF j.phases = <<>> THEN Idle ELSE j]

Advance(p) == Become(p, Rest(p))

\* The body of a task that holds the lease.
Holds(p) == lease.by = p /\ At("leased")

\* An entry point, with the first phase of its task: before it the call has done
\* nothing that another process could see.
Start(p) ==
    /\ cached[p] # NoKey /\ lease.by # p
    /\ job[p] = Idle
    /\ \/ /\ Acquire(p)
          /\ \E t \in {DrainTask, MaintainTask, PublishTask} :
               Become(p, [Idle EXCEPT !.phases = Tail(t)])
          /\ UNCHANGED own
       \/ /\ own' = Pruned
          /\ Become(p, [Idle EXCEPT !.phases = Tail(RotateTask)])
          /\ UNCHANGED keyVars
    /\ UNCHANGED <<recordSeq, terms, plan, loft>>

AcquireLease(p) == Doing(p, "lease") /\ Acquire(p) /\ Advance(p) /\ UNCHANGED <<db, loft>>

ReleaseLease(p) ==
    /\ Doing(p, "release") /\ lease.by = p /\ Release
    /\ Advance(p) /\ UNCHANGED <<db, loft>>

Prune(p) ==
    /\ Doing(p, "prune") /\ Holds(p)
    /\ own' = Pruned
    /\ Advance(p) /\ UNCHANGED <<keyVars, recordSeq, terms, plan, loft>>

\* set_pow_floor and the like change a setting that the record advertises.
ChangeTerms(p) ==
    /\ Doing(p, "terms") /\ Holds(p)
    /\ terms' \in Terms \ {terms}
    /\ Advance(p) /\ UNCHANGED <<keyVars, recordSeq, plan, own, loft>>

\* retired_identities_with_lease: the list, and what is kept of it.
List(p) == Doing(p, "list") /\ Holds(p) /\ ListRetired /\ Advance(p) /\ UNCHANGED <<db, loft>>

\* A drain whose time is over skips the rest of the list.
Reconcile(p) ==
    /\ Doing(p, "reconcile") \/ Doing(p, "drain")
    /\ lease.by = p /\ At("listed")
    /\ \E X \in SUBSET RetiredNow :
         /\ Doing(p, "reconcile") => X = RetiredNow
         /\ OwnFits(X)
         /\ own' = WithOwn(X)
         /\ recordSeq' = IF Doing(p, "reconcile") THEN Raised(X) ELSE recordSeq
    /\ GoTo("leased")
    /\ Advance(p)
    /\ UNCHANGED <<files, cached, made, signed, now, faults, terms, plan, loft>>

-----------------------------------------------------------------------------
(***************************************************************************)
(* Placing records and bundles at the lofts.                               *)
(***************************************************************************)

\* prepare_record_publication: the planned record if it still says what it
\* should, the target record of the last rotation, or a new one.
Fits(r) == r.key = operating /\ r.succ = successor /\ r.terms = terms

Recovered == {TargetOf(own[k].rot) : k \in OwnRows} \cap
             [key : {operating}, succ : {successor}, seq : Nat, terms : {terms}]

NewRecord == [key |-> operating, succ |-> successor, seq |-> recordSeq + 1,
              terms |-> terms]

Candidates ==
    LET old == {r \in {plan.rec} : Fits(r)} \cup Recovered
    IN  IF old = {} THEN {NewRecord}
        ELSE {r \in old : \A q \in old : q.seq <= r.seq}

\* The numbers of target records are not drawn.
Effort == made + recordSeq - Cardinality(signed)

TakesNumber(r) ==
    IF r = NewRecord
      THEN Effort < MaxEffort /\ recordSeq' = recordSeq + 1
      ELSE recordSeq' = recordSeq

Prepare(p) ==
    /\ Doing(p, "prepare") /\ Holds(p)
    /\ \E r \in Candidates :
         ~ PlanStale(r) /\ TakesNumber(r) /\ SavePlan(r)
    /\ Advance(p) /\ UNCHANGED <<keyVars, terms, own, loft>>

\* The task ends with an error, and with it the lease it may hold.
GiveUp(p) ==
    /\ Become(p, Idle)
    /\ lease' = IF lease.by = p THEN Free ELSE lease
    /\ UNCHANGED <<files, cached, made, signed, now, faults, db, loft>>

\* save_record_publication refuses the record that was chosen.
PrepareRefused(p) ==
    /\ Doing(p, "prepare") /\ Holds(p)
    /\ \E r \in Candidates : PlanStale(r)
    /\ GiveUp(p)

SyncTargets(p) ==
    /\ Doing(p, "sync")
    /\ own' = WithTargets(Pruned)
    /\ Advance(p) /\ UNCHANGED <<keyVars, recordSeq, terms, plan, loft>>

\* A phase ends with its last attempt.
Finished(j) ==
    [j EXCEPT !.phases = Tail(@), !.running = FALSE, !.rec = NoRecord, !.left = {}]

With(j, left) == IF left = {} THEN Finished(j) ELSE [j EXCEPT !.left = left]

Tried(p, a) == Become(p, With(job[p], job[p].left \ {a}))

\* The pending targets are read once; requests then run side by side.
StartAttempts(p) ==
    /\ Doing(p, "records") \/ Doing(p, "rotations")
    /\ ~ job[p].running
    /\ lease.by = p => At("leased")
    /\ Become(p, With([job[p] EXCEPT !.running = TRUE, !.rec = plan.rec],
         IF Doing(p, "records")
           THEN {<<NoJournal, l>> : l \in {m \in Loft \ plan.done : plan # NoPlan}}
           ELSE UNION {{own[k].rot} \X own[k].todo : k \in Key}))
    /\ UNCHANGED <<keyVars, db, loft>>

\* Mutant: an answer completes whatever record is planned by then.
PlanDoneAnyRecord(r, l) == plan' = [plan EXCEPT !.done = @ \cup {l}]

\* mark_record_target_complete: only for the exact record that is planned.
PlanDone(r, l) ==
    plan' = IF plan.rec = r THEN [plan EXCEPT !.done = @ \cup {l}] ELSE plan

\* The loft stored the record and the client saw its answer.
RecordPlaced(p, l) ==
    LET r == job[p].rec IN
    /\ Doing(p, "records") /\ job[p].running /\ <<NoJournal, l>> \in job[p].left
    /\ TakesRecord(loft[l], r)
    /\ loft' = [loft EXCEPT ![l] = WithRecord(@, r)]
    /\ PlanDone(r, l)
    /\ Tried(p, <<NoJournal, l>>)
    /\ UNCHANGED <<keyVars, recordSeq, terms, own>>

\* mark_rotation_target_complete, and mark_record_target_complete for the
\* target record.
RotationPlaced(p, x, l) ==
    /\ Doing(p, "rotations") /\ job[p].running /\ <<x, l>> \in job[p].left
    /\ \E L \in Bundle(loft[l], x).complete : loft' = [loft EXCEPT ![l] = L]
    /\ own' = IF l \in own[x.from].todo
                THEN [own EXCEPT ![x.from] = [own[x.from] EXCEPT !.todo = @ \ {l},
                                                                 !.done = @ \cup {l}]]
                ELSE own
    /\ PlanDone(TargetOf(x), l)
    /\ Tried(p, <<x, l>>)
    /\ UNCHANGED <<keyVars, recordSeq, terms>>

\* The request is refused, never arrives, or its answer is lost.
AttemptFails(p) ==
    /\ job[p].running
    /\ \E a \in job[p].left :
         /\ \E L \in IF Doing(p, "rotations") THEN Bundle(loft[a[2]], a[1]).partial
                     ELSE {loft[a[2]]} \cup
                          IF TakesRecord(loft[a[2]], job[p].rec)
                            THEN {WithRecord(loft[a[2]], job[p].rec)} ELSE {} :
              loft' = [loft EXCEPT ![a[2]] = L]
         /\ Tried(p, a)
    /\ UNCHANGED <<keyVars, db>>

\* The wake-up budget is spent: the task ends here, except that a rotation goes
\* on with the successes it has.
Deadline(p) ==
    /\ job[p].running
    /\ Become(p, [Finished(job[p]) EXCEPT !.phases =
         IF Contains(@, "keys") THEN <<"keys">>
         ELSE IF Contains(@, "release") THEN <<"release">> ELSE <<>>])
    /\ UNCHANGED <<keyVars, db, loft>>

-----------------------------------------------------------------------------
(***************************************************************************)
(* rotate_expected.                                                        *)
(***************************************************************************)

\* The confirmed source is the active key, or the predecessor of a transition
\* to it; any other source is an error.
ChooseRotation(p) ==
    /\ Doing(p, "choose")
    /\ \/ /\ own[cached[p]] = NoOwn
          /\ Become(p, [Idle EXCEPT !.phases = RotateCurrentTask])
       \/ \E k \in OwnRows, t \in ResumeTasks :
            /\ own[k].rot.to = cached[p]
            /\ Become(p, [Idle EXCEPT !.phases = t, !.rot = own[k].rot])
    /\ UNCHANGED <<keyVars, db, loft>>

\* "rotation journal targets another identity but the source is still active".
ChooseRefused(p) ==
    /\ Doing(p, "choose")
    /\ own[cached[p]] # NoOwn
    /\ GiveUp(p)

\* rotate_current: the source record is the planned one if it still fits.
SaveSource(p) ==
    /\ Doing(p, "source") /\ Holds(p)
    /\ LET r == IF Fits(plan.rec) THEN plan.rec ELSE NewRecord
       IN  /\ ~ PlanStale(r) /\ TakesNumber(r) /\ SavePlan(r)
           /\ Become(p, [Rest(p) EXCEPT !.src = r])
    /\ UNCHANGED <<keyVars, terms, own, loft>>

\* At least one loft must have taken the planned record.
PromoteKeys(p) ==
    /\ Doing(p, "keys") /\ Holds(p)
    /\ plan.done # {} /\ Effort < MaxEffort
    /\ BeginRotation
    /\ UNCHANGED <<db, loft, job>>

Undeliverable(p) ==
    /\ Doing(p, "keys") /\ Holds(p)
    /\ plan.done = {}
    /\ GiveUp(p)

JournalRotation(p) ==
    /\ lease.by = p
    /\ WriteJournal(job[p].src.seq, job[p].src.terms)
    /\ UNCHANGED <<db, loft, job>>

KeysRotated(p) ==
    /\ lease.by = p
    /\ Rotated
    /\ LET x == CHOOSE m \in metadata : m.to = operating
       IN  /\ recordSeq' = Raised({x})
           /\ Become(p, [Idle EXCEPT !.phases = AfterKeysTask, !.rot = x])
    /\ UNCHANGED <<terms, plan, own, loft>>

SaveOwn(p) ==
    /\ Doing(p, "own")
    /\ OwnFits({job[p].rot})
    /\ own' = WithOwn({job[p].rot})
    /\ Advance(p) /\ UNCHANGED <<keyVars, recordSeq, terms, plan, loft>>

SaveTargets(p) ==
    LET k == job[p].rot.from IN
    /\ Doing(p, "targets")
    /\ own[k] # NoOwn
    /\ own' = [own EXCEPT ![k] = [@ EXCEPT !.todo = Loft \ own[k].done]]
    /\ Advance(p) /\ UNCHANGED <<keyVars, recordSeq, terms, plan, loft>>

SaveTarget(p) ==
    /\ Doing(p, "replan")
    /\ ~ PlanStale(TargetOf(job[p].rot))
    /\ SavePlan(TargetOf(job[p].rot))
    /\ Advance(p) /\ UNCHANGED <<keyVars, recordSeq, terms, own, loft>>

\* The errors of these transactions end the command.
SaveRefused(p) ==
    /\ \/ Doing(p, "own") /\ ~ OwnFits({job[p].rot})
       \/ Doing(p, "targets") /\ own[job[p].rot.from] = NoOwn
       \/ Doing(p, "replan") /\ PlanStale(TargetOf(job[p].rot))
    /\ GiveUp(p)

\* The list is kept one identity after the other, until one does not fit.
KeptUntilFull(raises) ==
    \E X \in SUBSET RetiredNow : \E x \in RetiredNow \ X :
      /\ OwnFits(X) /\ ~ OwnFits(X \cup {x})
      /\ own' = WithOwn(X)
      /\ recordSeq' = IF raises THEN Raised(X \cup {x}) ELSE recordSeq

ReconcileRefused(p) ==
    /\ Doing(p, "reconcile") \/ Doing(p, "drain")
    /\ lease.by = p /\ At("listed")
    /\ KeptUntilFull(Doing(p, "reconcile"))
    /\ lease' = Free
    /\ Become(p, Idle)
    /\ UNCHANGED <<files, cached, made, signed, now, faults, terms, plan, loft>>

\* Agent::open: the retired identities the list found are kept in the database
\* once the lock is free; the process does not open if they do not fit.
AgentOpened(p) ==
    /\ lease.by = p
    /\ OwnFits(RetiredNow)
    /\ Opened
    /\ own' = WithOwn(RetiredNow)
    /\ recordSeq' = Raised(RetiredNow)
    /\ UNCHANGED <<terms, plan, loft, job>>

OpenRefused(p) ==
    /\ lease.by = p /\ At("opened")
    /\ KeptUntilFull(TRUE)
    /\ lease' = Free
    /\ UNCHANGED <<files, cached, made, signed, now, faults, terms, plan, loft, job>>

-----------------------------------------------------------------------------
(***************************************************************************)
(* Steps of the key files; an error of theirs ends the task of the holder. *)
(***************************************************************************)
FileStep ==
    /\ KeyStep
    /\ job' = IF lease' = Free THEN [job EXCEPT ![lease.by] = Idle] ELSE job
    /\ UNCHANGED <<db, loft>>

OpenHome(p) == Open(p) /\ UNCHANGED <<db, loft, job>>

Quit(p) == Close(p) /\ job[p] = Idle /\ UNCHANGED <<db, loft, job>>

Clock == Tick /\ UNCHANGED <<db, loft, job>>

HolderFails ==
    /\ FileError
    /\ Become(lease.by, Idle)
    /\ UNCHANGED <<db, loft>>

ProcessDies(p) ==
    /\ job[p] # Idle \/ lease.by = p
    /\ Die(p)
    /\ Become(p, Idle)
    /\ UNCHANGED <<db, loft>>

TaskStep(p) ==
    \/ AcquireLease(p) \/ ReleaseLease(p) \/ Prune(p) \/ ChangeTerms(p) \/ List(p) \/ Reconcile(p)
    \/ ReconcileRefused(p) \/ Prepare(p) \/ PrepareRefused(p) \/ SyncTargets(p)
    \/ StartAttempts(p) \/ ChooseRotation(p) \/ ChooseRefused(p) \/ SaveSource(p)
    \/ PromoteKeys(p) \/ Undeliverable(p) \/ JournalRotation(p) \/ KeysRotated(p)
    \/ SaveOwn(p) \/ SaveTargets(p) \/ SaveTarget(p) \/ SaveRefused(p)
    \/ AgentOpened(p) \/ OpenRefused(p)

Placed(p) ==
    \/ \E l \in Loft : RecordPlaced(p, l)
    \/ \E l \in Loft : \E a \in job[p].left : a[2] = l /\ RotationPlaced(p, a[1], l)

Next ==
    \/ \E p \in Proc :
         \/ OpenHome(p) \/ Quit(p) \/ Start(p)
         \/ TaskStep(p) \/ Placed(p) \/ AttemptFails(p) \/ Deadline(p)
         \/ ProcessDies(p)
    \/ FileStep \/ Clock \/ HolderFails

Spec == Init /\ [][Next]_vars

-----------------------------------------------------------------------------
(***************************************************************************)
(* What the lofts may rely on.                                             *)
(***************************************************************************)

\* Every record that a loft holds or that the database means to place.
Shown == {loft[l].rec[k] : l \in Loft, k \in Key} \cup {plan.rec}
         \cup {TargetOf(own[k].rot) : k \in OwnRows}

\* No address ever has two records with one sequence number, although numbers
\* come from the database and target records from the key journal, and a crash
\* can separate the two (ensure_record_seq_at_least, next_record_seq).
NumbersAreUnique ==
    LET records == Shown
    IN  \A r, q \in records : r.key = q.key /\ r.seq = q.seq => r = q

\* A target that is marked as complete has what was to be placed there, however
\* late its answer was and whatever was planned meanwhile
\* (mark_record_target_complete, mark_rotation_target_complete).
CompletedIsStored ==
    /\ \A l \in plan.done : loft[l].rec[plan.rec.key].seq >= plan.rec.seq
    /\ \A k \in OwnRows : \A l \in own[k].done : loft[l].rot[k] = own[k].rot

\* The keys are promoted only after a loft has accepted the source record
\* (Agent::rotate: "A fresh source record is first accepted by at least one
\* loft. Only then are local keys promoted."), with one exception: a process
\* that finishes an older rotation without the lock may plan the target record
\* of that one meanwhile, and rotate_current asks only whether a loft has what
\* is planned.  The exception is stated for the target record of any other
\* rotation, not only for one that was planned in between.
SourcePlacedFirst ==
    \A x \in signed : \E l \in Loft :
      \/ loft[l].rec[x.from].seq >= x.seq - 1
      \/ \E y \in signed \ {x} : loft[l].rec[y.to].seq >= y.seq

\* What the client has recorded of the lofts is so: the keys were promoted after
\* the source record was placed, and a target counts as complete only with the
\* bundle in place, across lost answers, crashes and a second process.
PlacedAsRecorded == CompletedIsStored /\ SourcePlacedFirst

=============================================================================
