----------------------------- MODULE Witnessing -----------------------------
(***************************************************************************)
(* How the registry publishes its log (crates/pigeonpost-registry:         *)
(* registry.rs, storage.rs, witness.rs).  Entries are committed at once;   *)
(* a supervisor then submits the committed head to every witness, keeps    *)
(* the receipts in the database and publishes the head when a quorum of    *)
(* receipts is for it.  Submissions time out and may still be served       *)
(* later; the registry and the witnesses crash; an operator may put back   *)
(* an old copy of the database.                                            *)
(*                                                                         *)
(* Time is left out: a receipt is fresh when it is used.                   *)
(***************************************************************************)
EXTENDS Witness

CONSTANTS
    Threshold,      \* witnesses that make a quorum
    Base,           \* entries in the log before witnessing was configured
    CosignedNotes,  \* does the monitoring endpoint add the cosignature
    Restores,       \* does the operator put back the first backup
    MaxLog,         \* entries ever in a log (bound)
    MaxFaults       \* crashes, timeouts and restores (bound)

\* The quorum rule of witness_quorum_intersects, and the fault bound that
\* docs/sds.md states for a roster with f equivocators.
ASSUME QuorumAssumption ==
    /\ Threshold \in Nat \ {0}
    /\ Threshold <= Cardinality(Witness)
    /\ Threshold > Cardinality(Witness) \div 2
    /\ Cardinality(Forgetful) < 2 * Threshold - Cardinality(Witness)

ASSUME WitnessingAssumption ==
    /\ Base \in Seq(Entry)
    /\ CosignedNotes \in BOOLEAN
    /\ Restores \in BOOLEAN
    /\ MaxLog \in Nat
    /\ MaxFaults \in Nat

VARIABLES
    log,        \* registry_state: the committed history
    receipt,    \* witness_receipts: the history each witness's receipt is for
    published,  \* published_state: the history with a quorum note, if any
    phase,      \* "down", "rest" or "sync"
    head,       \* the committed head sync_once captured
    task,       \* its task for each witness
    faults      \* faults so far

database == <<log, receipt, published>>
vars == <<witnessVars, database, phase, head, task, faults>>

Waiting == {"submitted", "resubmitted", "recovering"}
Step == Waiting \cup {"none", "attempt", "resubmit", "monitor",
                      "done", "saved", "failed"}
NoTask == [step |-> "none", size |-> 0]

Init ==
    /\ WitnessInit
    /\ log = Base
    /\ receipt = [w \in Witness |-> {}]
    /\ published = {}
    /\ phase = "rest"
    /\ head = <<>>
    /\ task = [w \in Witness |-> NoTask]
    /\ faults = 0

Quorum(S) == Cardinality(S) >= Threshold

Goto(w, step, size) ==
    task' = [task EXCEPT ![w] = [step |-> step, size |-> size]]

Fault == faults < MaxFaults /\ faults' = faults + 1

-----------------------------------------------------------------------------
(* The log and the supervisor.                                             *)

\* Registrations, directory mutations and key ceremonies commit an entry.
AppendEntry(e) ==
    /\ phase # "down"
    /\ Len(log) < MaxLog
    /\ log' = Append(log, e)
    /\ UNCHANGED <<witnessVars, receipt, published, phase, head, task, faults>>

StartSync ==
    /\ phase = "rest"
    /\ phase' = "sync"
    /\ head' = log
    /\ task' = [w \in Witness |-> [step |-> "attempt", size |-> 0]]
    /\ UNCHANGED <<witnessVars, database, faults>>

\* ensure_order, and the consistency proof the registry checks itself.
Extends(old, new) == \A h \in old : IsPrefix(h, new)

SendTo(w, size) ==
    requests' = [requests EXCEPT ![w] =
        @ \cup {[old |-> size, hist |-> head, live |-> TRUE]}]

Submit(w) ==
    /\ task[w].step = "attempt"
    /\ IF Extends(receipt[w], head)
       THEN /\ SendTo(w, SizeOf(receipt[w]))
            /\ Goto(w, "submitted", SizeOf(receipt[w]))
       ELSE Goto(w, "failed", 0) /\ UNCHANGED requests
    /\ UNCHANGED <<memory, file, serving, cosigned, database, phase, head, faults>>

\* The conflict may be our own submission whose answer was lost: the same
\* note again, from the size the witness reports.
Resubmit(w) ==
    /\ task[w].step = "resubmit"
    /\ SendTo(w, task[w].size)
    /\ Goto(w, "resubmitted", task[w].size)
    /\ UNCHANGED <<memory, file, serving, cosigned, database, phase, head, faults>>

\* A transport or recovery error is retried until the deadline of the task.
RetryOrGiveUp(w) == \E step \in {"attempt", "failed"} : Goto(w, step, 0)

\* Mutated form: a witness that already holds our head is given up.
AfterConflictNoResubmit(w, size) ==
    CASE task[w].step = "submitted" ->
            Goto(w, IF size >= Len(head) THEN "failed" ELSE "monitor", size)
      [] task[w].step = "resubmitted" -> Goto(w, "monitor", task[w].size)
      [] task[w].step = "recovering"  -> RetryOrGiveUp(w)

\* What follows from a refusal, in cosign_attempt and recover_conflict.
AfterConflict(w, size) ==
    CASE task[w].step = "submitted" ->
            Goto(w, CASE size > Len(head) -> "failed"
                      [] size = Len(head) -> "resubmit"
                      [] size < Len(head) -> "monitor", size)
      [] task[w].step = "resubmitted" -> Goto(w, "monitor", task[w].size)
      [] task[w].step = "recovering"  -> RetryOrGiveUp(w)

AfterRejection(w) ==
    Goto(w, IF task[w].step = "resubmitted" THEN "monitor" ELSE "failed",
         task[w].size)

\* The monitoring endpoint has no note, or one of another size than the
\* conflict named.
NotYetThere(w) ==
    memory[w] = {} \/ (CosignedNotes /\ SizeOf(memory[w]) # task[w].size)

\* receipt_from_note needs the cosignature of the witness in the note.  The
\* local log must prove that the note extends the last receipt, and there is
\* no proof from the empty tree; our head must extend the note.
Recoverable(w, h) ==
    /\ CosignedNotes
    /\ \A old \in receipt[w] : h = old \/ (old # <<>> /\ IsPrefix(old, h))
    /\ IsPrefix(h, head)

\* An endpoint that adds the cosignature hands one out.  The mutex makes it
\* wait for the submission being served.
Monitored(w) == IF CosignedNotes THEN memory[w] ELSE {}

Monitor(w) ==
    /\ task[w].step = "monitor"
    /\ serving[w] = {}
    /\ cosigned' = [cosigned EXCEPT ![w] = @ \cup Monitored(w)]
    /\ \/ NotYetThere(w) /\ RetryOrGiveUp(w) /\ UNCHANGED requests
       \/ /\ ~NotYetThere(w)
          /\ \E h \in memory[w] :
                IF ~Recoverable(w, h)
                THEN Goto(w, "failed", 0) /\ UNCHANGED requests
                ELSE IF h = head
                THEN Goto(w, "done", 0) /\ UNCHANGED requests
                ELSE SendTo(w, Len(h)) /\ Goto(w, "recovering", Len(h))
    /\ UNCHANGED <<memory, file, serving, database, phase, head, faults>>

\* The tasks are joined, then every receipt is saved in a transaction of its
\* own.
Joined == \A w \in Witness : task[w].step \in {"done", "saved", "failed"}

SaveReceipt(w) ==
    /\ Joined
    /\ task[w].step = "done"
    /\ IF IsPrefix(head, log) /\ Extends(receipt[w], head)
       THEN /\ receipt' = [receipt EXCEPT ![w] = {head}]
            /\ Goto(w, "saved", 0)
       ELSE Goto(w, "failed", 0) /\ UNCHANGED receipt
    /\ UNCHANGED <<witnessVars, log, published, phase, head, faults>>

\* Mutated form: receipts count whatever head they are for.
AnyReceipt == {w \in Witness : receipt[w] # {}}

\* Receipts count for the head that is committed now.
ForHead == {w \in Witness : receipt[w] = {log}}

Promote ==
    /\ phase = "sync"
    /\ \A w \in Witness : task[w].step \in {"saved", "failed"}
    /\ published' = IF Quorum(ForHead) /\ Extends(published, log)
                    THEN {log} ELSE published
    /\ phase' = "rest"
    /\ head' = <<>>
    /\ task' = [w \in Witness |-> NoTask]
    /\ UNCHANGED <<witnessVars, log, receipt, faults>>

-----------------------------------------------------------------------------
(* The witnesses answer.                                                   *)

ClientKeeps == UNCHANGED <<database, phase, head, faults>>

Handle(w) == \E r \in requests[w] :
    /\ \/ /\ Conflicts(w, r)
          /\ Refuse(w, r)
          /\ IF r.live THEN AfterConflict(w, SizeOf(memory[w])) ELSE UNCHANGED task
       \/ /\ ~Conflicts(w, r)
          /\ ~Consistent(w, r)
          /\ Refuse(w, r)
          /\ IF r.live THEN AfterRejection(w) ELSE UNCHANGED task
       \/ Persist(w, r) /\ UNCHANGED task
    /\ ClientKeeps

Answer(w) == \E r \in serving[w] :
    /\ Respond(w, r)
    /\ IF r.live THEN Goto(w, "done", 0) ELSE UNCHANGED task
    /\ ClientKeeps

\* save_state failed: an internal error, the state stays as it was.
SaveFails(w) == \E r \in requests[w] :
    /\ Fault
    /\ ~Conflicts(w, r)
    /\ Consistent(w, r)
    /\ Refuse(w, r)
    /\ UNCHANGED <<task, database, phase, head>>

-----------------------------------------------------------------------------
(* Faults.                                                                 *)

AwaitsAnswer(w) == \E r \in requests[w] \cup serving[w] : r.live

\* The submission was dropped, or takes too long.
Timeout(w) ==
    /\ task[w].step \in Waiting
    /\ IF AwaitsAnswer(w) THEN Fault ELSE UNCHANGED faults
    /\ requests' = [requests EXCEPT ![w] = Abandoned(@)]
    /\ serving' = [serving EXCEPT ![w] = Abandoned(@)]
    /\ RetryOrGiveUp(w)
    /\ UNCHANGED <<memory, file, cosigned, database, phase, head>>

WitnessCrash(w) ==
    /\ Fault
    /\ RestartWitness(w)
    /\ UNCHANGED <<database, phase, head, task>>

WitnessPowerLoss(w) ==
    /\ Fault
    /\ PowerLoss(w)
    /\ UNCHANGED <<database, phase, head, task>>

Crash ==
    /\ phase # "down"
    /\ Fault
    /\ phase' = "down"
    /\ head' = <<>>
    /\ task' = [w \in Witness |-> NoTask]
    /\ requests' = [w \in Witness |-> Abandoned(requests[w])]
    /\ serving' = [w \in Witness |-> Abandoned(serving[w])]
    /\ UNCHANGED <<memory, file, cosigned, database>>

Restart ==
    /\ phase = "down"
    /\ phase' = "rest"
    /\ UNCHANGED <<witnessVars, database, head, task, faults>>

\* The operator puts back the copy of the database it made first.
Restore ==
    /\ Restores
    /\ phase = "down"
    /\ Fault
    /\ log' = Base
    /\ receipt' = [w \in Witness |-> {}]
    /\ published' = {}
    /\ UNCHANGED <<witnessVars, phase, head, task>>

-----------------------------------------------------------------------------
Next ==
    \/ \E e \in Entry : AppendEntry(e)
    \/ StartSync
    \/ \E w \in Witness : Submit(w)
    \/ \E w \in Witness : Resubmit(w)
    \/ \E w \in Witness : Monitor(w)
    \/ \E w \in Witness : SaveReceipt(w)
    \/ Promote
    \/ \E w \in Witness : Handle(w)
    \/ \E w \in Witness : Answer(w)
    \/ \E w \in Witness : SaveFails(w)
    \/ \E w \in Witness : Timeout(w)
    \/ \E w \in Witness : WitnessCrash(w)
    \/ \E w \in Witness : WitnessPowerLoss(w)
    \/ Crash
    \/ Restart
    \/ Restore

Spec == Init /\ [][Next]_vars

\* The supervisor's loop and its tasks run, a process that died is started
\* again, and a witness serves what reaches it.
Fairness ==
    /\ WF_vars(StartSync)
    /\ WF_vars(Promote)
    /\ WF_vars(Restart)
    /\ \A w \in Witness :
          /\ WF_vars(Submit(w))
          /\ WF_vars(Resubmit(w))
          /\ WF_vars(Monitor(w))
          /\ WF_vars(SaveReceipt(w))
          /\ WF_vars(Handle(w))
          /\ WF_vars(Answer(w))
          /\ WF_vars(Timeout(w) /\ UNCHANGED faults)

FairSpec == Spec /\ Fairness

-----------------------------------------------------------------------------
(* Properties.                                                             *)

\* The state is well formed: stored checkpoints and receipts are histories of
\* entries, and every size a task or a submission carries is a natural number.
TypeOK ==
    /\ memory \in [Witness -> SUBSET Seq(Entry)]
    /\ file \in [Witness -> SUBSET Seq(Entry)]
    /\ serving \in [Witness -> SUBSET Request]
    /\ requests \in [Witness -> SUBSET Request]
    /\ cosigned \in [Witness -> SUBSET Seq(Entry)]
    /\ log \in Seq(Entry)
    /\ receipt \in [Witness -> SUBSET Seq(Entry)]
    /\ published \in SUBSET Seq(Entry)
    /\ phase \in {"down", "rest", "sync"}
    /\ head \in Seq(Entry)
    /\ task \in [Witness -> [step : Step, size : Nat]]
    /\ faults \in 0 .. MaxFaults

\* A witness remembers a checkpoint that extends everything it has handed out
\* a cosignature for.
Remembers(w) == \A h \in cosigned[w] : \E g \in memory[w] : IsPrefix(h, g)

\* "A cosignature handed out for a checkpoint this witness would not remember
\* on restart is a promise it cannot keep" (add_checkpoint): a witness whose
\* machine keeps its power keeps the promise through crashes, late
\* submissions and forked logs.
HonestRemember == \A w \in Witness \ Forgetful : Remembers(w)

\* Histories for which a quorum of cosignatures has been handed out: what a
\* client would accept, whoever assembles the note.
Certified(h) == Quorum({w \in Witness : h \in cosigned[w]})

\* No two clients can be shown histories of which neither extends the other,
\* even when the operator's log forks and some witnesses forget.
NoSplitView ==
    \A v, w \in Witness : \A g \in cosigned[v], h \in cosigned[w] :
        Certified(g) /\ Certified(h) => IsPrefix(g, h) \/ IsPrefix(h, g)

\* The registry serves as published only what a quorum has cosigned and its
\* own log contains; receipts are cosignatures of their witness, for a prefix
\* of the log.
PublishedIsWitnessed ==
    /\ \A h \in published : Certified(h) /\ IsPrefix(h, log)
    /\ \A w \in Witness : \A h \in receipt[w] :
          h \in cosigned[w] /\ IsPrefix(h, log)

\* No backup was put under the histories the witnesses hold, and a quorum of
\* them remembers what it has cosigned.
Sound ==
    /\ \A w \in Witness : \A h \in memory[w] \cup cosigned[w] : IsPrefix(h, log)
    /\ Quorum({w \in Witness : Remembers(w)})

\* As long as the log and a quorum of witnesses are sound, every committed entry
\* is published in the end, or taken back with a backup before any witness has
\* seen it ("A process crash at any point is recovered from the per-witness
\* receipt or the C2SP monitoring endpoint", WitnessSupervisor).
CommittedIsPublished ==
    []Sound =>
      \A i \in 1 .. MaxLog :
        Len(log) >= i ~>
            (Len(log) < i \/ \E h \in published : Len(h) >= i)

=============================================================================
