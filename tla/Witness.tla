------------------------------ MODULE Witness ------------------------------
(***************************************************************************)
(* The witnesses of the registry's log (crates/pigeonpost-witness).  A     *)
(* witness keeps the last checkpoint it accepted, in a state file and in   *)
(* memory, and cosigns a new one only when it extends that checkpoint.  A  *)
(* mutex is held from the check to the answer; the state file is written   *)
(* in between.                                                             *)
(*                                                                         *)
(* A checkpoint is the history it commits to, a sequence of entries: the   *)
(* Merkle root of a tree determines its leaves, and verify_consistency     *)
(* accepts exactly the histories that extend the old one.  Options are     *)
(* sets of at most one element.  Every request carries a note signed by    *)
(* the log's own key: notes that are not are answered without touching the *)
(* state.                                                                  *)
(***************************************************************************)
EXTENDS Integers, FiniteSets, SequencesExt

CONSTANTS
    Witness,    \* the roster
    Entry,      \* log entries
    Forgetful   \* witnesses whose machine may lose power

ASSUME RosterAssumption == IsFiniteSet(Witness) /\ Forgetful \subseteq Witness

VARIABLES
    memory,     \* the checkpoint in Witness.state, if any
    file,       \* the checkpoint in the state file, if it is readable
    serving,    \* the request add_checkpoint has saved and not yet answered
    requests,   \* submissions on their way to the witness
    cosigned    \* history: the checkpoints it has handed out cosignatures for

witnessVars == <<memory, file, serving, requests, cosigned>>

\* The old size a submission claims, the history of its note, and whether the
\* submitter still waits for the answer.
Request == [old : Nat, hist : Seq(Entry), live : BOOLEAN]

WitnessInit ==
    /\ memory = [w \in Witness |-> {}]
    /\ file = [w \in Witness |-> {}]
    /\ serving = [w \in Witness |-> {}]
    /\ requests = [w \in Witness |-> {}]
    /\ cosigned = [w \in Witness |-> {}]

SizeOf(stored) == IF stored = {} THEN 0 ELSE Len(CHOOSE h \in stored : TRUE)

Conflicts(w, r) == r.old # SizeOf(memory[w])

\* Mutated form: only the sizes are compared.
LongerOnly(w, r) == \A h \in memory[w] : Len(h) <= Len(r.hist)

\* With nothing stored the first checkpoint is trusted.
Consistent(w, r) == \A h \in memory[w] : IsPrefix(h, r.hist)

Receive(w, r) ==
    /\ serving[w] = {}
    /\ r \in requests[w]
    /\ requests' = [requests EXCEPT ![w] = @ \ {r}]

Refuse(w, r) ==
    /\ Receive(w, r)
    /\ UNCHANGED <<memory, file, serving, cosigned>>

\* The submission is accepted and save_state has renamed the new file into
\* place.
Persist(w, r) ==
    /\ ~Conflicts(w, r)
    /\ Consistent(w, r)
    /\ Receive(w, r)
    /\ file' = [file EXCEPT ![w] = {r.hist}]
    /\ serving' = [serving EXCEPT ![w] = {r}]
    /\ UNCHANGED <<memory, cosigned>>

\* Mutated form: the answer leaves without the new state in memory.
RespondForgetting(w, r) ==
    /\ r \in serving[w]
    /\ serving' = [serving EXCEPT ![w] = {}]
    /\ cosigned' = [cosigned EXCEPT ![w] = @ \cup {r.hist}]
    /\ UNCHANGED <<memory, file, requests>>

Respond(w, r) ==
    /\ r \in serving[w]
    /\ memory' = [memory EXCEPT ![w] = {r.hist}]
    /\ serving' = [serving EXCEPT ![w] = {}]
    /\ cosigned' = [cosigned EXCEPT ![w] = @ \cup {r.hist}]
    /\ UNCHANGED <<file, requests>>

\* The process dies, the file stays.
RestartWitness(w) ==
    /\ memory' = [memory EXCEPT ![w] = file[w]]
    /\ serving' = [serving EXCEPT ![w] = {}]
    /\ UNCHANGED <<file, requests, cosigned>>

\* save_state never syncs the file or its directory: after a power loss the
\* name may lead to older contents, or to a file load_state cannot read, which
\* it takes for no file.
PowerLoss(w) ==
    /\ w \in Forgetful
    /\ \E stored \in {{}, file[w]} \cup {{h} : h \in cosigned[w]} :
          /\ file' = [file EXCEPT ![w] = stored]
          /\ memory' = [memory EXCEPT ![w] = stored]
    /\ serving' = [serving EXCEPT ![w] = {}]
    /\ UNCHANGED <<requests, cosigned>>

\* The submitter stopped waiting; what it sent may still arrive.
Abandoned(rs) == {[r EXCEPT !.live = FALSE] : r \in rs}

=============================================================================
