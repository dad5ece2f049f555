---------------------------- MODULE MCDirectory -----------------------------
(***************************************************************************)
(* A directory for TLC.  The owner runs the lofts "here" and "there" with  *)
(* the command line, and a rival claims "here" too, under any number.  In  *)
(* the scene of rivals both of them enrol it, and the owner changes its    *)
(* entry or drains it; in the crowded scene the rival is enrolled already, *)
(* one place is left in the pending queue, and both of the owner's lofts   *)
(* want it.                                                                *)
(***************************************************************************)
EXTENDS Directory

CONSTANTS here, there, owner, rival, x

VARIABLE scene

MCClaimant == {<<here, rival>>, <<here, owner>>, <<there, owner>>}
MCCareful == {<<here, owner>>, <<there, owner>>}
MCOwner == [e \in Endpoint |-> owner]
MCMaxSequence == [c \in Claimant |-> IF c = <<here, owner>> THEN 2 ELSE 1]

\* Who is enrolled with another directory as well: the rival, or the owner, who
\* numbers there by another state file.
RivalToo == {<<here, rival>>}
OwnerToo == {<<here, owner>>}

First == [op |-> "add", at |-> here, key |-> rival, seq |-> 1, arg |-> x]

RivalEnrolled ==
    /\ clock = 0
    /\ journal = [c \in Claimant |-> [committed |-> 0, pending |-> {}]]
    /\ lofts = [e \in {here} |-> NewRow(First, 0)]
    /\ claims = << >>
    /\ reserved = << >>
    /\ pin = 1
    /\ leaves = <<[mutation |-> First, by |-> "this"]>>
    /\ witnessed = 1
    /\ elsewhere = [c \in Claimant |-> 0]
    /\ worker = Idle
    /\ loose = {}
    /\ sweep = {}

SceneInit ==
    \/ scene = "rivals" /\ DirectoryInit
    \/ scene = "crowded" /\ RivalEnrolled

\* Those who sign nothing, or nothing more, in this scene.  The rival stops when
\* the owner's command has been told that its loft is enrolled.
Quiet ==
    IF scene = "rivals"
    THEN {c \in Claimant : \/ c[1] # here
                           \/ c \notin Careful /\ journal[<<here, owner>>].committed > 0}
    ELSE {c \in Claimant : c \notin Careful \/ journal[c].committed = 1}

\* The rival is never proven and so has nothing to drain; elsewhere it enrols
\* before anyone else does.
SceneNext ==
    /\ DirectoryNext
    /\ \A c \in Quiet \cap Careful : journal'[c] = journal[c]
    /\ \A m \in worker'.request :
         /\ m \notin worker.request => ClaimOf(m) \notin Quiet
         /\ m.key = rival => m.op = "add"
    /\ \A c \in RivalToo : elsewhere'[c] # elsewhere[c] =>
         leaves = << >> /\ \A i \in DOMAIN leaves' : leaves'[i].mutation.seq = 1
    /\ UNCHANGED scene

SceneSpec == SceneInit /\ [][SceneNext]_<<scene, directoryVars>>
=============================================================================
