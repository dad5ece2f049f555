------------------------------ MODULE MCNetwork -----------------------------
(***************************************************************************)
(* Two parts of the network for TLC: a recipient with its lofts (Inbox)    *)
(* and a directory (Directory).  A behaviour is that of one of them,       *)
(* chosen at the start.                                                    *)
(***************************************************************************)
EXTENDS MCInbox, MCDirectory

VARIABLE part

inboxAll == <<box, inboxVars>>
directoryAll == <<scene, directoryVars>>

MCInit ==
    /\ part \in {"inbox", "directory"}
    /\ InboxInit /\ SceneInit
    /\ part = "inbox" \/ evidence = CHOOSE e \in Evidences : TRUE
    /\ part = "directory" \/ scene = "rivals"

MCNext ==
    /\ \/ part = "inbox" /\ InboxNext /\ UNCHANGED directoryAll
       \/ part = "directory" /\ SceneNext /\ UNCHANGED inboxAll
    /\ UNCHANGED part

MCSpec == MCInit /\ [][MCNext]_<<part, inboxAll, directoryAll>>
=============================================================================
