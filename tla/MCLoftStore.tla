---------------------------- MODULE MCLoftStore -----------------------------
(***************************************************************************)
(* The store of a loft for TLC.  The tables of mail and control records    *)
(* and the trace budget share no state: a behaviour is about one of the    *)
(* two, chosen at the start.                                               *)
(***************************************************************************)
EXTENDS LoftStore, TraceAdmission, TLC

CONSTANTS a1, a2, w1, w2, w3, p1, p2

VARIABLE part

MCRecipient == (w1 :> a1) @@ (w2 :> a1) @@ (w3 :> a2)
MCWork      == (w1 :> 0) @@ (w2 :> 1) @@ (w3 :> 1)
MCEventSize == (w1 :> 3) @@ (w2 :> 5) @@ (w3 :> 2)

MCPolicyInput ==
    {[seq |-> 1, strict |-> 0, size |-> 2], [seq |-> 2, strict |-> 1, size |-> 1]}

\* Both successors occur, and a rotation may name the right or the wrong one.
MCRecordInput ==
    {[seq |-> 1, succ |-> a2, size |-> 1], [seq |-> 2, succ |-> a2, size |-> 2],
     [seq |-> 2, succ |-> a1, size |-> 1]}

MCRotationInput ==
    {[seq |-> 2, to |-> a2, at |-> 0, size |-> 1],
     [seq |-> 3, to |-> a2, at |-> 2, size |-> 2],
     [seq |-> 3, to |-> a1, at |-> 0, size |-> 3]}

Interchangeable == Permutations(Process)

MCInit ==
    /\ part \in {"store", "trace"}
    /\ StoreInit /\ Init
    /\ part = "store" \/ \A c \in Capacities : capacity >= c
    /\ part = "trace" \/ row = <<0, 0>>

MCNext ==
    /\ \/ part = "store" /\ StoreNext /\ UNCHANGED vars
       \/ part = "trace" /\ Next /\ UNCHANGED storeVars
    /\ UNCHANGED part

MCSpec == MCInit /\ [][MCNext]_<<part, storeVars, vars>>
=============================================================================
