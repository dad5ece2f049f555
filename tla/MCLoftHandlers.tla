--------------------------- MODULE MCLoftHandlers ---------------------------
(* The handlers of a loft for TLC: one mailbox and two wraps. *)
EXTENDS LoftServer, TLC

CONSTANTS a1, w1, w2, r1, r2

MCRecipient == (w1 :> a1) @@ (w2 :> a1)
MCWork      == (w1 :> 0) @@ (w2 :> 1)
MCEventSize == (w1 :> 2) @@ (w2 :> 3)

\* The second policy refuses w1.
MCPolicyInput ==
    {[seq |-> 1, strict |-> 0, size |-> 1], [seq |-> 2, strict |-> 1, size |-> 1]}

MCRecordInput   == {[seq |-> 1, succ |-> a1, size |-> 1]}
MCRotationInput == {[seq |-> 2, to |-> a1, at |-> 1, size |-> 1]}

=============================================================================
