------------------------------ MODULE MCInbox -------------------------------
(* Inbox for TLC: two lofts, copies of the same messages in both. *)
EXTENDS Inbox, TLC

CONSTANTS l1, l2, a, b

\* Message a is posted to both lofts, b to one of them.
MCCopies == {<<l1, a>>, <<l1, b>>, <<l2, a>>}
MCMaxCursor == l1 :> 2 @@ l2 :> 1

=============================================================================
