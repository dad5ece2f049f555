------------------------------ MODULE MCOutbox ------------------------------
(* Outbox for TLC: one message for each of two lofts, one of them down. *)
EXTENDS Outbox, TLC

CONSTANTS l1, l2, a, b, p1, p2

MCRoute == (a :> {l1}) @@ (b :> {l2})

=============================================================================
