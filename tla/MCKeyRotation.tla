---------------------------- MODULE MCKeyRotation ---------------------------
(* KeyRotation for TLC: two processes share the home of one agent. *)
EXTENDS KeyRotation, TLC

CONSTANTS p1, p2, l1, l2, nobody

Interchangeable == Permutations(Proc) \cup Permutations(Loft)

=============================================================================
