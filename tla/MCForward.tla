------------------------------ MODULE MCForward ------------------------------
(* Small instances of Forward for TLC. *)
EXTENDS Forward, TLC

CONSTANTS r1, r2, p1, p2, own

Symmetry == Permutations(Requests)
=============================================================================
