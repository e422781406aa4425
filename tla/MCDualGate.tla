----------------------------- MODULE MCDualGate -----------------------------
(* Small instances of DualGate for TLC. *)
EXTENDS DualGate

CONSTANTS r1, r2, r3, n1, n2, n3, m1, m2

\* m1 has two names, m2 has one.
Routing == [n \in Names |-> IF n = n3 THEN m2 ELSE m1]

\* Both modes, with a global gate and without.
EverySetting == [mode : {"observe", "reject"}, globalMax : {0, 2}]
ObserveGlobal == {[mode |-> "observe", globalMax |-> 2]}
RejectOnly == {[mode |-> "reject", globalMax |-> 0]}
=============================================================================
