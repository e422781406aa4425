---------------------------- MODULE MCSupervisor ----------------------------
(* Small instances of Supervisor for TLC. *)
EXTENDS Supervisor, TLC

CONSTANTS a, b, c1, c2, r1, r2

EveryJob == [kind : Kinds \ {"idle", "reset"}, m : Models] \cup [kind : {"idle", "reset"}, m : {None}]
EveryRole == {[m \in Models |-> IF m = a THEN x[1] ELSE x[2]] :
    x \in {<<"exclusive", "exclusive">>, <<"exclusive", "shared">>, <<"shared", "shared">>}}
SwitchJobs == [kind : {"switch"}, m : Models]

Budget(j, f, n, c) == [jobs |-> j, faults |-> f, checks |-> n, crashes |-> c]
EveryBudget == {Budget(2, 0, 0, 0), Budget(1, 1, 3, 0), Budget(1, 0, 0, 1)}
SmallBudget == {Budget(1, 0, 2, 0)}
=============================================================================
