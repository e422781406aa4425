--------------------------- MODULE MCCloudRegistry ---------------------------
(* Small instances of CloudRegistry for TLC. *)
EXTENDS CloudRegistry

CONSTANTS prov1, prov2, mod1, org_mod1, key1, key2, var1, var2, ed1, ed2, poll1, poll2, admin

Offered == [x \in Providers |-> IF x = prov1 THEN Models ELSE {mod1}]
OneVar == [x \in Providers |-> var1]
ShortNames == [m \in Models |-> mod1]
Budget(e, t, f, r, h) == [edits |-> e, tasks |-> t, faults |-> f, restarts |-> r, hands |-> h]
FirstDisks ==
    {[file |-> [p \in {prov1} |-> [listed |-> {mod1}, specs |-> {}, keyed |-> TRUE]],
      secrets |-> [v \in Vars |-> IF v = var1 THEN key1 ELSE None]]}
EveryBudget == {Budget(2, 0, 0, 0, 0), Budget(1, 1, 0, 0, 0), Budget(0, 1, 0, 0, 1),
                Budget(0, 1, 1, 0, 0), Budget(1, 0, 1, 1, 0)}
TornBudget == {Budget(1, 0, 0, 1, 0)}
KeyBudget == {Budget(3, 1, 0, 0, 0)}
=============================================================================
