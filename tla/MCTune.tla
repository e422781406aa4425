------------------------------- MODULE MCTune -------------------------------
(* Small instances of Tune for TLC.  "big" sets window and pool, "wide"    *)
(* the window only, so that its pool is that of the YAML, and "mtp" is     *)
(* smoke-tested.                                                           *)
EXTENDS Tune

Engine == {"kv_capacity", "max_context"}

ThreeScenarios ==
    [p \in {"big", "wide", "mtp"} |->
        IF p = "big" THEN [f \in Engine |-> 3]
        ELSE IF p = "wide" THEN [f \in {"max_context"} |-> 3]
        ELSE [f \in {"max_context"} |-> 1]]

TwoScenarios == [p \in {"wide", "mtp"} |-> ThreeScenarios[p]]

SmokeTested == {"mtp"}

Yaml(kv, window) == [f \in Engine |-> IF f = "kv_capacity" THEN kv ELSE window]

TwoYamls == {Yaml(2, 2), Yaml(3, 1)}
OneYaml == {Yaml(2, 2)}
=============================================================================
