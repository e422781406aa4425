---------------------------- MODULE MCGpuSwitch -----------------------------
(* Small instances of GpuSwitch for TLC. *)
EXTENDS GpuSwitch, TLC

CONSTANTS x1, x2, s1, s2, n1, gateway, cli, w1, w2, w3, hm

Roles5 == x1 :> "exclusive" @@ x2 :> "exclusive" @@ s1 :> "shared"
          @@ s2 :> "shared" @@ n1 :> "none"
RoleOfModels == [m \in Models |-> Roles5[m]]

\* w3 is an `iff` command; the others run in the gateway.
ProcOfThreads == [t \in Threads |-> IF t = w3 THEN cli ELSE gateway]

OnModels(kinds) == [kind : kinds, m : Models]
Whole(kinds) == [kind : kinds, m : {None}]

EveryJob == OnModels({"switch", "stop"}) \cup Whole({"idle", "reconcile", "reset"})
NoReset == OnModels({"switch", "stop"}) \cup Whole({"idle"})
SwitchStop == OnModels({"switch", "stop"})
OnlySwitches == OnModels({"switch"})
=============================================================================
