----------------------------- MODULE MCGpuLock ------------------------------
(* Small instances of GpuLock for TLC. *)
EXTENDS GpuLock, TLC

CONSTANTS gateway, cli, cli2, g1, g2, c1, d1

\* Three single-threaded processes.
OnePerProcess == g1 :> gateway @@ c1 :> cli @@ d1 :> cli2

\* A gateway with two request threads and one command.
ThreadedGateway == g1 :> gateway @@ g2 :> gateway @@ c1 :> cli
=============================================================================
