---------------------------- MODULE MCEdgeStream ----------------------------
(* Small instances of EdgeStream for TLC: the constants are numbers. *)
EXTENDS EdgeStream
=============================================================================
